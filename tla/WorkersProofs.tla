----------------------------- MODULE WorkersProofs -----------------------------
(***************************************************************************)
(* Proofs about Workers for any sets of workers.                           *)
(*                                                                         *)
(* StoppedIsGone is not inductive: a caller of stop that finds no join     *)
(* handle returns at once, and what makes that right is that a running     *)
(* thread's handle is in its slot or in the hands of one who still holds   *)
(* the mutex (JoinInv).  That shutdown_all leaves none of its workers out  *)
(* is DownInv, and that nobody stops a worker before spawn has stored its  *)
(* handle is SpawnInv.                                                     *)
(***************************************************************************)
EXTENDS Workers, TLAPS

\* A worker is not known to any stopper before its spawn returns.
SpawnInv == \A w \in Workers :
    /\ spawning[w] = "no" => thread[w] = "none"
    /\ spawning[w] # "done" => owner[w] = "no" /\ w \notin registry \cup taken

JoinInv == \A w \in Workers :
    spawning[w] # "store" /\ ~Gone(w) => join[w] \/ joining[w] # None

\* The workers of shutdown_all: those to come, the one at hand, and those gone.
DownInv ==
    /\ down = "no" => taken = {}
    /\ down \in {"no", "next"} => target = None
    /\ todo \subseteq taken /\ target \in taken \cup {None}
    /\ IsDown => todo = {}
    /\ \A w \in taken : w \in todo \/ w = target \/ Gone(w)

DoneInv ==
    /\ \A w \in Workers : owner[w] = "done" => Gone(w)
    /\ down = "done" /\ target # None => Gone(target)

IInv == TypeOK /\ SpawnInv /\ JoinInv /\ DownInv /\ DoneInv

------------------------------------------------------------------------------
LEMMA NobodyIsNone == None \notin Workers /\ Shutdown \notin Workers /\ Shutdown # None
BY WorkersAssumption DEF Workers

LEMMA Initially == Init => IInv
BY NobodyIsNone DEF Init, IInv, TypeOK, SpawnInv, JoinInv, DownInv, DoneInv, Gone, IsDown, Stopping

\* A step that changes neither a stopper nor a handle and revives no thread.
LEMMA ThreadSteps ==
    ASSUME IInv, TypeOK', UNCHANGED <<joinVars, spawning, registry, stopVars, taken>>,
           \A w \in Workers : Gone(w) => thread'[w] = thread[w]
    PROVE  IInv'
<1>1. \A w \in Workers : Gone(w) => Gone(w)' BY DEF Gone
<1>2. SpawnInv' BY DEF IInv, SpawnInv, Gone, stopVars
<1>3. JoinInv' BY <1>1 DEF IInv, JoinInv, joinVars
<1>4. taken \subseteq Workers /\ target \in Workers \cup {None} BY DEF IInv, TypeOK
<1>5. DownInv' BY <1>1, <1>4 DEF IInv, DownInv, IsDown, stopVars
<1>6. DoneInv' BY <1>1, <1>4 DEF IInv, DoneInv, stopVars
<1> QED BY <1>2, <1>3, <1>5, <1>6 DEF IInv

------------------------------------------------------------------------------
(* spawn.                                                                  *)

LEMMA SpawnSteps ==
    ASSUME IInv, NEW w \in Workers, SpawnThread(w) \/ SpawnFails(w) \/ Spawn(w)
    PROVE  IInv'
<1>t. TypeOK /\ w \notin taken /\ target # w /\ owner[w] = "no"
  BY NobodyIsNone DEF IInv, TypeOK, SpawnInv, DownInv, SpawnThread, SpawnFails, Spawn, SpawnStore,
                      SpawnRegister
<1>1. TypeOK'
  BY <1>t DEF TypeOK, SpawnThread, SpawnFails, Spawn, SpawnStore, SpawnRegister,
              threadVars, joinVars, stopVars
<1>2. \A v \in Workers \ {w} : Gone(v)' = Gone(v)
  BY <1>t DEF TypeOK, Gone, SpawnThread, SpawnFails, Spawn, SpawnStore, SpawnRegister, threadVars
<1>3. UNCHANGED <<stopVars, taken>>
  BY DEF SpawnThread, SpawnFails, Spawn, SpawnStore, SpawnRegister
<1>4. SpawnInv'
  BY <1>t, <1>3 DEF IInv, TypeOK, SpawnInv, SpawnThread, SpawnFails, Spawn, SpawnStore,
                    SpawnRegister, stopVars, threadVars
<1>5. JoinInv'
  BY <1>t, <1>2 DEF IInv, TypeOK, SpawnInv, JoinInv, Gone, SpawnThread, SpawnFails, Spawn,
                    SpawnStore, SpawnRegister, threadVars, joinVars
<1>6. DownInv' BY <1>t, <1>2, <1>3 DEF IInv, TypeOK, DownInv, IsDown, stopVars
<1>7. DoneInv'
  BY <1>t, <1>2, <1>3, NobodyIsNone DEF IInv, TypeOK, DoneInv, stopVars
<1> QED BY <1>1, <1>4, <1>5, <1>6, <1>7 DEF IInv

------------------------------------------------------------------------------
(* The worker's thread.                                                    *)

LEMMA WorkerSteps ==
    ASSUME IInv, NEW w \in Workers, Worker(w) \/ TickStops(w) PROVE IInv'
<1>t. TypeOK BY DEF IInv
<1>1. TypeOK'
  BY <1>t DEF TypeOK, Worker, Check, Recheck, TickEnds, Sleep, Timeout, TickStops, Go,
              joinVars, stopVars
<1>2. \A v \in Workers : Gone(v) => thread'[v] = thread[v]
  BY <1>t DEF TypeOK, Gone, Worker, Check, Recheck, TickEnds, Sleep, Timeout, TickStops, Go
<1>3. UNCHANGED <<joinVars, spawning, registry, stopVars, taken>>
  BY DEF Worker, Check, Recheck, TickEnds, Sleep, Timeout, TickStops, Go
<1> QED BY <1>1, <1>2, <1>3, ThreadSteps

------------------------------------------------------------------------------
(* stop.                                                                   *)

\* A step of stop that leaves the threads alone or joins none that runs: it
\* suffices that a handle that is given away has a holder, and that whoever
\* is done is done with a thread that is gone.
LEMMA StopperMoves ==
    ASSUME IInv, TypeOK', NEW w \in Workers, NEW a \in Stoppers(w),
           NEW place \in Stopping \ {"no"}, Reach(a, w, place), At(a, w) # "no",
           UNCHANGED <<spawning, registry, taken>>,
           \A v \in Workers : Gone(v) => thread'[v] = thread[v],
           \A v \in Workers : (join[v] \/ joining[v] # None) /\ ~Gone(v)' =>
                                (join'[v] \/ joining'[v] # None),
           place = "done" => Gone(w)'
    PROVE  IInv'
<1>t. TypeOK /\ SpawnInv /\ JoinInv /\ DownInv /\ DoneInv BY DEF IInv
<1>n. w # None /\ Shutdown # w /\ w \in Workers BY NobodyIsNone
<1>1. \A v \in Workers : Gone(v) => Gone(v)' BY DEF Gone
<1>2. CASE a = Shutdown
  <2>1. target = w /\ down # "no" /\ down' = place /\ UNCHANGED <<owner, target, todo>>
    BY <1>2 DEF At, Reach
  <2>2. SpawnInv' BY <1>t, <2>1 DEF SpawnInv, Gone
  <2>3. JoinInv' BY <1>t, <1>1 DEF JoinInv
  <2>4. DownInv'
    BY <1>t, <1>1, <1>n, <2>1 DEF DownInv, IsDown, TypeOK, Stopping
  <2>5. DoneInv' BY <1>t, <1>1, <1>n, <2>1 DEF DoneInv
  <2> QED BY <2>2, <2>3, <2>4, <2>5 DEF IInv
<1>3. CASE a = w
  <2>1. /\ owner[w] # "no" /\ owner' = [owner EXCEPT ![w] = place]
        /\ UNCHANGED <<down, target, todo>>
    BY <1>3, <1>n DEF At, Reach
  <2>2. SpawnInv' BY <1>t, <2>1 DEF SpawnInv, Gone, TypeOK
  <2>3. JoinInv' BY <1>t, <1>1 DEF JoinInv
  <2>4. DownInv' BY <1>t, <1>1, <2>1 DEF DownInv, IsDown, TypeOK
  <2>5. DoneInv' BY <1>t, <1>1, <2>1 DEF DoneInv, TypeOK
  <2> QED BY <2>2, <2>3, <2>4, <2>5 DEF IInv
<1> QED BY <1>2, <1>3 DEF Stoppers

LEMMA StopSteps ==
    ASSUME IInv, NEW w \in Workers, NEW a \in Stoppers(w), Stop(a, w) PROVE IInv'
<1>t. TypeOK BY DEF IInv
<1>n. a \in Workers \cup {Shutdown} /\ a # None BY NobodyIsNone DEF Stoppers
<1>s. ASSUME NEW place \in Stopping, Reach(a, w, place)
      PROVE  /\ owner' \in [Workers -> Stopping] /\ down' \in Stopping \cup {"next"}
             /\ UNCHANGED <<target, todo>>
  BY <1>t, <1>s DEF TypeOK, Reach
<1>1. CASE StopFlag(a, w)
  <2>1. TypeOK' BY <1>t, <1>1, <1>s DEF TypeOK, StopFlag, Stopping, joinVars
  <2> QED BY <1>1, <2>1, StopperMoves DEF StopFlag, Stopping, joinVars
<1>2. CASE StopNotify(a, w)
  <2>1. TypeOK' BY <1>t, <1>2, <1>s DEF TypeOK, StopNotify, Stopping, joinVars
  <2>2. \A v \in Workers : Gone(v) => thread'[v] = thread[v]
    BY <1>t, <1>2 DEF TypeOK, StopNotify, Gone
  <2> QED BY <1>2, <2>1, <2>2, StopperMoves DEF StopNotify, Stopping, joinVars
<1>3. CASE StopTakes(a, w)
  <2>1. TypeOK' BY <1>t, <1>n, <1>3, <1>s DEF TypeOK, StopTakes, Stopping, threadVars
  <2>2. \A v \in Workers : join[v] \/ joining[v] # None => join'[v] \/ joining'[v] # None
    BY <1>t, <1>n, <1>3 DEF TypeOK, StopTakes
  <2> QED BY <1>3, <2>1, <2>2, StopperMoves DEF StopTakes, Stopping, threadVars
<1>4. CASE StopFindsNone(a, w)
  <2>1. TypeOK' BY <1>t, <1>4, <1>s DEF TypeOK, StopFindsNone, Stopping, joinVars, threadVars
  <2>2. spawning[w] = "done"
    BY <1>t, <1>4, NobodyIsNone DEF IInv, SpawnInv, DownInv, StopFindsNone, At, Stoppers
  <2>3. Gone(w)' BY <1>t, <1>4, <2>2 DEF IInv, JoinInv, StopFindsNone, Gone, threadVars
  <2> QED BY <1>4, <2>1, <2>3, StopperMoves DEF StopFindsNone, Stopping, joinVars, threadVars
<1>5. CASE StopJoined(a, w)
  <2>1. TypeOK' BY <1>t, <1>5, <1>s DEF TypeOK, StopJoined, Stopping, threadVars
  <2>2. Gone(w)' BY <1>5 DEF StopJoined, Gone, threadVars
  <2>3. \A v \in Workers : v # w => joining'[v] = joining[v] BY <1>t, <1>5 DEF TypeOK, StopJoined
  <2> QED BY <1>5, <2>1, <2>2, <2>3, StopperMoves DEF StopJoined, Stopping, threadVars
<1> QED BY <1>1, <1>2, <1>3, <1>4, <1>5 DEF Stop

------------------------------------------------------------------------------
(* shutdown_all.                                                           *)

LEMMA ShutdownSteps ==
    ASSUME IInv,
           ShutdownTakes \/ ShutdownReturns \/ (\E w \in Workers : ShutdownNext(w))
    PROVE  IInv'
<1>t. TypeOK /\ SpawnInv /\ DownInv /\ DoneInv BY DEF IInv
<1>1. UNCHANGED <<threadVars, joinVars, spawning, owner>>
  BY DEF ShutdownTakes, ShutdownReturns, ShutdownNext
<1>2. JoinInv' BY <1>1 DEF IInv, JoinInv, Gone, threadVars, joinVars
<1>3. \A w \in Workers : Gone(w)' = Gone(w) BY <1>1 DEF Gone, threadVars
<1>4. CASE ShutdownTakes
  <2>1. TypeOK' BY <1>t, <1>1, <1>4 DEF TypeOK, ShutdownTakes, threadVars, joinVars
  <2>2. SpawnInv' BY <1>t, <1>1, <1>4 DEF SpawnInv, ShutdownTakes, threadVars
  <2>3. DownInv' BY <1>t, <1>3, <1>4 DEF TypeOK, DownInv, ShutdownTakes, IsDown
  <2>4. DoneInv' BY <1>t, <1>1, <1>3, <1>4 DEF DoneInv, ShutdownTakes
  <2> QED BY <1>2, <2>1, <2>2, <2>3, <2>4 DEF IInv
<1>5. ASSUME NEW w \in Workers, ShutdownNext(w) PROVE IInv'
  <2>1. TypeOK' BY <1>t, <1>1, <1>5 DEF TypeOK, ShutdownNext, Stopping, threadVars, joinVars
  <2>2. SpawnInv' BY <1>t, <1>1, <1>5 DEF SpawnInv, ShutdownNext, threadVars
  <2>3. target # None => Gone(target) BY <1>t, <1>5 DEF DownInv, DoneInv, ShutdownNext
  <2>4. DownInv'
    BY <1>t, <1>3, <1>5, <2>3, NobodyIsNone DEF TypeOK, DownInv, ShutdownNext, IsDown
  <2>5. DoneInv' BY <1>t, <1>1, <1>3, <1>5 DEF DoneInv, ShutdownNext
  <2> QED BY <1>2, <2>1, <2>2, <2>4, <2>5 DEF IInv
<1>6. CASE ShutdownReturns
  <2>1. TypeOK' BY <1>t, <1>1, <1>6 DEF TypeOK, ShutdownReturns, Stopping, threadVars, joinVars
  <2>2. SpawnInv' BY <1>t, <1>1, <1>6 DEF SpawnInv, ShutdownReturns, threadVars
  <2>3. target # None => Gone(target) BY <1>t, <1>6 DEF DownInv, DoneInv, ShutdownReturns
  <2>4. DownInv'
    BY <1>t, <1>3, <1>6, <2>3 DEF TypeOK, DownInv, ShutdownReturns, IsDown
  <2>5. DoneInv' BY <1>t, <1>1, <1>3, <1>6 DEF DoneInv, ShutdownReturns
  <2> QED BY <1>2, <2>1, <2>2, <2>4, <2>5 DEF IInv
<1> QED BY <1>4, <1>5, <1>6

------------------------------------------------------------------------------
LEMMA Inductive == IInv /\ [Next]_vars => IInv'
<1> SUFFICES ASSUME IInv, [Next]_vars PROVE IInv' OBVIOUS
<1>1. ASSUME NEW w \in Workers, SpawnThread(w) \/ SpawnFails(w) \/ Spawn(w) PROVE IInv'
  BY <1>1, SpawnSteps
<1>2. ASSUME NEW w \in Workers, Worker(w) \/ TickStops(w) PROVE IInv'
  BY <1>2, WorkerSteps
<1>3. ASSUME NEW w \in Workers, NEW a \in Stoppers(w), Stop(a, w) PROVE IInv'
  BY <1>3, StopSteps
<1>4. ASSUME NEW w \in Workers, OwnerStops(w) PROVE IInv'
  <2>t. TypeOK BY DEF IInv
  <2>1. TypeOK'
    BY <2>t, <1>4, NobodyIsNone DEF TypeOK, OwnerStops, Reach, Stopping, threadVars, joinVars
  <2>2. /\ owner' = [owner EXCEPT ![w] = "flag"] /\ spawning[w] = "done"
        /\ UNCHANGED <<threadVars, joinVars, spawning, registry, down, target, todo, taken>>
    BY <1>4, NobodyIsNone DEF OwnerStops, Reach
  <2>3. SpawnInv' BY <2>2, <2>t DEF IInv, TypeOK, SpawnInv, threadVars
  <2>4. JoinInv' BY <2>2 DEF IInv, JoinInv, Gone, threadVars, joinVars
  <2>5. DownInv' BY <2>2 DEF IInv, DownInv, IsDown, Gone, threadVars
  <2>6. DoneInv' BY <2>2, <2>t DEF IInv, TypeOK, DoneInv, Gone, threadVars
  <2> QED BY <2>1, <2>3, <2>4, <2>5, <2>6 DEF IInv
<1>5. CASE ShutdownTakes \/ ShutdownReturns \/ (\E w \in Workers : ShutdownNext(w))
  BY <1>5, ShutdownSteps
<1>6. CASE UNCHANGED vars
  <2>1. TypeOK' BY <1>6 DEF IInv, TypeOK, vars, threadVars, joinVars, stopVars
  <2> QED BY <1>6, <2>1, ThreadSteps DEF vars, threadVars
<1> QED BY <1>1, <1>2, <1>3, <1>4, <1>5, <1>6 DEF Next

\* The inductive invariant, for all sets of workers.
THEOREM Invariance == Spec => []IInv
<1> QED BY Initially, Inductive, PTL DEF Spec

\* Type correctness of the workers, their handles and both stoppers.
THEOREM TypeCorrect == Spec => []TypeOK
<1>1. IInv => TypeOK BY DEF IInv
<1> QED BY <1>1, Invariance, PTL

\* Whoever's stop has returned, and after shutdown_all, no thread is left
\* running in the image: it may be freed.
THEOREM StoppedThreadsAreGone == Spec => []StoppedIsGone
<1>1. IInv => StoppedIsGone
  <2> SUFFICES ASSUME IInv PROVE StoppedIsGone OBVIOUS
  <2>1. \A w \in Workers : target = w /\ down = "done" => Gone(w)
    BY NobodyIsNone DEF IInv, DoneInv
  <2>2. IsDown => \A w \in taken : Gone(w)
    BY NobodyIsNone DEF IInv, TypeOK, DownInv, IsDown
  <2> QED BY <2>1, <2>2 DEF IInv, DoneInv, StoppedIsGone
<1> QED BY <1>1, Invariance, PTL
==============================================================================
