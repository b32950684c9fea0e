------------------------------- MODULE Workers -------------------------------
(***************************************************************************)
(* Background workers of a mod and how they are stopped before its image   *)
(* is unloaded (src/modforge/src/rpg/poller.rs: SlotPoller, spawn_interval,*)
(* PollerHandle and shutdown_all).                                         *)
(*                                                                         *)
(* A worker sleeps on a condition variable between ticks.  Stopping it is  *)
(* a flag, a notification and a join, by the owner of its handle and by    *)
(* the shutdown, which may come at the same time.  A notification reaches  *)
(* only a worker that is already waiting; nobody but the worker takes the  *)
(* condition variable's mutex, so it orders nothing and is left out.       *)
(***************************************************************************)
EXTENDS Naturals, FiniteSets

CONSTANTS
    Pollers,   \* workers of SlotPoller::spawn, which tick first
    Intervals, \* workers of spawn_interval, which sleep first
    Shutdown,  \* the thread in shutdown_all
    None       \* nobody

ASSUME WorkersAssumption ==
    /\ Pollers \cap Intervals = {}
    /\ None \notin Pollers \cup Intervals \cup {Shutdown}
    /\ Shutdown \notin Pollers \cup Intervals

Workers == Pollers \cup Intervals

\* Who calls stop on worker w: its handle's owner (named like w), or Shutdown.
Stoppers(w) == {w, Shutdown}

VARIABLES
    thread,   \* [Workers -> where the worker's thread is]
    flag,     \* [Workers -> HandleInner::stop]
    join,     \* [Workers -> TRUE while HandleInner::join holds the handle]
    joining,  \* [Workers -> who has locked HandleInner::join, or None]
    spawning, \* [Workers -> where spawn is]
    registry, \* POLLER_REGISTRY: the workers to be stopped
    owner,    \* [Workers -> where the owner's stop is]
    down,     \* where shutdown_all is with the worker `target`
    target,   \* the worker that shutdown_all is stopping
    todo,     \* workers shutdown_all has taken and not stopped yet
    taken     \* history: workers shutdown_all has taken

threadVars == <<thread, flag>>
joinVars   == <<join, joining>>
stopVars   == <<owner, down, target, todo>>
vars == <<threadVars, joinVars, spawning, registry, stopVars, taken>>

Stopping == {"no", "flag", "notify", "lock", "join", "done"}

TypeOK ==
    /\ thread \in [Workers -> {"none", "check", "tick", "recheck", "sleep", "wait", "exited"}]
    /\ flag \in [Workers -> BOOLEAN]
    /\ join \in [Workers -> BOOLEAN]
    /\ joining \in [Workers -> Workers \cup {Shutdown, None}]
    /\ spawning \in [Workers -> {"no", "store", "register", "done"}]
    /\ registry \subseteq Workers
    /\ owner \in [Workers -> Stopping]
    /\ down \in Stopping \cup {"next"}
    /\ target \in Workers \cup {None}
    /\ todo \subseteq Workers
    /\ taken \subseteq Workers

Init ==
    /\ thread = [w \in Workers |-> "none"]
    /\ flag = [w \in Workers |-> FALSE]
    /\ join = [w \in Workers |-> FALSE]
    /\ joining = [w \in Workers |-> None]
    /\ spawning = [w \in Workers |-> "no"]
    /\ registry = {}
    /\ owner = [w \in Workers |-> "no"]
    /\ down = "no" /\ target = None /\ todo = {} /\ taken = {}

------------------------------------------------------------------------------
(* spawn.                                                                  *)

\* The thread is created and runs from here on, or cannot be created.
SpawnThread(w) ==
    /\ spawning[w] = "no"
    /\ spawning' = [spawning EXCEPT ![w] = "store"]
    /\ thread' = [thread EXCEPT ![w] = IF w \in Pollers THEN "check" ELSE "sleep"]
    /\ UNCHANGED <<flag, joinVars, registry, stopVars, taken>>

SpawnFails(w) ==
    /\ spawning[w] = "no"
    /\ spawning' = [spawning EXCEPT ![w] = "register"]
    /\ UNCHANGED <<threadVars, joinVars, registry, stopVars, taken>>

SpawnStore(w) ==
    /\ spawning[w] = "store"
    /\ join' = [join EXCEPT ![w] = TRUE]
    /\ spawning' = [spawning EXCEPT ![w] = "register"]
    /\ UNCHANGED <<threadVars, joining, registry, stopVars, taken>>

\* The handle is registered and returned.
SpawnRegister(w) ==
    /\ spawning[w] = "register"
    /\ registry' = registry \cup {w}
    /\ spawning' = [spawning EXCEPT ![w] = "done"]
    /\ UNCHANGED <<threadVars, joinVars, stopVars, taken>>

Spawn(w) == SpawnStore(w) \/ SpawnRegister(w)

------------------------------------------------------------------------------
(* The worker's thread.                                                    *)

Go(w, place) ==
    /\ thread' = [thread EXCEPT ![w] = place]
    /\ UNCHANGED <<flag, joinVars, spawning, registry, stopVars, taken>>

\* The flag is tested before a tick and after it.
Check(w) ==
    /\ thread[w] = "check"
    /\ Go(w, IF flag[w] THEN "exited" ELSE "tick")

Recheck(w) ==
    /\ thread[w] = "recheck"
    /\ Go(w, IF flag[w] THEN "exited" ELSE "sleep")

\* A tick ends; a panic in it is caught.
TickEnds(w) == thread[w] = "tick" /\ Go(w, "recheck")

\* A tick that has finished for good calls stop_soon on its own worker.
TickStops(w) ==
    /\ thread[w] = "tick"
    /\ ~flag[w]
    /\ spawning[w] = "done"
    /\ flag' = [flag EXCEPT ![w] = TRUE]
    /\ UNCHANGED <<thread, joinVars, spawning, registry, stopVars, taken>>

Sleep(w) == thread[w] = "sleep" /\ Go(w, "wait")

\* The interval is over.
Timeout(w) == thread[w] = "wait" /\ Go(w, "check")

Worker(w) == Check(w) \/ Recheck(w) \/ TickEnds(w) \/ Sleep(w) \/ Timeout(w)

------------------------------------------------------------------------------
(* PollerHandle::stop by the owner, and the same by shutdown_all.          *)

At(a, w) == IF a = Shutdown THEN (IF target = w THEN down ELSE "no") ELSE owner[w]

\* Caller a of worker w's stop gets to `place`.
Reach(a, w, place) ==
    IF a = Shutdown
      THEN down' = place /\ UNCHANGED <<owner, target, todo>>
      ELSE owner' = [owner EXCEPT ![w] = place] /\ UNCHANGED <<down, target, todo>>

\* The handle is dropped, or stop is called on it.
OwnerStops(w) ==
    /\ spawning[w] = "done"
    /\ owner[w] = "no"
    /\ Reach(w, w, "flag")
    /\ UNCHANGED <<threadVars, joinVars, spawning, registry, taken>>

\* Mutant of StopFlag: the flag is not set.
StopFlagless(a, w) ==
    /\ At(a, w) = "flag"
    /\ Reach(a, w, "notify")
    /\ UNCHANGED <<threadVars, joinVars, spawning, registry, taken>>

StopFlag(a, w) ==
    /\ At(a, w) = "flag"
    /\ flag' = [flag EXCEPT ![w] = TRUE]
    /\ Reach(a, w, "notify")
    /\ UNCHANGED <<thread, joinVars, spawning, registry, taken>>

\* notify_all wakes the worker if it is waiting, and is forgotten otherwise.
StopNotify(a, w) ==
    /\ At(a, w) = "notify"
    /\ thread' = [thread EXCEPT ![w] = IF @ = "wait" THEN "check" ELSE @]
    /\ Reach(a, w, "lock")
    /\ UNCHANGED <<flag, joinVars, spawning, registry, taken>>

\* Mutant of StopTakes: the mutex is given back before the join.
StopTakesAndUnlocks(a, w) ==
    /\ At(a, w) = "lock"
    /\ joining[w] = None
    /\ join[w]
    /\ join' = [join EXCEPT ![w] = FALSE]
    /\ Reach(a, w, "join")
    /\ UNCHANGED <<threadVars, joining, spawning, registry, taken>>

\* The join handle is taken under its mutex, which stays locked for the join.
StopTakes(a, w) ==
    /\ At(a, w) = "lock"
    /\ joining[w] = None
    /\ join[w]
    /\ join' = [join EXCEPT ![w] = FALSE]
    /\ joining' = [joining EXCEPT ![w] = a]
    /\ Reach(a, w, "join")
    /\ UNCHANGED <<threadVars, spawning, registry, taken>>

\* Mutant of StopFindsNone: every caller goes on to a next worker.
StopFindsNoneNext(a, w) ==
    /\ At(a, w) = "lock"
    /\ joining[w] = None
    /\ ~join[w]
    /\ Reach(a, w, "next")
    /\ UNCHANGED <<threadVars, joinVars, spawning, registry, taken>>

\* Another caller has joined, or there is no thread.
StopFindsNone(a, w) ==
    /\ At(a, w) = "lock"
    /\ joining[w] = None
    /\ ~join[w]
    /\ Reach(a, w, "done")
    /\ UNCHANGED <<threadVars, joinVars, spawning, registry, taken>>

StopJoined(a, w) ==
    /\ At(a, w) = "join"
    /\ thread[w] = "exited"
    /\ joining' = [joining EXCEPT ![w] = None]
    /\ Reach(a, w, "done")
    /\ UNCHANGED <<threadVars, join, spawning, registry, taken>>

Stop(a, w) ==
    \/ StopFlag(a, w) \/ StopNotify(a, w)
    \/ StopTakes(a, w) \/ StopFindsNone(a, w) \/ StopJoined(a, w)

\* shutdown_all empties the registry, ...
ShutdownTakes ==
    /\ down = "no"
    /\ down' = "next"
    /\ todo' = registry /\ taken' = registry
    /\ registry' = {}
    /\ UNCHANGED <<threadVars, joinVars, spawning, owner, target>>

\* ... stops one worker after the other ...
ShutdownNext(w) ==
    /\ down = "next" \/ (down = "done" /\ target # None)
    /\ w \in todo
    /\ target' = w
    /\ todo' = todo \ {w}
    /\ down' = "flag"
    /\ UNCHANGED <<threadVars, joinVars, spawning, registry, owner, taken>>

\* ... and returns.
ShutdownReturns ==
    /\ down = "next" \/ (down = "done" /\ target # None)
    /\ todo = {}
    /\ target' = None
    /\ down' = "done"
    /\ UNCHANGED <<threadVars, joinVars, spawning, registry, owner, todo, taken>>

Next ==
    \/ \E w \in Workers :
         \/ SpawnThread(w) \/ SpawnFails(w) \/ Spawn(w)
         \/ Worker(w) \/ TickStops(w)
         \/ OwnerStops(w) \/ (\E a \in Stoppers(w) : Stop(a, w))
         \/ ShutdownNext(w)
    \/ ShutdownTakes \/ ShutdownReturns

Spec == Init /\ [][Next]_vars

\* Every thread runs, a tick ends and an interval is finite.
Fairness ==
    /\ \A w \in Workers : WF_vars(Spawn(w)) /\ WF_vars(Worker(w))
    /\ \A w \in Workers : \A a \in Stoppers(w) : WF_vars(Stop(a, w))
    /\ WF_vars((\E w \in Workers : ShutdownNext(w)) \/ ShutdownReturns)

FairSpec == Spec /\ Fairness

------------------------------------------------------------------------------
(* Properties.                                                             *)

IsDown == down = "done" /\ target = None

Gone(w) == thread[w] \in {"none", "exited"}

\* stop "blocks until the thread has exited" for every caller: the owner and
\* the shutdown, also when both stop the same worker at once; and once
\* shutdown_all has returned, no worker that it found registered is running, in
\* this state or a later one.
StoppedIsGone ==
    /\ \A w \in Workers : owner[w] = "done" => Gone(w)
    /\ \A w \in Workers : target = w /\ down = "done" => Gone(w)
    /\ IsDown => \A w \in taken : Gone(w)

\* Stopping ends: whatever the other callers do, a stop and shutdown_all return.
StopsEnd ==
    /\ \A w \in Workers : owner[w] = "flag" ~> owner[w] = "done"
    /\ down = "next" ~> IsDown
==============================================================================
