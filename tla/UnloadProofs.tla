------------------------------ MODULE UnloadProofs ------------------------------
(***************************************************************************)
(* Proofs about Unload for any number of requests and of hook installs.    *)
(*                                                                         *)
(* NothingIsLeft speaks of the end only.  On the way there, the handlers   *)
(* that have run have left their threads exited (ExitInv); a job whose     *)
(* caller has no answer has a thread that still waits for it (WaitInv); an *)
(* install that has patched and not registered is the job that runs        *)
(* (JobInv); and from the moment the registry was emptied, a hook that is  *)
(* still in or comes in was put there for a caller who had given up        *)
(* (HookInv).                                                              *)
(***************************************************************************)
EXTENDS Unload, TLAPS

\* The calls that caller h makes.
Own(h) == IF h = "server" THEN Requests ELSE Installs

WaitInv ==
    /\ \A h \in Callers : place[h] \in {"call", "push", "wait"} => call[h] \in Own(h)
    /\ \A c \in Calls : phase[c] # "new" /\ answer[c] = "none" =>
         \E h \in Callers : place[h] = "wait" /\ call[h] = c
    /\ \A c \in Calls : phase[c] \in {"queued", "running"} => answer[c] \in {"none", "gave_up"}

JobInv ==
    /\ game = "job" => job \in Calls /\ phase[job] = "running"
    /\ \A c \in Installs : hook[c] = "patched" => game = "job" /\ job = c

ExitInv == \A i \in 1 .. Len(Order) : i < at /\ Order[i] \in Threads => place[Order[i]] = "exited"

HooksAreTaken == at > 2 \/ (at = 2 /\ waiting)

HookInv ==
    first /\ HooksAreTaken =>
        \A c \in Installs : hook[c] \in {"patched", "registered"} => answer[c] = "gave_up"

IInv == TypeOK /\ WaitInv /\ JobInv /\ ExitInv /\ HookInv

------------------------------------------------------------------------------
LEMMA CallsAreDistinct == None \notin Calls /\ Requests \cap Installs = {}
BY UnloadAssumption DEF Calls

\* The handlers and their places in the order.
LEMMA OrderIs ==
    /\ first = TRUE =>
         /\ Len(Order) = 6 /\ Order[1] = "pollers" /\ Order[2] = "hooks" /\ Order[3] = "server"
         /\ Order[4] = "pollers" /\ Order[5] = "settings" /\ Order[6] = "sweeper"
    /\ first = FALSE =>
         /\ Len(Order) = 5 /\ Order[1] = "hooks" /\ Order[2] = "server"
         /\ Order[3] = "pollers" /\ Order[4] = "settings" /\ Order[5] = "sweeper"
<1>1. CASE first = TRUE
  <2>1. Order = <<"pollers">> \o <<"hooks", "server", "pollers", "settings", "sweeper">>
    BY <1>1 DEF Order
  <2> QED BY <1>1, <2>1
<1>2. CASE first = FALSE
  <2>1. Order = <<>> \o <<"hooks", "server", "pollers", "settings", "sweeper">>
    BY <1>2 DEF Order
  <2> QED BY <1>2, <2>1
<1> QED BY <1>1, <1>2

LEMMA OrderFacts ==
    ASSUME first \in BOOLEAN
    PROVE  /\ Len(Order) \in 5 .. 6
           /\ \A i \in 1 .. Len(Order) : Order[i] = "hooks" <=> i = IF first THEN 2 ELSE 1
           /\ first => Order[1] = "pollers"
           /\ \A h \in Threads : \E i \in 1 .. Len(Order) : Order[i] = h
<1>1. CASE first = TRUE
  <2>1. Len(Order) = 6 BY <1>1, OrderIs
  <2>2. \A i \in 1 .. 6 : Order[i] = "hooks" <=> i = 2 BY <1>1, OrderIs
  <2>3. \A h \in Threads : \E i \in 1 .. 6 : Order[i] = h
    BY <1>1, OrderIs DEF Threads, Callers
  <2> QED BY <1>1, <2>1, <2>2, <2>3, OrderIs
<1>2. CASE first = FALSE
  <2>1. Len(Order) = 5 BY <1>2, OrderIs
  <2>2. \A i \in 1 .. 5 : Order[i] = "hooks" <=> i = 1 BY <1>2, OrderIs
  <2>3. \A h \in Threads : \E i \in 1 .. 5 : Order[i] = h
    BY <1>2, OrderIs DEF Threads, Callers
  <2> QED BY <1>2, <2>1, <2>2, <2>3
<1> QED BY <1>1, <1>2

LEMMA Initially == Init => IInv
<1> SUFFICES ASSUME Init PROVE IInv OBVIOUS
<1>a. Jobs!TypeOK
  BY DEF Init, Jobs!Init, Jobs!TypeOK, Jobs!Phases, Jobs!Answers, Jobs!Outcomes
<1>b. installed \in BOOLEAN /\ tick \in BOOLEAN /\ first \in BOOLEAN /\ waiting \in BOOLEAN
  BY DEF Init
<1>1. TypeOK BY <1>a, <1>b DEF Init, TypeOK
<1>2. WaitInv BY DEF Init, WaitInv, Jobs!Init, Threads
<1>3. JobInv BY DEF Init, JobInv
<1>4. ExitInv /\ HookInv BY <1>1, OrderFacts DEF Init, ExitInv, HookInv, HooksAreTaken
<1> QED BY <1>1, <1>2, <1>3, <1>4 DEF IInv

\* Once the pollers have been stopped first, nobody waits for an install: one
\* that is under way was given up.
LEMMA InstallsGivenUp ==
    ASSUME IInv, first, at >= 2, NEW c \in Installs, phase[c] = "running"
    PROVE  answer[c] = "gave_up"
<1>1. place["pollers"] = "exited"
  BY OrderFacts DEF IInv, TypeOK, ExitInv, Threads, Callers
<1>2. ~ \E h \in Callers : place[h] = "wait" /\ call[h] = c
  BY <1>1, CallsAreDistinct DEF IInv, WaitInv, Own, Callers
<1>3. c \in Calls BY DEF Calls
<1> QED BY <1>2, <1>3 DEF IInv, WaitInv

------------------------------------------------------------------------------
(* The callers.                                                            *)

\* A step of one caller that was not gone: no exited thread comes back, and no
\* hook is touched.
LEMMA CallerMoves ==
    ASSUME IInv, TypeOK', WaitInv', UNCHANGED <<hook, gameVars, downVars>>,
           \A h \in Threads : place[h] = "exited" => place'[h] = "exited",
           \A c \in Calls : answer[c] = "gave_up" => answer'[c] = "gave_up",
           \A c \in Calls : phase[c] = "running" => phase'[c] = "running"
    PROVE  IInv'
<1>1. JobInv' BY DEF IInv, JobInv, gameVars
<1>2. ExitInv' BY DEF IInv, ExitInv, Order, downVars
<1>3. HookInv' BY DEF IInv, HookInv, HooksAreTaken, downVars, Calls
<1> QED BY <1>1, <1>2, <1>3 DEF IInv

LEMMA CallerSteps ==
    ASSUME IInv,
           \/ \E c \in Calls : Receive(c) \/ Wake(c)
           \/ \E h \in Callers : Caller(h) \/ FindsQueue(h)
           \/ \E h \in Threads : Exit(h)
    PROVE  IInv'
<1>t. TypeOK /\ WaitInv /\ Jobs!TypeOK BY DEF IInv, TypeOK
<1>c. Callers = {"server", "pollers"} /\ Callers \subseteq Threads BY DEF Callers, Threads
<1>1. ASSUME NEW c \in Calls, Receive(c) \/ Wake(c) PROVE IInv'
  <2>1. /\ UNCHANGED <<jobVars, installed, hook, gameVars, downVars>>
        /\ phase[c] = "new"
        /\ \E h \in Callers : /\ c \in Own(h) /\ place[h] = "idle"
                              /\ Goes(h, "call", c) \/ Goes(h, "push", c)
    <3>1. CASE Receive(c)
      <4>1. \E h \in {"server"} : /\ c \in Own(h) /\ place[h] = "idle"
                                  /\ Goes(h, "call", c) \/ Goes(h, "push", c)
        BY <3>1 DEF Receive, Own
      <4> QED BY <1>c, <3>1, <4>1 DEF Receive, Fresh
    <3>2. CASE Wake(c) BY <1>c, <3>2 DEF Wake, Fresh, Own
    <3> QED BY <1>1, <3>1, <3>2
  <2>2. PICK h \in Callers : /\ c \in Own(h) /\ place[h] = "idle"
                             /\ Goes(h, "call", c) \/ Goes(h, "push", c)
    BY <2>1
  <2>3. TypeOK' BY <1>t, <1>c, <2>1, <2>2 DEF TypeOK, Jobs!TypeOK, Goes, jobVars, gameVars, downVars
  <2>4. WaitInv' BY <1>t, <1>c, <2>1, <2>2 DEF TypeOK, WaitInv, Goes, jobVars
  <2>5. \A i \in Threads : place[i] = "exited" => place'[i] = "exited"
    BY <1>t, <1>c, <2>2 DEF TypeOK, Goes
  <2> QED BY <2>1, <2>3, <2>4, <2>5, CallerMoves DEF jobVars
<1>2. ASSUME NEW h \in Callers, Enqueue(h) PROVE IInv'
  <2> DEFINE c == call[h]
  <2>1. /\ c \in Calls /\ c \in Own(h) /\ place[h] = "push" /\ phase[c] = "new" /\ answer[c] = "none"
        /\ phase' = [phase EXCEPT ![c] = "queued"] /\ answer' = answer /\ Goes(h, "wait", c)
        /\ UNCHANGED <<installed, hook, gameVars, downVars>>
    BY <1>t, <1>2 DEF WaitInv, Own, Enqueue, Jobs!Submit, Calls
  <2>2. TypeOK'
    BY <1>t, <1>c, <2>1 DEF TypeOK, Jobs!TypeOK, Jobs!Phases, Goes, gameVars, downVars
  <2>3. WaitInv' BY <1>t, <1>c, <2>1 DEF TypeOK, Jobs!TypeOK, WaitInv, Goes
  <2>4. \A i \in Threads : place[i] = "exited" => place'[i] = "exited"
    BY <1>t, <1>c, <2>1 DEF TypeOK, Goes
  <2>5. \A d \in Calls : phase[d] = "running" => phase'[d] = "running"
    BY <1>t, <2>1 DEF Jobs!TypeOK
  <2> QED BY <2>1, <2>2, <2>3, <2>4, <2>5, CallerMoves
<1>3. ASSUME NEW h \in Callers, EnqueueFull(h) \/ Answered(h) \/ GivesUp(h) PROVE IInv'
  <2> DEFINE c == call[h]
  <2>1. /\ c \in Calls /\ place[h] \in {"call", "push", "wait"} /\ answer[c] = "none" /\ phase' = phase
        /\ answer' \in [Calls -> Jobs!Answers] /\ answer'[c] # "none"
        /\ \A d \in Calls \ {c} : answer'[d] = answer[d]
        /\ phase[c] \in {"queued", "running"} => answer'[c] = "gave_up"
        /\ Goes(h, "idle", None)
        /\ UNCHANGED <<installed, hook, gameVars, downVars>>
    <3>1. c \in Calls /\ place[h] \in {"call", "push", "wait"}
      BY <1>t, <1>3 DEF WaitInv, Own, EnqueueFull, Answered, GivesUp, Calls
    <3>2. \E v \in Jobs!Answers \ {"none"} :
              /\ answer' = [answer EXCEPT ![c] = v] /\ answer[c] = "none" /\ phase' = phase
              /\ phase[c] \in {"queued", "running"} => v = "gave_up"
      <4>1. CASE EnqueueFull(h)
        BY <4>1 DEF EnqueueFull, Jobs!Refuse, Jobs!Answers
      <4>2. CASE Answered(h)
        BY <4>2 DEF Answered, Jobs!Answer, Jobs!Answers, Jobs!Outcomes
      <4>3. CASE GivesUp(h)
        BY <4>3 DEF GivesUp, Jobs!GiveUp, Jobs!Answers
      <4> QED BY <1>3, <4>1, <4>2, <4>3
    <3> QED BY <1>t, <1>3, <3>1, <3>2 DEF Jobs!TypeOK, EnqueueFull, Answered, GivesUp
  <2>2. TypeOK' BY <1>t, <1>c, <2>1 DEF TypeOK, Jobs!TypeOK, Goes, gameVars, downVars
  <2>3. WaitInv'
    <3>1. \A i \in Callers : place'[i] \in {"call", "push", "wait"} => call'[i] \in Own(i)
      BY <1>t, <1>c, <2>1 DEF TypeOK, WaitInv, Goes
    <3>2. ASSUME NEW d \in Calls, phase'[d] # "new", answer'[d] = "none"
          PROVE  \E i \in Callers : place'[i] = "wait" /\ call'[i] = d
      <4>1. d # c /\ phase[d] # "new" /\ answer[d] = "none" BY <2>1, <3>2
      <4>2. PICK i \in Callers : place[i] = "wait" /\ call[i] = d BY <1>t, <4>1 DEF WaitInv
      <4>3. i # h BY <4>1, <4>2
      <4> QED BY <1>t, <1>c, <2>1, <4>2, <4>3 DEF TypeOK, Goes
    <3>3. \A d \in Calls : phase'[d] \in {"queued", "running"} => answer'[d] \in {"none", "gave_up"}
      BY <1>t, <2>1 DEF WaitInv
    <3> QED BY <3>1, <3>2, <3>3 DEF WaitInv
  <2>4. \A i \in Threads : place[i] = "exited" => place'[i] = "exited"
    BY <1>t, <1>c, <2>1 DEF TypeOK, Goes
  <2> QED BY <2>1, <2>2, <2>3, <2>4, CallerMoves
<1>4. CASE Finished
  <2>1. /\ place["pollers"] = "idle" /\ Goes("pollers", "exited", None)
        /\ UNCHANGED <<jobVars, installed, hook, gameVars, downVars>>
    BY <1>4 DEF Finished
  <2>2. TypeOK' BY <1>t, <1>c, <2>1 DEF TypeOK, Jobs!TypeOK, Goes, jobVars, gameVars, downVars
  <2>3. WaitInv' BY <1>t, <1>c, <2>1 DEF TypeOK, WaitInv, Goes, jobVars
  <2>4. \A i \in Threads : place[i] = "exited" => place'[i] = "exited"
    BY <1>t, <1>c, <2>1 DEF TypeOK, Goes
  <2> QED BY <2>1, <2>2, <2>3, <2>4, CallerMoves DEF jobVars
<1>5. ASSUME NEW h \in Callers, FindsQueue(h) PROVE IInv'
  <2>1. /\ place[h] = "call" /\ Goes(h, "push", call[h])
        /\ UNCHANGED <<jobVars, installed, hook, gameVars, downVars>>
    BY <1>5 DEF FindsQueue
  <2>2. TypeOK' BY <1>t, <1>c, <2>1 DEF TypeOK, Jobs!TypeOK, Goes, jobVars, gameVars, downVars
  <2>3. WaitInv' BY <1>t, <1>c, <2>1 DEF TypeOK, WaitInv, Goes, jobVars
  <2>4. \A i \in Threads : place[i] = "exited" => place'[i] = "exited"
    BY <1>t, <1>c, <2>1 DEF TypeOK, Goes
  <2> QED BY <2>1, <2>2, <2>3, <2>4, CallerMoves DEF jobVars
<1>6. ASSUME NEW h \in Threads, Exit(h) PROVE IInv'
  <2>1. TypeOK' BY <1>t, <1>6 DEF TypeOK, Jobs!TypeOK, Exit, jobVars, gameVars, downVars
  <2>2. WaitInv' BY <1>t, <1>c, <1>6 DEF TypeOK, WaitInv, Exit, jobVars
  <2>3. \A i \in Threads : place[i] = "exited" => place'[i] = "exited"
    BY <1>t, <1>6 DEF TypeOK, Exit
  <2> QED BY <1>6, <2>1, <2>2, <2>3, CallerMoves DEF Exit, jobVars
<1> QED BY <1>1, <1>2, <1>3, <1>4, <1>5, <1>6 DEF Caller

------------------------------------------------------------------------------
(* The game thread.                                                        *)

\* A step of the game thread: the callers and the handlers do not move, and no
\* answer changes.
LEMMA GameMoves ==
    ASSUME IInv, TypeOK', JobInv', UNCHANGED <<answer, place, call, downVars>>,
           \A c \in Calls : phase[c] = "new" => phase'[c] = "new",
           \A c \in Calls : phase'[c] \in {"queued", "running"} => phase[c] \in {"queued", "running"},
           \A c \in Installs : hook'[c] \in {"patched", "registered"} =>
               hook[c] \in {"patched", "registered"} \/ phase[c] = "running"
    PROVE  IInv'
<1>1. WaitInv' BY DEF IInv, WaitInv
<1>2. ExitInv' BY DEF IInv, ExitInv, Order, downVars
<1>3. HookInv'
  BY InstallsGivenUp DEF IInv, TypeOK, HookInv, HooksAreTaken, downVars
<1> QED BY <1>1, <1>2, <1>3 DEF IInv

LEMMA GameSteps ==
    ASSUME IInv, TryInstall \/ Tick \/ Draining \/ JobPatches \/ JobRegisters \/ JobEnds
    PROVE  IInv'
<1>t. TypeOK /\ JobInv /\ Jobs!TypeOK BY DEF IInv, TypeOK
<1>1. CASE TryInstall \/ Tick \/ DrainBegins \/ DrainEnds \/ TickReturns
  <2>1. UNCHANGED <<jobVars, callerVars, hook, job, downVars>> /\ (game = "job" <=> game' = "job")
    BY <1>1 DEF TryInstall, Tick, DrainBegins, DrainEnds, TickReturns, Game
  <2>2. tick' \in BOOLEAN /\ batch' \subseteq Calls
        /\ game' \in {"engine", "enter", "drain", "job", "tail"}
    BY <1>1, <1>t DEF TypeOK, TryInstall, Tick, DrainBegins, DrainEnds, TickReturns
  <2>3. TypeOK' BY <1>t, <2>1, <2>2 DEF TypeOK, Jobs!TypeOK, jobVars, callerVars, downVars
  <2>4. JobInv' BY <1>t, <2>1 DEF JobInv, jobVars
  <2> QED BY <2>1, <2>3, <2>4, GameMoves DEF jobVars, callerVars
<1>2. ASSUME NEW c \in Calls, DrainSkips(c) PROVE IInv'
  <2>1. /\ phase[c] \in {"queued", "running"} /\ answer' = answer /\ game = "drain"
        /\ phase' = [d \in Calls |-> IF d = c THEN "dropped" ELSE phase[d]]
        /\ batch' \subseteq batch
        /\ UNCHANGED <<callerVars, hook, tick, game, job, downVars>>
    BY <1>2 DEF DrainSkips, Jobs!Drop, Game
  <2>2. TypeOK' BY <1>t, <2>1 DEF TypeOK, Jobs!TypeOK, Jobs!Phases, callerVars, downVars
  <2>3. JobInv' BY <1>t, <2>1 DEF JobInv
  <2> QED BY <2>1, <2>2, <2>3, GameMoves DEF callerVars
<1>3. ASSUME NEW c \in Calls, DrainRuns(c) PROVE IInv'
  <2>1. /\ phase[c] = "queued" /\ phase' = [phase EXCEPT ![c] = "running"] /\ answer' = answer
        /\ game = "drain" /\ game' = "job" /\ job' = c /\ batch' \subseteq batch
        /\ UNCHANGED <<callerVars, hook, tick, downVars>>
    BY <1>3 DEF DrainRuns, Jobs!Begin, Game
  <2>2. TypeOK' BY <1>t, <2>1 DEF TypeOK, Jobs!TypeOK, Jobs!Phases, callerVars, downVars
  <2>3. JobInv' BY <1>t, <2>1 DEF TypeOK, Jobs!TypeOK, JobInv
  <2>4. /\ \A d \in Calls : phase[d] = "new" => phase'[d] = "new"
        /\ \A d \in Calls : phase'[d] \in {"queued", "running"} => phase[d] \in {"queued", "running"}
    BY <1>t, <2>1 DEF Jobs!TypeOK
  <2> QED BY <2>1, <2>2, <2>3, <2>4, GameMoves DEF callerVars
<1>4. CASE JobPatches \/ JobRegisters
  <2>1. /\ job \in Installs /\ game = "job" /\ phase[job] = "running"
        /\ \E v \in {"patched", "registered"} : hook' = [hook EXCEPT ![job] = v]
        /\ installed' \in BOOLEAN
        /\ UNCHANGED <<jobVars, place, call, gameVars, downVars>>
    BY <1>t, <1>4 DEF TypeOK, JobInv, JobPatches, JobRegisters, Game, callerVars
  <2>2. TypeOK' BY <1>t, <2>1 DEF TypeOK, Jobs!TypeOK, jobVars, gameVars, downVars
  <2>3. JobInv' BY <1>t, <2>1 DEF TypeOK, JobInv, jobVars, gameVars
  <2>4. \A c \in Installs : c # job => hook'[c] = hook[c] BY <1>t, <2>1 DEF TypeOK
  <2> QED BY <2>1, <2>2, <2>3, <2>4, GameMoves DEF jobVars
<1>5. CASE JobEnds
  <2>1. /\ job \in Calls /\ game = "job" /\ phase[job] = "running" /\ answer' = answer
        /\ \E o \in Jobs!Outcomes : phase' = [phase EXCEPT ![job] = o]
        /\ job \in Installs => hook[job] # "patched"
        /\ game' = "drain" /\ job' = None
        /\ UNCHANGED <<callerVars, hook, tick, batch, downVars>>
    BY <1>t, <1>5 DEF JobInv, JobEnds, Jobs!Finish, Game
  <2>2. TypeOK'
    BY <1>t, <2>1 DEF TypeOK, Jobs!TypeOK, Jobs!Phases, callerVars, downVars
  <2>3. JobInv' BY <1>t, <2>1 DEF JobInv
  <2>4. /\ \A d \in Calls : phase[d] = "new" => phase'[d] = "new"
        /\ \A d \in Calls : phase'[d] \in {"queued", "running"} => phase[d] \in {"queued", "running"}
    BY <1>t, <2>1 DEF Jobs!TypeOK, Jobs!Outcomes
  <2> QED BY <2>1, <2>2, <2>3, <2>4, GameMoves DEF callerVars
<1> QED BY <1>1, <1>2, <1>3, <1>4, <1>5 DEF Draining

------------------------------------------------------------------------------
(* UE4SS's thread.                                                         *)

LEMMA DownSteps ==
    ASSUME IInv, Uninstall \/ Handler PROVE IInv'
<1>t. TypeOK /\ ExitInv /\ HookInv BY DEF IInv
<1>o. /\ Len(Order) \in 5 .. 6 /\ Order' = Order
      /\ \A i \in 1 .. Len(Order) : Order[i] = "hooks" <=> i = IF first THEN 2 ELSE 1
  <2>1. first \in BOOLEAN /\ first' = first
    BY <1>t DEF TypeOK, Uninstall, Handler, HooksTaken, HooksDone, HookDropped, Asks, Joins, downVars
  <2> QED BY <2>1, OrderFacts DEF Order
<1>u. UNCHANGED <<jobVars, callerVars, gameVars, first>>
  BY DEF Uninstall, Handler, HooksTaken, HooksDone, HookDropped, Asks, Joins, downVars
<1>w. WaitInv' BY <1>u DEF IInv, WaitInv, jobVars, callerVars
<1>1. CASE Uninstall
  <2>1. at = 0 /\ at' = 1 /\ UNCHANGED <<hook, asked, waiting>> BY <1>1 DEF Uninstall
  <2>2. TypeOK' BY <1>t, <1>u, <2>1 DEF TypeOK, Jobs!TypeOK, jobVars, callerVars, gameVars
  <2>3. JobInv' BY <1>u, <2>1 DEF IInv, JobInv, jobVars, gameVars
  <2>4. ExitInv' /\ HookInv' BY <1>o, <2>1 DEF ExitInv, HookInv, HooksAreTaken
  <2> QED BY <1>w, <2>2, <2>3, <2>4 DEF IInv
<1>2. CASE HooksTaken
  <2>1. /\ UNCHANGED <<asked, at>> /\ waiting' = TRUE /\ at = IF first THEN 2 ELSE 1
        /\ hook' = [c \in Installs |-> IF hook[c] = "registered" THEN "taken" ELSE hook[c]]
    BY <1>o, <1>2 DEF HooksTaken, Runs
  <2>2. TypeOK' BY <1>t, <1>u, <2>1 DEF TypeOK, Jobs!TypeOK, jobVars, callerVars, gameVars
  <2>3. JobInv' BY <1>u, <2>1 DEF IInv, JobInv, jobVars, gameVars
  <2>4. ExitInv' BY <1>t, <1>o, <1>u, <2>1 DEF ExitInv, callerVars
  <2>5. HookInv'
    <3>1. SUFFICES ASSUME first, NEW c \in Installs, hook'[c] \in {"patched", "registered"}
                   PROVE  answer[c] = "gave_up"
      BY <1>u DEF HookInv, jobVars
    <3>2. hook[c] = "patched" BY <2>1, <3>1
    <3>3. phase[c] = "running" BY <3>2 DEF IInv, JobInv
    <3> QED BY <2>1, <3>1, <3>3, InstallsGivenUp
  <2> QED BY <1>w, <2>2, <2>3, <2>4, <2>5 DEF IInv
<1>3. ASSUME NEW c \in Installs, HookDropped(c) PROVE IInv'
  <2>1. UNCHANGED <<asked, at, waiting>> /\ hook' = [hook EXCEPT ![c] = "restored"]
    BY <1>3 DEF HookDropped, downVars
  <2>2. TypeOK' BY <1>t, <1>u, <2>1 DEF TypeOK, Jobs!TypeOK, jobVars, callerVars, gameVars
  <2>3. JobInv' BY <1>t, <1>u, <2>1 DEF IInv, TypeOK, JobInv, jobVars, gameVars
  <2>4. ExitInv' BY <1>t, <1>o, <1>u, <2>1 DEF ExitInv, callerVars
  <2>5. HookInv' BY <1>t, <1>u, <2>1 DEF TypeOK, HookInv, HooksAreTaken, jobVars
  <2> QED BY <1>w, <2>2, <2>3, <2>4, <2>5 DEF IInv
<1>4. CASE HooksDone
  <2>1. /\ at \in 1 .. Len(Order) /\ Order[at] = "hooks" /\ waiting /\ at = IF first THEN 2 ELSE 1
        /\ at' = at + 1 /\ waiting' = FALSE /\ UNCHANGED <<hook, asked>>
    BY <1>o, <1>4 DEF HooksDone, Runs
  <2>a. \A n \in 5 .. 6 : at \in 1 .. n => at + 1 \in 0 .. 7 OBVIOUS
  <2>b. at' \in 0 .. 7 BY <2>a, <1>o, <2>1, Zenon
  <2>2. TypeOK' BY <1>t, <1>u, <2>1, <2>b DEF TypeOK, Jobs!TypeOK, jobVars, callerVars, gameVars
  <2>3. JobInv' BY <1>u, <2>1 DEF IInv, JobInv, jobVars, gameVars
  <2>4. ExitInv'
    BY <1>t, <1>o, <1>u, <2>1 DEF ExitInv, callerVars, Threads, Callers
  <2>5. HookInv' BY <1>t, <1>u, <2>1 DEF HookInv, HooksAreTaken, jobVars
  <2> QED BY <1>w, <2>2, <2>3, <2>4, <2>5 DEF IInv
<1>5. ASSUME NEW h \in Threads, Asks(h) PROVE IInv'
  <2>1. /\ at \in 1 .. Len(Order) /\ Order[at] # "hooks"
        /\ asked' = asked \cup {h} /\ waiting' = TRUE /\ UNCHANGED <<hook, at>>
    BY <1>5 DEF Asks, Runs, Threads, Callers
  <2>2. TypeOK' BY <1>t, <1>u, <2>1 DEF TypeOK, Jobs!TypeOK, jobVars, callerVars, gameVars
  <2>3. JobInv' BY <1>u, <2>1 DEF IInv, JobInv, jobVars, gameVars
  <2>4. ExitInv' BY <1>t, <1>o, <1>u, <2>1 DEF ExitInv, callerVars
  <2>5. first => at # 2 BY <1>o, <2>1
  <2>6. HookInv' BY <1>t, <1>u, <2>1, <2>5 DEF HookInv, HooksAreTaken, jobVars
  <2> QED BY <1>w, <2>2, <2>3, <2>4, <2>6 DEF IInv
<1>6. ASSUME NEW h \in Threads, Joins(h) PROVE IInv'
  <2>1. /\ at \in 1 .. Len(Order) /\ Order[at] = h /\ h # "hooks" /\ place[h] = "exited"
        /\ at' = at + 1 /\ waiting' = FALSE /\ UNCHANGED <<hook, asked>>
    BY <1>6 DEF Joins, Runs, Threads, Callers
  <2>a. \A n \in 5 .. 6 : at \in 1 .. n => at + 1 \in 0 .. 7 OBVIOUS
  <2>b. at' \in 0 .. 7 BY <2>a, <1>o, <2>1, Zenon
  <2>2. TypeOK' BY <1>t, <1>u, <2>1, <2>b DEF TypeOK, Jobs!TypeOK, jobVars, callerVars, gameVars
  <2>3. JobInv' BY <1>u, <2>1 DEF IInv, JobInv, jobVars, gameVars
  <2>4. ExitInv' BY <1>t, <1>o, <1>u, <2>1 DEF ExitInv, callerVars
  <2>5. first => at # 2 BY <1>o, <2>1
  <2>6. HookInv' BY <1>t, <1>u, <2>1, <2>5 DEF HookInv, HooksAreTaken, jobVars
  <2> QED BY <1>w, <2>2, <2>3, <2>4, <2>6 DEF IInv
<1> QED BY <1>1, <1>2, <1>3, <1>4, <1>5, <1>6 DEF Handler

------------------------------------------------------------------------------
LEMMA Inductive == IInv /\ [Next]_vars => IInv'
<1> SUFFICES ASSUME IInv, [Next]_vars PROVE IInv' OBVIOUS
<1>1. CASE UNCHANGED vars
  BY <1>1 DEF vars, jobVars, callerVars, gameVars, downVars, IInv, TypeOK, Jobs!TypeOK,
              WaitInv, JobInv, ExitInv, Order, HookInv, HooksAreTaken
<1>2. CASE \/ \E c \in Calls : Receive(c) \/ Wake(c)
           \/ \E h \in Callers : Caller(h) \/ FindsQueue(h)
           \/ \E h \in Threads : Exit(h)
  BY <1>2, CallerSteps
<1>3. CASE TryInstall \/ Tick \/ Draining \/ JobPatches \/ JobRegisters \/ JobEnds
  BY <1>3, GameSteps
<1>4. CASE Uninstall \/ Handler BY <1>4, DownSteps
<1> QED BY <1>1, <1>2, <1>3, <1>4 DEF Next, Unmapped

\* The inductive invariant, for all sets of calls.
THEOREM Invariance == Spec => []IInv
<1> QED BY Initially, Inductive, PTL DEF Spec

\* Type correctness.
THEOREM TypeCorrect == Spec => []TypeOK
<1>1. IInv => TypeOK BY DEF IInv
<1> QED BY <1>1, Invariance, PTL

\* Whatever was in flight when the unload began, nothing of the mod is left
\* when its image is freed: no thread that a handler stops, no job a caller
\* still waits for and, if the pollers are stopped first, no hook, but for
\* those of callers that had timed out.
THEOREM NothingRemains == Spec => []NothingIsLeft
<1>1. IInv => NothingIsLeft
  <2> SUFFICES ASSUME IInv, Freed PROVE ThreadsGone /\ LateJobsOnly /\ HooksGone
    BY DEF NothingIsLeft, ThreadsGone, LateJobsOnly, HooksGone
  <2>o. /\ Len(Order) \in 5 .. 6 /\ at \in Nat /\ at > Len(Order)
        /\ \A h \in Threads : \E i \in 1 .. Len(Order) : Order[i] = h
    BY OrderFacts DEF IInv, TypeOK, Freed
  <2>1. ThreadsGone BY <2>o DEF IInv, ExitInv, ThreadsGone
  <2>2. LateJobsOnly
    BY <2>1 DEF ThreadsGone, LateJobsOnly, IInv, WaitInv, Threads
  <2>3. HooksGone
    <3>a. \A n \in 5 .. 6 : at \in Nat /\ at > n => at > 2 OBVIOUS
    <3>1. HooksAreTaken BY <3>a, <2>o, Zenon DEF HooksAreTaken
    <3> QED BY <3>1 DEF IInv, HookInv, HooksGone
  <2> QED BY <2>1, <2>2, <2>3
<1> QED BY <1>1, Invariance, PTL

\* What JobCall promises its callers holds of each of its behaviours.
LEMMA PromiseIsKept == Jobs!Spec => [](Jobs!TypeOK /\ Jobs!Promise)
<1>1. Jobs!Init => Jobs!TypeOK /\ Jobs!Promise
  BY DEF Jobs!Init, Jobs!TypeOK, Jobs!Promise, Jobs!Phases, Jobs!Answers, Jobs!Outcomes
<1>2. ASSUME Jobs!TypeOK, Jobs!Promise, [Jobs!Next]_<<phase, answer>>
      PROVE  (Jobs!TypeOK /\ Jobs!Promise)'
  <2>1. ASSUME NEW c \in Calls, Jobs!Submit(c) \/ Jobs!Refuse(c) \/ Jobs!Begin(c)
        PROVE  (Jobs!TypeOK /\ Jobs!Promise)'
    BY <1>2, <2>1 DEF Jobs!TypeOK, Jobs!Promise, Jobs!Phases, Jobs!Answers, Jobs!Outcomes,
                      Jobs!Submit, Jobs!Refuse, Jobs!Begin
  <2>2. ASSUME NEW c \in Calls, Jobs!Finish(c)
        PROVE  (Jobs!TypeOK /\ Jobs!Promise)'
    BY <1>2, <2>2 DEF Jobs!TypeOK, Jobs!Promise, Jobs!Phases, Jobs!Answers, Jobs!Outcomes, Jobs!Finish
  <2>3. ASSUME NEW c \in Calls, Jobs!Answer(c) \/ Jobs!GiveUp(c)
        PROVE  (Jobs!TypeOK /\ Jobs!Promise)'
    BY <1>2, <2>3 DEF Jobs!TypeOK, Jobs!Promise, Jobs!Phases, Jobs!Answers, Jobs!Outcomes,
                      Jobs!Answer, Jobs!GiveUp
  <2>4. ASSUME NEW S \in SUBSET Calls, Jobs!Drop(S)
        PROVE  (Jobs!TypeOK /\ Jobs!Promise)'
    BY <1>2, <2>4 DEF Jobs!TypeOK, Jobs!Promise, Jobs!Phases, Jobs!Answers, Jobs!Outcomes, Jobs!Drop
  <2>5. CASE UNCHANGED <<phase, answer>>
    BY <1>2, <2>5 DEF Jobs!TypeOK, Jobs!Promise
  <2> QED BY <1>2, <2>1, <2>2, <2>3, <2>4, <2>5 DEF Jobs!Next
<1> QED BY <1>1, <1>2, PTL DEF Jobs!Spec

\* Each step of the unload is a step of the abstract call or leaves the jobs
\* alone, so what is promised of a call holds through the shutdown too, when
\* handlers take hooks and threads away and the game's thread still drains
\* (game_thread.rs: run, on_tick).
THEOREM Refinement == Spec => Jobs!Spec /\ []Jobs!Promise
<1>1. Init => Jobs!Init BY DEF Init
<1>2. IInv /\ [Next]_vars => [Jobs!Next]_<<phase, answer>>
  <2> SUFFICES ASSUME IInv, [Next]_vars PROVE [Jobs!Next]_<<phase, answer>> OBVIOUS
  <2>1. ASSUME NEW c \in Calls, Receive(c) \/ Wake(c) PROVE UNCHANGED jobVars
    BY <2>1 DEF Receive, Wake
  <2>2. ASSUME NEW h \in Callers, Caller(h) \/ FindsQueue(h)
        PROVE  Jobs!Next \/ UNCHANGED jobVars
    <3>1. call[h] \in Calls \/ (h = "pollers" /\ Finished)
      BY <2>2 DEF IInv, WaitInv, Own, Calls, Caller, Enqueue, EnqueueFull, Answered, GivesUp,
             FindsQueue
    <3>2. CASE h = "pollers" /\ Finished BY <3>2 DEF Finished
    <3>3. ASSUME call[h] \in Calls, ~(h = "pollers" /\ Finished)
          PROVE  \/ UNCHANGED jobVars
                 \/ \E c \in Calls : \/ Jobs!Submit(c) \/ Jobs!Refuse(c)
                                    \/ Jobs!Answer(c) \/ Jobs!GiveUp(c)
      BY <2>2, <3>3 DEF Caller, Enqueue, EnqueueFull, Answered, GivesUp, FindsQueue
    <3> QED BY <3>1, <3>2, <3>3 DEF Jobs!Next
  <2>3. ASSUME NEW c \in Calls, DrainSkips(c) \/ DrainRuns(c) PROVE Jobs!Next
    <3>1. {c} \in SUBSET Calls OBVIOUS
    <3> QED BY <2>3, <3>1 DEF DrainSkips, DrainRuns, Jobs!Next
  <2>4. CASE JobEnds
    <3>1. job \in Calls /\ Jobs!Finish(job) BY <2>4 DEF IInv, JobInv, JobEnds, Game
    <3> QED BY <3>1 DEF Jobs!Next
  <2>5. CASE \/ TryInstall \/ Tick \/ DrainBegins \/ DrainEnds \/ TickReturns
             \/ JobPatches \/ JobRegisters \/ Uninstall \/ Handler
    BY <2>5 DEF TryInstall, Tick, DrainBegins, DrainEnds, TickReturns, JobPatches, JobRegisters,
                Uninstall, Handler, HooksTaken, HooksDone, HookDropped, Asks, Joins, jobVars
  <2>6. ASSUME NEW h \in Threads, Exit(h) PROVE UNCHANGED jobVars BY <2>6 DEF Exit
  <2>7. CASE UNCHANGED vars BY <2>7 DEF vars, jobVars
  <2> QED BY <2>1, <2>2, <2>3, <2>4, <2>5, <2>6, <2>7 DEF Next, Draining, Unmapped, jobVars
<1> QED BY <1>1, <1>2, Invariance, PromiseIsKept, PTL DEF Spec, Jobs!Spec
==============================================================================
