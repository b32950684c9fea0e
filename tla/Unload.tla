------------------------------- MODULE Unload --------------------------------
(***************************************************************************)
(* Unloading a mod while its threads and the game's thread use one another *)
(* (src/ueforge/src/shutdown.rs, src/modforge/src/shutdown.rs: run_all;    *)
(* src/ueforge/src/game_thread.rs: run, on_tick; src/ueforge/src/hook/     *)
(* install.rs, registry.rs; src/modforge/src/server.rs).                   *)
(*                                                                         *)
(* UE4SS's thread calls on_update and, to unload, the shutdown handlers in *)
(* order.  The HTTP listener and an interval worker that installs hooks    *)
(* hand jobs to the game thread and wait for them, for a while.  The game  *)
(* thread runs the jobs from the tick hook, holding the QUEUE mutex: it is *)
(* held exactly while the thread drains, so it needs no variable.          *)
(*                                                                         *)
(* The hot-reload watcher has no handler, nobody joins it, and it is left   *)
(* out: `Threads` are those a handler stops.                               *)
(*                                                                         *)
(* The queue itself is JobCall, which PeQueue is shown to implement; how a *)
(* worker is stopped is Workers, how a hook is dropped is PeHook.          *)
(***************************************************************************)
EXTENDS Naturals, Sequences

CONSTANTS
    Requests,   \* calls of the HTTP listener, each made at most once
    Installs,   \* calls of the installing worker, each made at most once
    None        \* no call

ASSUME UnloadAssumption == Requests \cap Installs = {} /\ None \notin Requests \cup Installs

Calls == Requests \cup Installs
Callers == {"server", "pollers"}
Threads == Callers \cup {"settings", "sweeper"}

VARIABLES
    phase, answer, \* the jobs and what their callers were told
    place,     \* [Threads -> where the thread is]
    call,      \* [Callers -> the call it is making, or None]
    asked,     \* the threads that were asked to exit
    installed, \* the worker's flag: its hook is in
    hook,      \* [Installs -> what became of the hook of that call]
    tick,      \* UEngine::Tick is patched
    game,      \* where the game thread is
    batch,     \* jobs the current drain has to run
    job,       \* the job that runs, or None
    first,     \* the mod registers its pollers at order 50
    at,        \* which shutdown handler runs; 0 is none yet
    waiting    \* that handler has asked and waits

Jobs == INSTANCE JobCall

jobVars    == <<phase, answer>>
callerVars == <<place, call, installed>>
gameVars   == <<tick, game, batch, job>>
downVars   == <<asked, first, at, waiting>>
vars == <<jobVars, callerVars, hook, gameVars, downVars>>

TypeOK ==
    /\ Jobs!TypeOK
    /\ place \in [Threads -> {"idle", "call", "push", "wait", "exited"}]
    /\ call \in [Callers -> Calls \cup {None}]
    /\ asked \subseteq Threads
    /\ installed \in BOOLEAN /\ tick \in BOOLEAN /\ first \in BOOLEAN
    /\ hook \in [Installs -> {"none", "patched", "registered", "taken", "restored"}]
    /\ game \in {"engine", "enter", "drain", "job", "tail"}
    /\ batch \subseteq Calls /\ job \in Calls \cup {None}
    /\ at \in 0 .. 7 /\ waiting \in BOOLEAN

\* Mutant of Order: the built-in handlers are registered twice.
OrderTwice ==
    (IF first THEN <<"pollers">> ELSE <<>>)
      \o <<"hooks", "hooks", "server", "pollers", "settings", "sweeper">>

\* The handlers, sorted: 50 if the game registers it, 100, 200, 250, 300, 400.
Order ==
    (IF first THEN <<"pollers">> ELSE <<>>)
      \o <<"hooks", "server", "pollers", "settings", "sweeper">>

Freed == at > Len(Order)

Runs(h) == at \in 1 .. Len(Order) /\ Order[at] = h

Init ==
    /\ Jobs!Init
    /\ place = [h \in Threads |-> "idle"]
    /\ call = [h \in Callers |-> None]
    /\ asked = {} /\ installed = FALSE
    /\ hook = [c \in Installs |-> "none"]
    /\ tick = FALSE /\ game = "engine" /\ batch = {} /\ job = None
    /\ first \in BOOLEAN /\ at = 0 /\ waiting = FALSE

------------------------------------------------------------------------------
(* The callers.                                                            *)

\* Thread h gets to `there`, with call c.
Goes(h, there, c) ==
    /\ place' = [place EXCEPT ![h] = there]
    /\ call' = [call EXCEPT ![h] = c]

Fresh(c) == phase[c] = "new" /\ answer[c] = "none"

\* The listener takes a request, also one that came before it was unblocked: its
\* op calls game_thread::run or, like pe_ping, goes to the queue it was given.
Receive(c) ==
    /\ place["server"] = "idle"
    /\ c \in Requests /\ Fresh(c)
    /\ \E there \in {"call", "push"} : Goes("server", there, c)
    /\ UNCHANGED <<jobVars, installed, hook, gameVars, downVars>>

\* The worker wakes up with no hook installed.
Wake(c) ==
    /\ place["pollers"] = "idle"
    /\ "pollers" \notin asked
    /\ ~installed
    /\ c \in Installs /\ Fresh(c)
    /\ Goes("pollers", "call", c)
    /\ UNCHANGED <<jobVars, installed, hook, gameVars, downVars>>

\* Its hook is in: it stops itself.
Finished ==
    /\ place["pollers"] = "idle"
    /\ installed
    /\ Goes("pollers", "exited", None)
    /\ UNCHANGED <<jobVars, installed, hook, gameVars, downVars>>

\* A thread that was asked to leaves, once it has nothing in hand.
Exit(h) ==
    /\ place[h] = "idle"
    /\ h \in asked
    /\ place' = [place EXCEPT ![h] = "exited"]
    /\ UNCHANGED <<jobVars, call, installed, hook, gameVars, downVars>>

\* game_thread::run reads QUEUE, which the drain holds, and lets go of it, ...
FindsQueue(h) ==
    /\ place[h] = "call"
    /\ game \notin {"drain", "job"}
    /\ Goes(h, "push", call[h])
    /\ UNCHANGED <<jobVars, installed, hook, gameVars, downVars>>

\* ... puts the job in, perhaps while the game thread drains what was there, ...
Enqueue(h) ==
    /\ place[h] = "push"
    /\ Jobs!Submit(call[h])
    /\ Goes(h, "wait", call[h])
    /\ UNCHANGED <<installed, hook, gameVars, downVars>>

EnqueueFull(h) ==
    /\ place[h] = "push"
    /\ Jobs!Refuse(call[h])
    /\ Goes(h, "idle", None)
    /\ UNCHANGED <<installed, hook, gameVars, downVars>>

\* ... and waits for the answer or for the timeout.
Answered(h) ==
    /\ place[h] = "wait"
    /\ Jobs!Answer(call[h])
    /\ Goes(h, "idle", None)
    /\ UNCHANGED <<installed, hook, gameVars, downVars>>

\* Mutant of GivesUp: a caller waits for a job that has not begun.
GivesUpLate(h) ==
    /\ place[h] = "wait"
    /\ phase[call[h]] # "queued"
    /\ Jobs!GiveUp(call[h])
    /\ Goes(h, "idle", None)
    /\ UNCHANGED <<installed, hook, gameVars, downVars>>

GivesUp(h) ==
    /\ place[h] = "wait"
    /\ Jobs!GiveUp(call[h])
    /\ Goes(h, "idle", None)
    /\ UNCHANGED <<installed, hook, gameVars, downVars>>

Caller(h) ==
    Enqueue(h) \/ EnqueueFull(h) \/ Answered(h) \/ GivesUp(h) \/ (h = "pollers" /\ Finished)

------------------------------------------------------------------------------
(* The game thread.                                                        *)

\* Nothing is said of what the game does in an image that is unmapped.
Game(there) == game = there /\ ~Freed

\* The engine ticks through the hook.
Tick ==
    /\ tick /\ Game("engine")
    /\ game' = "enter"
    /\ UNCHANGED <<jobVars, callerVars, hook, tick, batch, job, downVars>>

DrainBegins ==
    /\ Game("enter")
    /\ game' = "drain"
    /\ batch' = {c \in Calls : phase[c] = "queued"}
    /\ UNCHANGED <<jobVars, callerVars, hook, tick, job, downVars>>

\* A job whose caller has given up is thrown away, ...
DrainSkips(c) ==
    /\ Game("drain") /\ c \in batch
    /\ answer[c] = "gave_up"
    /\ batch' = batch \ {c}
    /\ Jobs!Drop({c})
    /\ UNCHANGED <<callerVars, hook, tick, game, job, downVars>>

\* ... any other is run.  A caller that gives up from here on is too late.
DrainRuns(c) ==
    /\ Game("drain") /\ c \in batch
    /\ answer[c] # "gave_up"
    /\ batch' = batch \ {c}
    /\ Jobs!Begin(c)
    /\ game' = "job" /\ job' = c
    /\ UNCHANGED <<callerVars, hook, tick, downVars>>

\* An install job patches the object's vtable, ...
JobPatches ==
    /\ Game("job") /\ job \in Installs
    /\ hook[job] = "none"
    /\ hook' = [hook EXCEPT ![job] = "patched"]
    /\ UNCHANGED <<jobVars, callerVars, gameVars, downVars>>

\* ... then gives the hook to the registry, which asks nobody whether it is
\* shutting down.
JobRegisters ==
    /\ Game("job") /\ job \in Installs
    /\ hook[job] = "patched"
    /\ hook' = [hook EXCEPT ![job] = "registered"]
    /\ installed' = TRUE
    /\ UNCHANGED <<jobVars, place, call, gameVars, downVars>>

\* A job ends: a request's at once, an install's also if it found no object.
JobEnds ==
    /\ Game("job")
    /\ job \in Installs => hook[job] # "patched"
    /\ Jobs!Finish(job)
    /\ game' = "drain" /\ job' = None
    /\ UNCHANGED <<callerVars, hook, tick, batch, downVars>>

DrainEnds ==
    /\ Game("drain") /\ batch = {}
    /\ game' = "tail"
    /\ UNCHANGED <<jobVars, callerVars, hook, tick, batch, job, downVars>>

\* The engine's own Tick, called from our frame, returns.
TickReturns ==
    /\ Game("tail")
    /\ game' = "engine"
    /\ UNCHANGED <<jobVars, callerVars, hook, tick, batch, job, downVars>>

Draining ==
    \/ DrainBegins \/ DrainEnds \/ TickReturns
    \/ \E c \in Calls : DrainSkips(c) \/ DrainRuns(c)

------------------------------------------------------------------------------
(* UE4SS's thread.                                                         *)

\* on_update: try_install finds the engine and patches its Tick, for good.
TryInstall ==
    /\ at = 0 /\ ~tick
    /\ tick' = TRUE
    /\ UNCHANGED <<jobVars, callerVars, hook, game, batch, job, downVars>>

Uninstall ==
    /\ at = 0
    /\ at' = 1
    /\ UNCHANGED <<jobVars, callerVars, hook, gameVars, asked, first, waiting>>

\* hook::shutdown_all empties the registry and drops what was in it.
HooksTaken ==
    /\ Runs("hooks") /\ ~waiting
    /\ hook' = [c \in Installs |-> IF hook[c] = "registered" THEN "taken" ELSE hook[c]]
    /\ waiting' = TRUE
    /\ UNCHANGED <<jobVars, callerVars, gameVars, asked, first, at>>

HookDropped(c) ==
    /\ Runs("hooks") /\ waiting
    /\ hook[c] = "taken"
    /\ hook' = [hook EXCEPT ![c] = "restored"]
    /\ UNCHANGED <<jobVars, callerVars, gameVars, downVars>>

HooksDone ==
    /\ Runs("hooks") /\ waiting
    /\ \A c \in Installs : hook[c] # "taken"
    /\ at' = at + 1 /\ waiting' = FALSE
    /\ UNCHANGED <<jobVars, callerVars, hook, gameVars, asked, first>>

\* The other handlers ask their thread to exit and join it.
Asks(h) ==
    /\ Runs(h) /\ ~waiting
    /\ asked' = asked \cup {h}
    /\ waiting' = TRUE
    /\ UNCHANGED <<jobVars, callerVars, hook, gameVars, first, at>>

\* Mutant of Joins: the handler does not join.
JoinsNobody(h) ==
    /\ Runs(h) /\ waiting
    /\ at' = at + 1 /\ waiting' = FALSE
    /\ UNCHANGED <<jobVars, callerVars, hook, gameVars, asked, first>>

Joins(h) ==
    /\ Runs(h) /\ waiting
    /\ place[h] = "exited"
    /\ at' = at + 1 /\ waiting' = FALSE
    /\ UNCHANGED <<jobVars, callerVars, hook, gameVars, asked, first>>

Handler ==
    \/ HooksTaken \/ HooksDone \/ \E c \in Installs : HookDropped(c)
    \/ \E h \in Threads : Asks(h) \/ Joins(h)

Unmapped == Freed /\ UNCHANGED vars

Next ==
    \/ \E c \in Calls : Receive(c) \/ Wake(c)
    \/ \E h \in Callers : Caller(h) \/ FindsQueue(h)
    \/ \E h \in Threads : Exit(h)
    \/ TryInstall \/ Tick \/ Draining
    \/ JobPatches \/ JobRegisters \/ JobEnds
    \/ Uninstall \/ Handler
    \/ Unmapped

Spec == Init /\ [][Next]_vars

\* Threads run, jobs end, a wait times out, and the mutex reaches everyone who
\* waits for it.  That the engine ticks is not assumed.
Fairness ==
    /\ \A h \in Callers : WF_vars(Caller(h)) /\ SF_vars(FindsQueue(h))
    /\ \A h \in Threads : WF_vars(Exit(h))
    /\ WF_vars(Draining) /\ WF_vars(JobRegisters \/ JobEnds)
    /\ WF_vars(Handler)

FairSpec == Spec /\ Fairness

------------------------------------------------------------------------------
(* Properties.                                                             *)

\* Once the image is unmapped no thread that has a handler is left, although
\* the listener may have been waiting for a game thread that never ticks.
ThreadsGone == Freed => \A h \in Threads : place[h] = "exited"

\* A job that is left in the queue or on the game thread is one whose caller
\* timed out: nobody else's closure outlives the image.
LateJobsOnly ==
    Freed => \A c \in Calls : phase[c] \in {"queued", "running"} => answer[c] = "gave_up"

\* A mod that stops its pollers first (src/misery-mod/src/lib.rs:104) leaves no
\* patched object behind, but for an install whose caller timed out.
HooksGone ==
    Freed /\ first =>
        \A c \in Installs : hook[c] \in {"patched", "registered"} => answer[c] = "gave_up"

\* What is left of the mod when its image is unmapped: no thread, no job that a
\* caller still waits for, no hook but the exceptions above.
NothingIsLeft == ThreadsGone /\ LateJobsOnly /\ HooksGone

\* Unloading ends, also when the engine has stopped ticking.
UnloadEnds == at = 1 ~> Freed

\* src/ueforge/docs/lifecycle.md:425-426: "After this returns, no code in our DLL is
\* on a thread's stack or a vtable slot; UE4SS can `FreeLibrary` safely".
SafeToFree ==
    Freed => /\ ~tick /\ game = "engine"
             /\ \A c \in Installs : hook[c] \notin {"patched", "registered"}
==============================================================================
