---------------------------- MODULE MainThreadQueue ----------------------------
(***************************************************************************)
(* The job queue of the Unity binding (src/unityforge/src/                 *)
(* main_thread_queue.rs; unityforge_tick and unityforge_shutdown in        *)
(* mod_main.rs; UnityGuardedMainThreadEffect in rpg/std_effect.rs).        *)
(*                                                                         *)
(* Any thread queues a closure and polls for its result until a deadline.  *)
(* The main thread takes up to `Budget` of them every frame.  Unlike the   *)
(* queue of the Unreal binding (PeQueue) this one has no limit and knows   *)
(* no cancellation: a job whose caller has given up runs all the same.     *)
(* The main thread also makes such calls itself and waits, in vain; it may *)
(* want the mutex that a caller holds (the RPG tracker's, around an        *)
(* effect); and it unloads the mod, which joins the other callers.         *)
(***************************************************************************)
EXTENDS Integers, Sequences, SequencesExt

CONSTANTS
    Calls,      \* calls of MainThreadQueue::run, each made at most once
    Own,        \* those the main thread makes itself, from a hook or on_tick
    Locked,     \* those made while holding the tracker's mutex
    Budget,     \* DEFAULT_TICK_BUDGET
    None        \* no call

ASSUME QueueAssumption ==
    /\ Own \subseteq Calls /\ Locked \subseteq Calls
    /\ Budget \in Nat \ {0}
    /\ None \notin Calls

VARIABLES
    queue,    \* inner: the jobs, oldest first
    pending,  \* the shadow of its length
    batch,    \* jobs that drain has taken out and not run yet
    main,     \* where the main thread is
    job,      \* the job that runs, or None
    result,   \* [Calls -> what the job has stored for its caller]
    caller,   \* [Calls -> where the caller is]
    got,      \* [Calls -> what run has returned]
    mutex,    \* the call whose caller holds the tracker's mutex, or None
    effect,   \* history: the job whose effect the game shows, or None
    latest,   \* history: the last job that was queued, or None
    panicked  \* history: jobs that panicked

queueVars  == <<queue, pending>>
mainVars   == <<batch, main, job>>
callerVars == <<caller, got, mutex>>
histVars   == <<effect, latest, panicked>>
vars == <<queueVars, mainVars, result, callerVars, histVars>>

Outcomes == {"ok", "err"}
Results  == {"none"} \cup Outcomes

\* The jobs that have not been run.
Waiting == ToSet(queue) \cup ToSet(batch)

TypeOK ==
    /\ queue \in Seq(Calls) /\ batch \in Seq(Calls)
    /\ pending \in Nat
    /\ main \in {"engine", "drain", "job", "own", "blocked", "joining", "unloaded"}
    /\ job \in Calls \cup {None} /\ mutex \in Calls \cup {None}
    /\ effect \in Calls \cup {None} /\ latest \in Calls \cup {None}
    /\ result \in [Calls -> Results]
    /\ caller \in [Calls -> {"new", "polling", "late", "done"}]
    /\ got \in [Calls -> Results \cup {"timed_out"}]
    /\ panicked \subseteq Calls

Init ==
    /\ queue = <<>> /\ pending = 0
    /\ batch = <<>> /\ main = "engine" /\ job = None
    /\ result = [c \in Calls |-> "none"]
    /\ caller = [c \in Calls |-> "new"]
    /\ got = [c \in Calls |-> "none"]
    /\ mutex = None
    /\ effect = None /\ latest = None /\ panicked = {}

------------------------------------------------------------------------------
(* run: push, then look every 5 ms.                                        *)

Push(c) ==
    /\ queue' = Append(queue, c)
    /\ pending' = Len(queue) + 1
    /\ latest' = c
    /\ caller' = [caller EXCEPT ![c] = "polling"]
    /\ UNCHANGED <<result, got, effect, panicked>>

\* The tracker's mutex is taken around an effect.
Acquires(c) == IF c \in Locked THEN mutex = None /\ mutex' = c ELSE UNCHANGED mutex

\* A worker thread calls.
Call(c) ==
    /\ c \notin Own /\ caller[c] = "new"
    /\ main # "unloaded"
    /\ Acquires(c)
    /\ Push(c)
    /\ UNCHANGED mainVars

\* The main thread calls, between two drains: an XP hook that spends a point.
CallOwn(c) ==
    /\ c \in Own /\ caller[c] = "new"
    /\ main = "engine"
    /\ main' = "own"
    /\ Acquires(c)
    /\ Push(c)
    /\ UNCHANGED <<batch, job>>

\* Caller c's run returns r.
Returns(c, r) ==
    /\ caller' = [caller EXCEPT ![c] = "done"]
    /\ got' = [got EXCEPT ![c] = r]
    /\ mutex' = IF mutex = c THEN None ELSE mutex
    /\ main' = IF c \in Own THEN "engine" ELSE main

Poll(c) ==
    /\ caller[c] = "polling"
    /\ result[c] # "none"
    /\ result' = [result EXCEPT ![c] = "none"]
    /\ Returns(c, result[c])
    /\ UNCHANGED <<queueVars, batch, job, histVars>>

\* Mutant of Late: only a caller whose job has begun looks at the clock.
LateOnceBegun(c) ==
    /\ caller[c] = "polling"
    /\ result[c] = "none" /\ c \notin Waiting
    /\ caller' = [caller EXCEPT ![c] = "late"]
    /\ UNCHANGED <<queueVars, mainVars, result, got, mutex, histVars>>

\* The last look found nothing, ...
Late(c) ==
    /\ caller[c] = "polling"
    /\ result[c] = "none"
    /\ caller' = [caller EXCEPT ![c] = "late"]
    /\ UNCHANGED <<queueVars, mainVars, result, got, mutex, histVars>>

\* ... and the deadline is over.
TimesOut(c) ==
    /\ caller[c] = "late"
    /\ Returns(c, "timed_out")
    /\ UNCHANGED <<queueVars, batch, job, result, histVars>>

Caller(c) == Poll(c) \/ Late(c) \/ TimesOut(c)

------------------------------------------------------------------------------
(* The main thread: drain, once per frame.                                 *)

\* Mutant of DrainTakes: the budget is subtracted, whatever was taken.
DrainTakesSubtracts ==
    /\ main = "engine" /\ pending # 0
    /\ LET take == IF Len(queue) < Budget THEN Len(queue) ELSE Budget IN
         /\ batch' = SubSeq(queue, 1, take)
         /\ queue' = SubSeq(queue, take + 1, Len(queue))
    /\ pending' = Len(queue) - Budget
    /\ main' = "drain"
    /\ UNCHANGED <<job, result, callerVars, histVars>>

\* Mutant of DrainTakes: the newest jobs are taken.
DrainTakesNewest ==
    /\ main = "engine" /\ pending # 0
    /\ LET rest == IF Len(queue) < Budget THEN 0 ELSE Len(queue) - Budget IN
         /\ batch' = SubSeq(queue, rest + 1, Len(queue))
         /\ queue' = SubSeq(queue, 1, rest)
    /\ pending' = Len(queue')
    /\ main' = "drain"
    /\ UNCHANGED <<job, result, callerVars, histVars>>

\* A relaxed load may still see 0 in one frame: then this step comes later.
DrainTakes ==
    /\ main = "engine" /\ pending # 0
    /\ LET take == IF Len(queue) < Budget THEN Len(queue) ELSE Budget IN
         /\ batch' = SubSeq(queue, 1, take)
         /\ queue' = SubSeq(queue, take + 1, Len(queue))
    /\ pending' = Len(queue')
    /\ main' = "drain"
    /\ UNCHANGED <<job, result, callerVars, histVars>>

JobBegins ==
    /\ main = "drain" /\ batch # <<>>
    /\ job' = Head(batch)
    /\ batch' = Tail(batch)
    /\ main' = "job"
    /\ effect' = Head(batch)
    /\ UNCHANGED <<queueVars, result, callerVars, latest, panicked>>

JobReturns ==
    /\ main = "job"
    /\ \E o \in Outcomes : result' = [result EXCEPT ![job] = o]
    /\ job' = None
    /\ main' = "drain"
    /\ UNCHANGED <<queueVars, batch, callerVars, histVars>>

\* Mutant of JobPanics: the panic leaves drain, and the batch with it.
JobPanicsOut ==
    /\ main = "job"
    /\ panicked' = panicked \cup {job}
    /\ batch' = <<>>
    /\ job' = None
    /\ main' = "drain"
    /\ UNCHANGED <<queueVars, result, callerVars, effect, latest>>

\* A panic is caught; the job's caller never hears of it.
JobPanics ==
    /\ main = "job"
    /\ panicked' = panicked \cup {job}
    /\ job' = None
    /\ main' = "drain"
    /\ UNCHANGED <<queueVars, batch, result, callerVars, effect, latest>>

DrainEnds ==
    /\ main = "drain" /\ batch = <<>>
    /\ main' = "engine"
    /\ UNCHANGED <<queueVars, batch, job, result, callerVars, histVars>>

\* Game code on the main thread wants the tracker: an XP event of a hook.
Blocks ==
    /\ main = "engine" /\ mutex # None
    /\ main' = "blocked"
    /\ UNCHANGED <<queueVars, batch, job, result, callerVars, histVars>>

Unblocks ==
    /\ main = "blocked" /\ mutex = None
    /\ main' = "engine"
    /\ UNCHANGED <<queueVars, batch, job, result, callerVars, histVars>>

\* unityforge_shutdown, on the main thread, joins the threads that call.
Shutdown ==
    /\ main = "engine"
    /\ main' = "joining"
    /\ UNCHANGED <<queueVars, batch, job, result, callerVars, histVars>>

Joined ==
    /\ main = "joining"
    /\ \A c \in Calls \ Own : caller[c] \in {"new", "done"}
    /\ main' = "unloaded"
    /\ UNCHANGED <<queueVars, batch, job, result, callerVars, histVars>>

Main == JobBegins \/ JobReturns \/ JobPanics \/ DrainEnds \/ Unblocks \/ Joined

Unloaded == main = "unloaded" /\ UNCHANGED vars

Next ==
    \/ \E c \in Calls : Call(c) \/ CallOwn(c) \/ Caller(c)
    \/ DrainTakes \/ Main \/ Blocks \/ Shutdown
    \/ Unloaded

Spec == Init /\ [][Next]_vars

\* Threads run, jobs end, a deadline passes, and a main thread that is free
\* again and again draws a frame.
Fairness ==
    /\ \A c \in Calls : WF_vars(Caller(c))
    /\ WF_vars(Main)
    /\ SF_vars(DrainTakes)

FairSpec == Spec /\ Fairness

------------------------------------------------------------------------------
(* Properties.                                                             *)

\* What JobCall calls the phase of a job and the answer to its caller.
PhaseOf(c) ==
    IF caller[c] = "new" THEN "new"
    ELSE IF c \in Waiting THEN "queued"
    ELSE IF c = job THEN "running"
    ELSE IF c \in panicked THEN "dropped"
    ELSE IF caller[c] = "done" /\ got[c] # "timed_out" THEN got[c]
    ELSE result[c]

AnswerOf(c) == IF got[c] = "timed_out" THEN "gave_up" ELSE got[c]

Abstract == INSTANCE JobCall WITH
    phase <- [c \in Calls |-> PhaseOf(c)], answer <- [c \in Calls |-> AnswerOf(c)]

\* Each job runs at most once, one at a time, and what run returns is the
\* outcome of the job that ran.
ImplementsJobCall == Abstract!Spec

\* The shadow length never hides a job from the per-frame fast path.
ShadowIsExact == pending = Len(queue)

\* An effect that timed out is applied late but never over a newer one: once
\* nothing is queued the game shows the last that was asked for.
LastEffectWins == Waiting = {} => effect = latest

\* The main thread gets free again, although what it waits for (its own call,
\* the mutex's holder, the threads it joins) waits for the main thread.
NobodyWaitsForever == main \in {"own", "blocked", "joining"} ~> main \in {"engine", "unloaded"}

\* Every queued job runs, whatever the others do, unless the mod is unloaded.
JobsRun ==
    \A c \in Calls :
        caller[c] = "polling" ~> c \notin Waiting \/ main \in {"joining", "unloaded"}

\* The main thread and the jobs it runs for the others move on together.
MainThreadMovesOn == NobodyWaitsForever /\ JobsRun
==============================================================================
