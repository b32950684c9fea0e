------------------------------- MODULE PeQueue -------------------------------
(***************************************************************************)
(* ueforge's game-thread job queue (src/ueforge/src/pe_queue.rs).          *)
(*                                                                         *)
(* Worker threads call Queue::enqueue and block on a one-shot reply        *)
(* channel; the game thread calls GameThread::drain from its hooks and     *)
(* runs the jobs.  One step here is one mutex section edge, one atomic     *)
(* access, one channel operation or one job, which is where the threads    *)
(* can interleave.                                                         *)
(*                                                                         *)
(* A call is one execution of `enqueue`; a client's retry is another call. *)
(* The game thread's calls of `drain` form a stack of frames, because a    *)
(* running job can fire engine events whose hook drains the queue again.   *)
(* A job may panic: the unwind leaves every drain frame and is caught by   *)
(* the hook trampoline underneath (the dev profile; the release profile    *)
(* aborts the process instead, src/Cargo.toml:67-77).                      *)
(***************************************************************************)
EXTENDS Naturals, FiniteSets, SequencesExt

CONSTANTS
    Calls,       \* the executions of Queue::enqueue
    MaxDepth,    \* Queue::max_depth
    MaxFrames,   \* bound: drains nested on the game thread's stack
    Free,        \* the mutex has no owner
    Drainer      \* the game thread as an owner of the mutex

ASSUME QueueAssumption ==
    /\ MaxDepth \in Nat
    /\ MaxFrames \in Nat \ {0}
    /\ Free \notin Calls \cup {Drainer}
    /\ Drainer \notin Calls

VARIABLES
    inner,       \* Mutex<Vec<Pending>>: the calls whose jobs are pending
    mutex,       \* owner of that mutex
    size,        \* AtomicUsize: lock-free shadow of inner.len()
    draining,    \* AtomicBool: re-entrance guard
    cancelled,   \* [Calls -> BOOLEAN], each Pending's cancel flag
    reply,       \* [Calls -> "empty" | outcome | "closed"], reply channels
    pc,          \* [Calls -> where the caller is in enqueue]
    result,      \* [Calls -> what enqueue returned]
    frames,      \* stack of drain calls on the game thread
    drainedCmds, \* GameThread::drained_cmds
    peak,        \* GameThread::peak
    pushed,      \* history: calls in the order they were pushed
    log,         \* history: calls in the order their jobs were started
    panicked     \* history: the calls whose job panicked

qvars == <<inner, mutex, size, draining>>
cvars == <<cancelled, reply, pc, result>>
gvars == <<frames, drainedCmds, peak>>
hvars == <<pushed, log, panicked>>
vars  == <<qvars, cvars, gvars, hvars>>

Outcomes == {"ok", "err"}

\* A drain call: where it is, the jobs it took and has not dropped yet, the
\* depth it found and the jobs it has run.
Frame == [at    : {"swap", "take", "zero", "next", "checked", "job"},
          jobs  : Seq(Calls),
          peak  : Nat,
          count : Nat]

Top == frames[Len(frames)]

\* The frame of a drain is on top of the stack and has got to `place`.
AtTop(place) == frames # <<>> /\ Top.at = place

\* The frame on top of the stack becomes f.
Retop(f) == frames' = [frames EXCEPT ![Len(frames)] = f]

TypeOK ==
    /\ inner \in Seq(Calls)
    /\ mutex \in Calls \cup {Free, Drainer}
    /\ size \in Nat
    /\ draining \in BOOLEAN
    /\ cancelled \in [Calls -> BOOLEAN]
    /\ reply \in [Calls -> {"empty", "closed"} \cup Outcomes]
    /\ pc \in [Calls -> {"idle", "lock", "pushed", "wait", "expired", "done"}]
    /\ result \in [Calls -> {"none", "full", "timeout"} \cup Outcomes]
    /\ frames \in Seq(Frame)
    /\ drainedCmds \in Nat
    /\ peak \in Nat
    /\ pushed \in Seq(Calls)
    /\ log \in Seq(Calls)
    /\ panicked \subseteq Calls

Init ==
    /\ inner = <<>>
    /\ mutex = Free
    /\ size = 0
    /\ draining = FALSE
    /\ cancelled = [c \in Calls |-> FALSE]
    /\ reply = [c \in Calls |-> "empty"]
    /\ pc = [c \in Calls |-> "idle"]
    /\ result = [c \in Calls |-> "none"]
    /\ frames = <<>>
    /\ drainedCmds = 0
    /\ peak = 0
    /\ pushed = <<>>
    /\ log = <<>>
    /\ panicked = {}

------------------------------------------------------------------------------
(* The caller: Queue::enqueue on a worker thread.                          *)

\* The call is made: cancel flag and reply channel exist, the lock is next.
Invoke(c) ==
    /\ pc[c] = "idle"
    /\ pc' = [pc EXCEPT ![c] = "lock"]
    /\ UNCHANGED <<qvars, cancelled, reply, result, gvars, hvars>>

\* The whole section of a rejected call: lock, test the depth, unlock.
EnqueueReject(c) ==
    /\ pc[c] = "lock"
    /\ mutex = Free
    /\ Len(inner) >= MaxDepth
    /\ pc' = [pc EXCEPT ![c] = "done"]
    /\ result' = [result EXCEPT ![c] = "full"]
    /\ UNCHANGED <<qvars, cancelled, reply, gvars, hvars>>

EnqueuePush(c) ==
    /\ pc[c] = "lock"
    /\ mutex = Free
    /\ Len(inner) < MaxDepth
    /\ mutex' = c
    /\ inner' = Append(inner, c)
    /\ pushed' = Append(pushed, c)
    /\ pc' = [pc EXCEPT ![c] = "pushed"]
    /\ UNCHANGED <<size, draining, cancelled, reply, result, gvars, log, panicked>>

\* Mutant: the publishing store is forgotten.
EnqueuePublishNoStore(c) ==
    /\ pc[c] = "pushed"
    /\ mutex' = Free
    /\ pc' = [pc EXCEPT ![c] = "wait"]
    /\ UNCHANGED <<inner, size, draining, cancelled, reply, result, gvars, hvars>>

EnqueuePublish(c) ==
    /\ pc[c] = "pushed"
    /\ size' = Len(inner)
    /\ mutex' = Free
    /\ pc' = [pc EXCEPT ![c] = "wait"]
    /\ UNCHANGED <<inner, draining, cancelled, reply, result, gvars, hvars>>

\* recv_timeout finds the outcome in the channel.
ReceiveReply(c) ==
    /\ pc[c] = "wait"
    /\ reply[c] \in Outcomes
    /\ pc' = [pc EXCEPT ![c] = "done"]
    /\ result' = [result EXCEPT ![c] = reply[c]]
    /\ UNCHANGED <<qvars, cancelled, reply, gvars, hvars>>

\* recv_timeout returns Err: the time is over and the channel is empty, or the
\* sender is gone.  The code does not tell the two apart.
ReceiveFails(c) ==
    /\ pc[c] = "wait"
    /\ reply[c] \notin Outcomes
    /\ pc' = [pc EXCEPT ![c] = "expired"]
    /\ UNCHANGED <<qvars, cancelled, reply, result, gvars, hvars>>

\* Only now is the cancel flag raised.
GiveUp(c) ==
    /\ pc[c] = "expired"
    /\ cancelled' = [cancelled EXCEPT ![c] = TRUE]
    /\ pc' = [pc EXCEPT ![c] = "done"]
    /\ result' = [result EXCEPT ![c] = "timeout"]
    /\ UNCHANGED <<qvars, reply, gvars, hvars>>

------------------------------------------------------------------------------
(* The game thread: GameThread::drain around Queue::drain.                 *)

\* A hook drains: from the engine's event loop, or from an event the running
\* job fires.  An empty queue is left at once, so only size # 0 gets a frame.
DrainCall ==
    /\ frames = <<>> \/ AtTop("job")
    /\ Len(frames) < MaxFrames
    /\ size # 0
    /\ frames' = Append(frames, [at |-> "swap", jobs |-> <<>>, peak |-> 0, count |-> 0])
    /\ UNCHANGED <<qvars, cvars, drainedCmds, peak, hvars>>

\* draining.swap(true) was already true: return with `reentered` set, which
\* keeps GameThread::drain from counting this call.
DrainReentered ==
    /\ AtTop("swap")
    /\ draining
    /\ frames' = Front(frames)
    /\ UNCHANGED <<qvars, cvars, drainedCmds, peak, hvars>>

\* Mutant: no re-entrance guard.
DrainEnterUnguarded ==
    /\ AtTop("swap")
    /\ draining' = TRUE
    /\ Retop([Top EXCEPT !.at = "take"])
    /\ UNCHANGED <<inner, mutex, size, cvars, drainedCmds, peak, hvars>>

DrainEnter ==
    /\ AtTop("swap")
    /\ ~draining
    /\ draining' = TRUE
    /\ Retop([Top EXCEPT !.at = "take"])
    /\ UNCHANGED <<inner, mutex, size, cvars, drainedCmds, peak, hvars>>

\* Mutant: the lock is given back before the shadow is zeroed.
DrainTakeUnlocks ==
    /\ AtTop("take")
    /\ mutex = Free
    /\ Retop([Top EXCEPT !.at = "zero", !.jobs = inner, !.peak = Len(inner)])
    /\ inner' = <<>>
    /\ UNCHANGED <<mutex, size, draining, cvars, drainedCmds, peak, hvars>>

DrainTake ==
    /\ AtTop("take")
    /\ mutex = Free
    /\ mutex' = Drainer
    /\ Retop([Top EXCEPT !.at = "zero", !.jobs = inner, !.peak = Len(inner)])
    /\ inner' = <<>>
    /\ UNCHANGED <<size, draining, cvars, drainedCmds, peak, hvars>>

DrainZero ==
    /\ AtTop("zero")
    /\ size' = 0
    /\ mutex' = Free
    /\ Retop([Top EXCEPT !.at = "next"])
    /\ UNCHANGED <<inner, draining, cvars, drainedCmds, peak, hvars>>

\* Mutant: a cancelled job is answered with an error instead of being dropped.
DrainSkipAnswers ==
    /\ AtTop("next")
    /\ Top.jobs # <<>>
    /\ cancelled[Head(Top.jobs)]
    /\ reply' = [reply EXCEPT ![Head(Top.jobs)] = "err"]
    /\ Retop([Top EXCEPT !.jobs = Tail(Top.jobs)])
    /\ UNCHANGED <<qvars, cancelled, pc, result, drainedCmds, peak, hvars>>

\* p.cancelled is set: the Pending is dropped unrun, and its sender with it.
DrainSkip ==
    /\ AtTop("next")
    /\ Top.jobs # <<>>
    /\ cancelled[Head(Top.jobs)]
    /\ reply' = [reply EXCEPT ![Head(Top.jobs)] = "closed"]
    /\ Retop([Top EXCEPT !.jobs = Tail(Top.jobs)])
    /\ UNCHANGED <<qvars, cancelled, pc, result, drainedCmds, peak, hvars>>

\* Mutant: the cancel flag is not looked at.
DrainCheckBlind ==
    /\ AtTop("next")
    /\ Top.jobs # <<>>
    /\ Retop([Top EXCEPT !.at = "checked"])
    /\ UNCHANGED <<qvars, cvars, drainedCmds, peak, hvars>>

DrainCheck ==
    /\ AtTop("next")
    /\ Top.jobs # <<>>
    /\ ~cancelled[Head(Top.jobs)]
    /\ Retop([Top EXCEPT !.at = "checked"])
    /\ UNCHANGED <<qvars, cvars, drainedCmds, peak, hvars>>

\* (p.job)() is entered; the flag is not looked at again.
JobStart ==
    /\ AtTop("checked")
    /\ log' = Append(log, Head(Top.jobs))
    /\ Retop([Top EXCEPT !.at = "job"])
    /\ UNCHANGED <<qvars, cvars, drainedCmds, peak, pushed, panicked>>

\* Mutant: the shadow is counted down per job on top of being zeroed.
JobReturnCountsDown ==
    /\ AtTop("job")
    /\ size' = size - 1
    /\ \E o \in Outcomes : reply' = [reply EXCEPT ![Head(Top.jobs)] = o]
    /\ Retop([Top EXCEPT !.at = "next", !.jobs = Tail(Top.jobs), !.count = @ + 1])
    /\ UNCHANGED <<inner, mutex, draining, cancelled, pc, result, drainedCmds, peak, hvars>>

\* The job returns and its result is sent.  A receiver that has given up never
\* looks at the channel again, so the failed send of that case is not told apart.
JobReturn ==
    /\ AtTop("job")
    /\ \E o \in Outcomes : reply' = [reply EXCEPT ![Head(Top.jobs)] = o]
    /\ Retop([Top EXCEPT !.at = "next", !.jobs = Tail(Top.jobs), !.count = @ + 1])
    /\ UNCHANGED <<qvars, cancelled, pc, result, drainedCmds, peak, hvars>>

\* The job panics: its own sender and those of the jobs behind it are dropped
\* with the frame, and the stores after the loop are never reached.
JobPanic ==
    /\ AtTop("job")
    /\ panicked' = panicked \cup {Head(Top.jobs)}
    /\ reply' = [c \in Calls |-> IF c \in Range(Top.jobs) THEN "closed" ELSE reply[c]]
    /\ frames' = <<>>
    /\ UNCHANGED <<qvars, cancelled, pc, result, drainedCmds, peak, pushed, log>>

\* Mutant: the queue is cleared at the end of the drain as well.
DrainFinishClears ==
    /\ AtTop("next")
    /\ Top.jobs = <<>>
    /\ inner' = <<>>
    /\ draining' = FALSE
    /\ peak' = IF Top.peak > peak THEN Top.peak ELSE peak
    /\ drainedCmds' = drainedCmds + Top.count
    /\ frames' = Front(frames)
    /\ UNCHANGED <<mutex, size, cvars, hvars>>

\* The loop is over: clear the guard, then feed GameThread's counters.
DrainFinish ==
    /\ AtTop("next")
    /\ Top.jobs = <<>>
    /\ draining' = FALSE
    /\ peak' = IF Top.peak > peak THEN Top.peak ELSE peak
    /\ drainedCmds' = drainedCmds + Top.count
    /\ frames' = Front(frames)
    /\ UNCHANGED <<inner, mutex, size, cvars, hvars>>

------------------------------------------------------------------------------
Caller(c) ==
    \/ EnqueueReject(c) \/ EnqueuePush(c) \/ EnqueuePublish(c)
    \/ ReceiveReply(c) \/ ReceiveFails(c) \/ GiveUp(c)

GameStep ==
    \/ DrainReentered \/ DrainEnter \/ DrainTake \/ DrainZero
    \/ DrainSkip \/ DrainCheck \/ JobStart \/ JobReturn \/ JobPanic \/ DrainFinish

Next ==
    \/ \E c \in Calls : Invoke(c) \/ Caller(c)
    \/ DrainCall
    \/ GameStep

Spec == Init /\ [][Next]_vars

(* The engine ticks every frame and game_thread::on_tick drains from there   *)
(* (DrainCall is weakly fair); the game thread runs (GameStep); a job ends,  *)
(* however many events it fires (strong, because a nested drain hides it);   *)
(* worker threads run and every recv_timeout comes back (Caller).            *)
Fairness ==
    /\ WF_vars(DrainCall)
    /\ WF_vars(GameStep)
    /\ SF_vars(JobReturn \/ JobPanic)
    /\ \A c \in Calls : WF_vars(Caller(c))

FairSpec == Spec /\ Fairness

------------------------------------------------------------------------------
(* Properties.                                                             *)

\* Jobs that still exist: in the queue or in the hands of a drain.
Pending == Range(inner) \cup UNION {Range(frames[i].jobs) : i \in 1..Len(frames)}

\* No job is lost or kept twice: a pushed call's reply channel is open exactly
\* as long as its Pending is in the queue or in a drain (Queue::enqueue and
\* Queue::drain hand it over under the mutex, a skip or an unwind drops it).
NoneLost ==
    \A c \in Range(pushed) : reply[c] = "empty" <=> c \in Pending

\* Whenever the mutex is free the lock-free shadow is the queue's length, so
\* a drain that trusts it never leaves a job behind ("Updated under the mutex").
SizeIsShadow == mutex = Free => size = Len(inner)

\* In sequence s, c comes before d.
Precedes(c, d, s) == \E i, j \in 1..Len(s) : i < j /\ s[i] = c /\ s[j] = d

\* Jobs start in the order they were pushed, each at most once, over batches,
\* nested drains and skips: what ran is a subsequence of what was pushed (where
\* each call is once).
StartedInOrder ==
    /\ Range(log) \subseteq Range(pushed)
    /\ \A i, j \in 1..Len(log) : i < j => Precedes(log[i], log[j], pushed)

\* Re-entrance: whatever events a job fires, one drain at a time is past the
\* `draining` guard, so no job runs inside another one's stack.
DrainIsExclusive == Cardinality({i \in 1..Len(frames) : frames[i].at # "swap"}) <= 1

\* A job whose caller gave up while it was still queued never runs, in no later
\* drain (test cancelled_jobs_are_skipped, for every interleaving).
CancelledStaysUnrun ==
    \A c \in Calls :
        [](cancelled[c] /\ c \in Range(inner) => [](c \notin Range(log)))

\* No wakeup is lost: a queued job is taken by some drain, unless a panic in an
\* earlier job has left the queue's guard set for good.
JobsAreTaken ==
    \A c \in Calls : c \in Range(inner) ~> (c \notin Range(inner) \/ panicked # {})

\* enqueue honours its timeout: it returns whatever the game thread does, since
\* the mutex it needs is never held while jobs run.
EveryCallReturns == \A c \in Calls : pc[c] = "lock" ~> pc[c] = "done"

\* Both at once: jobs move on from the queue (Queue::drain) and callers move on
\* from their wait (Queue::enqueue).
QueueMovesOn == JobsAreTaken /\ EveryCallReturns

\* The detailed queue keeps the promise of a cross-thread call.
PhaseOf(c) ==
    IF c \notin Range(pushed) THEN "new"
    ELSE IF reply[c] = "closed" THEN "dropped"
    ELSE IF reply[c] \in Outcomes THEN reply[c]
    ELSE IF c \in Range(log) THEN "running" ELSE "queued"

AnswerOf(c) == IF result[c] = "timeout" THEN "gave_up" ELSE result[c]

Call == INSTANCE JobCall WITH
            phase  <- [c \in Calls |-> PhaseOf(c)],
            answer <- [c \in Calls |-> AnswerOf(c)]

\* Every step of the queue is a step of the abstract call or changes nothing a
\* caller can see.
ImplementsJobCall == Call!Spec

==============================================================================
