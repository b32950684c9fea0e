------------------------------- MODULE JobCall -------------------------------
(***************************************************************************)
(* What a cross-thread call promises, whatever queue carries it.           *)
(*                                                                         *)
(* A worker thread (the HTTP listener, a poller) hands a closure to the    *)
(* thread that may touch the game's objects and waits for its result.  The *)
(* promise: a job is run at most once, one job at a time, never after it   *)
(* was refused; an answer "ok" or "err" is the outcome of a run that did   *)
(* finish; the caller may give up at any time.  What happens to a job      *)
(* after its caller gave up is deliberately left open here: that is where  *)
(* the queues of the two bindings differ.                                  *)
(***************************************************************************)
CONSTANT Calls

VARIABLES
    phase,    \* [Calls -> Phases], what became of the job
    answer    \* [Calls -> Answers], what the caller was told

Outcomes == {"ok", "err"}
Phases   == {"new", "queued", "running", "dropped"} \cup Outcomes
Answers  == {"none", "full", "gave_up"} \cup Outcomes

TypeOK ==
    /\ phase  \in [Calls -> Phases]
    /\ answer \in [Calls -> Answers]

Init ==
    /\ phase  = [c \in Calls |-> "new"]
    /\ answer = [c \in Calls |-> "none"]

Submit(c) ==
    /\ phase[c] = "new"
    /\ answer[c] = "none"
    /\ phase' = [phase EXCEPT ![c] = "queued"]
    /\ UNCHANGED answer

\* Refused at the door: the job will never be seen by the game thread.
Refuse(c) ==
    /\ phase[c] = "new"
    /\ answer[c] = "none"
    /\ answer' = [answer EXCEPT ![c] = "full"]
    /\ UNCHANGED phase

\* The game thread runs one job at a time.
Begin(c) ==
    /\ phase[c] = "queued"
    /\ \A d \in Calls : phase[d] # "running"
    /\ phase' = [phase EXCEPT ![c] = "running"]
    /\ UNCHANGED answer

Finish(c) ==
    /\ phase[c] = "running"
    /\ \E o \in Outcomes : phase' = [phase EXCEPT ![c] = o]
    /\ UNCHANGED answer

\* Jobs that are thrown away, in the queue or half way through.
Drop(S) ==
    /\ S # {}
    /\ \A c \in S : phase[c] \in {"queued", "running"}
    /\ phase' = [c \in Calls |-> IF c \in S THEN "dropped" ELSE phase[c]]
    /\ UNCHANGED answer

Answer(c) ==
    /\ answer[c] = "none"
    /\ phase[c] \in Outcomes
    /\ answer' = [answer EXCEPT ![c] = phase[c]]
    /\ UNCHANGED phase

GiveUp(c) ==
    /\ answer[c] = "none"
    /\ phase[c] # "new"
    /\ answer' = [answer EXCEPT ![c] = "gave_up"]
    /\ UNCHANGED phase

Next ==
    \/ \E c \in Calls : \/ Submit(c) \/ Refuse(c)
                        \/ Begin(c)  \/ Finish(c)
                        \/ Answer(c) \/ GiveUp(c)
    \/ \E S \in SUBSET Calls : Drop(S)

Spec == Init /\ [][Next]_<<phase, answer>>

------------------------------------------------------------------------------
(* What follows for those who call.                                        *)

\* Jobs run one at a time; who is told an outcome is told that of the job's own
\* run, which is over; who is refused has no job that runs now or ever will.
Promise ==
    /\ \A c, d \in Calls : phase[c] = "running" /\ phase[d] = "running" => c = d
    /\ \A c \in Calls : answer[c] \in Outcomes => phase[c] = answer[c]
    /\ \A c \in Calls : answer[c] = "full" => phase[c] = "new"
==============================================================================
