---------------------------- MODULE PeQueueProofs ----------------------------
(***************************************************************************)
(* Proofs about PeQueue for any set of calls and any depth of the queue.   *)
(*                                                                         *)
(* The inductive invariant IInv strengthens the types by three facts: who  *)
(* owns the mutex (OwnerInv), what the stack of drains looks like          *)
(* (StackInv) and what the lock-free shadow is worth at each point of the  *)
(* two critical sections (ShadowInv).  A second one, JInv, follows the     *)
(* jobs: where each one is (HeldInv), what became of each call (FateInv)   *)
(* and the push order through log, hand and queue (OrderInv).  That no job *)
(* is lost, their order, cancellation and the refinement rest on both.     *)
(***************************************************************************)
EXTENDS PeQueue, SequenceTheorems, FiniteSetTheorems, TLAPS

\* The mutex is held by a caller between push and store, or by the drain that
\* has taken the jobs and not zeroed the shadow, and by nobody else.
OwnerInv ==
    /\ \A c \in Calls : mutex = c <=> pc[c] = "pushed"
    /\ mutex = Drainer <=> AtTop("zero")

\* Below the top of the stack every drain is running a job; past the guard
\* there is only the bottom one, and `draining` is set while it is there.
StackInv ==
    /\ Len(frames) <= 2
    /\ \A i \in 1..Len(frames) :
         /\ i < Len(frames) => frames[i].at = "job"
         /\ i > 1 => frames[i].at = "swap" /\ frames[i].jobs = <<>>
         /\ frames[i].at # "swap" => draining
         /\ frames[i].at \in {"checked", "job"} => frames[i].jobs # <<>>

\* The shadow is exact while nobody is inside a critical section, and a drain
\* inside its own has emptied the queue.
ShadowInv ==
    /\ mutex = Free => size = Len(inner)
    /\ mutex = Drainer => inner = <<>>

IInv == TypeOK /\ OwnerInv /\ StackInv /\ ShadowInv

------------------------------------------------------------------------------
(* The stack of drains.                                                    *)

\* What IInv says of the frame on top.
LEMMA TopFrame ==
    ASSUME TypeOK, frames # <<>>
    PROVE  /\ Len(frames) \in Nat \ {0}
           /\ Top \in Frame
           /\ Top = frames[Len(frames)]
<1>1. frames \in Seq(Frame) BY DEF TypeOK
<1>2. Len(frames) \in Nat \ {0} BY <1>1, EmptySeq
<1>3. Top \in Frame BY <1>1, <1>2, ElementOfSeq DEF Top
<1> QED BY <1>2, <1>3 DEF Top

\* Retop changes the frame on top and no other.
LEMMA RetopStack ==
    ASSUME TypeOK, frames # <<>>, NEW f \in Frame, Retop(f)
    PROVE  /\ frames' \in Seq(Frame)
           /\ frames' # <<>>
           /\ Len(frames') = Len(frames)
           /\ Top' = f
           /\ \A i \in 1..Len(frames) : i < Len(frames) => frames'[i] = frames[i]
<1>1. frames \in Seq(Frame) BY DEF TypeOK
<1>2. Len(frames) \in Nat \ {0} BY TopFrame
<1>3. Len(frames) \in 1..Len(frames) BY <1>2
<1>4. frames' = [frames EXCEPT ![Len(frames)] = f] BY DEF Retop
<1>5. /\ frames' \in Seq(Frame)
      /\ Len(frames') = Len(frames)
      /\ \A j \in 1..Len(frames) : frames'[j] = IF j = Len(frames) THEN f ELSE frames[j]
  BY <1>1, <1>3, <1>4, ExceptSeq
<1>6. frames' # <<>> BY <1>2, <1>5, EmptySeq
<1>7. Top' = f BY <1>3, <1>5 DEF Top
<1> QED BY <1>2, <1>5, <1>6, <1>7

\* Front drops the frame on top and keeps the others.
LEMMA PopStack ==
    ASSUME TypeOK, frames # <<>>, frames' = Front(frames)
    PROVE  /\ frames' \in Seq(Frame)
           /\ Len(frames') = Len(frames) - 1
           /\ \A i \in 1..(Len(frames) - 1) : frames'[i] = frames[i]
<1>1. frames \in Seq(Frame) BY DEF TypeOK
<1>2. Len(frames) \in Nat \ {0} BY TopFrame
<1> DEFINE n == Len(frames) - 1
<1>3. n \in Nat BY <1>2
<1>4. frames' = SubSeq(frames, 1, n) BY DEF Front
<1>5. \A i \in 1..n : frames[i] \in Frame BY <1>1, <1>2, ElementOfSeq
<1> HIDE DEF n
<1>6. /\ SubSeq(frames, 1, n) \in Seq(Frame)
      /\ Len(SubSeq(frames, 1, n)) = IF 1 <= n THEN n - 1 + 1 ELSE 0
      /\ \A i \in 1..n - 1 + 1 : SubSeq(frames, 1, n)[i] = frames[1 + i - 1]
  BY <1>3, <1>5, SubSeqProperties
<1>7. \A i \in 1..n : frames'[i] = frames[i]
  <2>1. TAKE i \in 1..n
  <2>2. i \in 1..n - 1 + 1 /\ 1 + i - 1 = i BY <1>3
  <2> QED BY <1>4, <1>6, <2>2
<1>8. Len(frames') = n BY <1>3, <1>4, <1>6
<1> QED BY <1>4, <1>6, <1>7, <1>8 DEF n

\* The invariant lets at most two drains be on the stack, and the second one
\* has only just been called.
LEMMA StackCases ==
    ASSUME IInv, frames # <<>>
    PROVE  \/ Len(frames) = 1 /\ frames[1] = Top
           \/ Len(frames) = 2 /\ frames[1].at = "job" /\ frames[2] = Top
              /\ Top.at = "swap" /\ Top.jobs = <<>> /\ draining
<1>1. Len(frames) \in Nat \ {0} BY TopFrame DEF IInv
<1>2. Len(frames) <= 2 BY DEF IInv, StackInv
<1>3. Len(frames) = 1 \/ Len(frames) = 2
  <2>1. \A n \in Nat \ {0} : n <= 2 => n = 1 \/ n = 2 OBVIOUS
  <2> QED BY <1>1, <1>2, <2>1
<1>4. CASE Len(frames) = 1 BY <1>4 DEF Top
<1>5. CASE Len(frames) = 2
  <2>1. 1 \in 1..Len(frames) /\ 2 \in 1..Len(frames) BY <1>5
  <2>2. frames[1].at = "job" /\ frames[2].at = "swap" /\ frames[2].jobs = <<>> BY <1>5, <2>1 DEF IInv, StackInv
  <2>3. draining BY <2>1, <2>2 DEF IInv, StackInv
  <2> QED BY <1>5, <2>2, <2>3 DEF Top
<1> QED BY <1>3, <1>4, <1>5

\* A frame put in place of the only one keeps the shape of the stack.
LEMMA RetopKeepsStack ==
    ASSUME IInv, Len(frames) = 1, frames # <<>>, NEW f \in Frame, Retop(f),
           f.at # "swap" => draining',
           f.at \in {"checked", "job"} => f.jobs # <<>>
    PROVE  /\ frames' \in Seq(Frame)
           /\ StackInv'
           /\ AtTop("zero")' <=> f.at = "zero"
<1>1. /\ frames' \in Seq(Frame) /\ frames' # <<>>
      /\ Len(frames') = 1 /\ Top' = f
  BY RetopStack DEF IInv
<1>2. frames'[1] = f BY <1>1 DEF Top
<1>3. StackInv' BY <1>1, <1>2 DEF StackInv
<1> QED BY <1>1, <1>3 DEF AtTop

\* The drain on top returns: what is left is nothing, or a drain running a job.
LEMMA PopKeepsStack ==
    ASSUME IInv, frames # <<>>, frames' = Front(frames), draining' = draining \/ Len(frames) = 1
    PROVE  /\ frames' \in Seq(Frame)
           /\ StackInv'
           /\ ~AtTop("zero")'
<1>1. /\ frames' \in Seq(Frame)
      /\ Len(frames') = Len(frames) - 1
      /\ \A i \in 1..(Len(frames) - 1) : frames'[i] = frames[i]
  BY PopStack DEF IInv
<1>2. CASE Len(frames) = 1
  <2>1. Len(frames') = 0 BY <1>1, <1>2
  <2>2. frames' = <<>> BY <1>1, <2>1, EmptySeq
  <2>3. StackInv' BY <2>1 DEF StackInv
  <2> QED BY <1>1, <2>2, <2>3 DEF AtTop
<1>3. CASE Len(frames) = 2 /\ frames[1].at = "job" /\ draining
  <2>1. Len(frames') = 1 /\ frames'[1] = frames[1] BY <1>1, <1>3
  <2>2. draining' BY <1>3
  <2>3. frames[1].jobs # <<>> BY <1>3 DEF IInv, StackInv
  <2>4. StackInv' BY <1>3, <2>1, <2>2, <2>3 DEF StackInv
  <2>5. Top'.at = "job" BY <1>3, <2>1 DEF Top
  <2> QED BY <1>1, <2>4, <2>5 DEF AtTop
<1> QED BY <1>2, <1>3, StackCases

\* A drain that is past the guard, or that finds the guard open, is alone.
LEMMA LoneDrain ==
    ASSUME IInv, frames # <<>>, Top.at # "swap" \/ ~draining
    PROVE  Len(frames) = 1 /\ frames[1] = Top /\ (Top.at # "swap" => draining)
<1>1. Len(frames) = 1 /\ frames[1] = Top BY StackCases
<1>2. Top.at # "swap" => draining BY <1>1 DEF IInv, StackInv
<1> QED BY <1>1, <1>2

\* A drain at a job has one in its hands.
LEMMA TopHasJob ==
    ASSUME IInv, AtTop("checked") \/ AtTop("job")
    PROVE  /\ Top.jobs \in Seq(Calls) /\ Top.jobs # <<>>
           /\ Head(Top.jobs) \in Calls
           /\ Tail(Top.jobs) \in Seq(Calls)
<1>1. Top \in Frame BY TopFrame DEF IInv, AtTop
<1>2. Len(frames) = 1 /\ frames[1] = Top BY LoneDrain DEF AtTop
<1>3. Top.jobs # <<>> BY <1>2 DEF IInv, StackInv, AtTop
<1> QED BY <1>1, <1>3, HeadTailProperties DEF Frame

------------------------------------------------------------------------------
(* The invariant.                                                          *)

LEMMA InitInv == Init => IInv
<1> SUFFICES ASSUME Init PROVE IInv OBVIOUS
<1> USE QueueAssumption DEF Init, QueueAssumption
<1>1. TypeOK
  <2>1. cancelled \in [Calls -> BOOLEAN] OBVIOUS
  <2>2. /\ inner \in Seq(Calls) /\ pushed \in Seq(Calls) /\ log \in Seq(Calls)
        /\ frames \in Seq(Frame)
    BY EmptySeq
  <2>3. /\ reply \in [Calls -> {"empty", "closed"} \cup Outcomes]
        /\ pc \in [Calls -> {"idle", "lock", "pushed", "wait", "expired", "done"}]
        /\ result \in [Calls -> {"none", "full", "timeout"} \cup Outcomes]
    OBVIOUS
  <2> QED BY <2>1, <2>2, <2>3 DEF TypeOK
<1>2. OwnerInv
  <2>1. \A c \in Calls : mutex = c <=> pc[c] = "pushed" OBVIOUS
  <2>2. mutex # Drainer OBVIOUS
  <2>3. ~AtTop("zero") BY DEF AtTop
  <2> QED BY <2>1, <2>2, <2>3 DEF OwnerInv
<1>3. StackInv BY DEF StackInv
<1>4. ShadowInv BY DEF ShadowInv
<1> QED BY <1>1, <1>2, <1>3, <1>4 DEF IInv

\* Steps of a caller leave the game thread's stack alone.
LEMMA CallerInv ==
    ASSUME IInv, NEW c \in Calls, Invoke(c) \/ Caller(c)
    PROVE  IInv'
<1> USE QueueAssumption
<1>1. CASE UNCHANGED qvars /\ UNCHANGED gvars /\ UNCHANGED hvars
           /\ c \in Calls /\ pc[c] # "pushed" /\ \E q \in {"lock", "wait", "expired", "done"} : pc' = [pc EXCEPT ![c] = q]
           /\ cancelled' \in [Calls -> BOOLEAN] /\ UNCHANGED reply
           /\ result' \in [Calls -> {"none", "full", "timeout"} \cup Outcomes]
  <2>1. TypeOK' BY <1>1 DEF IInv, TypeOK, qvars, gvars, hvars
  <2>2. OwnerInv' BY <1>1 DEF IInv, TypeOK, OwnerInv, AtTop, Top, qvars, gvars
  <2>3. StackInv' BY <1>1 DEF IInv, StackInv, qvars, gvars
  <2>4. ShadowInv' BY <1>1 DEF IInv, ShadowInv, qvars
  <2> QED BY <2>1, <2>2, <2>3, <2>4 DEF IInv
<1>2. CASE Invoke(c) BY <1>1, <1>2 DEF Invoke, IInv, TypeOK
<1>3. CASE EnqueueReject(c) BY <1>1, <1>3 DEF EnqueueReject, IInv, TypeOK
<1>4. CASE EnqueuePush(c)
  <2> USE <1>4 DEF EnqueuePush
  <2>1. TypeOK' BY AppendProperties DEF IInv, TypeOK, gvars
  <2>2. OwnerInv' BY DEF IInv, TypeOK, OwnerInv, AtTop, Top, gvars
  <2>3. StackInv' BY DEF IInv, StackInv, gvars
  <2>4. ShadowInv' BY DEF ShadowInv
  <2> QED BY <2>1, <2>2, <2>3, <2>4 DEF IInv
<1>5. CASE EnqueuePublish(c)
  <2> USE <1>5 DEF EnqueuePublish
  <2>1. TypeOK' BY LenProperties DEF IInv, TypeOK, gvars, hvars
  <2>2. OwnerInv' BY DEF IInv, TypeOK, OwnerInv, AtTop, Top, gvars
  <2>3. StackInv' BY DEF IInv, StackInv, gvars
  <2>4. ShadowInv' BY DEF ShadowInv
  <2> QED BY <2>1, <2>2, <2>3, <2>4 DEF IInv
<1>6. CASE ReceiveReply(c) BY <1>1, <1>6 DEF ReceiveReply, IInv, TypeOK
<1>7. CASE ReceiveFails(c) BY <1>1, <1>7 DEF ReceiveFails, IInv, TypeOK
<1>8. CASE GiveUp(c) BY <1>1, <1>8 DEF GiveUp, IInv, TypeOK
<1> QED BY <1>2, <1>3, <1>4, <1>5, <1>6, <1>7, <1>8 DEF Caller

\* Steps that only change the drain on top of the stack, and what it hands
\* over.  f is what the drain becomes.
LEMMA RetopInv ==
    ASSUME IInv, frames # <<>>, Top.at # "swap" \/ ~draining, NEW f \in Frame, Retop(f),
           f.at # "swap", draining', draining' \in BOOLEAN,
           f.at \in {"checked", "job"} => f.jobs # <<>>,
           UNCHANGED <<inner, mutex, size, pc>>,
           f.at # "zero", Top.at # "zero",
           UNCHANGED <<cancelled, result, drainedCmds, peak, pushed, panicked>>,
           reply' \in [Calls -> {"empty", "closed"} \cup Outcomes],
           log' \in Seq(Calls)
    PROVE  IInv'
<1>1. Len(frames) = 1 BY LoneDrain
<1>2. frames' \in Seq(Frame) /\ StackInv' /\ ~AtTop("zero")' BY <1>1, RetopKeepsStack
<1>3. TypeOK' BY <1>2 DEF IInv, TypeOK
<1>4. OwnerInv' BY <1>2 DEF IInv, OwnerInv, AtTop
<1>5. ShadowInv' BY DEF IInv, ShadowInv
<1> QED BY <1>2, <1>3, <1>4, <1>5 DEF IInv

LEMMA DrainInv ==
    ASSUME IInv, DrainCall \/ GameStep
    PROVE  IInv'
<1> USE QueueAssumption
<1>1. CASE DrainCall
  <2> DEFINE f == [at |-> "swap", jobs |-> <<>>, peak |-> 0, count |-> 0]
  <2>1. f \in Frame BY EmptySeq DEF Frame
  <2>2. frames \in Seq(Frame) /\ Len(frames) \in Nat BY LenProperties DEF IInv, TypeOK
  <2>3. frames = <<>> \/ (Len(frames) = 1 /\ frames[1].at = "job" /\ draining /\ frames[1].jobs # <<>>)
    BY <1>1, LoneDrain, TopHasJob DEF DrainCall, AtTop
  <2>4. frames' = Append(frames, f) BY <1>1 DEF DrainCall
  <2> HIDE DEF f
  <2>5. /\ frames' \in Seq(Frame) /\ Len(frames') = Len(frames) + 1
        /\ frames'[Len(frames) + 1] = f
        /\ \A k \in 1..Len(frames) : frames'[k] = frames[k]
    BY <2>1, <2>2, <2>4, AppendProperties
  <2>6. frames' # <<>> /\ Top' = f BY <2>2, <2>5, EmptySeq DEF Top
  <2>7. f.at = "swap" /\ f.jobs = <<>> BY DEF f
  <2>8. StackInv'
    <3>1. CASE frames = <<>>
      <4>1. Len(frames') = 1 /\ frames'[1] = f BY <2>5, <3>1
      <4> QED BY <2>7, <4>1 DEF StackInv
    <3>2. CASE Len(frames) = 1 /\ frames[1].at = "job" /\ draining /\ frames[1].jobs # <<>>
      <4>1. Len(frames') = 2 /\ frames'[1] = frames[1] /\ frames'[2] = f BY <2>5, <3>2
      <4>2. draining' BY <1>1, <3>2 DEF DrainCall, qvars
      <4> QED BY <2>7, <3>2, <4>1, <4>2 DEF StackInv
    <3> QED BY <2>3, <3>1, <3>2
  <2>9. TypeOK' BY <1>1, <2>5 DEF DrainCall, IInv, TypeOK, qvars, cvars, hvars
  <2>10. ~AtTop("zero") BY <1>1 DEF DrainCall, AtTop
  <2>11. OwnerInv' BY <1>1, <2>6, <2>7, <2>10 DEF DrainCall, IInv, OwnerInv, AtTop, qvars, cvars
  <2>12. ShadowInv' BY <1>1 DEF DrainCall, IInv, ShadowInv, qvars
  <2> QED BY <2>8, <2>9, <2>11, <2>12 DEF IInv
<1>2. CASE DrainReentered
  <2>1. frames # <<>> /\ ~AtTop("zero") /\ draining /\ draining'
    BY <1>2 DEF DrainReentered, AtTop, qvars
  <2>2. frames' \in Seq(Frame) /\ StackInv' /\ ~AtTop("zero")'
    BY <1>2, <2>1, PopKeepsStack DEF DrainReentered
  <2>3. TypeOK' BY <1>2, <2>2 DEF DrainReentered, IInv, TypeOK, qvars, cvars, hvars
  <2>4. OwnerInv' BY <1>2, <2>1, <2>2 DEF DrainReentered, IInv, OwnerInv, qvars, cvars
  <2>5. ShadowInv' BY <1>2 DEF DrainReentered, IInv, ShadowInv, qvars
  <2> QED BY <2>2, <2>3, <2>4, <2>5 DEF IInv
<1>3. CASE DrainEnter
  <2>1. [Top EXCEPT !.at = "take"] \in Frame BY <1>3, TopFrame DEF DrainEnter, AtTop, IInv, Frame
  <2> QED BY <1>3, <2>1, RetopInv DEF DrainEnter, AtTop, IInv, TypeOK, Frame, cvars, hvars
<1>4. CASE DrainTake
  <2> DEFINE f == [Top EXCEPT !.at = "zero", !.jobs = inner, !.peak = Len(inner)]
  <2>1. Len(inner) \in Nat BY LenProperties DEF IInv, TypeOK
  <2>2. f \in Frame /\ f.at = "zero"
    BY <1>4, <2>1, TopFrame DEF DrainTake, AtTop, IInv, TypeOK, Frame
  <2>3. frames # <<>> /\ Len(frames) = 1 /\ draining /\ draining'
    BY <1>4, LoneDrain DEF DrainTake, AtTop
  <2>4. Retop(f) BY <1>4 DEF DrainTake
  <2> HIDE DEF f
  <2>5. frames' \in Seq(Frame) /\ StackInv' /\ AtTop("zero")'
    BY <2>2, <2>3, <2>4, RetopKeepsStack
  <2>6. TypeOK' BY <1>4, <2>5, EmptySeq DEF DrainTake, IInv, TypeOK, cvars, hvars
  <2>7. OwnerInv' BY <1>4, <2>5 DEF DrainTake, IInv, OwnerInv, TypeOK, cvars
  <2>8. ShadowInv' BY <1>4 DEF DrainTake, ShadowInv
  <2> QED BY <2>5, <2>6, <2>7, <2>8 DEF IInv
<1>5. CASE DrainZero
  <2> DEFINE f == [Top EXCEPT !.at = "next"]
  <2>1. f \in Frame /\ f.at = "next" BY <1>5, TopFrame DEF DrainZero, AtTop, IInv, Frame
  <2>2. frames # <<>> /\ Len(frames) = 1 /\ draining /\ draining'
    BY <1>5, LoneDrain DEF DrainZero, AtTop
  <2>3. Retop(f) BY <1>5 DEF DrainZero
  <2> HIDE DEF f
  <2>4. frames' \in Seq(Frame) /\ StackInv' /\ ~AtTop("zero")'
    BY <2>1, <2>2, <2>3, RetopKeepsStack
  <2>5. mutex = Drainer /\ inner = <<>> BY <1>5 DEF DrainZero, IInv, OwnerInv, ShadowInv
  <2>6. TypeOK' BY <1>5, <2>4 DEF DrainZero, IInv, TypeOK, cvars, hvars
  <2>7. OwnerInv' BY <1>5, <2>4, <2>5 DEF DrainZero, IInv, OwnerInv, TypeOK, cvars
  <2>8. ShadowInv' BY <1>5, <2>5, EmptySeq DEF DrainZero, ShadowInv
  <2> QED BY <2>4, <2>6, <2>7, <2>8 DEF IInv
<1>6. CASE DrainSkip
  <2>1. /\ frames # <<>> /\ draining /\ draining'
        /\ Top \in Frame /\ Top.jobs # <<>> /\ Head(Top.jobs) \in Calls
        /\ Tail(Top.jobs) \in Seq(Calls)
    BY <1>6, TopFrame, LoneDrain, HeadTailProperties DEF DrainSkip, AtTop, IInv, Frame, qvars
  <2> DEFINE f == [Top EXCEPT !.jobs = Tail(Top.jobs)]
  <2>2. f \in Frame /\ f.at = "next" BY <1>6, <2>1 DEF DrainSkip, AtTop, Frame
  <2>3. Retop(f) BY <1>6 DEF DrainSkip
  <2>4. reply' \in [Calls -> {"empty", "closed"} \cup Outcomes]
    BY <1>6 DEF DrainSkip, IInv, TypeOK
  <2> HIDE DEF f
  <2> QED BY <1>6, <2>1, <2>2, <2>3, <2>4, RetopInv
        DEF DrainSkip, AtTop, IInv, TypeOK, qvars, hvars
<1>7. CASE DrainCheck
  <2>1. /\ frames # <<>> /\ draining /\ draining' /\ Top \in Frame
    BY <1>7, TopFrame, LoneDrain DEF DrainCheck, AtTop, IInv, qvars
  <2>2. [Top EXCEPT !.at = "checked"] \in Frame BY <2>1 DEF Frame
  <2> QED BY <1>7, <2>1, <2>2, RetopInv
        DEF DrainCheck, AtTop, IInv, TypeOK, Frame, qvars, cvars, hvars
<1>8. CASE JobStart
  <2>1. /\ frames # <<>> /\ draining /\ draining' /\ Top \in Frame
        /\ Top.jobs # <<>> /\ Head(Top.jobs) \in Calls
    BY <1>8, TopFrame, LoneDrain, TopHasJob DEF JobStart, AtTop, IInv, qvars
  <2>2. [Top EXCEPT !.at = "job"] \in Frame BY <2>1 DEF Frame
  <2>3. log' \in Seq(Calls) BY <1>8, <2>1, AppendProperties DEF JobStart, IInv, TypeOK
  <2> QED BY <1>8, <2>1, <2>2, <2>3, RetopInv
        DEF JobStart, AtTop, IInv, TypeOK, Frame, qvars, cvars
<1>9. CASE JobReturn
  <2>1. /\ frames # <<>> /\ draining /\ draining' /\ Top \in Frame
        /\ Head(Top.jobs) \in Calls /\ Tail(Top.jobs) \in Seq(Calls)
    BY <1>9, TopFrame, LoneDrain, TopHasJob DEF JobReturn, AtTop, IInv, qvars
  <2> DEFINE f == [Top EXCEPT !.at = "next", !.jobs = Tail(Top.jobs), !.count = @ + 1]
  <2>2. Top.count + 1 \in Nat BY <2>1 DEF Frame
  <2>3. f \in Frame /\ f.at = "next" BY <2>1, <2>2 DEF Frame
  <2>4. Retop(f) BY <1>9 DEF JobReturn
  <2>5. reply' \in [Calls -> {"empty", "closed"} \cup Outcomes]
    BY <1>9 DEF JobReturn, IInv, TypeOK
  <2> HIDE DEF f
  <2> QED BY <1>9, <2>1, <2>3, <2>4, <2>5, RetopInv
        DEF JobReturn, AtTop, IInv, TypeOK, qvars, hvars
<1>10. CASE JobPanic
  <2>1. Head(Top.jobs) \in Calls BY <1>10, TopHasJob DEF JobPanic
  <2>2. reply' \in [Calls -> {"empty", "closed"} \cup Outcomes]
    BY <1>10 DEF JobPanic, IInv, TypeOK
  <2>3. TypeOK' BY <1>10, <2>1, <2>2, EmptySeq DEF JobPanic, IInv, TypeOK, qvars
  <2>4. ~AtTop("zero") BY <1>10 DEF JobPanic, AtTop
  <2>5. OwnerInv' BY <1>10, <2>4 DEF JobPanic, IInv, OwnerInv, AtTop, qvars
  <2>6. StackInv' BY <1>10, EmptySeq DEF JobPanic, StackInv
  <2>7. ShadowInv' BY <1>10 DEF JobPanic, IInv, ShadowInv, qvars
  <2> QED BY <2>3, <2>5, <2>6, <2>7 DEF IInv
<1>11. CASE DrainFinish
  <2>1. frames # <<>> /\ Len(frames) = 1 /\ ~AtTop("zero") /\ Top \in Frame
    BY <1>11, LoneDrain, TopFrame DEF DrainFinish, AtTop, IInv
  <2>2. frames' \in Seq(Frame) /\ StackInv' /\ ~AtTop("zero")'
    BY <1>11, <2>1, PopKeepsStack DEF DrainFinish
  <2>3. TypeOK'
    <3>1. Top.peak \in Nat /\ Top.count \in Nat BY <2>1 DEF Frame
    <3>2. peak \in Nat /\ drainedCmds \in Nat BY DEF IInv, TypeOK
    <3>3. peak' \in Nat /\ drainedCmds' \in Nat BY <1>11, <3>1, <3>2 DEF DrainFinish
    <3> QED BY <1>11, <2>2, <3>3 DEF DrainFinish, IInv, TypeOK, cvars, hvars
  <2>4. OwnerInv' BY <1>11, <2>1, <2>2 DEF DrainFinish, IInv, OwnerInv, cvars
  <2>5. ShadowInv' BY <1>11 DEF DrainFinish, IInv, ShadowInv
  <2> QED BY <2>2, <2>3, <2>4, <2>5 DEF IInv
<1> QED BY <1>1, <1>2, <1>3, <1>4, <1>5, <1>6, <1>7, <1>8, <1>9, <1>10, <1>11 DEF GameStep

\* IInv holds in every state: the base of the theorems below.
THEOREM Invariance == Spec => []IInv
<1>1. IInv /\ [Next]_vars => IInv'
  <2> SUFFICES ASSUME IInv, [Next]_vars PROVE IInv' OBVIOUS
  <2>1. CASE \E c \in Calls : Invoke(c) \/ Caller(c) BY <2>1, CallerInv
  <2>2. CASE DrainCall \/ GameStep BY <2>2, DrainInv
  <2>3. CASE UNCHANGED vars
    <3> USE <2>3 DEF vars, qvars, cvars, gvars, hvars
    <3>1. TypeOK' BY DEF IInv, TypeOK
    <3>2. OwnerInv' BY DEF IInv, OwnerInv, AtTop, Top
    <3>3. StackInv' BY DEF IInv, StackInv
    <3>4. ShadowInv' BY DEF IInv, ShadowInv
    <3> QED BY <3>1, <3>2, <3>3, <3>4 DEF IInv
  <2> QED BY <2>1, <2>2, <2>3 DEF Next
<1> QED BY <1>1, InitInv, PTL DEF Spec

\* Every variable keeps its type, whatever the calls and the depth: in
\* particular no job is ever taken from an empty batch.
THEOREM TypeCorrect == Spec => []TypeOK
<1>1. IInv => TypeOK BY DEF IInv
<1> QED BY <1>1, Invariance, PTL

\* Whenever the mutex is free, the lock-free shadow equals the queue's length,
\* so a drain that skips the lock on a zero shadow leaves no job behind.
THEOREM ShadowIsExact == Spec => []SizeIsShadow
<1>1. IInv => SizeIsShadow BY DEF IInv, ShadowInv, SizeIsShadow
<1> QED BY <1>1, Invariance, PTL

\* However jobs re-enter the drain, one drain at a time is past the guard.
THEOREM DrainsAreExclusive == Spec => []DrainIsExclusive
<1>1. IInv => DrainIsExclusive
  <2> SUFFICES ASSUME IInv PROVE DrainIsExclusive OBVIOUS
  <2> DEFINE Past == {i \in 1..Len(frames) : frames[i].at # "swap"}
  <2>1. Len(frames) \in Nat BY LenProperties DEF IInv, TypeOK
  <2>2. Past \subseteq {1} BY <2>1 DEF IInv, StackInv
  <2>3. IsFiniteSet({1}) /\ Cardinality({1}) = 1 BY FS_Singleton
  <2>4. Cardinality(Past) <= 1 BY <2>2, <2>3, FS_Subset
  <2> QED BY <2>4 DEF DrainIsExclusive
<1> QED BY <1>1, Invariance, PTL
------------------------------------------------------------------------------
(* Sequences of calls.                                                      *)

Distinct(s) == \A i, j \in 1..Len(s) : s[i] = s[j] => i = j

\* The members of s come in the order they have in p.
Ordered(s, p) == \A i, j \in 1..Len(s) : i < j => Precedes(s[i], s[j], p)

LEMMA SetOf ==
    ASSUME NEW S, NEW s \in Seq(S)
    PROVE  /\ Len(s) \in Nat /\ Range(s) \subseteq S
           /\ \A i \in 1..Len(s) : s[i] \in S
           /\ \A x : x \in Range(s) <=> \E i \in 1..Len(s) : s[i] = x
           /\ s = <<>> <=> Len(s) = 0
           /\ s = <<>> <=> Range(s) = {}
<1>1. Len(s) \in Nat /\ DOMAIN s = 1..Len(s) /\ \A i \in 1..Len(s) : s[i] \in S
  BY LenProperties, ElementOfSeq
<1>2. s = <<>> <=> Len(s) = 0 BY EmptySeq
<1>3. \A x : x \in Range(s) <=> \E i \in 1..Len(s) : s[i] = x BY <1>1 DEF Range
<1>4. Len(s) = 0 => Range(s) = {} BY <1>1, <1>3
<1>5. Len(s) # 0 => s[1] \in Range(s) BY <1>1, <1>3
<1> QED BY <1>1, <1>2, <1>3, <1>4, <1>5

\* A job is queued behind the others.
LEMMA Appended ==
    ASSUME NEW S, NEW s \in Seq(S), NEW x \in S
    PROVE  /\ Append(s, x) \in Seq(S) /\ Append(s, x) # <<>>
           /\ Len(Append(s, x)) = Len(s) + 1
           /\ Append(s, x)[Len(s) + 1] = x
           /\ Range(Append(s, x)) = Range(s) \cup {x}
           /\ Distinct(s) /\ x \notin Range(s) => Distinct(Append(s, x))
<1> DEFINE t == Append(s, x)
<1>1. /\ t \in Seq(S) /\ t # <<>> /\ Len(t) = Len(s) + 1 /\ t[Len(s) + 1] = x
      /\ \A i \in 1..Len(s) : t[i] = s[i]
  BY AppendProperties
<1>2. Len(s) \in Nat BY SetOf
<1> HIDE DEF t
<1>3. \A y : y \in Range(s) <=> \E i \in 1..Len(s) : s[i] = y BY SetOf
<1>4. \A y : y \in Range(t) <=> \E i \in 1..Len(t) : t[i] = y BY <1>1, SetOf
<1>5. Range(t) = Range(s) \cup {x}
  <2>1. ASSUME NEW y \in Range(t) PROVE y \in Range(s) \cup {x}
    <3>1. PICK i \in 1..Len(t) : t[i] = y BY <1>4
    <3> QED BY <1>1, <1>2, <1>3, <3>1
  <2>2. ASSUME NEW y \in Range(s) PROVE y \in Range(t)
    <3>1. PICK i \in 1..Len(s) : s[i] = y BY <1>3
    <3>2. i \in 1..Len(t) /\ t[i] = y BY <1>1, <1>2, <3>1
    <3> QED BY <1>4, <3>2
  <2>3. x \in Range(t) BY <1>1, <1>2, <1>4
  <2> QED BY <2>1, <2>2, <2>3
<1>6. ASSUME Distinct(s), x \notin Range(s) PROVE Distinct(t)
  BY <1>1, <1>2, <1>3, <1>6 DEF Distinct
<1> QED BY <1>1, <1>5, <1>6 DEF t

\* The oldest job leaves.
LEMMA Popped ==
    ASSUME NEW S, NEW s \in Seq(S), s # <<>>
    PROVE  /\ Head(s) \in S /\ Tail(s) \in Seq(S)
           /\ Len(Tail(s)) = Len(s) - 1 /\ Len(s) \in Nat \ {0}
           /\ \A i \in 1..Len(s) - 1 : Tail(s)[i] = s[i + 1]
           /\ Head(s) = s[1]
           /\ Range(s) = {Head(s)} \cup Range(Tail(s))
           /\ Distinct(s) => Distinct(Tail(s)) /\ Head(s) \notin Range(Tail(s))
<1>1. /\ Head(s) \in S /\ Tail(s) \in Seq(S) /\ Len(Tail(s)) = Len(s) - 1
      /\ \A i \in 1..Len(s) - 1 : Tail(s)[i] = s[i + 1]
  BY HeadTailProperties
<1>2. Len(s) \in Nat \ {0} /\ Head(s) = s[1] BY SetOf
<1> DEFINE t == Tail(s)
<1> HIDE DEF t
<1>3. /\ \A y : y \in Range(s) <=> \E i \in 1..Len(s) : s[i] = y
      /\ \A y : y \in Range(t) <=> \E i \in 1..Len(s) - 1 : t[i] = y
  BY <1>1, SetOf DEF t
<1>4. \A i \in 1..Len(s) - 1 : t[i] = s[i + 1] BY <1>1 DEF t
<1>5. Range(s) = {Head(s)} \cup Range(t)
  <2>1. ASSUME NEW y \in Range(s) PROVE y \in {Head(s)} \cup Range(t)
    <3>1. PICK i \in 1..Len(s) : s[i] = y BY <1>3
    <3>2. CASE i = 1 BY <1>2, <3>1, <3>2
    <3>3. CASE i # 1
      <4>1. i - 1 \in 1..Len(s) - 1 /\ (i - 1) + 1 = i BY <1>2, <3>1, <3>3
      <4>2. t[i - 1] = y BY <1>4, <3>1, <4>1
      <4> QED BY <1>3, <4>1, <4>2
    <3> QED BY <3>2, <3>3
  <2>2. ASSUME NEW y \in Range(t) PROVE y \in Range(s)
    <3>1. PICK i \in 1..Len(s) - 1 : t[i] = y BY <1>3
    <3>2. i + 1 \in 1..Len(s) /\ s[i + 1] = y BY <1>2, <1>4, <3>1
    <3> QED BY <1>3, <3>2
  <2>3. Head(s) \in Range(s) BY <1>2, <1>3
  <2> QED BY <2>1, <2>2, <2>3
<1>6. ASSUME Distinct(s) PROVE Distinct(t) /\ Head(s) \notin Range(t)
  <2>1. Distinct(t)
    <3>1. SUFFICES ASSUME NEW i \in 1..Len(s) - 1, NEW j \in 1..Len(s) - 1, t[i] = t[j]
                   PROVE  i = j
      BY <1>1 DEF Distinct, t
    <3>2. i + 1 \in 1..Len(s) /\ j + 1 \in 1..Len(s) /\ s[i + 1] = s[j + 1]
      BY <1>2, <1>4, <3>1
    <3>3. i + 1 = j + 1 BY <1>6, <3>2 DEF Distinct
    <3> QED BY <1>2, <3>3
  <2>2. ASSUME Head(s) \in Range(t) PROVE FALSE
    <3>1. PICK i \in 1..Len(s) - 1 : t[i] = Head(s) BY <1>3, <2>2
    <3>2. 1 \in 1..Len(s) /\ i + 1 \in 1..Len(s) /\ s[i + 1] = s[1]
      BY <1>2, <1>4, <3>1
    <3>3. i + 1 = 1 BY <1>6, <3>2 DEF Distinct
    <3> QED BY <1>2, <3>1, <3>3
  <2> QED BY <2>1, <2>2
<1> QED BY <1>1, <1>2, <1>5, <1>6 DEF t

\* Appending to the order keeps it, and puts the new one behind all others.
LEMMA PrecedesAppended ==
    ASSUME NEW S, NEW p \in Seq(S), NEW x \in S
    PROVE  /\ \A a, b : Precedes(a, b, p) => Precedes(a, b, Append(p, x))
           /\ \A a \in Range(p) : Precedes(a, x, Append(p, x))
           /\ \A s : Ordered(s, p) => Ordered(s, Append(p, x))
<1> DEFINE q == Append(p, x)
<1>1. /\ Len(p) \in Nat /\ Len(q) = Len(p) + 1 /\ q[Len(p) + 1] = x
      /\ \A i \in 1..Len(p) : q[i] = p[i]
  BY SetOf, AppendProperties
<1> HIDE DEF q
<1>2. ASSUME NEW a, NEW b, Precedes(a, b, p) PROVE Precedes(a, b, q)
  <2>1. PICK i, j \in 1..Len(p) : i < j /\ p[i] = a /\ p[j] = b BY <1>2 DEF Precedes
  <2>2. i \in 1..Len(q) /\ j \in 1..Len(q) /\ q[i] = a /\ q[j] = b BY <1>1, <2>1
  <2> QED BY <2>1, <2>2 DEF Precedes
<1>3. ASSUME NEW a \in Range(p) PROVE Precedes(a, x, q)
  <2>1. PICK i \in 1..Len(p) : p[i] = a BY SetOf
  <2>2. i \in 1..Len(q) /\ Len(q) \in 1..Len(q) /\ i < Len(q) /\ q[i] = a /\ q[Len(q)] = x
    BY <1>1, <2>1
  <2> QED BY <2>2 DEF Precedes
<1>4. ASSUME NEW s, Ordered(s, p) PROVE Ordered(s, q) BY <1>2, <1>4 DEF Ordered
<1> QED BY <1>2, <1>3, <1>4 DEF q

LEMMA OrderedAppended ==
    ASSUME NEW S, NEW s \in Seq(S), NEW x \in S, NEW p, Ordered(s, p),
           \A a \in Range(s) : Precedes(a, x, p)
    PROVE  Ordered(Append(s, x), p)
<1> DEFINE t == Append(s, x)
<1>1. /\ Len(s) \in Nat /\ Len(t) = Len(s) + 1 /\ t[Len(s) + 1] = x
      /\ \A i \in 1..Len(s) : t[i] = s[i] /\ s[i] \in Range(s)
  <2>1. \A i \in 1..Len(s) : s[i] \in Range(s) BY SetOf
  <2> QED BY <2>1, SetOf, AppendProperties
<1> HIDE DEF t
<1>2. ASSUME NEW i \in 1..Len(t), NEW j \in 1..Len(t), i < j PROVE Precedes(t[i], t[j], p)
  <2>1. i \in 1..Len(s) BY <1>1, <1>2
  <2>2. CASE j = Len(s) + 1 BY <1>1, <2>1, <2>2
  <2>3. CASE j # Len(s) + 1
    <3>1. j \in 1..Len(s) BY <1>1, <2>3
    <3> QED BY <1>1, <1>2, <2>1, <3>1 DEF Ordered
  <2> QED BY <2>2, <2>3
<1> QED BY <1>2 DEF Ordered, t

LEMMA OrderedPopped ==
    ASSUME NEW S, NEW s \in Seq(S), s # <<>>, NEW p, Ordered(s, p)
    PROVE  Ordered(Tail(s), p) /\ \A a \in Range(Tail(s)) : Precedes(Head(s), a, p)
<1> DEFINE t == Tail(s)
<1>1. /\ Len(s) \in Nat \ {0} /\ t \in Seq(S) /\ Len(t) = Len(s) - 1 /\ Head(s) = s[1]
      /\ \A i \in 1..Len(s) - 1 : t[i] = s[i + 1]
  BY Popped
<1> HIDE DEF t
<1>2. ASSUME NEW i \in 1..Len(t), NEW j \in 1..Len(t), i < j PROVE Precedes(t[i], t[j], p)
  <2>1. i + 1 \in 1..Len(s) /\ j + 1 \in 1..Len(s) /\ i + 1 < j + 1 BY <1>1, <1>2
  <2>2. Precedes(s[i + 1], s[j + 1], p) BY <2>1 DEF Ordered
  <2> QED BY <1>1, <2>2
<1>3. ASSUME NEW a \in Range(t) PROVE Precedes(Head(s), a, p)
  <2>1. PICK i \in 1..Len(t) : t[i] = a BY <1>1, SetOf
  <2>2. 1 \in 1..Len(s) /\ i + 1 \in 1..Len(s) /\ 1 < i + 1 /\ s[i + 1] = a BY <1>1, <2>1
  <2> QED BY <1>1, <2>2 DEF Ordered
<1> QED BY <1>2, <1>3 DEF Ordered, t

------------------------------------------------------------------------------
(* The jobs on their way from the queue to the game thread.                 *)

\* The jobs in the hands of the drain that is past the guard, and where it is.
Held == IF frames = <<>> THEN <<>> ELSE frames[1].jobs

Place == IF frames = <<>> THEN "none" ELSE frames[1].at

Tracked == Range(inner) \cup Range(Held)

\* The job that runs.
Started == IF Place = "job" THEN {Head(Held)} ELSE {}

\* Every job is in one place, once.
HeldInv ==
    /\ Place \in {"none", "swap", "take"} => Held = <<>>
    /\ Distinct(inner) /\ Distinct(Held)
    /\ Range(inner) \cap Range(Held) = {}

\* What became of each call.
FateInv == \A c \in Calls :
    /\ c \in Range(pushed) <=> pc[c] \notin {"idle", "lock"} /\ result[c] # "full"
    /\ c \in Tracked <=> c \in Range(pushed) /\ reply[c] = "empty"
    /\ reply[c] # "empty" => c \in Range(pushed)
    /\ c \in Range(log) => c \in Range(pushed)
    /\ c \in Started <=> c \in Range(log) /\ reply[c] = "empty"
    /\ result[c] # "none" <=> pc[c] = "done"

\* The order in which calls were pushed runs through the log, the jobs in hand
\* and the queue.
OrderInv ==
    /\ Ordered(inner, pushed) /\ Ordered(Held, pushed) /\ Ordered(log, pushed)
    /\ \A c \in Range(Held), d \in Range(inner) : Precedes(c, d, pushed)
    /\ \A c \in Range(log), d \in Tracked \ Started : Precedes(c, d, pushed)

JInv == HeldInv /\ FateInv /\ OrderInv

\* The step leaves the jobs where they are.
LEMMA QuietKeeps ==
    ASSUME JInv, UNCHANGED <<inner, pushed, log, reply>>, Held' = Held, Started' = Started,
           Place' \in {"none", "swap", "take"} => Held = <<>>,
           \A c \in Calls :
             /\ pc'[c] \notin {"idle", "lock"} /\ result'[c] # "full" <=>
                  pc[c] \notin {"idle", "lock"} /\ result[c] # "full"
             /\ result'[c] # "none" <=> pc'[c] = "done"
    PROVE  JInv'
<1>1. Tracked' = Tracked BY DEF Tracked
<1>2. HeldInv' BY DEF JInv, HeldInv, Distinct
<1>3. FateInv' BY <1>1 DEF JInv, FateInv
<1>4. OrderInv' BY <1>1 DEF JInv, OrderInv
<1> QED BY <1>2, <1>3, <1>4 DEF JInv

\* What the sequences hold.
LEMMA HeldFacts ==
    ASSUME IInv
    PROVE  /\ inner \in Seq(Calls) /\ Held \in Seq(Calls)
           /\ pushed \in Seq(Calls) /\ log \in Seq(Calls)
           /\ Range(inner) \subseteq Calls /\ Range(Held) \subseteq Calls
           /\ Tracked \subseteq Calls
<1>1. inner \in Seq(Calls) /\ pushed \in Seq(Calls) /\ log \in Seq(Calls) BY DEF IInv, TypeOK
<1>2. Held \in Seq(Calls)
  <2>1. CASE frames = <<>> BY <2>1, EmptySeq DEF Held
  <2>2. CASE frames # <<>>
    <3>1. Len(frames) \in Nat \ {0} BY <2>2, TopFrame DEF IInv
    <3>2. 1 \in 1..Len(frames) BY <3>1
    <3>3. frames[1] \in Frame BY <3>2, ElementOfSeq DEF IInv, TypeOK
    <3> QED BY <2>2, <3>3 DEF Held, Frame
  <2> QED BY <2>1, <2>2
<1>3. Range(inner) \subseteq Calls BY <1>1, SetOf
<1>4. Range(Held) \subseteq Calls BY <1>2, SetOf
<1> QED BY <1>1, <1>2, <1>3, <1>4 DEF Tracked

\* A drain that is past the guard, or finds it open, has the held jobs.
LEMMA HeldByTop ==
    ASSUME IInv, frames # <<>>, Top.at # "swap" \/ ~draining
    PROVE  Len(frames) = 1 /\ Held = Top.jobs /\ Place = Top.at
<1>1. Len(frames) = 1 /\ frames[1] = Top BY LoneDrain
<1> QED BY <1>1 DEF Held, Place

LEMMA RetopHeld ==
    ASSUME IInv, frames # <<>>, Len(frames) = 1, NEW f \in Frame, Retop(f)
    PROVE  Held' = f.jobs /\ Place' = f.at
<1>1. frames' # <<>> /\ Len(frames') = 1 /\ Top' = f BY RetopStack DEF IInv
<1>2. frames'[1] = f BY <1>1 DEF Top
<1> QED BY <1>1, <1>2 DEF Held, Place

LEMMA JInitially == Init => JInv
<1> SUFFICES ASSUME Init PROVE JInv OBVIOUS
<1>1. /\ inner = <<>> /\ Held = <<>> /\ Place = "none" /\ pushed = <<>> /\ log = <<>>
      /\ <<>> \in Seq(Calls)
  BY EmptySeq DEF Init, Held, Place
<1>2. Range(<<>>) = {} BY <1>1, SetOf
<1>3. Tracked = {} /\ Started = {} BY <1>1, <1>2 DEF Tracked, Started
<1>4. HeldInv BY <1>1, <1>2 DEF HeldInv, Distinct
<1>5. FateInv BY <1>1, <1>2, <1>3 DEF Init, FateInv
<1>6. OrderInv
  <2>1. \A p : Ordered(<<>>, p)
    <3>1. Len(<<>>) = 0 OBVIOUS
    <3> QED BY <3>1 DEF Ordered
  <2> QED BY <1>1, <1>2, <1>3, <2>1 DEF OrderInv
<1> QED BY <1>4, <1>5, <1>6 DEF JInv

------------------------------------------------------------------------------
(* The callers.                                                             *)

\* A call is pushed behind all the others.
LEMMA PushKeeps ==
    ASSUME IInv, JInv, NEW c \in Calls, EnqueuePush(c)
    PROVE  /\ JInv' /\ c \notin Range(pushed) /\ reply[c] = "empty" /\ c \notin Range(log)
           /\ Range(pushed') = Range(pushed) \cup {c}
<1>1. /\ inner' = Append(inner, c) /\ pushed' = Append(pushed, c)
      /\ pc' = [pc EXCEPT ![c] = "pushed"] /\ pc[c] = "lock"
      /\ UNCHANGED <<frames, reply, result, log>>
  BY DEF EnqueuePush, gvars
<1>2. /\ Held' = Held /\ Place' = Place /\ Started' = Started
  BY <1>1 DEF Held, Place, Started
<1>3. c \notin Range(pushed) /\ reply[c] = "empty" /\ c \notin Range(log) /\ c \notin Tracked
      /\ c \notin Started /\ result[c] = "none"
  BY <1>1 DEF JInv, FateInv
<1>4. /\ Range(inner') = Range(inner) \cup {c}
      /\ Distinct(inner) /\ c \notin Range(inner) => Distinct(inner')
  BY <1>1, HeldFacts, Appended
<1>5. Range(pushed') = Range(pushed) \cup {c} BY <1>1, HeldFacts, Appended
<1>6. Tracked' = Tracked \cup {c} BY <1>2, <1>4 DEF Tracked
<1>7. /\ \A a, b : Precedes(a, b, pushed) => Precedes(a, b, pushed')
      /\ \A a \in Range(pushed) : Precedes(a, c, pushed')
      /\ \A s : Ordered(s, pushed) => Ordered(s, pushed')
  BY <1>1, HeldFacts, PrecedesAppended
<1>8. Range(inner) \cup Range(Held) \cup Range(log) \subseteq Range(pushed)
  <2>1. Range(log) \subseteq Calls BY HeldFacts, SetOf
  <2> QED BY <2>1, HeldFacts DEF JInv, FateInv, Tracked
<1>9. HeldInv'
  <2>1. Distinct(inner)' BY <1>3, <1>4 DEF JInv, HeldInv, Tracked, Distinct
  <2>2. Distinct(Held)' BY <1>2 DEF JInv, HeldInv, Distinct
  <2>3. Range(inner') \cap Range(Held') = {} BY <1>2, <1>3, <1>4 DEF JInv, HeldInv, Tracked
  <2> QED BY <1>2, <2>1, <2>2, <2>3 DEF JInv, HeldInv
<1>10. FateInv'
  <2>1. pc \in [Calls -> {"idle", "lock", "pushed", "wait", "expired", "done"}]
    BY DEF IInv, TypeOK
  <2> QED BY <1>1, <1>2, <1>3, <1>5, <1>6, <2>1 DEF JInv, FateInv
<1>11. OrderInv'
  <2>1. Ordered(inner, pushed') /\ Ordered(Held, pushed') /\ Ordered(log, pushed')
    BY <1>7 DEF JInv, OrderInv
  <2>2. \A a \in Range(inner) : Precedes(a, c, pushed') BY <1>7, <1>8
  <2>3. Ordered(inner', pushed')
    BY <1>1, <2>1, <2>2, HeldFacts, OrderedAppended
  <2>4. \A a \in Range(Held'), b \in Range(inner') : Precedes(a, b, pushed')
    BY <1>2, <1>4, <1>7, <1>8 DEF JInv, OrderInv
  <2>5. \A a \in Range(log'), b \in Tracked' \ Started' : Precedes(a, b, pushed')
    BY <1>1, <1>2, <1>6, <1>7, <1>8 DEF JInv, OrderInv
  <2> QED BY <1>1, <1>2, <2>1, <2>3, <2>4, <2>5 DEF OrderInv
<1> QED BY <1>3, <1>5, <1>9, <1>10, <1>11 DEF JInv

\* The other steps of a caller touch no job.
LEMMA CallerKeeps ==
    ASSUME IInv, JInv, NEW c \in Calls,
           \/ Invoke(c) \/ EnqueueReject(c) \/ EnqueuePublish(c)
           \/ ReceiveReply(c) \/ ReceiveFails(c) \/ GiveUp(c)
    PROVE  JInv' /\ UNCHANGED <<inner, pushed, log, reply, frames>>
<1>1. UNCHANGED <<inner, pushed, log, reply, frames>>
  BY DEF Invoke, EnqueueReject, EnqueuePublish, ReceiveReply, ReceiveFails, GiveUp,
         qvars, gvars, hvars
<1>2. Held' = Held /\ Place' = Place /\ Started' = Started BY <1>1 DEF Held, Place, Started
<1>3. /\ pc \in [Calls -> {"idle", "lock", "pushed", "wait", "expired", "done"}]
      /\ result \in [Calls -> {"none", "full", "timeout"} \cup Outcomes]
      /\ reply[c] \in {"empty", "closed"} \cup Outcomes
  BY DEF IInv, TypeOK
<1>4. \A d \in Calls : result[d] # "none" <=> pc[d] = "done" BY DEF JInv, FateInv
<1>5. \A d \in Calls :
        /\ pc'[d] \notin {"idle", "lock"} /\ result'[d] # "full" <=>
             pc[d] \notin {"idle", "lock"} /\ result[d] # "full"
        /\ result'[d] # "none" <=> pc'[d] = "done"
  <2>1. CASE Invoke(c) BY <1>3, <1>4, <2>1 DEF Invoke
  <2>2. CASE EnqueueReject(c) BY <1>3, <1>4, <2>2 DEF EnqueueReject
  <2>3. CASE EnqueuePublish(c) BY <1>3, <1>4, <2>3 DEF EnqueuePublish
  <2>4. CASE ReceiveReply(c) BY <1>3, <1>4, <2>4 DEF ReceiveReply, Outcomes
  <2>5. CASE ReceiveFails(c) BY <1>3, <1>4, <2>5 DEF ReceiveFails
  <2>6. CASE GiveUp(c) BY <1>3, <1>4, <2>6 DEF GiveUp
  <2> QED BY <2>1, <2>2, <2>3, <2>4, <2>5, <2>6
<1>6. Place' \in {"none", "swap", "take"} => Held = <<>> BY <1>2 DEF JInv, HeldInv
<1> QED BY <1>1, <1>2, <1>5, <1>6, QuietKeeps

------------------------------------------------------------------------------
(* The game thread.                                                         *)

\* Steps that move no job.
LEMMA DrainKeeps ==
    ASSUME IInv, JInv,
           \/ DrainCall \/ DrainReentered \/ DrainEnter
           \/ DrainZero \/ DrainCheck \/ DrainFinish
    PROVE  /\ JInv' /\ Held' = Held /\ UNCHANGED <<pushed, log, reply, result>>
           /\ Place' = "checked" => Place = "checked" \/ DrainCheck
<1>1. UNCHANGED <<inner, pushed, log, reply, pc, result>>
  BY DEF DrainCall, DrainReentered, DrainEnter, DrainZero, DrainCheck, DrainFinish,
         qvars, cvars, hvars
<1>2. /\ Held' = Held /\ Started' = Started
      /\ Place' \in {"none", "swap", "take"} => Held = <<>>
      /\ Place' = "checked" => Place = "checked" \/ DrainCheck
  <2>1. CASE DrainCall
    <3> DEFINE f == [at |-> "swap", jobs |-> <<>>, peak |-> 0, count |-> 0]
    <3>1. f \in Frame BY EmptySeq DEF Frame
    <3>2. frames \in Seq(Frame) BY DEF IInv, TypeOK
    <3>3. frames' = Append(frames, f) BY <2>1 DEF DrainCall
    <3>4. f.jobs = <<>> /\ f.at = "swap" OBVIOUS
    <3> HIDE DEF f
    <3>5. /\ Len(frames) \in Nat /\ frames' # <<>> /\ frames'[Len(frames) + 1] = f
          /\ \A i \in 1..Len(frames) : frames'[i] = frames[i]
      BY <3>1, <3>2, <3>3, AppendProperties, LenProperties
    <3>6. CASE frames = <<>>
      <4>1. frames'[1] = f BY <3>5, <3>6
      <4> QED BY <3>4, <3>5, <3>6, <4>1 DEF Held, Place, Started
    <3>7. CASE frames # <<>>
      <4>1. Len(frames) = 1 /\ frames[1].at = "job"
        BY <2>1, <3>7, LoneDrain DEF DrainCall, AtTop
      <4>2. frames'[1] = frames[1] BY <3>5, <4>1
      <4> QED BY <3>5, <3>7, <4>1, <4>2 DEF Held, Place, Started
    <3> QED BY <3>6, <3>7
  <2>2. CASE DrainReentered \/ DrainFinish
    <3>1. frames # <<>> /\ frames' = Front(frames) BY <2>2 DEF DrainReentered, DrainFinish, AtTop
    <3>2. /\ Len(frames') = Len(frames) - 1 /\ frames' \in Seq(Frame)
          /\ \A i \in 1..(Len(frames) - 1) : frames'[i] = frames[i]
      BY <3>1, PopStack DEF IInv
    <3>3. CASE Len(frames) = 1 /\ frames[1] = Top
      <4>1. frames' = <<>> BY <3>2, <3>3, EmptySeq
      <4>2. Held = <<>> /\ Place # "job"
        BY <2>2, <3>1, <3>3 DEF DrainReentered, DrainFinish, AtTop, Held, Place, JInv, HeldInv
      <4> QED BY <4>1, <4>2 DEF Held, Place, Started
    <3>4. CASE Len(frames) = 2 /\ frames[1].at = "job"
      <4>1. Len(frames') = 1 /\ frames'[1] = frames[1] BY <3>2, <3>4
      <4>2. frames' # <<>> BY <4>1
      <4> QED BY <3>1, <3>4, <4>1, <4>2 DEF Held, Place, Started
    <3> QED BY <3>1, <3>3, <3>4, StackCases
  <2>3. CASE DrainEnter \/ DrainZero \/ DrainCheck
    <3>1. frames # <<>> /\ (Top.at # "swap" \/ ~draining)
      BY <2>3 DEF DrainEnter, DrainZero, DrainCheck, AtTop
    <3>2. Len(frames) = 1 /\ Held = Top.jobs /\ Place = Top.at /\ Top \in Frame
      BY <3>1, HeldByTop, TopFrame DEF IInv
    <3>3. PICK q \in {"take", "next", "checked"} :
            Retop([Top EXCEPT !.at = q]) /\ (q = "take" => Top.at = "swap")
            /\ Top.at # "job" /\ (q = "checked" => DrainCheck)
      BY <2>3 DEF DrainEnter, DrainZero, DrainCheck, AtTop
    <3>4. [Top EXCEPT !.at = q] \in Frame BY <3>2 DEF Frame
    <3>5. Held' = Top.jobs /\ Place' = q
      BY <3>1, <3>2, <3>3, <3>4, RetopHeld DEF Frame
    <3> QED BY <3>2, <3>3, <3>5 DEF Started, JInv, HeldInv
  <2> QED BY <2>1, <2>2, <2>3
<1>3. \A d \in Calls : result'[d] # "none" <=> pc'[d] = "done" BY <1>1 DEF JInv, FateInv
<1> QED BY <1>1, <1>2, <1>3, QuietKeeps

\* The drain takes the whole queue.
LEMMA TakeKeeps ==
    ASSUME IInv, JInv, DrainTake
    PROVE  JInv' /\ Place' # "checked" /\ UNCHANGED <<pushed, log, reply, result>>
<1> DEFINE f == [Top EXCEPT !.at = "zero", !.jobs = inner, !.peak = Len(inner)]
<1>1. /\ frames # <<>> /\ Top.at = "take" /\ inner' = <<>>
      /\ UNCHANGED <<pushed, log, reply, pc, result>> /\ Retop(f)
  BY DEF DrainTake, AtTop, cvars, hvars
<1>2. Len(frames) = 1 /\ Place = "take" /\ Held = <<>>
  BY <1>1, HeldByTop DEF JInv, HeldInv
<1>3. f \in Frame /\ f.at = "zero" /\ f.jobs = inner
  <2>1. Len(inner) \in Nat BY HeldFacts, SetOf
  <2>2. Top \in Frame BY <1>1, TopFrame DEF IInv
  <2> QED BY <2>1, <2>2, HeldFacts DEF Frame
<1> HIDE DEF f
<1>4. Held' = inner /\ Place' = "zero" BY <1>1, <1>2, <1>3, RetopHeld
<1>5. Range(<<>>) = {} /\ Len(<<>>) = 0 /\ Started = {} /\ Started' = {}
  BY <1>2, <1>4, HeldFacts, SetOf DEF Started
<1>6. Tracked' = Tracked BY <1>1, <1>2, <1>4, <1>5 DEF Tracked
<1>7. HeldInv' BY <1>1, <1>4, <1>5 DEF JInv, HeldInv, Distinct
<1>8. FateInv' BY <1>1, <1>5, <1>6 DEF JInv, FateInv
<1>9. OrderInv' BY <1>1, <1>4, <1>5, <1>6 DEF JInv, OrderInv, Ordered
<1> QED BY <1>1, <1>4, <1>7, <1>8, <1>9 DEF JInv

\* The first of the held jobs leaves: skipped, or run and answered.
LEMMA HeadLeaves ==
    ASSUME IInv, JInv, Held # <<>>, Held' = Tail(Held), Place' = "next",
           Place \in {"next", "job"},
           UNCHANGED <<inner, pushed, log, pc, result>>,
           NEW v, v # "empty", reply' = [reply EXCEPT ![Head(Held)] = v]
    PROVE  /\ JInv' /\ Head(Held) \in Calls
           /\ Head(Held) \in Range(pushed) /\ reply[Head(Held)] = "empty"
           /\ Head(Held) \in Range(log) <=> Place = "job"
<1> DEFINE h == Head(Held)
<1>1. /\ h \in Calls /\ Range(Held) = {h} \cup Range(Held') /\ h \notin Range(Held')
      /\ Distinct(Held')
  BY HeldFacts, Popped DEF JInv, HeldInv
<1>2. h \in Tracked /\ h \notin Range(inner) BY <1>1 DEF Tracked, JInv, HeldInv
<1>3. Tracked' = Tracked \ {h} BY <1>1, <1>2 DEF Tracked
<1>4. Started' = {} /\ Started = IF Place = "job" THEN {h} ELSE {} BY DEF Started
<1>5. h \in Range(pushed) /\ reply[h] = "empty" /\ (h \in Range(log) <=> Place = "job")
  BY <1>1, <1>2, <1>4 DEF JInv, FateInv
<1>6. Ordered(Held', pushed) BY HeldFacts, OrderedPopped DEF JInv, OrderInv
<1>7. reply'[h] = v /\ \A c \in Calls \ {h} : reply'[c] = reply[c]
  BY <1>1 DEF IInv, TypeOK
<1> HIDE DEF h
<1>8. HeldInv' BY <1>1 DEF JInv, HeldInv, Distinct
<1>9. FateInv' BY <1>3, <1>4, <1>5, <1>7 DEF JInv, FateInv
<1>10. OrderInv'
  <2>1. \A c \in Range(Held'), d \in Range(inner) : Precedes(c, d, pushed)
    BY <1>1 DEF JInv, OrderInv
  <2>2. \A c \in Range(log), d \in Tracked' \ Started' : Precedes(c, d, pushed)
    BY <1>3, <1>4 DEF JInv, OrderInv
  <2> QED BY <1>6, <2>1, <2>2 DEF JInv, OrderInv
<1> QED BY <1>1, <1>5, <1>8, <1>9, <1>10 DEF JInv, h

LEMMA SkipKeeps ==
    ASSUME IInv, JInv, DrainSkip
    PROVE  /\ JInv' /\ Place' # "checked" /\ Held # <<>> /\ Head(Held) \in Calls
           /\ Head(Held) \in Range(pushed) /\ reply[Head(Held)] = "empty"
           /\ Head(Held) \notin Range(log)
           /\ reply' = [reply EXCEPT ![Head(Held)] = "closed"]
           /\ UNCHANGED <<pushed, log, result>>
<1> DEFINE f == [Top EXCEPT !.jobs = Tail(Top.jobs)]
<1>1. /\ frames # <<>> /\ Top.at = "next" /\ Top.jobs # <<>> /\ Retop(f)
      /\ reply' = [reply EXCEPT ![Head(Top.jobs)] = "closed"]
      /\ UNCHANGED <<inner, pushed, log, pc, result>>
  BY DEF DrainSkip, AtTop, qvars, hvars
<1>2. Len(frames) = 1 /\ Held = Top.jobs /\ Place = "next" BY <1>1, HeldByTop
<1>3. f \in Frame /\ f.at = "next" /\ f.jobs = Tail(Held)
  <2>1. Top \in Frame BY <1>1, TopFrame DEF IInv
  <2>2. Tail(Held) \in Seq(Calls) BY <1>1, <1>2, HeldFacts, Popped
  <2> QED BY <1>1, <1>2, <2>1, <2>2 DEF Frame
<1> HIDE DEF f
<1>4. Held' = Tail(Held) /\ Place' = "next" BY <1>1, <1>2, <1>3, RetopHeld
<1>5. /\ JInv' /\ Head(Held) \in Calls
      /\ Head(Held) \in Range(pushed) /\ reply[Head(Held)] = "empty"
      /\ Head(Held) \in Range(log) <=> Place = "job"
  BY <1>1, <1>2, <1>4, HeadLeaves
<1> QED BY <1>1, <1>2, <1>4, <1>5

LEMMA ReturnKeeps ==
    ASSUME IInv, JInv, JobReturn
    PROVE  /\ JInv' /\ Place' # "checked" /\ Held # <<>> /\ Head(Held) \in Calls
           /\ Head(Held) \in Range(pushed) /\ reply[Head(Held)] = "empty"
           /\ Head(Held) \in Range(log)
           /\ \E o \in Outcomes : reply' = [reply EXCEPT ![Head(Held)] = o]
           /\ UNCHANGED <<pushed, log, result>>
<1> DEFINE f == [Top EXCEPT !.at = "next", !.jobs = Tail(Top.jobs), !.count = @ + 1]
<1>1. /\ frames # <<>> /\ Top.at = "job" /\ Retop(f)
      /\ \E o \in Outcomes : reply' = [reply EXCEPT ![Head(Top.jobs)] = o]
      /\ UNCHANGED <<inner, pushed, log, pc, result>>
  BY DEF JobReturn, AtTop, qvars, hvars
<1>2. /\ Len(frames) = 1 /\ Held = Top.jobs /\ Place = "job"
      /\ Held # <<>> /\ Tail(Held) \in Seq(Calls)
  BY <1>1, HeldByTop, TopHasJob DEF AtTop
<1>3. f \in Frame /\ f.at = "next" /\ f.jobs = Tail(Held)
  <2>1. Top \in Frame BY <1>1, TopFrame DEF IInv
  <2>2. Top.count + 1 \in Nat BY <2>1 DEF Frame
  <2> QED BY <1>2, <2>1, <2>2 DEF Frame
<1> HIDE DEF f
<1>4. Held' = Tail(Held) /\ Place' = "next" BY <1>1, <1>2, <1>3, RetopHeld
<1>5. PICK o \in Outcomes : reply' = [reply EXCEPT ![Head(Held)] = o] BY <1>1, <1>2
<1>6. o # "empty" BY DEF Outcomes
<1>7. /\ JInv' /\ Head(Held) \in Calls
      /\ Head(Held) \in Range(pushed) /\ reply[Head(Held)] = "empty"
      /\ Head(Held) \in Range(log) <=> Place = "job"
  BY <1>1, <1>2, <1>4, <1>5, <1>6, HeadLeaves
<1> QED BY <1>1, <1>2, <1>4, <1>5, <1>7

LEMMA StartKeeps ==
    ASSUME IInv, JInv, JobStart
    PROVE  /\ JInv' /\ Held # <<>> /\ Head(Held) \in Calls /\ Place = "checked"
           /\ Place' # "checked"
           /\ Head(Held) \in Range(pushed) /\ reply[Head(Held)] = "empty"
           /\ Head(Held) \notin Range(log) /\ Started = {}
           /\ Range(log') = Range(log) \cup {Head(Held)}
           /\ UNCHANGED <<pushed, reply, result>>
<1> DEFINE f == [Top EXCEPT !.at = "job"]
           h == Head(Held)
<1>1. /\ frames # <<>> /\ Top.at = "checked" /\ Retop(f)
      /\ log' = Append(log, Head(Top.jobs))
      /\ UNCHANGED <<inner, pushed, reply, pc, result>>
  BY DEF JobStart, AtTop, qvars, cvars
<1>2. /\ Len(frames) = 1 /\ Held = Top.jobs /\ Place = "checked" /\ Held # <<>>
  BY <1>1, HeldByTop, TopHasJob DEF AtTop
<1>3. f \in Frame /\ f.at = "job" /\ f.jobs = Held
  <2>1. Top \in Frame BY <1>1, TopFrame DEF IInv
  <2> QED BY <1>2, <2>1 DEF Frame
<1> HIDE DEF f
<1>4. Held' = Held /\ Place' = "job" BY <1>1, <1>2, <1>3, RetopHeld
<1>5. Started = {} /\ Started' = {h} /\ Tracked' = Tracked
  BY <1>1, <1>2, <1>4 DEF Started, Tracked
<1>6. h \in Calls /\ Range(Held) = {h} \cup Range(Tail(Held)) BY <1>2, HeldFacts, Popped
<1>7. h \in Tracked BY <1>6 DEF Tracked
<1>8. h \in Range(pushed) /\ reply[h] = "empty" /\ h \notin Range(log)
  BY <1>5, <1>6, <1>7 DEF JInv, FateInv
<1>9. log' = Append(log, h) BY <1>1, <1>2
<1>10. Range(log') = Range(log) \cup {h} BY <1>6, <1>9, HeldFacts, Appended
<1>11. \A a \in Range(Tail(Held)) : Precedes(h, a, pushed)
  BY <1>2, HeldFacts, OrderedPopped DEF JInv, OrderInv
<1> HIDE DEF h
<1>12. HeldInv' BY <1>1, <1>4 DEF JInv, HeldInv, Distinct
<1>13. FateInv' BY <1>1, <1>5, <1>8, <1>10 DEF JInv, FateInv
<1>14. OrderInv'
  <2>1. \A a \in Range(log) : Precedes(a, h, pushed) BY <1>5, <1>7 DEF JInv, OrderInv
  <2>2. Ordered(log', pushed)
    <3>1. Ordered(log, pushed) BY DEF JInv, OrderInv
    <3> QED BY <1>6, <1>9, <2>1, <3>1, HeldFacts, OrderedAppended
  <2>3. ASSUME NEW a \in Range(log'), NEW b \in Tracked \ {h} PROVE Precedes(a, b, pushed)
    <3>1. CASE a # h BY <1>5, <1>10, <2>3, <3>1 DEF JInv, OrderInv
    <3>2. CASE a = h
      <4>1. h \in Range(Held) BY <1>6
      <4>2. b \in Range(inner) \/ b \in Range(Tail(Held)) BY <1>6, <2>3 DEF Tracked
      <4> QED BY <1>11, <3>2, <4>1, <4>2 DEF JInv, OrderInv
    <3> QED BY <3>1, <3>2
  <2> QED BY <1>1, <1>4, <1>5, <2>2, <2>3 DEF JInv, OrderInv
<1> QED BY <1>1, <1>2, <1>4, <1>5, <1>6, <1>8, <1>10, <1>12, <1>13, <1>14 DEF JInv, h

\* A panic drops all that the drain holds.
LEMMA PanicKeeps ==
    ASSUME IInv, JInv, JobPanic
    PROVE  /\ JInv' /\ Place' # "checked" /\ Range(Held) # {} /\ Range(Held) \subseteq Calls
           /\ \A c \in Range(Held) : c \in Range(pushed) /\ reply[c] = "empty"
           /\ reply' = [c \in Calls |-> IF c \in Range(Held) THEN "closed" ELSE reply[c]]
           /\ UNCHANGED <<pushed, log, result>>
<1>1. /\ frames # <<>> /\ Top.at = "job" /\ frames' = <<>>
      /\ reply' = [c \in Calls |-> IF c \in Range(Top.jobs) THEN "closed" ELSE reply[c]]
      /\ UNCHANGED <<inner, pushed, log, pc, result>>
  BY DEF JobPanic, AtTop, qvars
<1>2. Held = Top.jobs /\ Place = "job" /\ Held # <<>>
  BY <1>1, HeldByTop, TopHasJob DEF AtTop
<1>3. Held' = <<>> /\ Place' = "none" /\ Started' = {} BY <1>1 DEF Held, Place, Started
<1>4. Range(<<>>) = {} /\ Len(<<>>) = 0 /\ <<>> \in Seq(Calls) BY EmptySeq, SetOf
<1>5. Range(Held) # {} /\ Head(Held) \in Range(Held)
  <2>1. Range(Held) = {Head(Held)} \cup Range(Tail(Held)) BY <1>2, HeldFacts, Popped
  <2> QED BY <2>1
<1>6. Tracked' = Range(inner) BY <1>1, <1>3, <1>4 DEF Tracked
<1>7. Started = {Head(Held)} BY <1>2 DEF Started
<1>8. \A c \in Range(Held) : c \in Range(pushed) /\ reply[c] = "empty"
  BY HeldFacts DEF JInv, FateInv, Tracked
<1>9. \A c \in Calls : reply'[c] = IF c \in Range(Held) THEN "closed" ELSE reply[c]
  BY <1>1, <1>2
<1>10. HeldInv' BY <1>1, <1>3, <1>4 DEF JInv, HeldInv, Distinct
<1>11. Range(inner) \cap Range(Held) = {} BY DEF JInv, HeldInv
<1>12. FateInv'
  BY <1>1, <1>3, <1>5, <1>6, <1>7, <1>8, <1>9, <1>11 DEF JInv, FateInv, Tracked
<1>13. OrderInv'
  <2>1. \A c \in Range(log), d \in Range(inner) : Precedes(c, d, pushed)
    BY <1>5, <1>7, <1>11 DEF JInv, OrderInv, Tracked
  <2> QED BY <1>1, <1>3, <1>4, <1>6, <2>1 DEF JInv, OrderInv, Ordered
<1> QED BY <1>1, <1>2, <1>3, <1>5, <1>8, <1>10, <1>12, <1>13, HeldFacts DEF JInv

------------------------------------------------------------------------------
(* What follows.                                                            *)

\* The steps of Next, in the groups of the lemmas above.
LEMMA NextCases ==
    ASSUME Next
    PROVE  \/ \E c \in Calls :
                \/ EnqueuePush(c)
                \/ Invoke(c) \/ EnqueueReject(c) \/ EnqueuePublish(c)
                \/ ReceiveReply(c) \/ ReceiveFails(c) \/ GiveUp(c)
           \/ DrainCall \/ DrainReentered \/ DrainEnter
           \/ DrainZero \/ DrainCheck \/ DrainFinish
           \/ DrainTake \/ DrainSkip \/ JobStart \/ JobReturn \/ JobPanic
BY DEF Next, Caller, GameStep

LEMMA StutterKeeps ==
    ASSUME JInv, UNCHANGED vars PROVE JInv' /\ Held' = Held /\ Place' = Place
<1>1. UNCHANGED <<inner, pushed, log, reply, pc, result, frames>>
  BY DEF vars, qvars, cvars, gvars, hvars
<1>2. Held' = Held /\ Place' = Place /\ Started' = Started BY <1>1 DEF Held, Place, Started
<1>3. Place' \in {"none", "swap", "take"} => Held = <<>> BY <1>2 DEF JInv, HeldInv
<1>4. \A d \in Calls : result'[d] # "none" <=> pc'[d] = "done" BY <1>1 DEF JInv, FateInv
<1> QED BY <1>1, <1>2, <1>3, <1>4, QuietKeeps

\* JInv holds in every state.
THEOREM JobsInvariance == Spec => []JInv
<1>1. IInv /\ JInv /\ [Next]_vars => JInv'
  <2> SUFFICES ASSUME IInv, JInv, [Next]_vars PROVE JInv' OBVIOUS
  <2>1. CASE Next
    BY <2>1, NextCases, PushKeeps, CallerKeeps, DrainKeeps, TakeKeeps, SkipKeeps,
       StartKeeps, ReturnKeeps, PanicKeeps
  <2>2. CASE UNCHANGED vars BY <2>2, StutterKeeps
  <2> QED BY <2>1, <2>2
<1> QED BY <1>1, JInitially, Invariance, PTL DEF Spec

\* No job is lost or kept twice: the reply channel of a pushed call is open
\* exactly as long as its job is in the queue or in a drain's hands.
THEOREM NoJobIsLost == Spec => []NoneLost
<1>1. IInv /\ JInv => NoneLost
  <2> SUFFICES ASSUME IInv, JInv PROVE NoneLost OBVIOUS
  <2>1. frames \in Seq(Frame) /\ Len(frames) \in Nat BY LenProperties DEF IInv, TypeOK
  <2>2. Range(<<>>) = {}
    <3>1. <<>> \in Seq(Calls) BY EmptySeq
    <3> QED BY <3>1, SetOf
  <2>3. UNION {Range(frames[i].jobs) : i \in 1..Len(frames)} = Range(Held)
    <3>1. CASE frames = <<>> BY <2>2, <3>1 DEF Held
    <3>2. CASE Len(frames) = 1 /\ frames # <<>> BY <3>2 DEF Held
    <3>3. CASE Len(frames) = 2 /\ frames # <<>> /\ frames[2].jobs = <<>>
      BY <2>2, <3>3 DEF Held
    <3> QED BY <3>1, <3>2, <3>3, StackCases
  <2>4. Pending = Tracked BY <2>3 DEF Pending, Tracked
  <2>5. Range(pushed) \subseteq Calls BY HeldFacts, SetOf
  <2> QED BY <2>4, <2>5 DEF NoneLost, JInv, FateInv
<1> QED BY <1>1, Invariance, JobsInvariance, PTL

\* Jobs start in the order in which they were pushed.
THEOREM JobsStartInOrder == Spec => []StartedInOrder
<1>1. IInv /\ JInv => StartedInOrder
  <2> SUFFICES ASSUME IInv, JInv PROVE StartedInOrder OBVIOUS
  <2>1. Range(log) \subseteq Calls BY HeldFacts, SetOf
  <2>2. Range(log) \subseteq Range(pushed) BY <2>1 DEF JInv, FateInv
  <2> QED BY <2>2 DEF StartedInOrder, JInv, OrderInv, Ordered
<1> QED BY <1>1, Invariance, JobsInvariance, PTL

\* Cancelled, never started, and not past the look at its flag.
Doomed(c) ==
    cancelled[c] /\ c \notin Range(log) /\ ~(Place = "checked" /\ Head(Held) = c)

LEMMA CancelDooms ==
    ASSUME IInv, JInv, NEW c \in Calls, cancelled[c], c \in Range(inner)
    PROVE  Doomed(c)
<1>1. ASSUME Place \in {"checked", "job"} PROVE Head(Held) \in Range(Held)
  <2>1. frames # <<>> /\ frames[1].at = Place /\ Held = frames[1].jobs
    BY <1>1 DEF Place, Held
  <2>2. Len(frames) \in Nat \ {0} BY <2>1, TopFrame DEF IInv
  <2>3. Held # <<>> BY <1>1, <2>1, <2>2 DEF IInv, StackInv
  <2>4. Range(Held) = {Head(Held)} \cup Range(Tail(Held)) BY <2>3, HeldFacts, Popped
  <2> QED BY <2>4
<1>2. c \notin Range(Held) BY DEF JInv, HeldInv
<1>3. c \notin Started BY <1>1, <1>2 DEF Started
<1>4. c \in Tracked BY DEF Tracked
<1>5. c \notin Range(log) BY <1>3, <1>4 DEF JInv, FateInv
<1> QED BY <1>1, <1>2, <1>5 DEF Doomed

LEMMA DoomedStays ==
    ASSUME IInv, JInv, NEW c \in Calls, Doomed(c), [Next]_vars
    PROVE  Doomed(c)'
<1>0. cancelled \in [Calls -> BOOLEAN] BY DEF IInv, TypeOK
<1>1. CASE \E d \in Calls : EnqueuePush(d) \/ Invoke(d) \/ EnqueueReject(d)
             \/ EnqueuePublish(d) \/ ReceiveReply(d) \/ ReceiveFails(d) \/ GiveUp(d)
  <2>1. UNCHANGED <<frames, log>> /\ \A e \in Calls : cancelled[e] => cancelled'[e]
    BY <1>0, <1>1 DEF EnqueuePush, Invoke, EnqueueReject, EnqueuePublish, ReceiveReply,
                      ReceiveFails, GiveUp, gvars, hvars
  <2> QED BY <2>1 DEF Doomed, Held, Place
<1>2. CASE DrainCall \/ DrainReentered \/ DrainEnter \/ DrainZero \/ DrainCheck \/ DrainFinish
  <2>1. /\ Held' = Held /\ log' = log
        /\ Place' = "checked" => Place = "checked" \/ DrainCheck
    BY <1>2, DrainKeeps
  <2>2. cancelled' = cancelled
    BY <1>2 DEF DrainCall, DrainReentered, DrainEnter, DrainZero, DrainCheck, DrainFinish, cvars
  <2>3. DrainCheck => Head(Held) # c
    <3>1. SUFFICES ASSUME DrainCheck PROVE Head(Held) # c OBVIOUS
    <3>2. frames # <<>> /\ Top.at = "next" /\ ~cancelled[Head(Top.jobs)]
      BY <3>1 DEF DrainCheck, AtTop
    <3>3. Held = Top.jobs BY <3>2, HeldByTop
    <3> QED BY <3>2, <3>3 DEF Doomed
  <2> QED BY <2>1, <2>2, <2>3 DEF Doomed
<1>3. CASE DrainTake \/ DrainSkip \/ JobReturn \/ JobPanic
  <2>1. UNCHANGED <<cancelled, log>>
    BY <1>3 DEF DrainTake, DrainSkip, JobReturn, JobPanic, cvars, hvars
  <2>2. Place' # "checked" BY <1>3, TakeKeeps, SkipKeeps, ReturnKeeps, PanicKeeps
  <2> QED BY <2>1, <2>2 DEF Doomed
<1>4. CASE JobStart
  <2>1. /\ Place = "checked" /\ Place' # "checked"
        /\ Range(log') = Range(log) \cup {Head(Held)}
    BY <1>4, StartKeeps
  <2>2. cancelled' = cancelled BY <1>4 DEF JobStart, cvars
  <2> QED BY <2>1, <2>2 DEF Doomed
<1>5. CASE UNCHANGED vars
  <2>1. Held' = Held /\ Place' = Place BY <1>5, StutterKeeps
  <2>2. UNCHANGED <<cancelled, log>> BY <1>5 DEF vars, cvars, hvars
  <2> QED BY <2>1, <2>2 DEF Doomed
<1> QED BY <1>1, <1>2, <1>3, <1>4, <1>5, NextCases

\* A call that is cancelled while its job is in the queue never runs.
THEOREM CancelledNeverRun == Spec => CancelledStaysUnrun
<1>1. ASSUME NEW c \in Calls
      PROVE  Spec => [](cancelled[c] /\ c \in Range(inner) => [](c \notin Range(log)))
  <2>1. IInv /\ JInv => (cancelled[c] /\ c \in Range(inner) => Doomed(c)) BY CancelDooms
  <2>2. IInv /\ JInv /\ Doomed(c) /\ [Next]_vars => Doomed(c)' BY DoomedStays
  <2>3. Doomed(c) => c \notin Range(log) BY DEF Doomed
  <2> QED BY <2>1, <2>2, <2>3, Invariance, JobsInvariance, PTL DEF Spec
<1> QED BY <1>1 DEF CancelledStaysUnrun

------------------------------------------------------------------------------
(* The refinement.                                                          *)

LEMMA InitRefines == Init => Call!Init
<1> SUFFICES ASSUME Init PROVE Call!Init OBVIOUS
<1>1. Range(<<>>) = {}
  <2>1. <<>> \in Seq(Calls) BY EmptySeq
  <2> QED BY <2>1, SetOf
<1>2. \A c \in Calls : PhaseOf(c) = "new" BY <1>1 DEF Init, PhaseOf
<1>3. \A c \in Calls : AnswerOf(c) = "none" BY DEF Init, AnswerOf
<1> QED BY <1>2, <1>3 DEF Call!Init

\* What a step does to one call, for JobCall.
Unmoved(c) == PhaseOf(c)' = PhaseOf(c) /\ AnswerOf(c)' = AnswerOf(c)

LEMMA NotMoved ==
    ASSUME NEW c \in Calls, c \in Range(pushed') <=> c \in Range(pushed),
           c \in Range(log') <=> c \in Range(log),
           reply'[c] = reply[c], result'[c] = result[c]
    PROVE  Unmoved(c)
BY DEF Unmoved, PhaseOf, AnswerOf

LEMMA NobodyMoves ==
    ASSUME \A c \in Calls : Unmoved(c)
    PROVE  UNCHANGED <<[c \in Calls |-> PhaseOf(c)], [c \in Calls |-> AnswerOf(c)]>>
<1>1. \A c \in Calls : PhaseOf(c)' = PhaseOf(c) BY DEF Unmoved
<1>2. \A c \in Calls : AnswerOf(c)' = AnswerOf(c) BY DEF Unmoved
<1>3. [c \in Calls |-> PhaseOf(c)]' = [c \in Calls |-> PhaseOf(c)] BY <1>1
<1>4. [c \in Calls |-> AnswerOf(c)]' = [c \in Calls |-> AnswerOf(c)] BY <1>2
<1> QED BY <1>3, <1>4

LEMMA OnePhaseMoves ==
    ASSUME NEW c \in Calls, NEW v, PhaseOf(c)' = v, AnswerOf(c)' = AnswerOf(c),
           \A d \in Calls \ {c} : Unmoved(d)
    PROVE  /\ [d \in Calls |-> PhaseOf(d)]' = [[d \in Calls |-> PhaseOf(d)] EXCEPT ![c] = v]
           /\ UNCHANGED [d \in Calls |-> AnswerOf(d)]
<1>1. \A d \in Calls : PhaseOf(d)' = IF d = c THEN v ELSE PhaseOf(d) BY DEF Unmoved
<1>2. \A d \in Calls : AnswerOf(d)' = AnswerOf(d) BY DEF Unmoved
<1>3. [d \in Calls |-> PhaseOf(d)]' = [[d \in Calls |-> PhaseOf(d)] EXCEPT ![c] = v] BY <1>1
<1>4. UNCHANGED [d \in Calls |-> AnswerOf(d)] BY <1>2
<1> QED BY <1>3, <1>4

LEMMA OneAnswerMoves ==
    ASSUME NEW c \in Calls, NEW v, AnswerOf(c)' = v, PhaseOf(c)' = PhaseOf(c),
           \A d \in Calls \ {c} : Unmoved(d)
    PROVE  /\ [d \in Calls |-> AnswerOf(d)]' = [[d \in Calls |-> AnswerOf(d)] EXCEPT ![c] = v]
           /\ UNCHANGED [d \in Calls |-> PhaseOf(d)]
<1>1. \A d \in Calls : AnswerOf(d)' = IF d = c THEN v ELSE AnswerOf(d) BY DEF Unmoved
<1>2. \A d \in Calls : PhaseOf(d)' = PhaseOf(d) BY DEF Unmoved
<1>3. [d \in Calls |-> AnswerOf(d)]' = [[d \in Calls |-> AnswerOf(d)] EXCEPT ![c] = v] BY <1>1
<1>4. UNCHANGED [d \in Calls |-> PhaseOf(d)] BY <1>2
<1> QED BY <1>3, <1>4

\* What JInv and the types say of one call.
LEMMA CallFacts ==
    ASSUME IInv, JInv, NEW c \in Calls
    PROVE  /\ c \in Range(pushed) <=> pc[c] \notin {"idle", "lock"} /\ result[c] # "full"
           /\ reply[c] # "empty" => c \in Range(pushed)
           /\ c \in Range(log) => c \in Range(pushed)
           /\ c \in Started <=> c \in Range(log) /\ reply[c] = "empty"
           /\ result[c] # "none" <=> pc[c] = "done"
           /\ reply[c] \in {"empty", "closed"} \cup Outcomes
           /\ pc \in [Calls -> {"idle", "lock", "pushed", "wait", "expired", "done"}]
           /\ reply \in [Calls -> {"empty", "closed"} \cup Outcomes]
           /\ result \in [Calls -> {"none", "full", "timeout"} \cup Outcomes]
           /\ "empty" \notin Outcomes /\ "closed" \notin Outcomes
           /\ Outcomes = Call!Outcomes
BY DEF IInv, TypeOK, JInv, FateInv, Outcomes, Call!Outcomes

LEMMA PushSubmits ==
    ASSUME IInv, JInv, NEW c \in Calls, EnqueuePush(c) PROVE Call!Submit(c)
<1>1. /\ c \notin Range(pushed) /\ reply[c] = "empty" /\ c \notin Range(log)
      /\ Range(pushed') = Range(pushed) \cup {c} /\ UNCHANGED <<reply, result, log>>
      /\ pc[c] = "lock"
  BY PushKeeps DEF EnqueuePush
<1>2. PhaseOf(c) = "new" /\ PhaseOf(c)' = "queued" BY <1>1, CallFacts DEF PhaseOf
<1>3. AnswerOf(c) = "none" /\ AnswerOf(c)' = AnswerOf(c) BY <1>1, CallFacts DEF AnswerOf
<1>4. ASSUME NEW d \in Calls \ {c} PROVE Unmoved(d) BY <1>1, NotMoved
<1> QED BY <1>2, <1>3, <1>4, OnePhaseMoves DEF Call!Submit

LEMMA CallerRefines ==
    ASSUME IInv, JInv, NEW c \in Calls,
           \/ Invoke(c) \/ EnqueueReject(c) \/ EnqueuePublish(c)
           \/ ReceiveReply(c) \/ ReceiveFails(c) \/ GiveUp(c)
    PROVE  \/ Call!Refuse(c) \/ Call!Answer(c) \/ Call!GiveUp(c)
           \/ UNCHANGED <<[d \in Calls |-> PhaseOf(d)], [d \in Calls |-> AnswerOf(d)]>>
<1>1. UNCHANGED <<pushed, log, reply>> BY CallerKeeps
<1>2. CASE result' = result
  <2>1. \A d \in Calls : Unmoved(d) BY <1>1, <1>2, NotMoved
  <2> QED BY <2>1, NobodyMoves
<1>3. PhaseOf(c)' = PhaseOf(c) BY <1>1 DEF PhaseOf
<1>4. ASSUME NEW r, r # "none", result' = [result EXCEPT ![c] = r], pc[c] # "done"
      PROVE  /\ AnswerOf(c) = "none"
             /\ [d \in Calls |-> AnswerOf(d)]'
                  = [[d \in Calls |-> AnswerOf(d)] EXCEPT
                       ![c] = IF r = "timeout" THEN "gave_up" ELSE r]
             /\ UNCHANGED [d \in Calls |-> PhaseOf(d)]
  <2>1. AnswerOf(c) = "none" BY <1>4, CallFacts DEF AnswerOf
  <2>2. result'[c] = r BY <1>4, CallFacts
  <2>3. AnswerOf(c)' = IF r = "timeout" THEN "gave_up" ELSE r BY <2>2 DEF AnswerOf
  <2>4. ASSUME NEW d \in Calls \ {c} PROVE Unmoved(d)
    <3>1. result'[d] = result[d] BY <1>4, CallFacts
    <3> QED BY <1>1, <3>1, NotMoved
  <2> QED BY <1>3, <2>1, <2>3, <2>4, OneAnswerMoves
<1>5. CASE EnqueueReject(c)
  <2>1. pc[c] = "lock" /\ result' = [result EXCEPT ![c] = "full"] BY <1>5 DEF EnqueueReject
  <2>2. PhaseOf(c) = "new" BY <2>1, CallFacts DEF PhaseOf
  <2> QED BY <1>4, <2>1, <2>2 DEF Call!Refuse
<1>6. CASE ReceiveReply(c)
  <2>1. pc[c] = "wait" /\ reply[c] \in Outcomes /\ result' = [result EXCEPT ![c] = reply[c]]
    BY <1>6 DEF ReceiveReply
  <2>2. PhaseOf(c) = reply[c] BY <2>1, CallFacts DEF PhaseOf
  <2>3. reply[c] # "none" /\ reply[c] # "timeout" BY <2>1 DEF Outcomes
  <2> QED BY <1>4, <2>1, <2>2, <2>3, CallFacts DEF Call!Answer
<1>7. CASE GiveUp(c)
  <2>1. pc[c] = "expired" /\ result' = [result EXCEPT ![c] = "timeout"] BY <1>7 DEF GiveUp
  <2>2. c \in Range(pushed) BY <2>1, CallFacts
  <2>3. PhaseOf(c) # "new" BY <2>2 DEF PhaseOf, Outcomes
  <2> QED BY <1>4, <2>1, <2>3 DEF Call!GiveUp
<1> QED BY <1>2, <1>5, <1>6, <1>7 DEF Invoke, EnqueuePublish, ReceiveFails

LEMMA StartBegins ==
    ASSUME IInv, JInv, JobStart PROVE \E c \in Calls : Call!Begin(c)
<1>0. PICK c \in Calls : c = Head(Held) BY StartKeeps
<1>1. /\ c \in Range(pushed) /\ reply[c] = "empty"
      /\ c \notin Range(log) /\ Started = {}
      /\ Range(log') = Range(log) \cup {c} /\ UNCHANGED <<pushed, reply, result>>
  BY <1>0, StartKeeps
<1>2. PhaseOf(c) = "queued" /\ PhaseOf(c)' = "running" BY <1>1, CallFacts DEF PhaseOf
<1>3. ASSUME NEW d \in Calls PROVE PhaseOf(d) # "running"
  BY <1>1, <1>3, CallFacts DEF PhaseOf, Outcomes
<1>4. AnswerOf(c)' = AnswerOf(c) BY <1>1 DEF AnswerOf
<1>5. ASSUME NEW d \in Calls \ {c} PROVE Unmoved(d) BY <1>1, NotMoved
<1> QED BY <1>1, <1>2, <1>3, <1>4, <1>5, OnePhaseMoves DEF Call!Begin

LEMMA ReturnFinishes ==
    ASSUME IInv, JInv, JobReturn PROVE \E c \in Calls : Call!Finish(c)
<1>0. PICK c \in Calls : c = Head(Held) BY ReturnKeeps
<1>1. /\ c \in Range(pushed) /\ reply[c] = "empty" /\ c \in Range(log)
      /\ \E o \in Outcomes : reply' = [reply EXCEPT ![c] = o]
      /\ UNCHANGED <<pushed, log, result>>
  BY <1>0, ReturnKeeps
<1>2. PICK o \in Outcomes : reply' = [reply EXCEPT ![c] = o] BY <1>1
<1>3. reply'[c] = o /\ \A d \in Calls \ {c} : reply'[d] = reply[d] BY <1>1, <1>2, CallFacts
<1>4. PhaseOf(c) = "running" /\ PhaseOf(c)' = o BY <1>1, <1>3, CallFacts DEF PhaseOf
<1>5. AnswerOf(c)' = AnswerOf(c) BY <1>1 DEF AnswerOf
<1>6. ASSUME NEW d \in Calls \ {c} PROVE Unmoved(d) BY <1>1, <1>3, NotMoved
<1>7. o \in Call!Outcomes BY <1>1, CallFacts
<1> QED BY <1>1, <1>4, <1>5, <1>6, <1>7, OnePhaseMoves DEF Call!Finish

\* A skip drops one job, a panic all that the drain holds.
LEMMA LossDrops ==
    ASSUME IInv, JInv, DrainSkip \/ JobPanic PROVE \E S \in SUBSET Calls : Call!Drop(S)
<1>1. PICK S \in SUBSET Calls :
        /\ S # {} /\ \A c \in S : c \in Range(pushed) /\ reply[c] = "empty"
        /\ \A c \in Calls : reply'[c] = IF c \in S THEN "closed" ELSE reply[c]
        /\ UNCHANGED <<pushed, log, result>>
  <2>1. CASE DrainSkip
    <3>1. /\ Head(Held) \in Calls /\ Head(Held) \in Range(pushed) /\ reply[Head(Held)] = "empty"
          /\ reply' = [reply EXCEPT ![Head(Held)] = "closed"]
          /\ UNCHANGED <<pushed, log, result>>
      BY <2>1, SkipKeeps
    <3>2. \A c \in Calls : reply'[c] = IF c \in {Head(Held)} THEN "closed" ELSE reply[c]
      BY <3>1, CallFacts
    <3>3. {Head(Held)} \in SUBSET Calls BY <3>1
    <3> QED BY <3>1, <3>2, <3>3
  <2>2. CASE JobPanic
    <3>1. /\ Range(Held) # {} /\ Range(Held) \subseteq Calls
          /\ \A c \in Range(Held) : c \in Range(pushed) /\ reply[c] = "empty"
          /\ reply' = [c \in Calls |-> IF c \in Range(Held) THEN "closed" ELSE reply[c]]
          /\ UNCHANGED <<pushed, log, result>>
      BY <2>2, PanicKeeps
    <3> QED BY <3>1
  <2> QED BY <2>1, <2>2
<1>2. \A c \in S : PhaseOf(c) \in {"queued", "running"} BY <1>1, CallFacts DEF PhaseOf
<1>3. \A c \in Calls : PhaseOf(c)' = IF c \in S THEN "dropped" ELSE PhaseOf(c)
  BY <1>1 DEF PhaseOf
<1>4. \A c \in Calls : AnswerOf(c)' = AnswerOf(c) BY <1>1 DEF AnswerOf
<1>5. UNCHANGED [c \in Calls |-> AnswerOf(c)] BY <1>4
<1>6. [c \in Calls |-> PhaseOf(c)]'
        = [c \in Calls |-> IF c \in S THEN "dropped" ELSE [d \in Calls |-> PhaseOf(d)][c]]
  BY <1>3
<1> QED BY <1>1, <1>2, <1>5, <1>6 DEF Call!Drop

LEMMA StepRefines ==
    ASSUME IInv, JInv, [Next]_vars
    PROVE  [Call!Next]_<<[c \in Calls |-> PhaseOf(c)], [c \in Calls |-> AnswerOf(c)]>>
<1>1. ASSUME NEW c \in Calls, EnqueuePush(c) PROVE Call!Next
  BY <1>1, PushSubmits DEF Call!Next
<1>2. ASSUME NEW c \in Calls,
             \/ Invoke(c) \/ EnqueueReject(c) \/ EnqueuePublish(c)
             \/ ReceiveReply(c) \/ ReceiveFails(c) \/ GiveUp(c)
      PROVE  [Call!Next]_<<[d \in Calls |-> PhaseOf(d)], [d \in Calls |-> AnswerOf(d)]>>
  BY <1>2, CallerRefines DEF Call!Next
<1>3. CASE JobStart BY <1>3, StartBegins DEF Call!Next
<1>4. CASE JobReturn BY <1>4, ReturnFinishes DEF Call!Next
<1>5. CASE DrainSkip \/ JobPanic BY <1>5, LossDrops DEF Call!Next
<1>6. CASE \/ DrainCall \/ DrainReentered \/ DrainEnter
           \/ DrainZero \/ DrainCheck \/ DrainFinish \/ DrainTake \/ UNCHANGED vars
  <2>1. UNCHANGED <<pushed, log, reply, result>>
    BY <1>6, DrainKeeps, TakeKeeps DEF vars, cvars, hvars
  <2>2. \A c \in Calls : Unmoved(c) BY <2>1, NotMoved
  <2> QED BY <2>2, NobodyMoves
<1> QED BY <1>1, <1>2, <1>3, <1>4, <1>5, <1>6, NextCases

\* A call through this queue is a call of JobCall: its job runs at most once,
\* not beside another nor after a refusal, and the answer is the job's outcome.
THEOREM Refinement == Spec => ImplementsJobCall
<1>1. IInv /\ JInv /\ [Next]_vars =>
        [Call!Next]_<<[c \in Calls |-> PhaseOf(c)], [c \in Calls |-> AnswerOf(c)]>>
  BY StepRefines
<1> QED BY <1>1, InitRefines, Invariance, JobsInvariance, PTL
      DEF Spec, ImplementsJobCall, Call!Spec

\* One step of the abstract call, said of what the mapping says before and
\* after it, keeps what JobCall promises.
LEMMA StepKeepsPromise ==
    ASSUME Call!TypeOK, Call!Promise,
           [Call!Next]_<<[c \in Calls |-> PhaseOf(c)], [c \in Calls |-> AnswerOf(c)]>>
    PROVE  (Call!TypeOK /\ Call!Promise)'
<1>t. /\ \A c \in Calls : PhaseOf(c) \in Call!Phases /\ AnswerOf(c) \in Call!Answers
      /\ \A c, d \in Calls : PhaseOf(c) = "running" /\ PhaseOf(d) = "running" => c = d
      /\ \A c \in Calls : AnswerOf(c) \in Call!Outcomes => PhaseOf(c) = AnswerOf(c)
      /\ \A c \in Calls : AnswerOf(c) = "full" => PhaseOf(c) = "new"
  BY DEF Call!TypeOK, Call!Promise
<1>k. ASSUME /\ \A c \in Calls : PhaseOf(c)' \in Call!Phases /\ AnswerOf(c)' \in Call!Answers
             /\ \A c, d \in Calls : PhaseOf(c)' = "running" /\ PhaseOf(d)' = "running" => c = d
             /\ \A c \in Calls : AnswerOf(c)' \in Call!Outcomes => PhaseOf(c)' = AnswerOf(c)'
             /\ \A c \in Calls : AnswerOf(c)' = "full" => PhaseOf(c)' = "new"
      PROVE  (Call!TypeOK /\ Call!Promise)'
  BY <1>k DEF Call!TypeOK, Call!Promise, Call!Phases, Call!Answers, Call!Outcomes
<1>1. ASSUME NEW e \in Calls, Call!Submit(e) \/ Call!Begin(e) \/ Call!Finish(e)
      PROVE  (Call!TypeOK /\ Call!Promise)'
  <2>1. /\ \A c \in Calls : AnswerOf(c)' = AnswerOf(c)
        /\ \A c \in Calls \ {e} : PhaseOf(c)' = PhaseOf(c)
    BY <1>1 DEF Call!Submit, Call!Begin, Call!Finish
  <2>2. \/ /\ PhaseOf(e) = "new" /\ AnswerOf(e) = "none" /\ PhaseOf(e)' = "queued"
        \/ /\ PhaseOf(e) = "queued" /\ PhaseOf(e)' = "running"
           /\ \A c \in Calls : PhaseOf(c) # "running"
        \/ /\ PhaseOf(e) = "running" /\ PhaseOf(e)' \in Call!Outcomes
    BY <1>1 DEF Call!Submit, Call!Begin, Call!Finish
  <2> QED BY <1>t, <1>k, <2>1, <2>2 DEF Call!Phases, Call!Answers, Call!Outcomes
<1>2. ASSUME NEW e \in Calls, Call!Refuse(e) \/ Call!Answer(e) \/ Call!GiveUp(e)
      PROVE  (Call!TypeOK /\ Call!Promise)'
  <2>1. /\ \A c \in Calls : PhaseOf(c)' = PhaseOf(c)
        /\ \A c \in Calls \ {e} : AnswerOf(c)' = AnswerOf(c)
    BY <1>2 DEF Call!Refuse, Call!Answer, Call!GiveUp
  <2>2. \/ PhaseOf(e) = "new" /\ AnswerOf(e)' = "full"
        \/ PhaseOf(e) \in Call!Outcomes /\ AnswerOf(e)' = PhaseOf(e)
        \/ AnswerOf(e)' = "gave_up"
    BY <1>2 DEF Call!Refuse, Call!Answer, Call!GiveUp
  <2> QED BY <1>t, <1>k, <2>1, <2>2 DEF Call!Phases, Call!Answers, Call!Outcomes
<1>3. ASSUME NEW S \in SUBSET Calls, Call!Drop(S)
      PROVE  (Call!TypeOK /\ Call!Promise)'
  <2>1. /\ \A c \in Calls : AnswerOf(c)' = AnswerOf(c)
        /\ \A c \in Calls \ S : PhaseOf(c)' = PhaseOf(c)
        /\ \A c \in S : PhaseOf(c) \in {"queued", "running"} /\ PhaseOf(c)' = "dropped"
    BY <1>3 DEF Call!Drop
  <2> QED BY <1>t, <1>k, <2>1 DEF Call!Phases, Call!Answers, Call!Outcomes
<1>4. CASE UNCHANGED <<[c \in Calls |-> PhaseOf(c)], [c \in Calls |-> AnswerOf(c)]>>
  BY <1>4 DEF Call!TypeOK, Call!Promise
<1> QED BY <1>1, <1>2, <1>3, <1>4 DEF Call!Next

LEMMA PromiseIsKept == Call!Spec => [](Call!TypeOK /\ Call!Promise)
<1>1. Call!Init => Call!TypeOK /\ Call!Promise
  BY DEF Call!Init, Call!TypeOK, Call!Promise, Call!Phases, Call!Answers, Call!Outcomes
<1> QED BY <1>1, StepKeepsPromise, PTL DEF Call!Spec

\* So jobs of the queue run one at a time, however drains nest and workers
\* race, and what enqueue returns is the outcome of its own job, or the job
\* was refused, or the caller gave up (pe_queue.rs: enqueue, drain).
THEOREM CallersAreToldTrue == Spec => []Call!Promise
<1> QED BY Refinement, PromiseIsKept, PTL DEF ImplementsJobCall
==============================================================================
