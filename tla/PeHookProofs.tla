----------------------------- MODULE PeHookProofs -----------------------------
(***************************************************************************)
(* Proofs about PeHook for any hooks, vtables, engine threads and nesting. *)
(*                                                                         *)
(* That no event reaches the engine twice depends on one thread-local flag *)
(* that every frame of the trampoline shares.  FlagInv says whose it is: a *)
(* frame that has called the original finds the flag set when it is on     *)
(* top, because the next frame above it that entered a handler has saved   *)
(* it, and puts it back when it leaves.                                    *)
(*                                                                         *)
(* Hooks may share a vtable, in any way.  A hook that captured our         *)
(* trampoline stands on another one that is still in place and listed      *)
(* before it (SlotInv), unless that one was taken off first: that is what  *)
(* PeHook's `crossed` remembers.                                           *)
(***************************************************************************)
EXTENDS PeHook, SequenceTheorems, FiniteSetTheorems, TLAPS

\* Flag c serves the frames of s.
FlagsMatch(s, c) ==
    \A i \in 1..Len(s) : s[i].calls = 1 /\ InHandler(s[i]) =>
        /\ (\A k \in (i + 1)..Len(s) : ~InHandler(s[k])) => c = TRUE
        /\ \A j \in (i + 1)..Len(s) :
             InHandler(s[j]) /\ (\A k \in (i + 1)..(j - 1) : ~InHandler(s[k]))
                => s[j].saved = TRUE

FrameInv(f) ==
    /\ f.calls <= 1
    /\ f.at \in {"enter", "found", "count"} => f.calls = 0
    /\ f.at \in {"inner", "pass", "fallback"} => f.calls = 1
    /\ f.at # "enter" => f.h \in Hooks

StackInv == \A t \in Threads :
    /\ Len(stack[t]) <= MaxNest
    /\ \A i \in 1..Len(stack[t]) : FrameInv(stack[t][i])

FlagInv == \A t \in Threads : FlagsMatch(stack[t], called[t])

CallInv == TypeOK /\ StackInv /\ FlagInv /\ ActiveIsExact

\* What a drop writes back was read from the slot.
CapturedInv == \A h \in Hooks : state[h] # "none" => original[h] # "none"

IInv == CallInv /\ CapturedInv

------------------------------------------------------------------------------
(* How a step changes a stack.                                             *)

Fresh(f) == f.at = "enter" /\ f.calls = 0

\* s2 differs from s in the frame on top of s only, which may be gone or have
\* a fresh one above it.
Touches(s, s2) ==
    /\ Len(s2) \in {Len(s) - 1, Len(s), Len(s) + 1}
    /\ \A i \in 1..(Len(s) - 1) : s2[i] = s[i]
    /\ Len(s2) = Len(s) + 1 => Fresh(s2[Len(s2)])

StackStep(t) ==
    /\ stack' \in [Threads -> Seq(Frame)]
    /\ \A u \in Threads \ {t} : stack'[u] = stack[u]
    /\ Touches(stack[t], stack'[t])
    /\ Len(stack'[t]) <= MaxNest

LEMMA TopFrame ==
    ASSUME TypeOK, NEW t \in Threads, stack[t] # <<>>
    PROVE  /\ stack[t] \in Seq(Frame)
           /\ Len(stack[t]) \in Nat \ {0} /\ Len(stack[t]) \in 1..Len(stack[t])
           /\ Top(t) = stack[t][Len(stack[t])]
           /\ Top(t) \in Frame
<1>1. stack[t] \in Seq(Frame) BY DEF TypeOK
<1>2. Len(stack[t]) \in Nat \ {0} BY <1>1, EmptySeq
<1>3. stack[t][Len(stack[t])] \in Frame BY <1>1, <1>2, ElementOfSeq
<1> QED BY <1>1, <1>2, <1>3 DEF Top

LEMMA RetopStep ==
    ASSUME TypeOK, StackInv, NEW t \in Threads, stack[t] # <<>>,
           NEW f \in Frame, Retop(t, f)
    PROVE  StackStep(t) /\ Len(stack'[t]) = Len(stack[t]) /\ stack'[t][Len(stack[t])] = f
<1> DEFINE n == Len(stack[t])
           s == [stack[t] EXCEPT ![n] = f]
<1>1. stack[t] \in Seq(Frame) /\ n \in 1..Len(stack[t]) BY TopFrame
<1>2. /\ s \in Seq(Frame) /\ Len(s) = n
      /\ \A j \in 1..n : s[j] = IF j = n THEN f ELSE stack[t][j]
  BY <1>1, ExceptSeq
<1>3. stack' = [stack EXCEPT ![t] = s] BY DEF Retop
<1>4. n <= MaxNest BY DEF StackInv
<1> HIDE DEF s
<1>5. /\ stack' \in [Threads -> Seq(Frame)] /\ stack'[t] = s
      /\ \A u \in Threads \ {t} : stack'[u] = stack[u]
  BY <1>2, <1>3 DEF TypeOK
<1>6. Touches(stack[t], s) BY <1>1, <1>2 DEF Touches
<1>7. s[n] = f BY <1>1, <1>2
<1> QED BY <1>2, <1>4, <1>5, <1>6, <1>7 DEF StackStep

LEMMA PopStep ==
    ASSUME TypeOK, StackInv, NEW t \in Threads, stack[t] # <<>>, Pop(t)
    PROVE  StackStep(t) /\ Len(stack'[t]) = Len(stack[t]) - 1
<1> DEFINE n == Len(stack[t])
           s == SubSeq(stack[t], 1, n - 1)
<1>1. stack[t] \in Seq(Frame) /\ n \in Nat \ {0} BY TopFrame
<1>2. \A i \in 1..(n - 1) : stack[t][i] \in Frame BY <1>1, ElementOfSeq
<1>3. 1 \in Int /\ n - 1 \in Int BY <1>1
<1>4. /\ s \in Seq(Frame) /\ Len(s) = IF 1 <= n - 1 THEN n - 1 - 1 + 1 ELSE 0
      /\ \A i \in 1..(n - 1 - 1 + 1) : s[i] = stack[t][1 + i - 1]
  BY <1>2, <1>3, SubSeqProperties
<1>5. Len(s) = n - 1 /\ \A i \in 1..(n - 1) : s[i] = stack[t][i] BY <1>1, <1>4
<1>6. stack' = [stack EXCEPT ![t] = s] BY DEF Pop, Front
<1>7. n <= MaxNest BY DEF StackInv
<1> HIDE DEF s
<1>8. /\ stack' \in [Threads -> Seq(Frame)] /\ stack'[t] = s
      /\ \A u \in Threads \ {t} : stack'[u] = stack[u]
  BY <1>4, <1>6 DEF TypeOK
<1>9. Touches(stack[t], s) BY <1>1, <1>5 DEF Touches
<1>10. n - 1 <= MaxNest BY <1>1, <1>7, HookAssumption
<1> QED BY <1>5, <1>8, <1>9, <1>10 DEF StackStep

LEMMA FreshFrame ==
    ASSUME NEW v \in Vtables PROVE NewFrame(v) \in Frame /\ Fresh(NewFrame(v)) /\ FrameInv(NewFrame(v))
BY DEF NewFrame, Frame, Fresh, FrameInv, HasEntry

LEMMA PushStep ==
    ASSUME TypeOK, StackInv, NEW t \in Threads, NEW v \in Vtables, Len(stack[t]) < MaxNest,
           stack' = [stack EXCEPT ![t] = Append(@, NewFrame(v))]
    PROVE  /\ StackStep(t) /\ Len(stack'[t]) = Len(stack[t]) + 1
           /\ \A i \in 1..Len(stack[t]) : stack'[t][i] = stack[t][i]
           /\ stack'[t][Len(stack[t]) + 1] = NewFrame(v)
<1> DEFINE s == Append(stack[t], NewFrame(v))
<1>1. stack[t] \in Seq(Frame) /\ Len(stack[t]) \in Nat BY DEF TypeOK
<1>2. /\ s \in Seq(Frame) /\ Len(s) = Len(stack[t]) + 1
      /\ \A i \in 1..Len(stack[t]) : s[i] = stack[t][i]
      /\ s[Len(stack[t]) + 1] = NewFrame(v)
  BY <1>1, FreshFrame, AppendProperties
<1> HIDE DEF s
<1>3. /\ stack' \in [Threads -> Seq(Frame)] /\ stack'[t] = s
      /\ \A u \in Threads \ {t} : stack'[u] = stack[u]
  BY <1>2 DEF TypeOK, s
<1>4. Touches(stack[t], s) BY <1>1, <1>2, FreshFrame DEF Touches
<1>5. Len(s) <= MaxNest BY <1>1, <1>2, HookAssumption
<1> QED BY <1>2, <1>3, <1>4, <1>5 DEF StackStep
LEMMA CallStep ==
    ASSUME TypeOK, StackInv, NEW t \in Threads, stack[t] # <<>>,
           NEW place \in {"inner", "pass", "fallback"}, CallOriginal(t, place)
    PROVE  /\ StackStep(t) /\ Len(stack'[t]) >= Len(stack[t])
           /\ stack'[t][Len(stack[t])] = [Top(t) EXCEPT !.at = place, !.calls = @ + 1]
           /\ called' = [called EXCEPT ![t] = TRUE]
           /\ Len(stack'[t]) > Len(stack[t]) =>
                /\ original[Top(t).h] # "engine"
                /\ stack'[t][Len(stack'[t])] = NewFrame(Top(t).v)
<1> DEFINE n == Len(stack[t])
           me == [Top(t) EXCEPT !.at = place, !.calls = @ + 1]
<1>1. stack[t] \in Seq(Frame) /\ n \in Nat \ {0} /\ Top(t) \in Frame BY TopFrame
<1>2. me \in Frame /\ Top(t).v \in Vtables
  <2>1. Top(t).calls + 1 \in Nat /\ Top(t).v \in Vtables BY <1>1 DEF Frame
  <2>2. place \in {"enter", "found", "count", "handler", "inner", "pass", "leave", "fallback"}
    OBVIOUS
  <2> QED BY <1>1, <2>1, <2>2 DEF Frame
<1>3. called' = [called EXCEPT ![t] = TRUE] BY DEF CallOriginal
<1>4. CASE Retop(t, me)
  <2>1. StackStep(t) /\ Len(stack'[t]) = n /\ stack'[t][n] = me BY <1>2, <1>4, RetopStep
  <2> QED BY <1>1, <1>3, <2>1
<1>5. CASE /\ original[Top(t).h] # "engine" /\ n < MaxNest
           /\ stack' = [stack EXCEPT ![t] = Append(Append(Front(@), me), NewFrame(Top(t).v))]
  <2> DEFINE low == SubSeq(stack[t], 1, n - 1)
             mid == Append(low, me)
             top == Append(mid, NewFrame(Top(t).v))
  <2>1. \A i \in 1..(n - 1) : stack[t][i] \in Frame BY <1>1, ElementOfSeq
  <2>2. 1 \in Int /\ n - 1 \in Int BY <1>1
  <2>3. /\ low \in Seq(Frame) /\ Len(low) = IF 1 <= n - 1 THEN n - 1 - 1 + 1 ELSE 0
        /\ \A i \in 1..(n - 1 - 1 + 1) : low[i] = stack[t][1 + i - 1]
    BY <2>1, <2>2, SubSeqProperties
  <2>4. Len(low) = n - 1 /\ \A i \in 1..(n - 1) : low[i] = stack[t][i] BY <1>1, <2>3
  <2>f. Front(stack[t]) = low BY DEF Front
  <2> HIDE DEF low
  <2>5. /\ mid \in Seq(Frame) /\ Len(mid) = Len(low) + 1
        /\ \A i \in 1..Len(low) : mid[i] = low[i]
        /\ mid[Len(low) + 1] = me
    BY <1>2, <2>3, AppendProperties
  <2>m. stack' = [stack EXCEPT ![t] = top] BY <1>5, <2>f
  <2> HIDE DEF mid
  <2>6. /\ top \in Seq(Frame) /\ Len(top) = Len(mid) + 1
        /\ \A i \in 1..Len(mid) : top[i] = mid[i]
        /\ top[Len(mid) + 1] = NewFrame(Top(t).v)
    BY <1>2, <2>5, FreshFrame, AppendProperties
  <2> HIDE DEF top, me
  <2>7. Len(top) = n + 1 /\ top[n] = me /\ \A i \in 1..(n - 1) : top[i] = stack[t][i]
    BY <1>1, <2>4, <2>5, <2>6
  <2>8. Fresh(top[n + 1]) BY <1>1, <1>2, <2>4, <2>5, <2>6, FreshFrame
  <2>9. /\ stack' \in [Threads -> Seq(Frame)] /\ stack'[t] = top
        /\ \A u \in Threads \ {t} : stack'[u] = stack[u]
    BY <2>6, <2>m DEF TypeOK
  <2>10. Touches(stack[t], top) BY <1>1, <2>7, <2>8 DEF Touches
  <2>11. Len(top) <= MaxNest /\ Len(top) >= n BY <1>1, <1>5, <2>7, HookAssumption
  <2>12. top[Len(top)] = NewFrame(Top(t).v) BY <1>1, <2>4, <2>5, <2>6
  <2> QED BY <1>3, <1>5, <2>7, <2>9, <2>10, <2>11, <2>12 DEF StackStep, me
<1> QED BY <1>4, <1>5 DEF CallOriginal

------------------------------------------------------------------------------
(* The frames.                                                             *)

\* It is enough to look at the frame that was on top.
LEMMA StackKeeps ==
    ASSUME TypeOK, StackInv, NEW t \in Threads, StackStep(t),
           LET n == Len(stack[t]) IN n > 0 /\ Len(stack'[t]) >= n => FrameInv(stack'[t][n])
    PROVE  StackInv'
<1> SUFFICES ASSUME NEW u \in Threads
             PROVE  /\ Len(stack'[u]) <= MaxNest
                    /\ \A i \in 1..Len(stack'[u]) : FrameInv(stack'[u][i])
  BY DEF StackInv, FrameInv
<1>1. CASE u # t BY <1>1 DEF StackStep, StackInv
<1>2. CASE u = t
  <2>1. Len(stack[t]) \in Nat /\ Len(stack'[t]) \in Nat BY DEF TypeOK, StackStep
  <2>2. ASSUME NEW i \in 1..Len(stack'[t]) PROVE FrameInv(stack'[t][i])
    <3>1. CASE i < Len(stack[t])
      <4>1. i \in 1..(Len(stack[t]) - 1) /\ i \in 1..Len(stack[t]) BY <2>1, <3>1
      <4>2. stack'[t][i] = stack[t][i] BY <4>1 DEF StackStep, Touches
      <4> QED BY <4>1, <4>2 DEF StackInv
    <3>2. CASE i = Len(stack[t]) BY <2>1, <3>2
    <3>3. CASE i > Len(stack[t])
      <4>1. Len(stack'[t]) = Len(stack[t]) + 1 /\ i = Len(stack'[t])
        BY <2>1, <3>3 DEF StackStep, Touches
      <4>2. Fresh(stack'[t][i]) BY <4>1 DEF StackStep, Touches
      <4> QED BY <4>2 DEF Fresh, FrameInv
    <3> QED BY <2>1, <3>1, <3>2, <3>3
  <2> QED BY <1>2, <2>2 DEF StackStep
<1> QED BY <1>1, <1>2

------------------------------------------------------------------------------
(* The flag.                                                               *)

\* A frame is replaced; what it saved stays, and the flag is set or kept.
LEMMA FlagsKept ==
    ASSUME NEW s \in Seq(Frame), NEW s2 \in Seq(Frame), NEW c, NEW c2,
           FlagsMatch(s, c), Touches(s, s2), Len(s2) >= Len(s),
           LET n == Len(s) IN
               n > 0 =>
                   /\ InHandler(s2[n]) => InHandler(s[n]) /\ s2[n].saved = s[n].saved
                   /\ \/ c2 = TRUE
                      \/ /\ c2 = c
                         /\ InHandler(s[n]) => InHandler(s2[n])
                         /\ s2[n].calls = 1 => s[n].calls = 1,
           Len(s) = 0 => c2 = c
    PROVE  FlagsMatch(s2, c2)
<1> DEFINE n == Len(s)
           m == Len(s2)
<1>1. n \in Nat /\ m \in Nat /\ m \in {n, n + 1} BY DEF Touches
<1>2. m = n + 1 => ~InHandler(s2[m]) /\ s2[m].calls = 0 BY DEF Touches, Fresh, InHandler
<1>3. \A i \in 1..(n - 1) : s2[i] = s[i] BY DEF Touches
<1> SUFFICES ASSUME NEW i \in 1..m, s2[i].calls = 1, InHandler(s2[i])
             PROVE  /\ (\A k \in (i + 1)..m : ~InHandler(s2[k])) => c2 = TRUE
                    /\ \A j \in (i + 1)..m :
                         InHandler(s2[j]) /\ (\A k \in (i + 1)..(j - 1) : ~InHandler(s2[k]))
                            => s2[j].saved = TRUE
  BY DEF FlagsMatch
<1>4. i \in 1..n BY <1>1, <1>2
<1>5. InHandler(s[i]) BY <1>1, <1>3, <1>4
<1>6. \A j \in (i + 1)..m : InHandler(s2[j]) => j \in (i + 1)..n /\ InHandler(s[j])
                                               /\ s2[j].saved = s[j].saved
  BY <1>1, <1>2, <1>3, <1>4
<1>7. i < n => s[i].calls = 1 BY <1>1, <1>3, <1>4
<1>8. ASSUME \A k \in (i + 1)..m : ~InHandler(s2[k]) PROVE c2 = TRUE
  <2>1. CASE c2 = TRUE BY <2>1
  <2>2. CASE /\ c2 = c
             /\ InHandler(s[n]) => InHandler(s2[n])
             /\ s2[n].calls = 1 => s[n].calls = 1
    <3>1. s[i].calls = 1 BY <1>1, <1>4, <1>7, <2>2
    <3>2. \A k \in (i + 1)..n : ~InHandler(s[k]) BY <1>1, <1>3, <1>4, <1>8, <2>2
    <3>3. c = TRUE BY <1>4, <1>5, <3>1, <3>2 DEF FlagsMatch
    <3> QED BY <2>2, <3>3
  <2>3. n > 0 BY <1>1, <1>4
  <2> QED BY <2>1, <2>2, <2>3, Zenon
<1>9. ASSUME NEW j \in (i + 1)..m, InHandler(s2[j]),
             \A k \in (i + 1)..(j - 1) : ~InHandler(s2[k])
      PROVE  s2[j].saved = TRUE
  <2>1. j \in (i + 1)..n /\ InHandler(s[j]) /\ s2[j].saved = s[j].saved BY <1>6, <1>9
  <2>2. s[i].calls = 1 BY <1>1, <1>4, <1>7, <2>1
  <2>3. \A k \in (i + 1)..(j - 1) : ~InHandler(s[k]) BY <1>1, <1>3, <1>4, <1>9, <2>1
  <2>4. s[j].saved = TRUE BY <1>4, <1>5, <2>1, <2>2, <2>3 DEF FlagsMatch
  <2> QED BY <2>1, <2>4
<1> QED BY <1>8, <1>9

LEMMA FlagsSame ==
    ASSUME NEW s \in Seq(Frame), NEW s2 \in Seq(Frame), NEW c,
           FlagsMatch(s, c), Touches(s, s2), Len(s2) >= Len(s),
           Len(s) > 0 => /\ InHandler(s[Len(s)]) <=> InHandler(s2[Len(s)])
                         /\ s2[Len(s)].saved = s[Len(s)].saved
                         /\ s2[Len(s)].calls = s[Len(s)].calls
    PROVE  FlagsMatch(s2, c)
<1>1. LET n == Len(s) IN
        n > 0 =>
          /\ InHandler(s2[n]) => InHandler(s[n]) /\ s2[n].saved = s[n].saved
          /\ \/ c = TRUE
             \/ /\ c = c
                /\ InHandler(s[n]) => InHandler(s2[n])
                /\ s2[n].calls = 1 => s[n].calls = 1
  OBVIOUS
<1> QED BY <1>1, FlagsKept, Zenon

\* A handler is entered: the frame saves the flag, which is cleared.
LEMMA FlagsEntered ==
    ASSUME NEW s \in Seq(Frame), NEW s2 \in Seq(Frame), NEW c, NEW c2,
           FlagsMatch(s, c), Touches(s, s2), Len(s2) = Len(s), Len(s) > 0,
           ~InHandler(s[Len(s)]), s2[Len(s)].calls = 0, s2[Len(s)].saved = c,
           InHandler(s2[Len(s)])
    PROVE  FlagsMatch(s2, c2)
<1> DEFINE n == Len(s)
<1>1. n \in Nat \ {0} /\ Len(s2) = n OBVIOUS
<1>2. \A i \in 1..(n - 1) : s2[i] = s[i] BY DEF Touches
<1> SUFFICES ASSUME NEW i \in 1..n, s2[i].calls = 1, InHandler(s2[i])
             PROVE  /\ (\A k \in (i + 1)..n : ~InHandler(s2[k])) => c2 = TRUE
                    /\ \A j \in (i + 1)..n :
                         InHandler(s2[j]) /\ (\A k \in (i + 1)..(j - 1) : ~InHandler(s2[k]))
                            => s2[j].saved = TRUE
  BY <1>1 DEF FlagsMatch
<1>3. i < n BY <1>1
<1>4. i \in 1..n /\ s[i].calls = 1 /\ InHandler(s[i]) BY <1>1, <1>2, <1>3
<1>5. n \in (i + 1)..n BY <1>1, <1>3
<1>6. ASSUME NEW j \in (i + 1)..n, InHandler(s2[j]),
             \A k \in (i + 1)..(j - 1) : ~InHandler(s2[k])
      PROVE  s2[j].saved = TRUE
  <2>1. \A k \in (i + 1)..(j - 1) : ~InHandler(s[k]) BY <1>1, <1>2, <1>6
  <2>2. CASE j < n
    <3>1. s2[j] = s[j] /\ InHandler(s[j]) BY <1>1, <1>2, <1>6, <2>2
    <3> QED BY <1>4, <2>1, <3>1 DEF FlagsMatch
  <2>3. CASE j = n
    <3>1. \A k \in (i + 1)..n : ~InHandler(s[k]) BY <1>1, <2>1, <2>3
    <3>2. c = TRUE BY <1>4, <3>1 DEF FlagsMatch
    <3> QED BY <2>3, <3>2
  <2>4. j < n \/ j = n BY <1>1
  <2> QED BY <2>2, <2>3, <2>4
<1> QED BY <1>5, <1>6

\* A frame leaves: the flag is what it saved, or as it was if it saved nothing.
LEMMA FlagsLeft ==
    ASSUME NEW s \in Seq(Frame), NEW s2 \in Seq(Frame), NEW c, NEW c2,
           FlagsMatch(s, c), Touches(s, s2), Len(s2) = Len(s) - 1, Len(s) > 0,
           InHandler(s[Len(s)]) => c2 = s[Len(s)].saved,
           ~InHandler(s[Len(s)]) => c2 = c
    PROVE  FlagsMatch(s2, c2)
<1> DEFINE n == Len(s)
<1>1. n \in Nat \ {0} /\ Len(s2) = n - 1 OBVIOUS
<1>2. \A i \in 1..(n - 1) : s2[i] = s[i] BY DEF Touches
<1> SUFFICES ASSUME NEW i \in 1..(n - 1), s2[i].calls = 1, InHandler(s2[i])
             PROVE  /\ (\A k \in (i + 1)..(n - 1) : ~InHandler(s2[k])) => c2 = TRUE
                    /\ \A j \in (i + 1)..(n - 1) :
                         InHandler(s2[j]) /\ (\A k \in (i + 1)..(j - 1) : ~InHandler(s2[k]))
                            => s2[j].saved = TRUE
  BY <1>1 DEF FlagsMatch
<1>3. i \in 1..n /\ s[i].calls = 1 /\ InHandler(s[i]) BY <1>1, <1>2
<1>4. ASSUME \A k \in (i + 1)..(n - 1) : ~InHandler(s2[k]) PROVE c2 = TRUE
  <2>1. \A k \in (i + 1)..(n - 1) : ~InHandler(s[k]) BY <1>1, <1>2, <1>4
  <2>2. n \in (i + 1)..n BY <1>1
  <2>3. CASE InHandler(s[n])
    <3>1. s[n].saved = TRUE BY <1>3, <2>1, <2>2, <2>3 DEF FlagsMatch
    <3> QED BY <2>3, <3>1
  <2>4. CASE ~InHandler(s[n])
    <3>1. \A k \in (i + 1)..n : ~InHandler(s[k]) BY <1>1, <2>1, <2>4
    <3>2. c = TRUE BY <1>3, <3>1 DEF FlagsMatch
    <3> QED BY <2>4, <3>2
  <2> QED BY <2>3, <2>4
<1>5. ASSUME NEW j \in (i + 1)..(n - 1), InHandler(s2[j]),
             \A k \in (i + 1)..(j - 1) : ~InHandler(s2[k])
      PROVE  s2[j].saved = TRUE
  <2>1. \A k \in (i + 1)..(j - 1) : ~InHandler(s[k])
    <3> TAKE k \in (i + 1)..(j - 1)
    <3>1. k \in 1..(n - 1) BY <1>1
    <3>2. s2[k] = s[k] BY <1>2, <3>1
    <3> QED BY <1>5, <3>2
  <2>2. s2[j] = s[j] /\ InHandler(s[j]) /\ j \in (i + 1)..n BY <1>1, <1>2, <1>5
  <2> QED BY <1>3, <2>1, <2>2 DEF FlagsMatch
<1> QED BY <1>4, <1>5

LEMMA FlagKeeps ==
    ASSUME TypeOK, FlagInv, NEW t \in Threads, StackStep(t), FlagsMatch(stack'[t], called'[t]),
           \A u \in Threads \ {t} : called'[u] = called[u]
    PROVE  FlagInv'
<1> SUFFICES ASSUME NEW u \in Threads PROVE FlagsMatch(stack'[u], called'[u])
  BY DEF FlagInv, FlagsMatch, InHandler
<1> QED BY DEF StackStep, FlagInv
------------------------------------------------------------------------------
(* The counters.                                                           *)

\* Frame i of s is a counted call of hook h.
Counts(s, i, h) == i <= Len(s) /\ s[i].h = h /\ InHandler(s[i])

Flying(a, h) == {x \in Threads \X (1..MaxNest) : Counts(a[x[1]], x[2], h)}

\* Only the frame on top of the stack that a step touches can begin or cease
\* to count.
LEMMA FlyingStep ==
    ASSUME NEW a \in [Threads -> Seq(Frame)], NEW b \in [Threads -> Seq(Frame)],
           NEW t \in Threads, NEW h, Len(a[t]) <= MaxNest,
           \A u \in Threads \ {t} : b[u] = a[u], Touches(a[t], b[t])
    PROVE  LET n == Len(a[t])
               x == <<t, n>>
           IN  /\ (n > 0 => (Counts(a[t], n, h) <=> Counts(b[t], n, h)))
                    => Flying(b, h) = Flying(a, h)
               /\ n > 0 /\ ~Counts(a[t], n, h) /\ Counts(b[t], n, h)
                    => Flying(b, h) = Flying(a, h) \cup {x} /\ x \notin Flying(a, h)
               /\ n > 0 /\ Counts(a[t], n, h) /\ ~Counts(b[t], n, h)
                    => Flying(b, h) = Flying(a, h) \ {x} /\ x \in Flying(a, h)
<1> DEFINE n == Len(a[t])
           x == <<t, n>>
<1>1. n \in Nat /\ Len(b[t]) \in Nat /\ (n > 0 => n \in 1..MaxNest) BY HookAssumption
<1>2. ASSUME NEW u \in Threads, NEW i \in 1..MaxNest, ~(u = t /\ i = n)
      PROVE  Counts(a[u], i, h) <=> Counts(b[u], i, h)
  <2>1. CASE u # t BY <2>1
  <2>2. CASE u = t /\ i < n
    <3>1. i \in 1..(n - 1) /\ i <= Len(a[t]) /\ i <= Len(b[t]) BY <1>1, <2>2 DEF Touches
    <3>2. b[t][i] = a[t][i] BY <3>1 DEF Touches
    <3> QED BY <2>2, <3>1, <3>2 DEF Counts
  <2>3. CASE u = t /\ i > n
    <3>1. ~(i <= Len(a[t])) BY <1>1, <2>3
    <3>2. CASE i <= Len(b[t])
      <4>1. i = Len(b[t]) /\ Len(b[t]) = n + 1 BY <1>1, <2>3, <3>2 DEF Touches
      <4>2. Fresh(b[t][i]) BY <4>1 DEF Touches
      <4> QED BY <2>3, <3>1, <4>2 DEF Counts, Fresh, InHandler
    <3> QED BY <2>3, <3>1, <3>2 DEF Counts
  <2>4. u # t \/ (u = t /\ i < n) \/ (u = t /\ i > n) BY <1>1, <1>2
  <2> QED BY <2>1, <2>2, <2>3, <2>4
<1>3. \A u \in Threads, i \in 1..MaxNest :
        /\ <<u, i>> \in Flying(a, h) <=> Counts(a[u], i, h)
        /\ <<u, i>> \in Flying(b, h) <=> Counts(b[u], i, h)
  BY DEF Flying
<1>4. \A y \in Flying(a, h) \cup Flying(b, h) :
        \E u \in Threads, i \in 1..MaxNest : y = <<u, i>>
  BY DEF Flying
<1>5. \A u \in Threads, i \in 1..MaxNest : <<u, i>> = x <=> u = t /\ i = n OBVIOUS
<1> HIDE DEF x, n
<1>6. \A u \in Threads, i \in 1..MaxNest :
        <<u, i>> # x => (<<u, i>> \in Flying(a, h) <=> <<u, i>> \in Flying(b, h))
  BY <1>2, <1>3, <1>5
<1>7. \A y : y # x => (y \in Flying(a, h) <=> y \in Flying(b, h))
  <2> SUFFICES ASSUME NEW y, y # x, y \in Flying(a, h) \cup Flying(b, h)
               PROVE  y \in Flying(a, h) <=> y \in Flying(b, h)
    OBVIOUS
  <2>1. PICK u \in Threads, i \in 1..MaxNest : y = <<u, i>> BY <1>4
  <2> QED BY <1>6, <2>1
<1>8. n > 0 => /\ x \in Flying(a, h) <=> Counts(a[t], n, h)
               /\ x \in Flying(b, h) <=> Counts(b[t], n, h)
  BY <1>1, <1>3 DEF x
<1>9. ~(n > 0) => x \notin Flying(a, h) /\ x \notin Flying(b, h)
  BY <1>1, <1>4, <1>5
<1>10. ASSUME n > 0 => (Counts(a[t], n, h) <=> Counts(b[t], n, h))
       PROVE  Flying(b, h) = Flying(a, h)
  <2>1. x \in Flying(a, h) <=> x \in Flying(b, h) BY <1>8, <1>9, <1>10
  <2>2. \A y : y \in Flying(a, h) <=> y \in Flying(b, h) BY <1>7, <2>1
  <2> QED BY <2>2
<1>11. ASSUME n > 0, ~Counts(a[t], n, h), Counts(b[t], n, h)
       PROVE  Flying(b, h) = Flying(a, h) \cup {x} /\ x \notin Flying(a, h)
  BY <1>7, <1>8, <1>11
<1>12. ASSUME n > 0, Counts(a[t], n, h), ~Counts(b[t], n, h)
       PROVE  Flying(b, h) = Flying(a, h) \ {x} /\ x \in Flying(a, h)
  BY <1>7, <1>8, <1>12
<1> QED BY <1>10, <1>11, <1>12 DEF n, x

LEMMA FlyingSame ==
    ASSUME NEW a \in [Threads -> Seq(Frame)], NEW b \in [Threads -> Seq(Frame)],
           NEW t \in Threads, NEW h, Len(a[t]) <= MaxNest,
           \A u \in Threads \ {t} : b[u] = a[u], Touches(a[t], b[t]),
           Len(a[t]) > 0 => (Counts(a[t], Len(a[t]), h) <=> Counts(b[t], Len(a[t]), h))
    PROVE  Flying(b, h) = Flying(a, h)
BY FlyingStep, Zenon

LEMMA FlyingIsFinite == \A a, h : IsFiniteSet(Flying(a, h)) /\ Cardinality(Flying(a, h)) \in Nat
<1> SUFFICES ASSUME NEW a, NEW h
             PROVE  IsFiniteSet(Flying(a, h)) /\ Cardinality(Flying(a, h)) \in Nat
  OBVIOUS
<1>1. IsFiniteSet(Threads) BY HookAssumption
<1>2. IsFiniteSet(1..MaxNest) BY HookAssumption, FS_Interval
<1>3. IsFiniteSet(Threads \X (1..MaxNest)) BY <1>1, <1>2, FS_Product
<1>4. Flying(a, h) \subseteq Threads \X (1..MaxNest) BY DEF Flying
<1> QED BY <1>3, <1>4, FS_Subset, FS_CardinalityType

LEMMA ActiveIsFlying ==
    /\ ActiveIsExact <=> \A h \in Hooks : active[h] = Cardinality(Flying(stack, h))
    /\ ActiveIsExact' <=> \A h \in Hooks : active'[h] = Cardinality(Flying(stack', h))
BY DEF ActiveIsExact, InFlight, Flying, Counts, InHandler

LEMMA CountKeeps ==
    ASSUME TypeOK, StackInv, ActiveIsExact, NEW t \in Threads, StackStep(t), active' = active,
           Len(stack[t]) > 0 =>
             \A h \in Hooks : Counts(stack[t], Len(stack[t]), h)
                                <=> Counts(stack'[t], Len(stack[t]), h)
    PROVE  ActiveIsExact'
<1> SUFFICES ASSUME NEW h \in Hooks PROVE active'[h] = Cardinality(Flying(stack', h))
  BY ActiveIsFlying
<1>1. stack \in [Threads -> Seq(Frame)] /\ Len(stack[t]) <= MaxNest BY DEF TypeOK, StackInv
<1>s. /\ stack' \in [Threads -> Seq(Frame)] /\ Touches(stack[t], stack'[t])
      /\ \A u \in Threads \ {t} : stack'[u] = stack[u]
  BY DEF StackStep
<1>2. Flying(stack', h) = Flying(stack, h)
  <2>1. Len(stack[t]) > 0 => (Counts(stack[t], Len(stack[t]), h)
                                <=> Counts(stack'[t], Len(stack[t]), h))
    OBVIOUS
  <2> QED BY <1>1, <1>s, <2>1, FlyingSame
<1> QED BY <1>2, ActiveIsFlying

\* A call of hook g is counted.
LEMMA CountUp ==
    ASSUME TypeOK, StackInv, ActiveIsExact, NEW t \in Threads, StackStep(t), NEW g \in Hooks,
           Len(stack[t]) > 0, active' = [active EXCEPT ![g] = @ + 1],
           \A h \in Hooks : ~Counts(stack[t], Len(stack[t]), h),
           \A h \in Hooks : Counts(stack'[t], Len(stack[t]), h) <=> h = g
    PROVE  ActiveIsExact' /\ active' \in [Hooks -> Nat]
<1>1. stack \in [Threads -> Seq(Frame)] /\ Len(stack[t]) <= MaxNest BY DEF TypeOK, StackInv
<1> DEFINE x == <<t, Len(stack[t])>>
<1>2. \A h \in Hooks \ {g} : Flying(stack', h) = Flying(stack, h)
  <2> TAKE h \in Hooks \ {g}
  <2>1. Counts(stack[t], Len(stack[t]), h) <=> Counts(stack'[t], Len(stack[t]), h) OBVIOUS
  <2> QED BY <1>1, <2>1, FlyingStep DEF StackStep
<1>3. Flying(stack', g) = Flying(stack, g) \cup {x} /\ x \notin Flying(stack, g)
  <2>1. ~Counts(stack[t], Len(stack[t]), g) /\ Counts(stack'[t], Len(stack[t]), g) OBVIOUS
  <2> QED BY <1>1, <2>1, FlyingStep DEF StackStep
<1>4. Cardinality(Flying(stack', g)) = Cardinality(Flying(stack, g)) + 1
  BY <1>3, FlyingIsFinite, FS_AddElement
<1>5. active' \in [Hooks -> Nat] BY DEF TypeOK
<1>6. \A h \in Hooks : active'[h] = Cardinality(Flying(stack', h))
  BY <1>2, <1>4, ActiveIsFlying DEF TypeOK
<1> QED BY <1>5, <1>6, ActiveIsFlying

\* The counted call of hook g is over.
LEMMA CountDown ==
    ASSUME TypeOK, StackInv, ActiveIsExact, NEW t \in Threads, StackStep(t), NEW g \in Hooks,
           Len(stack[t]) > 0, active' = [active EXCEPT ![g] = @ - 1],
           \A h \in Hooks : Counts(stack[t], Len(stack[t]), h) <=> h = g,
           \A h \in Hooks : ~Counts(stack'[t], Len(stack[t]), h)
    PROVE  ActiveIsExact' /\ active' \in [Hooks -> Nat]
<1>1. stack \in [Threads -> Seq(Frame)] /\ Len(stack[t]) <= MaxNest BY DEF TypeOK, StackInv
<1> DEFINE x == <<t, Len(stack[t])>>
<1>2. \A h \in Hooks \ {g} : Flying(stack', h) = Flying(stack, h)
  <2> TAKE h \in Hooks \ {g}
  <2>1. Counts(stack[t], Len(stack[t]), h) <=> Counts(stack'[t], Len(stack[t]), h) OBVIOUS
  <2> QED BY <1>1, <2>1, FlyingStep DEF StackStep
<1>3. Flying(stack', g) = Flying(stack, g) \ {x} /\ x \in Flying(stack, g)
  <2>1. Counts(stack[t], Len(stack[t]), g) /\ ~Counts(stack'[t], Len(stack[t]), g) OBVIOUS
  <2> QED BY <1>1, <2>1, FlyingStep DEF StackStep
<1> HIDE DEF x
<1>4. Cardinality(Flying(stack', g)) = Cardinality(Flying(stack, g)) - 1
  <2>1. IsFiniteSet(Flying(stack, g)) BY FlyingIsFinite
  <2>2. Cardinality(Flying(stack, g) \ {x}) = Cardinality(Flying(stack, g)) - 1
    BY <1>3, <2>1, FS_RemoveElement
  <2> QED BY <1>3, <2>2
<1>5. \A h \in Hooks : active'[h] = Cardinality(Flying(stack', h))
  BY <1>2, <1>4, ActiveIsFlying DEF TypeOK
<1>6. \A h \in Hooks : active'[h] \in Nat BY <1>5, FlyingIsFinite
<1>7. active' \in [Hooks -> Nat]
  <2>1. active' = [h \in Hooks |-> active'[h]] BY DEF TypeOK
  <2> QED BY <1>6, <2>1
<1> QED BY <1>5, <1>7, ActiveIsFlying
------------------------------------------------------------------------------
(* The trampoline.                                                         *)

LEMMA TopFacts ==
    ASSUME CallInv, NEW t \in Threads, stack[t] # <<>>
    PROVE  /\ TypeOK /\ StackInv /\ FlagInv /\ ActiveIsExact
           /\ stack[t] \in Seq(Frame) /\ Len(stack[t]) \in Nat \ {0}
           /\ Top(t) = stack[t][Len(stack[t])] /\ Top(t) \in Frame
           /\ FrameInv(Top(t))
           /\ FlagsMatch(stack[t], called[t])
<1>1. TypeOK /\ StackInv /\ FlagInv /\ ActiveIsExact BY DEF CallInv
<1>2. /\ stack[t] \in Seq(Frame) /\ Len(stack[t]) \in Nat \ {0}
      /\ Len(stack[t]) \in 1..Len(stack[t])
      /\ Top(t) = stack[t][Len(stack[t])] /\ Top(t) \in Frame
  BY <1>1, TopFrame
<1>3. FrameInv(stack[t][Len(stack[t])]) BY <1>1, <1>2 DEF StackInv
<1> QED BY <1>1, <1>2, <1>3 DEF FlagInv

LEMMA CallTypes ==
    ASSUME TypeOK, UNCHANGED <<hookVars, regVars>>, stack' \in [Threads -> Seq(Frame)],
           called' \in [Threads -> BOOLEAN], active' \in [Hooks -> Nat]
    PROVE  TypeOK'
BY DEF TypeOK, hookVars, regVars

\* The frame on top goes on, without entering or leaving a handler.
LEMMA RetopKeeps ==
    ASSUME CallInv, NEW t \in Threads, stack[t] # <<>>, NEW f \in Frame, Retop(t, f), FrameInv(f),
           f.calls = Top(t).calls, f.saved = Top(t).saved,
           InHandler(f) <=> InHandler(Top(t)), InHandler(f) => f.h = Top(t).h,
           UNCHANGED <<hookVars, regVars, active, called>>
    PROVE  CallInv'
<1> DEFINE n == Len(stack[t])
<1>1. /\ TypeOK /\ StackInv /\ FlagInv /\ ActiveIsExact
      /\ n \in Nat \ {0} /\ Top(t) = stack[t][n] /\ FlagsMatch(stack[t], called[t])
  BY TopFacts
<1>2. StackStep(t) /\ Len(stack'[t]) = n /\ stack'[t][n] = f BY <1>1, RetopStep
<1>3. TypeOK' BY <1>1, <1>2, CallTypes DEF StackStep, TypeOK
<1>4. StackInv' BY <1>1, <1>2, StackKeeps
<1>5. FlagInv'
  <2>1. stack[t] \in Seq(Frame) /\ stack'[t] \in Seq(Frame) /\ Touches(stack[t], stack'[t])
    BY <1>1, <1>2 DEF TypeOK, StackStep
  <2>2. FlagsMatch(stack'[t], called[t]) BY <1>1, <1>2, <2>1, FlagsSame
  <2> QED BY <1>1, <1>2, <2>2, FlagKeeps
<1>6. ActiveIsExact'
  <2>1. \A h \in Hooks : Counts(stack[t], n, h) <=> Counts(stack'[t], n, h)
    BY <1>1, <1>2 DEF Counts
  <2> QED BY <1>1, <1>2, <2>1, CountKeeps
<1> QED BY <1>3, <1>4, <1>5, <1>6 DEF CallInv

\* The frame on top calls the original, from the handler or instead of it.
LEMMA CallKeeps ==
    ASSUME CallInv, NEW t \in Threads, stack[t] # <<>>,
           NEW place \in {"inner", "pass"}, CallOriginal(t, place), Top(t).calls = 0,
           Top(t).at = IF place = "inner" THEN "handler" ELSE "found",
           UNCHANGED <<hookVars, regVars, active>>
    PROVE  CallInv'
<1> DEFINE n == Len(stack[t])
           me == [Top(t) EXCEPT !.at = place, !.calls = @ + 1]
<1>1. /\ TypeOK /\ StackInv /\ FlagInv /\ ActiveIsExact
      /\ n \in Nat \ {0} /\ Top(t) = stack[t][n] /\ FlagsMatch(stack[t], called[t])
      /\ Top(t) \in Frame /\ FrameInv(Top(t))
  BY TopFacts
<1>2. /\ StackStep(t) /\ Len(stack'[t]) >= n /\ stack'[t][n] = me
      /\ called' = [called EXCEPT ![t] = TRUE]
  BY <1>1, CallStep
<1>3. /\ me.at = place /\ me.calls = 1 /\ me.h = Top(t).h /\ me.saved = Top(t).saved
      /\ me.h \in Hooks
  BY <1>1 DEF Frame, FrameInv
<1> HIDE DEF me
<1>4. InHandler(me) <=> InHandler(Top(t)) BY <1>3 DEF InHandler
<1>5. TypeOK' BY <1>1, <1>2, CallTypes DEF StackStep, TypeOK
<1>6. StackInv'
  <2>1. FrameInv(me) BY <1>3 DEF FrameInv
  <2> QED BY <1>1, <1>2, <2>1, StackKeeps
<1>7. FlagInv'
  <2>1. stack[t] \in Seq(Frame) /\ stack'[t] \in Seq(Frame) /\ Touches(stack[t], stack'[t])
    BY <1>1, <1>2 DEF TypeOK, StackStep
  <2>2. called'[t] = TRUE /\ \A u \in Threads \ {t} : called'[u] = called[u]
    BY <1>1, <1>2 DEF TypeOK
  <2>3. FlagsMatch(stack'[t], called'[t]) BY <1>1, <1>2, <1>3, <1>4, <2>1, <2>2, FlagsKept
  <2> QED BY <1>1, <1>2, <2>2, <2>3, FlagKeeps
<1>8. ActiveIsExact'
  <2>1. \A h \in Hooks : Counts(stack[t], n, h) <=> Counts(stack'[t], n, h)
    BY <1>1, <1>2, <1>3, <1>4 DEF Counts
  <2> QED BY <1>1, <1>2, <2>1, CountKeeps
<1> QED BY <1>5, <1>6, <1>7, <1>8 DEF CallInv

LEMMA DispatchKeeps ==
    ASSUME CallInv, NEW t \in Threads, NEW v \in Vtables, Dispatch(t, v) PROVE CallInv'
<1> DEFINE n == Len(stack[t])
<1>1. TypeOK /\ StackInv /\ FlagInv /\ ActiveIsExact BY DEF CallInv
<1>2. /\ n < MaxNest /\ stack' = [stack EXCEPT ![t] = Append(@, NewFrame(v))]
      /\ UNCHANGED <<hookVars, regVars, active, called>>
  BY DEF Dispatch
<1>3. /\ StackStep(t) /\ Len(stack'[t]) = n + 1
      /\ \A i \in 1..n : stack'[t][i] = stack[t][i]
  BY <1>1, <1>2, PushStep
<1>4. /\ stack[t] \in Seq(Frame) /\ stack'[t] \in Seq(Frame) /\ Touches(stack[t], stack'[t])
      /\ n \in Nat
  BY <1>1, <1>3 DEF TypeOK, StackStep
<1>5. n > 0 => stack'[t][n] = stack[t][n] BY <1>3, <1>4
<1>6. TypeOK' BY <1>1, <1>2, <1>3, CallTypes DEF StackStep, TypeOK
<1>7. StackInv'
  <2>1. n > 0 => FrameInv(stack[t][n]) BY <1>1, <1>4 DEF StackInv
  <2> QED BY <1>1, <1>3, <1>5, <2>1, StackKeeps
<1>8. FlagInv'
  <2>1. FlagsMatch(stack[t], called[t]) /\ called' = called BY <1>1, <1>2 DEF FlagInv
  <2>2. FlagsMatch(stack'[t], called[t]) BY <1>3, <1>4, <1>5, <2>1, FlagsSame
  <2> QED BY <1>1, <1>3, <2>1, <2>2, FlagKeeps
<1>9. ActiveIsExact'
  <2>1. n > 0 => \A h \in Hooks : Counts(stack[t], n, h) <=> Counts(stack'[t], n, h)
    BY <1>3, <1>4, <1>5 DEF Counts
  <2> QED BY <1>1, <1>2, <1>3, <2>1, CountKeeps
<1> QED BY <1>6, <1>7, <1>8, <1>9 DEF CallInv

\* A frame that is in no handler goes.
LEMMA PopKeeps ==
    ASSUME CallInv, NEW t \in Threads, stack[t] # <<>>, Pop(t), ~InHandler(Top(t)),
           UNCHANGED <<hookVars, regVars, active, called>>
    PROVE  CallInv'
<1> DEFINE n == Len(stack[t])
<1>1. /\ TypeOK /\ StackInv /\ FlagInv /\ ActiveIsExact
      /\ n \in Nat \ {0} /\ Top(t) = stack[t][n] /\ FlagsMatch(stack[t], called[t])
  BY TopFacts
<1>2. StackStep(t) /\ Len(stack'[t]) = n - 1 BY <1>1, PopStep
<1>3. ~(Len(stack'[t]) >= n) BY <1>1, <1>2
<1>4. TypeOK' BY <1>1, <1>2, CallTypes DEF StackStep, TypeOK
<1>5. StackInv' BY <1>1, <1>2, <1>3, StackKeeps
<1>6. FlagInv'
  <2>1. stack[t] \in Seq(Frame) /\ stack'[t] \in Seq(Frame) /\ Touches(stack[t], stack'[t])
    BY <1>1, <1>2 DEF TypeOK, StackStep
  <2>2. FlagsMatch(stack'[t], called'[t]) BY <1>1, <1>2, <2>1, FlagsLeft
  <2> QED BY <1>1, <1>2, <2>2, FlagKeeps
<1>7. ActiveIsExact'
  <2>1. \A h \in Hooks : Counts(stack[t], n, h) <=> Counts(stack'[t], n, h)
    BY <1>1, <1>3 DEF Counts
  <2> QED BY <1>1, <1>2, <2>1, CountKeeps
<1> QED BY <1>4, <1>5, <1>6, <1>7 DEF CallInv
LEMMA EnterKeeps ==
    ASSUME CallInv, NEW t \in Threads, Enter(t) PROVE CallInv'
<1> DEFINE n == Len(stack[t])
           g == Top(t).h
           f == [Top(t) EXCEPT !.at = "handler", !.saved = called[t]]
<1>0. stack[t] # <<>> /\ Top(t).at = "count" BY DEF Enter, AtTop
<1>1. /\ TypeOK /\ StackInv /\ FlagInv /\ ActiveIsExact
      /\ n \in Nat \ {0} /\ Top(t) = stack[t][n] /\ FlagsMatch(stack[t], called[t])
      /\ Top(t) \in Frame /\ FrameInv(Top(t))
  BY <1>0, TopFacts
<1>2. /\ active' = [active EXCEPT ![g] = @ + 1] /\ called' = [called EXCEPT ![t] = FALSE]
      /\ Retop(t, f) /\ UNCHANGED <<hookVars, regVars>>
  BY DEF Enter
<1>3. called[t] \in BOOLEAN /\ g \in Hooks /\ Top(t).calls = 0 BY <1>0, <1>1 DEF TypeOK, FrameInv
<1>4. /\ f \in Frame /\ f.at = "handler" /\ f.calls = 0 /\ f.saved = called[t] /\ f.h = g
  BY <1>1, <1>3 DEF Frame
<1> HIDE DEF f
<1>5. InHandler(f) /\ ~InHandler(Top(t)) BY <1>0, <1>4 DEF InHandler
<1>6. StackStep(t) /\ Len(stack'[t]) = n /\ stack'[t][n] = f BY <1>0, <1>1, <1>2, <1>4, RetopStep
<1>7. StackInv'
  <2>1. FrameInv(f) BY <1>3, <1>4 DEF FrameInv
  <2> QED BY <1>1, <1>6, <2>1, StackKeeps
<1>8. FlagInv'
  <2>1. stack[t] \in Seq(Frame) /\ stack'[t] \in Seq(Frame) /\ Touches(stack[t], stack'[t])
    BY <1>1, <1>6 DEF TypeOK, StackStep
  <2>2. \A u \in Threads \ {t} : called'[u] = called[u] BY <1>1, <1>2 DEF TypeOK
  <2>3. FlagsMatch(stack'[t], called'[t]) BY <1>1, <1>4, <1>5, <1>6, <2>1, FlagsEntered
  <2> QED BY <1>1, <1>6, <2>2, <2>3, FlagKeeps
<1>9. ActiveIsExact' /\ active' \in [Hooks -> Nat]
  <2>0. n > 0 BY <1>1
  <2>1. \A h \in Hooks : ~Counts(stack[t], n, h) BY <1>1, <1>5 DEF Counts
  <2>2. \A h \in Hooks : Counts(stack'[t], n, h) <=> h = g BY <1>1, <1>4, <1>5, <1>6 DEF Counts
  <2> QED BY <1>1, <1>2, <1>3, <1>6, <2>1, <2>2, <2>0, CountUp, Zenon
<1>10. TypeOK' BY <1>1, <1>2, <1>6, <1>9, CallTypes DEF StackStep, TypeOK
<1> QED BY <1>7, <1>8, <1>9, <1>10 DEF CallInv

LEMMA LeaveReturnsKeeps ==
    ASSUME CallInv, NEW t \in Threads, LeaveReturns(t) PROVE CallInv'
<1> DEFINE n == Len(stack[t])
           g == Top(t).h
<1>0. stack[t] # <<>> /\ Top(t).at = "leave" BY DEF LeaveReturns, AtTop
<1>1. /\ TypeOK /\ StackInv /\ FlagInv /\ ActiveIsExact
      /\ n \in Nat \ {0} /\ Top(t) = stack[t][n] /\ FlagsMatch(stack[t], called[t])
      /\ Top(t) \in Frame /\ FrameInv(Top(t))
  BY <1>0, TopFacts
<1>2. /\ active' = [active EXCEPT ![g] = @ - 1]
      /\ called' = [called EXCEPT ![t] = Top(t).saved]
      /\ Pop(t) /\ UNCHANGED <<hookVars, regVars>>
  BY DEF LeaveReturns
<1>3. InHandler(Top(t)) /\ g \in Hooks /\ Top(t).saved \in BOOLEAN
  BY <1>0, <1>1 DEF InHandler, FrameInv, Frame
<1>4. StackStep(t) /\ Len(stack'[t]) = n - 1 BY <1>0, <1>1, <1>2, PopStep
<1>5. ~(Len(stack'[t]) >= n) /\ ~(n <= Len(stack'[t])) BY <1>1, <1>4
<1>6. StackInv' BY <1>1, <1>4, <1>5, StackKeeps
<1>7. FlagInv'
  <2>1. stack[t] \in Seq(Frame) /\ stack'[t] \in Seq(Frame) /\ Touches(stack[t], stack'[t])
    BY <1>1, <1>4 DEF TypeOK, StackStep
  <2>2. called'[t] = Top(t).saved /\ \A u \in Threads \ {t} : called'[u] = called[u]
    BY <1>1, <1>2 DEF TypeOK
  <2>3. FlagsMatch(stack'[t], called'[t]) BY <1>1, <1>3, <1>4, <2>1, <2>2, FlagsLeft
  <2> QED BY <1>1, <1>4, <2>2, <2>3, FlagKeeps
<1>8. ActiveIsExact' /\ active' \in [Hooks -> Nat]
  <2>0. n > 0 BY <1>1
  <2>1. \A h \in Hooks : Counts(stack[t], n, h) <=> h = g BY <1>1, <1>3 DEF Counts
  <2>2. \A h \in Hooks : ~Counts(stack'[t], n, h) BY <1>5 DEF Counts
  <2> QED BY <1>1, <1>2, <1>3, <1>4, <2>1, <2>2, <2>0, CountDown, Zenon
<1>9. TypeOK' BY <1>1, <1>2, <1>3, <1>4, <1>8, CallTypes DEF StackStep, TypeOK
<1> QED BY <1>6, <1>7, <1>8, <1>9 DEF CallInv

\* The flag tells that a handler which panicked has not called the original:
\* the call made up for is the first one.
LEMMA LeaveFallsBackKeeps ==
    ASSUME CallInv, NEW t \in Threads, LeaveFallsBack(t) PROVE CallInv'
<1> DEFINE n == Len(stack[t])
           g == Top(t).h
           me == [Top(t) EXCEPT !.at = "fallback", !.calls = @ + 1]
<1>0. stack[t] # <<>> /\ Top(t).at = "leave" /\ ~called[t] BY DEF LeaveFallsBack, AtTop
<1>1. /\ TypeOK /\ StackInv /\ FlagInv /\ ActiveIsExact
      /\ n \in Nat \ {0} /\ Top(t) = stack[t][n] /\ FlagsMatch(stack[t], called[t])
      /\ Top(t) \in Frame /\ FrameInv(Top(t))
  BY <1>0, TopFacts
<1>2. /\ active' = [active EXCEPT ![g] = @ - 1]
      /\ CallOriginal(t, "fallback") /\ UNCHANGED <<hookVars, regVars>>
  BY DEF LeaveFallsBack
<1>3. /\ StackStep(t) /\ Len(stack'[t]) >= n /\ stack'[t][n] = me
      /\ called' = [called EXCEPT ![t] = TRUE]
  BY <1>0, <1>1, <1>2, CallStep
<1>4. InHandler(Top(t)) /\ g \in Hooks BY <1>0, <1>1 DEF InHandler, FrameInv
<1>5. Top(t).calls = 0
  <2>1. Top(t).calls \in Nat /\ Top(t).calls <= 1 BY <1>1 DEF Frame, FrameInv
  <2>2. SUFFICES ASSUME Top(t).calls = 1 PROVE FALSE BY <2>1
  <2>3. n \in 1..n /\ \A k \in (n + 1)..n : ~InHandler(stack[t][k]) BY <1>1
  <2>4. called[t] = TRUE BY <1>1, <1>4, <2>2, <2>3 DEF FlagsMatch
  <2> QED BY <1>0, <2>4
<1>6. /\ me.at = "fallback" /\ me.calls = 1 /\ me.h = g /\ me.saved = Top(t).saved
  BY <1>1, <1>5 DEF Frame
<1> HIDE DEF me
<1>7. ~InHandler(me) BY <1>6 DEF InHandler
<1>8. StackInv'
  <2>1. FrameInv(me) BY <1>4, <1>6 DEF FrameInv
  <2> QED BY <1>1, <1>3, <2>1, StackKeeps
<1>9. FlagInv'
  <2>1. stack[t] \in Seq(Frame) /\ stack'[t] \in Seq(Frame) /\ Touches(stack[t], stack'[t])
    BY <1>1, <1>3 DEF TypeOK, StackStep
  <2>2. called'[t] = TRUE /\ \A u \in Threads \ {t} : called'[u] = called[u]
    BY <1>1, <1>3 DEF TypeOK
  <2>3. FlagsMatch(stack'[t], called'[t]) BY <1>1, <1>3, <1>7, <2>1, <2>2, FlagsKept
  <2> QED BY <1>1, <1>3, <2>2, <2>3, FlagKeeps
<1>10. ActiveIsExact' /\ active' \in [Hooks -> Nat]
  <2>0. n > 0 BY <1>1
  <2>1. \A h \in Hooks : Counts(stack[t], n, h) <=> h = g BY <1>1, <1>4 DEF Counts
  <2>2. \A h \in Hooks : ~Counts(stack'[t], n, h) BY <1>3, <1>7 DEF Counts
  <2> QED BY <1>1, <1>2, <1>3, <1>4, <2>1, <2>2, <2>0, CountDown, Zenon
<1>11. TypeOK' BY <1>1, <1>2, <1>3, <1>10, CallTypes DEF StackStep, TypeOK
<1> QED BY <1>8, <1>9, <1>10, <1>11 DEF CallInv

LEMMA TrampolineKeeps ==
    ASSUME CallInv, NEW t \in Threads, Trampoline(t) PROVE CallInv'
<1>t. TypeOK BY DEF CallInv
<1>1. CASE LookupFinds(t)
  <2>1. stack[t] # <<>> /\ Top(t).at = "enter" BY <1>1 DEF LookupFinds, AtTop
  <2>2. Top(t) \in Frame /\ FrameInv(Top(t)) BY <2>1, TopFacts
  <2>3. PICK i \in 1..Len(listed) : Retop(t, [Top(t) EXCEPT !.at = "found", !.h = listed[i]])
    BY <1>1 DEF LookupFinds
  <2> DEFINE f == [Top(t) EXCEPT !.at = "found", !.h = listed[i]]
  <2>4. listed[i] \in Hooks BY <1>t, <2>3, ElementOfSeq DEF TypeOK
  <2>5. /\ f \in Frame /\ f.at = "found" /\ f.h \in Hooks
        /\ f.calls = Top(t).calls /\ f.saved = Top(t).saved
    BY <2>2, <2>4 DEF Frame
  <2>6. Retop(t, f) /\ UNCHANGED <<hookVars, regVars, active, called>>
    BY <1>1, <2>3 DEF LookupFinds
  <2> HIDE DEF f
  <2>7. FrameInv(f) /\ ~InHandler(f) /\ ~InHandler(Top(t))
    BY <2>1, <2>2, <2>5 DEF FrameInv, InHandler
  <2> QED BY <2>1, <2>5, <2>6, <2>7, RetopKeeps
<1>2. CASE LookupMisses(t)
  <2>1. /\ stack[t] # <<>> /\ Top(t).at = "enter" /\ Pop(t)
        /\ UNCHANGED <<hookVars, regVars, active, called>>
    BY <1>2 DEF LookupMisses, AtTop
  <2>2. ~InHandler(Top(t)) BY <2>1 DEF InHandler
  <2> QED BY <2>1, <2>2, PopKeeps
<1>3. ASSUME NEW from \in {"found", "inner"},
             NEW to \in {"count", "handler"},
             from = "found" <=> to = "count", AtTop(t, from),
             Retop(t, [Top(t) EXCEPT !.at = to]),
             UNCHANGED <<hookVars, regVars, active, called>>
      PROVE  CallInv'
  <2> DEFINE f == [Top(t) EXCEPT !.at = to]
  <2>1. stack[t] # <<>> /\ Top(t).at = from BY <1>3 DEF AtTop
  <2>2. Top(t) \in Frame /\ FrameInv(Top(t)) BY <2>1, TopFacts
  <2>3. /\ f \in Frame /\ f.at = to /\ f.h = Top(t).h
        /\ f.calls = Top(t).calls /\ f.saved = Top(t).saved
    BY <2>2 DEF Frame
  <2>4. Retop(t, f) BY <1>3
  <2> HIDE DEF f
  <2>5. FrameInv(f) /\ (InHandler(f) <=> InHandler(Top(t)))
    BY <1>3, <2>1, <2>2, <2>3 DEF FrameInv, InHandler
  <2> QED BY <1>3, <2>1, <2>3, <2>4, <2>5, RetopKeeps
<1>4. CASE CheckRunning(t)
  <2>1. /\ AtTop(t, "found") /\ Retop(t, [Top(t) EXCEPT !.at = "count"])
        /\ UNCHANGED <<hookVars, regVars, active, called>>
    BY <1>4 DEF CheckRunning
  <2> QED BY <1>3, <2>1
<1>5. CASE InnerReturns(t)
  <2>1. /\ AtTop(t, "inner") /\ Retop(t, [Top(t) EXCEPT !.at = "handler"])
        /\ UNCHANGED <<hookVars, regVars, active, called>>
    BY <1>5 DEF InnerReturns
  <2> QED BY <1>3, <2>1
<1>6. CASE PassThrough(t)
  <2>1. /\ stack[t] # <<>> /\ Top(t).at = "found" /\ CallOriginal(t, "pass")
        /\ UNCHANGED <<hookVars, regVars, active>>
    BY <1>6 DEF PassThrough, AtTop
  <2>2. Top(t).calls = 0 BY <2>1, TopFacts DEF FrameInv
  <2> QED BY <2>1, <2>2, CallKeeps
<1>7. CASE HandlerCalls(t)
  <2>1. /\ stack[t] # <<>> /\ Top(t).at = "handler" /\ CallOriginal(t, "inner")
        /\ Top(t).calls = 0 /\ UNCHANGED <<hookVars, regVars, active>>
    BY <1>7 DEF HandlerCalls, AtTop
  <2> QED BY <2>1, CallKeeps
<1>8. CASE HandlerEnds(t)
  <2>1. stack[t] # <<>> /\ Top(t).at = "handler" BY <1>8 DEF HandlerEnds, AtTop
  <2>2. Top(t) \in Frame /\ FrameInv(Top(t)) BY <2>1, TopFacts
  <2>3. PICK p \in BOOLEAN : Retop(t, [Top(t) EXCEPT !.at = "leave", !.panicked = p])
    BY <1>8 DEF HandlerEnds
  <2> DEFINE f == [Top(t) EXCEPT !.at = "leave", !.panicked = p]
  <2>4. /\ f \in Frame /\ f.at = "leave" /\ f.h = Top(t).h
        /\ f.calls = Top(t).calls /\ f.saved = Top(t).saved
    BY <2>2, <2>3 DEF Frame
  <2>5. Retop(t, f) /\ UNCHANGED <<hookVars, regVars, active, called>>
    BY <1>8, <2>3 DEF HandlerEnds
  <2> HIDE DEF f
  <2>6. FrameInv(f) /\ InHandler(f) /\ InHandler(Top(t))
    BY <2>1, <2>2, <2>4 DEF FrameInv, InHandler
  <2> QED BY <2>1, <2>4, <2>5, <2>6, RetopKeeps
<1>9. CASE OriginalReturns(t)
  <2>1. /\ stack[t] # <<>> /\ Top(t).at \in {"pass", "fallback"} /\ Pop(t)
        /\ UNCHANGED <<hookVars, regVars, active, called>>
    BY <1>9 DEF OriginalReturns, AtTop
  <2>2. ~InHandler(Top(t)) BY <2>1 DEF InHandler
  <2> QED BY <2>1, <2>2, PopKeeps
<1> QED
  BY <1>1, <1>2, <1>4, <1>5, <1>6, <1>7, <1>8, <1>9,
     EnterKeeps, LeaveReturnsKeeps, LeaveFallsBackKeeps DEF Trampoline
------------------------------------------------------------------------------
(* Installing, dropping and shutting down.                                 *)

LEMMA RemoveAtKeeps ==
    ASSUME NEW S, NEW s \in Seq(S), NEW i \in 1..Len(s)
    PROVE  /\ RemoveAt(s, i) \in Seq(S)
           /\ \A j \in 1..Len(s) :
                j # i => \E k \in 1..Len(RemoveAt(s, i)) : RemoveAt(s, i)[k] = s[j]
           /\ Len(RemoveAt(s, i)) = Len(s) - 1
           /\ \A k \in 1..(Len(s) - 1) : RemoveAt(s, i)[k] = s[IF k < i THEN k ELSE k + 1]
<1> DEFINE n == Len(s)
           p == SubSeq(s, 1, i - 1)
           q == SubSeq(s, i + 1, n)
<1>1. n \in Nat /\ i \in Nat /\ 1 \in Int /\ i - 1 \in Int /\ i + 1 \in Int /\ n \in Int OBVIOUS
<1>2. \A j \in 1..n : s[j] \in S BY ElementOfSeq
<1>3. /\ \A j \in 1..(i - 1) : s[j] \in S
      /\ \A j \in (i + 1)..n : s[j] \in S
  BY <1>1, <1>2
<1>4. /\ p \in Seq(S) /\ Len(p) = IF 1 <= i - 1 THEN i - 1 - 1 + 1 ELSE 0
      /\ \A j \in 1..(i - 1 - 1 + 1) : p[j] = s[1 + j - 1]
  BY <1>1, <1>3, SubSeqProperties
<1>5. /\ q \in Seq(S) /\ Len(q) = IF i + 1 <= n THEN n - (i + 1) + 1 ELSE 0
      /\ \A j \in 1..(n - (i + 1) + 1) : q[j] = s[i + 1 + j - 1]
  BY <1>1, <1>3, SubSeqProperties
<1>6. RemoveAt(s, i) = p \o q BY DEF RemoveAt
<1>7. Len(p) = i - 1 /\ \A j \in 1..(i - 1) : p[j] = s[j] BY <1>1, <1>4
<1>8. Len(q) = n - i /\ \A j \in 1..(n - i) : q[j] = s[i + j] BY <1>1, <1>5
<1> HIDE DEF p, q
<1>9. /\ p \o q \in Seq(S) /\ Len(p \o q) = Len(p) + Len(q)
      /\ \A k \in 1..(Len(p) + Len(q)) :
           (p \o q)[k] = IF k <= Len(p) THEN p[k] ELSE q[k - Len(p)]
  BY <1>4, <1>5, ConcatProperties
<1>10. ASSUME NEW j \in 1..n, j # i
       PROVE  \E k \in 1..Len(p \o q) : (p \o q)[k] = s[j]
  <2>1. CASE j < i
    <3>1. j \in 1..(i - 1) /\ j \in 1..(Len(p) + Len(q)) /\ j <= Len(p)
      BY <1>1, <1>7, <1>8, <2>1
    <3>2. (p \o q)[j] = s[j] BY <1>7, <1>9, <3>1
    <3> QED BY <1>9, <3>1, <3>2
  <2>2. CASE j > i
    <3>1. /\ j - 1 \in 1..(Len(p) + Len(q)) /\ ~(j - 1 <= Len(p))
          /\ j - 1 - Len(p) = j - i /\ j - i \in 1..(n - i) /\ i + (j - i) = j
      BY <1>1, <1>7, <1>8, <2>2
    <3>2. (p \o q)[j - 1] = s[j] BY <1>8, <1>9, <3>1
    <3> QED BY <1>9, <3>1, <3>2
  <2> QED BY <1>1, <1>10, <2>1, <2>2
<1>11. ASSUME NEW k \in 1..(n - 1)
       PROVE  (p \o q)[k] = s[IF k < i THEN k ELSE k + 1]
  <2>1. k \in 1..(Len(p) + Len(q)) BY <1>1, <1>7, <1>8
  <2>2. CASE k < i BY <1>1, <1>7, <1>9, <2>1, <2>2
  <2>3. CASE ~(k < i)
    <3>1. ~(k <= Len(p)) /\ k - Len(p) \in 1..(n - i) /\ i + (k - Len(p)) = k + 1
      BY <1>1, <1>7, <2>3
    <3> QED BY <1>8, <1>9, <2>1, <2>3, <3>1
  <2> QED BY <2>2, <2>3
<1>12. Len(p \o q) = n - 1 BY <1>1, <1>7, <1>8, <1>9
<1> QED BY <1>6, <1>9, <1>10, <1>11, <1>12

\* The trampoline does not see the steps of the registry.
LEMMA QuietKeeps ==
    ASSUME CallInv, UNCHANGED callVars PROVE StackInv' /\ FlagInv' /\ ActiveIsExact'
<1>1. StackInv /\ FlagInv /\ ActiveIsExact BY DEF CallInv
<1>2. stack' = stack /\ called' = called /\ active' = active BY DEF callVars
<1>3. StackInv' BY <1>1, <1>2 DEF StackInv, FrameInv
<1>4. FlagInv' BY <1>1, <1>2 DEF FlagInv, FlagsMatch, InHandler
<1>5. ActiveIsExact' BY <1>1, <1>2, ActiveIsFlying
<1> QED BY <1>3, <1>4, <1>5

LEMMA UnlistStep ==
    ASSUME TypeOK, NEW h \in Hooks, Unlist(h)
    PROVE  /\ listed' \in Seq(Hooks)
           /\ \A g \in Hooks \ {h} :
                (\E i \in 1..Len(listed) : listed[i] = g)
                  => \E i \in 1..Len(listed') : listed'[i] = g
<1>1. PICK i \in 1..Len(listed) : listed[i] = h /\ listed' = RemoveAt(listed, i) BY DEF Unlist
<1>2. listed \in Seq(Hooks) BY DEF TypeOK
<1>3. /\ listed' \in Seq(Hooks)
      /\ \A j \in 1..Len(listed) : j # i => \E k \in 1..Len(listed') : listed'[k] = listed[j]
  BY <1>1, <1>2, RemoveAtKeeps
<1> QED BY <1>1, <1>3

LEMMA RegistryTypes ==
    ASSUME TypeOK, CapturedInv, UNCHANGED callVars,
           NEW h \in Hooks, Install(h) \/ RemoveHook(h) \/ Drop(h)
    PROVE  TypeOK'
<1>1. CASE InstallCapture(h)
  <2>1. slot[VtableOf[h]] \in {"engine", "tramp"} BY HookAssumption DEF TypeOK
  <2>2. original' \in [Hooks -> {"none", "engine", "tramp"}]
    BY <1>1, <2>1 DEF InstallCapture, TypeOK
  <2> QED BY <1>1, <2>2 DEF InstallCapture, Step, States, TypeOK, regVars, callVars
<1>2. CASE InstallList(h)
  <2>1. listed' \in Seq(Hooks) BY <1>2, AppendProperties DEF InstallList, TypeOK
  <2> QED BY <1>2, <2>1 DEF InstallList, Step, States, TypeOK, regVars, callVars
<1>3. CASE InstallPatch(h)
  BY <1>3 DEF InstallPatch, Step, States, TypeOK, regVars, callVars
<1>4. CASE InstallFail(h)
  BY <1>4, UnlistStep DEF InstallFail, Step, States, TypeOK, regVars, callVars
<1>5. CASE Register(h)
  <2>1. handles' \in Seq(Hooks) BY <1>5, AppendProperties DEF Register, TypeOK
  <2> QED BY <1>5, <2>1 DEF Register, Step, States, TypeOK, callVars
<1>6. CASE DropUnregistered(h)
  BY <1>6 DEF DropUnregistered, Step, States, TypeOK, regVars, callVars
<1>7. CASE RemoveHook(h)
  <2>1. PICK i \in 1..Len(handles) : handles' = RemoveAt(handles, i) BY <1>7 DEF RemoveHook
  <2>2. handles' \in Seq(Hooks) BY <2>1, RemoveAtKeeps DEF TypeOK
  <2> QED BY <1>7, <2>2 DEF RemoveHook, Step, States, TypeOK, callVars
<1>8. CASE DropRestore(h)
  <2>1. /\ state[h] = "taken" /\ slot' = [slot EXCEPT ![VtableOf[h]] = original[h]]
        /\ crossed' \in {crossed, crossed \cup {VtableOf[h]}}
    BY <1>8 DEF DropRestore, Step
  <2>2. original[h] \in {"engine", "tramp"} BY <2>1 DEF TypeOK, CapturedInv
  <2>3. slot' \in [Vtables -> {"engine", "tramp"}] /\ crossed' \subseteq Vtables
    BY <2>1, <2>2, HookAssumption DEF TypeOK
  <2> QED BY <1>8, <2>3 DEF DropRestore, Step, States, TypeOK, regVars, callVars
<1>9. CASE DropRestoreFails(h)
  BY <1>9 DEF DropRestoreFails, Step, States, TypeOK, regVars, callVars
<1>10. CASE DropUnlist(h)
  BY <1>10, UnlistStep DEF DropUnlist, Step, States, TypeOK, regVars, callVars
<1>11. CASE DropFinish(h) \/ DropGivesUp(h)
  BY <1>11 DEF DropFinish, DropGivesUp, Step, States, TypeOK, regVars, callVars
<1> QED
  BY <1>1, <1>2, <1>3, <1>4, <1>5, <1>6, <1>7, <1>8, <1>9, <1>10, <1>11 DEF Install, Drop
LEMMA ShutdownTypes ==
    ASSUME TypeOK, Shutdown PROVE TypeOK' /\ UNCHANGED <<callVars, original>>
<1>1. CASE ShutdownFlag BY <1>1 DEF ShutdownFlag, TypeOK, hookVars, callVars
<1>2. CASE ShutdownTake
  <2>1. <<>> \in Seq(Hooks) OBVIOUS
  <2> QED BY <1>2, <2>1 DEF ShutdownTake, TypeOK, hookVars, callVars
<1>3. CASE ShutdownNext
  BY <1>3 DEF ShutdownNext, Step, States, TypeOK, regVars, callVars
<1>4. CASE ShutdownDone
  <2>1. dropping # <<>> => Tail(dropping) \in Seq(Hooks) BY HeadTailProperties DEF TypeOK
  <2>2. dropping' \in Seq(Hooks) /\ unload' \in {"no", "flagged", "dropping", "returned"}
    BY <1>4, <2>1 DEF ShutdownDone, TypeOK
  <2> QED BY <1>4, <2>2 DEF ShutdownDone, TypeOK, hookVars, callVars
<1> QED BY <1>1, <1>2, <1>3, <1>4 DEF Shutdown

LEMMA RegistryKeeps ==
    ASSUME IInv, NEW h \in Hooks, Install(h) \/ RemoveHook(h) \/ Drop(h) PROVE IInv'
<1>1. CallInv /\ TypeOK /\ CapturedInv BY DEF IInv, CallInv
<1>2. UNCHANGED callVars
  BY DEF Install, InstallCapture, InstallList, InstallPatch, InstallFail, Register,
         DropUnregistered, RemoveHook, Drop, DropRestore, DropRestoreFails, DropUnlist,
         DropFinish, DropGivesUp
<1>3. TypeOK' BY <1>1, <1>2, RegistryTypes
<1>4. CapturedInv'
  <2>1. CASE InstallCapture(h)
    <3>1. /\ original' = [original EXCEPT ![h] = slot[VtableOf[h]]]
          /\ slot[VtableOf[h]] # "none" /\ \A g \in Hooks \ {h} : state'[g] = state[g]
      BY <1>1, <2>1, HookAssumption DEF InstallCapture, Step, TypeOK
    <3> QED BY <1>1, <3>1 DEF CapturedInv, TypeOK
  <2>2. CASE ~InstallCapture(h)
    <3>1. /\ original' = original /\ state[h] # "none"
          /\ \A g \in Hooks \ {h} : state'[g] = state[g]
      BY <1>1, <2>2
      DEF Install, InstallList, InstallPatch, InstallFail, Register, DropUnregistered,
          RemoveHook, Drop, DropRestore, DropRestoreFails, DropUnlist, DropFinish,
          DropGivesUp, Step, TypeOK
    <3> QED BY <1>1, <3>1 DEF CapturedInv
  <2> QED BY <2>1, <2>2
<1> QED BY <1>1, <1>2, <1>3, <1>4, QuietKeeps DEF IInv, CallInv

LEMMA ShutdownKeeps == ASSUME IInv, Shutdown PROVE IInv'
<1>1. CallInv /\ TypeOK /\ CapturedInv BY DEF IInv, CallInv
<1>2. TypeOK' /\ UNCHANGED <<callVars, original>> BY <1>1, ShutdownTypes
<1>3. \A g \in Hooks : state'[g] # "none" => state[g] # "none"
  BY <1>1 DEF Shutdown, ShutdownFlag, ShutdownTake, ShutdownNext, ShutdownDone, Step,
              TypeOK, hookVars
<1>4. CapturedInv' BY <1>1, <1>2, <1>3 DEF CapturedInv
<1> QED BY <1>1, <1>2, <1>4, QuietKeeps DEF IInv, CallInv

LEMMA CallSteps ==
    ASSUME IInv, NEW t \in Threads, Trampoline(t) \/ \E v \in Vtables : Dispatch(t, v)
    PROVE  IInv'
<1>1. CallInv /\ CapturedInv BY DEF IInv
<1>2. CallInv' BY <1>1, TrampolineKeeps, DispatchKeeps
<1>3. UNCHANGED <<state, original>>
  BY DEF Trampoline, LookupFinds, LookupMisses, CheckRunning, PassThrough, Enter,
         HandlerCalls, InnerReturns, HandlerEnds, LeaveReturns, LeaveFallsBack,
         OriginalReturns, Dispatch, hookVars
<1> QED BY <1>1, <1>2, <1>3 DEF IInv, CapturedInv

LEMMA Initially == Init => IInv
<1> SUFFICES ASSUME Init PROVE IInv OBVIOUS
<1>1. <<>> \in Seq(Hooks) /\ <<>> \in Seq(Frame) OBVIOUS
<1>2. TypeOK BY <1>1 DEF Init, TypeOK, States
<1>3. \A t \in Threads : stack[t] = <<>> /\ Len(stack[t]) = 0 BY DEF Init
<1>4. StackInv BY <1>3, HookAssumption DEF StackInv
<1>5. FlagInv BY <1>3 DEF FlagInv, FlagsMatch
<1>6. ActiveIsExact
  <2>1. \A h : Flying(stack, h) = {} BY <1>3 DEF Flying, Counts
  <2>2. Cardinality({}) = 0 BY FS_EmptySet
  <2>3. \A h \in Hooks : active[h] = Cardinality(Flying(stack, h)) BY <2>1, <2>2 DEF Init
  <2> QED BY <2>3, ActiveIsFlying
<1>7. CapturedInv BY DEF Init, CapturedInv
<1> QED BY <1>2, <1>4, <1>5, <1>6, <1>7 DEF IInv, CallInv

LEMMA Inductive == IInv /\ [Next]_vars => IInv'
<1> SUFFICES ASSUME IInv, [Next]_vars PROVE IInv' OBVIOUS
<1>1. CASE UNCHANGED vars
  <2>1. CallInv /\ TypeOK /\ CapturedInv BY DEF IInv, CallInv
  <2>2. UNCHANGED <<hookVars, regVars, callVars>> BY <1>1 DEF vars
  <2>3. TypeOK' BY <2>1, <2>2 DEF TypeOK, hookVars, regVars, callVars
  <2>4. CapturedInv' BY <2>1, <2>2 DEF CapturedInv, hookVars
  <2> QED BY <2>1, <2>2, <2>3, <2>4, QuietKeeps DEF IInv, CallInv
<1>2. ASSUME NEW h \in Hooks, Install(h) \/ RemoveHook(h) \/ Drop(h) PROVE IInv'
  BY <1>2, RegistryKeeps
<1>3. ASSUME NEW t \in Threads, Trampoline(t) \/ \E v \in Vtables : Dispatch(t, v)
      PROVE  IInv'
  BY <1>3, CallSteps
<1> QED BY <1>1, <1>2, <1>3, ShutdownKeeps DEF Next

\* The inductive invariant, for any hooks, vtables, threads and nesting.
THEOREM Invariance == Spec => []IInv
<1> QED BY Initially, Inductive, PTL DEF Spec

\* Type correctness; that no counter goes below zero is part of it.
THEOREM TypeCorrect == Spec => []TypeOK
<1>1. IInv => TypeOK BY DEF IInv, CallInv
<1> QED BY <1>1, Invariance, PTL

\* No event is handed to the engine twice, however deep handlers nest, wherever
\* they panic, and also where two hooks share a vtable.
THEOREM NeverTwice == Spec => []EngineAtMostOnce
<1>1. IInv => EngineAtMostOnce
  BY DEF IInv, CallInv, StackInv, FrameInv, EngineAtMostOnce
<1> QED BY <1>1, Invariance, PTL

\* The counter a drop waits on counts the calls that are in the handler.
THEOREM CountersAreExact == Spec => []ActiveIsExact
<1>1. IInv => ActiveIsExact BY DEF IInv, CallInv
<1> QED BY <1>1, Invariance, PTL

\* What the wait is for: a drop that ends without giving up leaves no call
\* inside the handler it is about to free, on any thread and at any depth
\* (process_event.rs: Drop).  Calls that have found the entry and not counted
\* yet are not waited for; of them nothing is said.
QuietAtFinish ==
    [][\A h \in Hooks : DropFinish(h) =>
         \A t \in Threads : \A i \in 1..Len(stack[t]) :
             ~(stack[t][i].h = h /\ InHandler(stack[t][i]))]_vars

THEOREM FinishedDropsAreQuiet == Spec => QuietAtFinish
<1>1. ASSUME IInv, NEW h \in Hooks, DropFinish(h),
             NEW t \in Threads, NEW i \in 1..Len(stack[t])
      PROVE  ~(stack[t][i].h = h /\ InHandler(stack[t][i]))
  <2>1. /\ IsFiniteSet(Threads) /\ MaxNest \in Nat /\ stack[t] \in Seq(Frame)
        /\ Len(stack[t]) <= MaxNest /\ Cardinality(InFlight(h)) = 0
    BY <1>1, HookAssumption DEF IInv, CallInv, TypeOK, StackInv, ActiveIsExact, DropFinish
  <2>a. IsFiniteSet(1..MaxNest) BY <2>1, FS_Interval
  <2>2. IsFiniteSet(Threads \X (1..MaxNest)) BY <2>1, <2>a, FS_Product
  <2>3. IsFiniteSet(InFlight(h)) BY <2>2, FS_Subset DEF InFlight
  <2>4. InFlight(h) = {} BY <2>1, <2>3, FS_EmptySet
  <2>5. Len(stack[t]) \in Nat BY <2>1
  <2>6. i \in 1..MaxNest BY <2>1, <2>5
  <2>7. <<t, i>> \in Threads \X (1..MaxNest) BY <2>6
  <2>8. <<t, i>>[2] <= Len(stack[<<t, i>>[1]]) BY <2>5
  <2> QED BY <2>4, <2>7, <2>8 DEF InFlight
<1>2. IInv /\ [Next]_vars =>
        [\A h \in Hooks : DropFinish(h) =>
           \A t \in Threads : \A i \in 1..Len(stack[t]) :
               ~(stack[t][i].h = h /\ InHandler(stack[t][i]))]_vars
  BY <1>1
<1> QED BY <1>2, Invariance, PTL DEF Spec, QuietAtFinish
------------------------------------------------------------------------------
(* The list of entries.                                                    *)

\* Hook h has patched its slot and has not tried to write it back.
InPlace(h) == state[h] \in {"patched", "owned", "taken"}

\* Hook h has an entry to be found.
Enlisted(h) == InPlace(h) \/ state[h] \in {"listed", "restored"}

\* Exactly the enlisted hooks are listed, once each.
ListInv ==
    /\ \A h \in Hooks : Enlisted(h) <=> \E i \in 1..Len(listed) : listed[i] = h
    /\ \A i, j \in 1..Len(listed) : listed[i] = listed[j] => i = j

\* Taking h off keeps the others, in their order.
LEMMA UnlistOrder ==
    ASSUME TypeOK, ListInv, NEW h \in Hooks, Unlist(h)
    PROVE  /\ \A i \in 1..Len(listed') : listed'[i] # h
           /\ \A i \in 1..Len(listed') : \E j \in 1..Len(listed) : listed'[i] = listed[j]
           /\ \A i, j \in 1..Len(listed') : listed'[i] = listed'[j] => i = j
           /\ \A g \in Hooks \ {h} : (\E i \in 1..Len(listed) : listed[i] = g)
                                        => \E i \in 1..Len(listed') : listed'[i] = g
           /\ \A f, g \in Hooks \ {h} : Behind(g, f) => Behind(g, f)'
<1>1. PICK k \in 1..Len(listed) : listed[k] = h /\ listed' = RemoveAt(listed, k) BY DEF Unlist
<1>2. listed \in Seq(Hooks) /\ Len(listed) \in Nat BY DEF TypeOK
<1> DEFINE old(i) == IF i < k THEN i ELSE i + 1
           new(j) == IF j < k THEN j ELSE j - 1
<1>3. /\ Len(listed') = Len(listed) - 1
      /\ \A i \in 1..(Len(listed) - 1) : listed'[i] = listed[old(i)]
  BY <1>1, <1>2, RemoveAtKeeps
<1>4. \A i \in 1..Len(listed') : old(i) \in 1..Len(listed) /\ old(i) # k BY <1>1, <1>2, <1>3
<1>5. \A j \in 1..Len(listed) : j # k =>
        new(j) \in 1..Len(listed') /\ listed'[new(j)] = listed[j]
  BY <1>1, <1>2, <1>3
<1>6. \A i, j \in 1..Len(listed') : old(i) = old(j) => i = j BY <1>2, <1>3
<1>7. \A i, j \in 1..Len(listed) : i # k /\ j # k /\ i < j => new(i) < new(j) BY <1>1, <1>2
<1> HIDE DEF old, new
<1>8. \A i \in 1..Len(listed') : listed'[i] = listed[old(i)] BY <1>2, <1>3
<1>9. \A i, j \in 1..Len(listed) : listed[i] = listed[j] => i = j BY DEF ListInv
<1>10. ASSUME NEW f \in Hooks \ {h}, NEW g \in Hooks \ {h}, Behind(g, f) PROVE Behind(g, f)'
  <2>1. PICK i \in 1..Len(listed) : listed[i] = f /\ \E j \in (i + 1)..Len(listed) : listed[j] = g
    BY <1>10 DEF Behind
  <2>2. PICK j \in (i + 1)..Len(listed) : listed[j] = g BY <2>1
  <2>3. j \in 1..Len(listed) /\ i < j /\ i # k /\ j # k BY <1>1, <1>2, <2>1, <2>2
  <2>4. /\ new(i) \in 1..Len(listed') /\ listed'[new(i)] = f
        /\ new(j) \in 1..Len(listed') /\ listed'[new(j)] = g
        /\ new(i) < new(j)
    BY <1>5, <1>7, <2>1, <2>2, <2>3
  <2>5. new(j) \in (new(i) + 1)..Len(listed') BY <1>2, <1>3, <2>4
  <2> QED BY <2>4, <2>5 DEF Behind
<1>11. \A i \in 1..Len(listed') : listed'[i] # h BY <1>1, <1>4, <1>8, <1>9
<1>12. \A i, j \in 1..Len(listed') : listed'[i] = listed'[j] => i = j BY <1>4, <1>6, <1>8, <1>9
<1>13. \A i \in 1..Len(listed') : \E j \in 1..Len(listed) : listed'[i] = listed[j] BY <1>4, <1>8
<1>14. ASSUME NEW g \in Hooks \ {h}, NEW i \in 1..Len(listed), listed[i] = g
       PROVE  \E j \in 1..Len(listed') : listed'[j] = g
  BY <1>1, <1>5, <1>14
<1> QED BY <1>10, <1>11, <1>12, <1>13, <1>14

\* A step that moves h on between states with an entry, or without one.
LEMMA ListSame ==
    ASSUME TypeOK, ListInv, NEW h \in Hooks, NEW to \in States,
           state' = [state EXCEPT ![h] = to], listed' = listed,
           Enlisted(h) <=> to \in {"listed", "patched", "owned", "taken", "restored"}
    PROVE  ListInv'
<1>1. state'[h] = to /\ \A g \in Hooks \ {h} : state'[g] = state[g] BY DEF TypeOK
<1>2. \A g \in Hooks : Enlisted(g)' <=> Enlisted(g) BY <1>1 DEF Enlisted, InPlace
<1> QED BY <1>2 DEF ListInv

LEMMA ListKept ==
    ASSUME TypeOK, ListInv, NEW h \in Hooks, Install(h) \/ RemoveHook(h) \/ Drop(h)
    PROVE  ListInv'
<1>n. Len(listed) \in Nat BY DEF TypeOK
<1>1. CASE InstallList(h)
  <2>1. state[h] = "captured" /\ state' = [state EXCEPT ![h] = "listed"] /\ listed' = Append(listed, h)
    BY <1>1 DEF InstallList, Step
  <2>2. state'[h] = "listed" /\ \A g \in Hooks \ {h} : state'[g] = state[g] BY <2>1 DEF TypeOK
  <2>3. /\ Enlisted(h)' /\ ~Enlisted(h)
        /\ \A g \in Hooks \ {h} : Enlisted(g)' <=> Enlisted(g)
    BY <2>1, <2>2 DEF Enlisted, InPlace
  <2>4. /\ Len(listed') = Len(listed) + 1 /\ listed'[Len(listed) + 1] = h
        /\ \A i \in 1..Len(listed) : listed'[i] = listed[i]
    BY <2>1, AppendProperties DEF TypeOK
  <2>5. \A i \in 1..Len(listed) : listed[i] # h BY <2>3 DEF ListInv
  <2>6. \A i \in 1..Len(listed') : i \in 1..Len(listed) \/ i = Len(listed) + 1 BY <1>n, <2>4
  <2>7. \A i, j \in 1..Len(listed') : listed'[i] = listed'[j] => i = j
    BY <2>4, <2>5, <2>6 DEF ListInv
  <2>8. ASSUME NEW g \in Hooks
        PROVE  Enlisted(g)' <=> \E i \in 1..Len(listed') : listed'[i] = g
    <3>1. CASE g = h BY <1>n, <2>3, <2>4, <3>1
    <3>2. CASE g # h
      <4>1. (\E i \in 1..Len(listed') : listed'[i] = g) <=> \E i \in 1..Len(listed) : listed[i] = g
        BY <1>n, <2>4, <2>6, <3>2
      <4> QED BY <2>3, <3>2, <4>1 DEF ListInv
    <3> QED BY <3>1, <3>2
  <2> QED BY <2>7, <2>8 DEF ListInv
<1>2. CASE InstallFail(h) \/ DropUnlist(h)
  <2>1. /\ Unlist(h)
        /\ \E to \in {"gone", "waiting"} : state' = [state EXCEPT ![h] = to]
    BY <1>2 DEF InstallFail, DropUnlist, Step
  <2>2. ~Enlisted(h)' /\ \A g \in Hooks \ {h} : Enlisted(g)' <=> Enlisted(g)
    BY <2>1 DEF Enlisted, InPlace, TypeOK
  <2>3. ASSUME NEW g \in Hooks
        PROVE  Enlisted(g)' <=> \E i \in 1..Len(listed') : listed'[i] = g
    <3>1. CASE g = h BY <2>1, <2>2, <3>1, UnlistOrder
    <3>2. CASE g # h
      <4>1. (\E i \in 1..Len(listed') : listed'[i] = g) <=> \E i \in 1..Len(listed) : listed[i] = g
        BY <2>1, <3>2, UnlistOrder
      <4> QED BY <2>2, <3>2, <4>1 DEF ListInv
    <3> QED BY <3>1, <3>2
  <2>4. \A i, j \in 1..Len(listed') : listed'[i] = listed'[j] => i = j BY <2>1, UnlistOrder
  <2> QED BY <2>3, <2>4 DEF ListInv
<1>3. CASE ~(InstallList(h) \/ InstallFail(h) \/ DropUnlist(h))
  <2>1. PICK to \in States :
          /\ state' = [state EXCEPT ![h] = to] /\ listed' = listed
          /\ state[h] \in {"listed", "patched", "owned", "taken", "restored"}
                <=> to \in {"listed", "patched", "owned", "taken", "restored"}
    BY <1>3 DEF Install, InstallCapture, InstallPatch, Register, DropUnregistered, RemoveHook,
                Drop, DropRestore, DropRestoreFails, DropFinish, DropGivesUp, Step, States
  <2>2. Enlisted(h) <=> to \in {"listed", "patched", "owned", "taken", "restored"}
    BY <2>1 DEF Enlisted, InPlace
  <2> QED BY <2>1, <2>2, ListSame
<1> QED BY <1>1, <1>2, <1>3

------------------------------------------------------------------------------
(* The slots, however vtables are shared.                                  *)

\* Hook h has captured what it will write back.
Pending(h) == state[h] = "captured" \/ Enlisted(h)

\* Hook g stands on hook f: it was captured when f was in place.
StandsOn(g, f) ==
    f # g /\ VtableOf[f] = VtableOf[g] /\ InPlace(f) /\ (state[g] = "captured" \/ Behind(g, f))

SlotInv ==
    /\ \A h \in Hooks : state[h] = "none" => original[h] = "none"
    /\ \A v \in Vtables : slot[v] = "tramp" =>
         Disturbed(v) \/ \E f \in Hooks : VtableOf[f] = v /\ InPlace(f)
    /\ \A g \in Hooks : Pending(g) /\ original[g] = "tramp" =>
         Disturbed(VtableOf[g]) \/ \E f \in Hooks : StandsOn(g, f)

\* A step that leaves the slots alone and only moves h on.
LEMMA MovesOn ==
    ASSUME TypeOK, SlotInv, NEW h \in Hooks, NEW to \in States,
           state' = [state EXCEPT ![h] = to], UNCHANGED <<slot, original>>,
           state[h] # "none", to \notin {"none", "captured"},
           InPlace(h) => to \in {"patched", "owned", "taken"} \/ Disturbed(VtableOf[h])',
           to \in {"listed", "patched", "owned", "taken", "restored"} => Pending(h),
           \A v \in Vtables : Disturbed(v) => Disturbed(v)',
           \A f, g \in Hooks : InPlace(f) /\ Pending(g)' /\ Behind(g, f) => Behind(g, f)',
           state[h] = "captured" => \A f \in Hooks : InPlace(f) => Behind(h, f)'
    PROVE  SlotInv'
<1>1. state'[h] = to /\ \A g \in Hooks \ {h} : state'[g] = state[g] BY DEF TypeOK
<1>v. \A g \in Hooks : VtableOf[g] \in Vtables BY HookAssumption
<1>2. \A f \in Hooks : InPlace(f) => InPlace(f)' \/ Disturbed(VtableOf[f])'
  BY <1>1 DEF InPlace
<1>3. \A g \in Hooks : Pending(g)' => Pending(g) BY <1>1 DEF Pending, Enlisted, InPlace
<1>4. \A g \in Hooks : state'[g] = "none" => original'[g] = "none" BY <1>1 DEF SlotInv
<1>5. ASSUME NEW v \in Vtables, slot'[v] = "tramp", ~Disturbed(v)'
      PROVE  \E f \in Hooks : VtableOf[f] = v /\ InPlace(f)'
  BY <1>2, <1>5 DEF SlotInv
<1>6. ASSUME NEW g \in Hooks, Pending(g)', original'[g] = "tramp", ~Disturbed(VtableOf[g])'
      PROVE  \E f \in Hooks : StandsOn(g, f)'
  <2>1. PICK f \in Hooks : StandsOn(g, f) BY <1>3, <1>6, <1>v DEF SlotInv
  <2>2. f # g /\ VtableOf[f] = VtableOf[g] /\ InPlace(f) /\ InPlace(f)'
    BY <1>2, <1>6, <2>1 DEF StandsOn
  <2>3. state'[g] = "captured" \/ Behind(g, f)'
    <3>1. CASE Behind(g, f) BY <1>6, <2>2, <3>1
    <3>2. CASE state[g] = "captured" /\ g # h BY <1>1, <3>2
    <3>3. CASE state[g] = "captured" /\ g = h BY <2>2, <3>3
    <3> QED BY <2>1, <3>1, <3>2, <3>3 DEF StandsOn
  <2> QED BY <2>2, <2>3 DEF StandsOn
<1> QED BY <1>4, <1>5, <1>6 DEF SlotInv

\* What is disturbed stays so.
LEMMA DisturbedStays ==
    ASSUME \/ UNCHANGED <<crossed, unrestored>>
           \/ \E h \in Hooks : DropRestore(h) \/ DropRestoreFails(h)
    PROVE  \A v \in Vtables : Disturbed(v) => Disturbed(v)'
BY DEF Disturbed, DropRestore, DropRestoreFails

LEMMA CaptureKept ==
    ASSUME TypeOK, SlotInv, NEW h \in Hooks, InstallCapture(h) PROVE SlotInv'
<1>1. /\ state[h] = "none" /\ state' = [state EXCEPT ![h] = "captured"]
      /\ original' = [original EXCEPT ![h] = slot[VtableOf[h]]]
      /\ UNCHANGED <<slot, listed, unrestored, crossed>>
  BY DEF InstallCapture, Step
<1>2. /\ state'[h] = "captured" /\ \A g \in Hooks \ {h} : state'[g] = state[g]
      /\ original'[h] = slot[VtableOf[h]]
      /\ \A g \in Hooks \ {h} : original'[g] = original[g]
  BY <1>1 DEF TypeOK
<1>3. ~InPlace(h) /\ \A f \in Hooks : InPlace(f) => InPlace(f)' /\ f # h
  BY <1>1, <1>2 DEF InPlace
<1>4. \A g \in Hooks \ {h} : Pending(g)' => Pending(g) BY <1>2 DEF Pending, Enlisted, InPlace
<1>5. /\ \A f, g \in Hooks : Behind(g, f) => Behind(g, f)'
      /\ \A v \in Vtables : Disturbed(v)' <=> Disturbed(v)
      /\ \A g \in Hooks : VtableOf[g] \in Vtables
  BY <1>1, HookAssumption DEF Behind, Disturbed
<1>6. \A g \in Hooks : state'[g] = "none" => original'[g] = "none" BY <1>2 DEF SlotInv
<1>7. \A v \in Vtables : slot'[v] = "tramp" =>
        Disturbed(v)' \/ \E f \in Hooks : VtableOf[f] = v /\ InPlace(f)'
  BY <1>1, <1>3, <1>5 DEF SlotInv
<1>8. ASSUME NEW g \in Hooks, Pending(g)', original'[g] = "tramp", ~Disturbed(VtableOf[g])'
      PROVE  \E f \in Hooks : StandsOn(g, f)'
  <2>1. CASE g = h
    <3>1. PICK f \in Hooks : VtableOf[f] = VtableOf[h] /\ InPlace(f)
      BY <1>2, <1>5, <1>8, <2>1 DEF SlotInv
    <3> QED BY <1>2, <1>3, <2>1, <3>1 DEF StandsOn
  <2>2. CASE g # h
    <3>1. PICK f \in Hooks : StandsOn(g, f) BY <1>2, <1>4, <1>5, <1>8, <2>2 DEF SlotInv
    <3> QED BY <1>2, <1>3, <1>5, <2>2, <3>1 DEF StandsOn
  <2> QED BY <2>1, <2>2
<1> QED BY <1>6, <1>7, <1>8 DEF SlotInv

LEMMA PatchKept ==
    ASSUME TypeOK, SlotInv, NEW h \in Hooks, InstallPatch(h) PROVE SlotInv'
<1>1. /\ state[h] = "listed" /\ state' = [state EXCEPT ![h] = "patched"]
      /\ slot' = [slot EXCEPT ![VtableOf[h]] = "tramp"]
      /\ UNCHANGED <<original, listed, unrestored, crossed>>
  BY DEF InstallPatch, Step
<1>2. /\ state'[h] = "patched" /\ \A g \in Hooks \ {h} : state'[g] = state[g]
      /\ \A v \in Vtables \ {VtableOf[h]} : slot'[v] = slot[v]
  BY <1>1 DEF TypeOK
<1>3. InPlace(h)' /\ \A f \in Hooks : InPlace(f) => InPlace(f)' BY <1>2 DEF InPlace
<1>4. \A g \in Hooks : Pending(g)' => Pending(g)
  BY <1>1, <1>2 DEF Pending, Enlisted, InPlace
<1>5. /\ \A f, g \in Hooks : Behind(g, f) => Behind(g, f)'
      /\ \A v \in Vtables : Disturbed(v)' <=> Disturbed(v)
      /\ \A g \in Hooks : VtableOf[g] \in Vtables
  BY <1>1, HookAssumption DEF Behind, Disturbed
<1>6. \A g \in Hooks : state'[g] = "none" => original'[g] = "none" BY <1>1, <1>2 DEF SlotInv
<1>7. ASSUME NEW v \in Vtables, slot'[v] = "tramp", ~Disturbed(v)'
      PROVE  \E f \in Hooks : VtableOf[f] = v /\ InPlace(f)'
  <2>1. CASE v = VtableOf[h] BY <1>3, <2>1
  <2>2. CASE v # VtableOf[h] BY <1>2, <1>3, <1>5, <1>7, <2>2 DEF SlotInv
  <2> QED BY <2>1, <2>2
<1>8. ASSUME NEW g \in Hooks, Pending(g)', original'[g] = "tramp", ~Disturbed(VtableOf[g])'
      PROVE  \E f \in Hooks : StandsOn(g, f)'
  <2>1. PICK f \in Hooks : StandsOn(g, f) BY <1>1, <1>4, <1>5, <1>8 DEF SlotInv
  <2>2. state[g] = "captured" => state'[g] = "captured" BY <1>1, <1>2
  <2> QED BY <1>3, <1>5, <2>1, <2>2 DEF StandsOn
<1> QED BY <1>6, <1>7, <1>8 DEF SlotInv

\* What h writes back was captured from a hook that is still in place, or from
\* the engine; and no hook stands on h, or the vtable counts as crossed.
LEMMA RestoreKept ==
    ASSUME TypeOK, SlotInv, NEW h \in Hooks, DropRestore(h) PROVE SlotInv'
<1>1. /\ state[h] = "taken" /\ state' = [state EXCEPT ![h] = "restored"]
      /\ slot' = [slot EXCEPT ![VtableOf[h]] = original[h]]
      /\ crossed' = IF Above(h) = {} THEN crossed ELSE crossed \cup {VtableOf[h]}
      /\ UNCHANGED <<original, listed, unrestored>>
  BY DEF DropRestore, Step
<1>2. /\ state'[h] = "restored" /\ \A g \in Hooks \ {h} : state'[g] = state[g]
      /\ VtableOf[h] \in Vtables /\ slot'[VtableOf[h]] = original[h]
      /\ \A v \in Vtables \ {VtableOf[h]} : slot'[v] = slot[v]
  BY <1>1, HookAssumption DEF TypeOK
<1>3. \A f \in Hooks \ {h} : InPlace(f) => InPlace(f)' BY <1>2 DEF InPlace
<1>4. Pending(h) /\ \A g \in Hooks : Pending(g)' => Pending(g)
  BY <1>1, <1>2 DEF Pending, Enlisted, InPlace
<1>5. /\ \A f, g \in Hooks : Behind(g, f) => Behind(g, f)'
      /\ \A v \in Vtables : Disturbed(v) => Disturbed(v)'
      /\ \A g \in Hooks : VtableOf[g] \in Vtables
  BY <1>1, DisturbedStays, HookAssumption DEF Behind
<1>6. \A g \in Hooks : state'[g] = "none" => original'[g] = "none" BY <1>1, <1>2 DEF SlotInv
<1>7. ASSUME NEW v \in Vtables, slot'[v] = "tramp", ~Disturbed(v)'
      PROVE  \E f \in Hooks : VtableOf[f] = v /\ InPlace(f)'
  <2>1. CASE v = VtableOf[h]
    <3>1. PICK f \in Hooks : StandsOn(h, f) BY <1>2, <1>4, <1>5, <1>7, <2>1 DEF SlotInv
    <3> QED BY <1>3, <2>1, <3>1 DEF StandsOn
  <2>2. CASE v # VtableOf[h]
    <3>1. PICK f \in Hooks : VtableOf[f] = v /\ InPlace(f)
      BY <1>2, <1>5, <1>7, <2>2 DEF SlotInv
    <3> QED BY <1>3, <2>2, <3>1
  <2> QED BY <2>1, <2>2
<1>8. ASSUME NEW g \in Hooks, Pending(g)', original'[g] = "tramp", ~Disturbed(VtableOf[g])'
      PROVE  \E f \in Hooks : StandsOn(g, f)'
  <2>1. PICK f \in Hooks : StandsOn(g, f) BY <1>1, <1>4, <1>5, <1>8 DEF SlotInv
  <2>2. f # h
    <3>1. SUFFICES ASSUME f = h PROVE FALSE OBVIOUS
    <3>2. g \in Above(h) BY <1>1, <1>8, <2>1, <3>1 DEF Above, StandsOn
    <3>3. VtableOf[g] \in crossed' BY <1>1, <2>1, <3>1, <3>2 DEF StandsOn
    <3> QED BY <1>8, <3>3 DEF Disturbed
  <2>3. state[g] = "captured" => state'[g] = "captured" BY <1>1, <1>2
  <2> QED BY <1>3, <1>5, <2>1, <2>2, <2>3 DEF StandsOn
<1> QED BY <1>6, <1>7, <1>8 DEF SlotInv

LEMMA SlotsKept ==
    ASSUME TypeOK, ListInv, SlotInv,
           NEW h \in Hooks, Install(h) \/ RemoveHook(h) \/ Drop(h)
    PROVE  SlotInv'
<1>n. Len(listed) \in Nat /\ \A i \in 1..Len(listed) : listed[i] \in Hooks
  BY ElementOfSeq DEF TypeOK
<1>1. CASE InstallCapture(h) BY <1>1, CaptureKept
<1>2. CASE InstallPatch(h) BY <1>2, PatchKept
<1>3. CASE DropRestore(h) BY <1>3, RestoreKept
<1>4. CASE InstallList(h)
  <2>1. /\ state[h] = "captured" /\ state' = [state EXCEPT ![h] = "listed"]
        /\ listed' = Append(listed, h) /\ UNCHANGED <<slot, original, unrestored, crossed>>
    BY <1>4 DEF InstallList, Step
  <2>2. /\ Len(listed') = Len(listed) + 1 /\ listed'[Len(listed) + 1] = h
        /\ \A i \in 1..Len(listed) : listed'[i] = listed[i]
    BY <2>1, AppendProperties DEF TypeOK
  <2>3. \A f, g \in Hooks : Behind(g, f) => Behind(g, f)' BY <1>n, <2>2 DEF Behind
  <2>4. ASSUME NEW f \in Hooks, InPlace(f) PROVE Behind(h, f)'
    <3>1. PICK i \in 1..Len(listed) : listed[i] = f BY <2>4 DEF ListInv, Enlisted
    <3>2. /\ i \in 1..Len(listed') /\ listed'[i] = f
          /\ Len(listed') \in (i + 1)..Len(listed') /\ listed'[Len(listed')] = h
      BY <1>n, <2>2, <3>1
    <3> QED BY <3>2 DEF Behind
  <2>5. ~InPlace(h) /\ Pending(h) /\ "listed" \in States BY <2>1 DEF InPlace, Pending, States
  <2> QED BY <2>1, <2>3, <2>4, <2>5, DisturbedStays, MovesOn
<1>5. CASE InstallFail(h) \/ DropUnlist(h)
  <2>1. /\ state[h] \in {"listed", "restored"} /\ Unlist(h)
        /\ \E to \in {"gone", "waiting"} : state' = [state EXCEPT ![h] = to]
        /\ UNCHANGED <<slot, original, unrestored, crossed>>
    BY <1>5 DEF InstallFail, DropUnlist, Step
  <2>2. PICK to \in {"gone", "waiting"} : state' = [state EXCEPT ![h] = to] BY <2>1
  <2>3. ~InPlace(h) /\ ~Pending(h)' /\ to \in States
    BY <2>1, <2>2 DEF InPlace, Pending, Enlisted, States, TypeOK
  <2>4. \A f, g \in Hooks : InPlace(f) /\ Pending(g)' /\ Behind(g, f) => Behind(g, f)'
    BY <2>1, <2>3, UnlistOrder
  <2> QED BY <2>1, <2>2, <2>3, <2>4, DisturbedStays, MovesOn
<1>6. CASE Register(h) \/ DropUnregistered(h) \/ RemoveHook(h)
  <2>1. /\ state[h] \in {"patched", "owned"}
        /\ \E to \in {"owned", "taken"} : state' = [state EXCEPT ![h] = to]
        /\ UNCHANGED <<slot, original, listed, unrestored, crossed>>
    BY <1>6 DEF Register, DropUnregistered, RemoveHook, Step
  <2>2. PICK to \in {"owned", "taken"} : state' = [state EXCEPT ![h] = to] BY <2>1
  <2>3. Pending(h) /\ to \in States BY <2>1, <2>2 DEF Pending, Enlisted, InPlace, States
  <2>4. \A f, g \in Hooks : Behind(g, f) => Behind(g, f)' BY <2>1 DEF Behind
  <2> QED BY <2>1, <2>2, <2>3, <2>4, DisturbedStays, MovesOn
<1>7. CASE DropRestoreFails(h)
  <2>1. /\ state[h] = "taken" /\ state' = [state EXCEPT ![h] = "restored"]
        /\ unrestored' = unrestored \cup {h} /\ UNCHANGED <<slot, original, listed, crossed>>
    BY <1>7 DEF DropRestoreFails, Step
  <2>2. Pending(h) /\ "restored" \in States /\ Disturbed(VtableOf[h])'
    BY <2>1 DEF Pending, Enlisted, InPlace, States, Disturbed
  <2>3. \A f, g \in Hooks : Behind(g, f) => Behind(g, f)' BY <2>1 DEF Behind
  <2> QED BY <1>7, <2>1, <2>2, <2>3, DisturbedStays, MovesOn
<1>8. CASE DropFinish(h) \/ DropGivesUp(h)
  <2>1. /\ state[h] = "waiting" /\ state' = [state EXCEPT ![h] = "gone"]
        /\ UNCHANGED <<slot, original, listed, unrestored, crossed>>
    BY <1>8 DEF DropFinish, DropGivesUp, Step
  <2>2. ~InPlace(h) /\ "gone" \in States BY <2>1 DEF InPlace, States
  <2>3. \A f, g \in Hooks : Behind(g, f) => Behind(g, f)' BY <2>1 DEF Behind
  <2> QED BY <2>1, <2>2, <2>3, DisturbedStays, MovesOn
<1> QED BY <1>1, <1>2, <1>3, <1>4, <1>5, <1>6, <1>7, <1>8 DEF Install, Drop

LEMMA SlotsQuiet ==
    ASSUME TypeOK, ListInv, SlotInv,
           \/ Shutdown
           \/ \E t \in Threads : Trampoline(t) \/ \E v \in Vtables : Dispatch(t, v)
           \/ UNCHANGED vars
    PROVE  ListInv' /\ SlotInv'
<1>1. CASE UNCHANGED hookVars
  BY <1>1 DEF hookVars, ListInv, SlotInv, StandsOn, Pending, Enlisted, InPlace, Behind, Disturbed
<1>2. CASE ShutdownNext
  <2>1. /\ dropping # <<>> /\ state[Head(dropping)] = "owned"
        /\ state' = [state EXCEPT ![Head(dropping)] = "taken"]
        /\ UNCHANGED <<slot, original, listed, unrestored, crossed>>
    BY <1>2 DEF ShutdownNext, Step
  <2>2. PICK h \in Hooks : h = Head(dropping) BY <2>1, HeadTailProperties DEF TypeOK
  <2>3. Enlisted(h) /\ Pending(h) /\ "taken" \in States
    BY <2>1, <2>2 DEF Enlisted, InPlace, Pending, States
  <2>4. \A f, g \in Hooks : Behind(g, f) => Behind(g, f)' BY <2>1 DEF Behind
  <2>5. ListInv' BY <2>1, <2>2, <2>3, ListSame
  <2>6. SlotInv' BY <2>1, <2>2, <2>3, <2>4, DisturbedStays, MovesOn
  <2> QED BY <2>5, <2>6
<1>3. CASE Shutdown /\ ~ShutdownNext
  <2>1. UNCHANGED hookVars BY <1>3 DEF Shutdown, ShutdownFlag, ShutdownTake, ShutdownDone
  <2> QED BY <1>1, <2>1
<1>4. ASSUME NEW t \in Threads, Trampoline(t) \/ \E v \in Vtables : Dispatch(t, v)
      PROVE  ListInv' /\ SlotInv'
  <2>1. UNCHANGED hookVars
    BY <1>4 DEF Trampoline, LookupFinds, LookupMisses, CheckRunning, PassThrough, Enter,
                HandlerCalls, InnerReturns, HandlerEnds, LeaveReturns, LeaveFallsBack,
                OriginalReturns, Dispatch
  <2> QED BY <1>1, <2>1
<1>5. CASE UNCHANGED vars BY <1>1, <1>5 DEF vars
<1> QED BY <1>2, <1>3, <1>4, <1>5

LEMMA SlotInvariance == Spec => [](ListInv /\ SlotInv)
<1>1. Init => ListInv /\ SlotInv
  BY HookAssumption DEF Init, ListInv, SlotInv, Pending, Enlisted, InPlace
<1>2. IInv /\ ListInv /\ SlotInv /\ [Next]_vars => ListInv' /\ SlotInv'
  <2> SUFFICES ASSUME IInv, ListInv, SlotInv, [Next]_vars PROVE ListInv' /\ SlotInv' OBVIOUS
  <2>1. TypeOK BY DEF IInv, CallInv
  <2>2. ASSUME NEW h \in Hooks, Install(h) \/ RemoveHook(h) \/ Drop(h)
        PROVE  ListInv' /\ SlotInv'
    BY <2>1, <2>2, ListKept, SlotsKept
  <2>3. CASE \/ Shutdown
             \/ \E t \in Threads : Trampoline(t) \/ \E v \in Vtables : Dispatch(t, v)
             \/ UNCHANGED vars
    BY <2>1, <2>3, SlotsQuiet
  <2> QED BY <2>2, <2>3 DEF Next
<1> QED BY <1>1, <1>2, Invariance, PTL DEF Spec

\* A patched slot has its entry, and the slots of dropped hooks hold the
\* engine's function, whoever shares a vtable: unless a write back failed, or a
\* hook was taken off before one that stood on it.
THEOREM SlotsStaySound == Spec => []SlotsAreSound
<1>1. TypeOK /\ ListInv /\ SlotInv => SlotsAreSound
  <2> SUFFICES ASSUME TypeOK, ListInv, SlotInv PROVE SlotsAreSound OBVIOUS
  <2>1. PatchedIsListed
    <3> SUFFICES ASSUME NEW v \in Vtables, slot[v] = "tramp", ~Disturbed(v) PROVE HasEntry(v)
      BY DEF PatchedIsListed
    <3>1. PICK h \in Hooks : VtableOf[h] = v /\ InPlace(h) BY DEF SlotInv
    <3> QED BY <3>1 DEF ListInv, Enlisted, HasEntry
  <2>2. DroppedIsRestored
    <3> SUFFICES ASSUME NEW v \in Vtables, ~Disturbed(v),
                        \A h \in Hooks : VtableOf[h] = v => state[h] \in {"none", "gone"}
                 PROVE  slot[v] = "engine"
      BY DEF DroppedIsRestored
    <3>1. slot[v] # "tramp" BY DEF SlotInv, InPlace
    <3> QED BY <3>1 DEF TypeOK
  <2> QED BY <2>1, <2>2 DEF SlotsAreSound
<1> QED BY <1>1, SlotInvariance, TypeCorrect, PTL

------------------------------------------------------------------------------
(* Where events go.                                                        *)

GoesOn(f) == Disturbed(f.v) \/ IF f.at = "enter" THEN f.met ELSE original[f.h] = "engine"

\* The first entry of a vtable captured the engine's function: a hook that
\* captured ours has the one it stands on listed before it.
LEMMA FirstIsEngine ==
    ASSUME TypeOK, CapturedInv, ListInv, SlotInv, NEW i \in 1..Len(listed),
           \A j \in 1..(i - 1) : VtableOf[listed[j]] # VtableOf[listed[i]]
    PROVE  Disturbed(VtableOf[listed[i]]) \/ original[listed[i]] = "engine"
<1> DEFINE e == listed[i]
<1>1. e \in Hooks /\ Len(listed) \in Nat BY ElementOfSeq DEF TypeOK
<1>2. Enlisted(e) BY <1>1 DEF ListInv
<1>3. state[e] # "captured" /\ state[e] # "none" /\ Pending(e)
  BY <1>2 DEF Enlisted, InPlace, Pending
<1>4. SUFFICES ASSUME ~Disturbed(VtableOf[e]), original[e] = "tramp" PROVE FALSE
  BY <1>1, <1>3 DEF TypeOK, CapturedInv
<1>5. PICK f \in Hooks : StandsOn(e, f) BY <1>1, <1>3, <1>4 DEF SlotInv
<1>6. Behind(e, f) /\ VtableOf[f] = VtableOf[e] BY <1>3, <1>5 DEF StandsOn
<1>7. PICK k \in 1..Len(listed) : listed[k] = f /\ \E j \in (k + 1)..Len(listed) : listed[j] = e
  BY <1>6 DEF Behind
<1>8. k < i
  <2>1. PICK j \in (k + 1)..Len(listed) : listed[j] = e BY <1>7
  <2>2. j \in 1..Len(listed) /\ k < j BY <1>1, <2>1
  <2>3. j = i BY <2>1, <2>2 DEF ListInv
  <2> QED BY <2>2, <2>3
<1> QED BY <1>6, <1>7, <1>8

\* It is enough to look at the frame that was on top and at a fresh one.
LEMMA GoingOn ==
    ASSUME TypeOK, NEW t \in Threads, StackStep(t), EventsReachEngine, UNCHANGED hookVars,
           LET n == Len(stack[t])
           IN  \A i \in {n, n + 1} : i > 0 /\ i <= Len(stack'[t]) => GoesOn(stack'[t][i])
    PROVE  EventsReachEngine'
<1> SUFFICES ASSUME NEW u \in Threads, NEW i \in 1..Len(stack'[u]) PROVE GoesOn(stack'[u][i])
  BY DEF EventsReachEngine, GoesOn, Disturbed, hookVars
<1>1. CASE u # t BY <1>1 DEF StackStep, EventsReachEngine, GoesOn
<1>2. CASE u = t
  <2>1. Len(stack[t]) \in Nat /\ Len(stack'[t]) \in Nat /\ Len(stack'[t]) <= Len(stack[t]) + 1
    BY DEF TypeOK, StackStep, Touches
  <2>2. CASE i < Len(stack[t])
    <3>1. i \in 1..(Len(stack[t]) - 1) /\ i \in 1..Len(stack[t]) BY <2>1, <2>2
    <3>2. stack'[t][i] = stack[t][i] BY <3>1 DEF StackStep, Touches
    <3> QED BY <1>2, <3>1, <3>2 DEF EventsReachEngine, GoesOn
  <2>3. CASE i >= Len(stack[t])
    <3>1. i \in {Len(stack[t]), Len(stack[t]) + 1} /\ i > 0 /\ i <= Len(stack'[t])
      BY <1>2, <2>1, <2>3
    <3> QED BY <1>2, <3>1
  <2> QED BY <2>1, <2>2, <2>3
<1> QED BY <1>1, <1>2

LEMMA TopGoesOn ==
    ASSUME CallInv, EventsReachEngine, NEW t \in Threads, stack[t] # <<>>
    PROVE  GoesOn(Top(t))
<1>1. Top(t) = stack[t][Len(stack[t])] /\ Len(stack[t]) \in 1..Len(stack[t]) BY TopFacts
<1> QED BY <1>1 DEF EventsReachEngine, GoesOn

\* The frame on top is replaced by one that goes on.
LEMMA RetopGoesOn ==
    ASSUME CallInv, EventsReachEngine, NEW t \in Threads, stack[t] # <<>>,
           NEW f \in Frame, Retop(t, f), GoesOn(f), UNCHANGED hookVars
    PROVE  EventsReachEngine'
<1>1. TypeOK /\ StackInv /\ Len(stack[t]) \in Nat BY TopFacts
<1>2. StackStep(t) /\ Len(stack'[t]) = Len(stack[t]) /\ stack'[t][Len(stack[t])] = f
  BY <1>1, RetopStep
<1> QED BY <1>1, <1>2, GoingOn

LEMMA PopGoesOn ==
    ASSUME CallInv, EventsReachEngine, NEW t \in Threads, stack[t] # <<>>,
           Pop(t), UNCHANGED hookVars
    PROVE  EventsReachEngine'
<1>1. TypeOK /\ StackInv /\ Len(stack[t]) \in Nat BY TopFacts
<1>2. StackStep(t) /\ Len(stack'[t]) = Len(stack[t]) - 1 BY <1>1, PopStep
<1> QED BY <1>1, <1>2, GoingOn

\* A frame that goes on calls the engine, not the trampoline.
LEMMA CallGoesOn ==
    ASSUME CallInv, EventsReachEngine, NEW t \in Threads, stack[t] # <<>>, Top(t).at # "enter",
           NEW place \in {"inner", "pass", "fallback"}, CallOriginal(t, place),
           UNCHANGED hookVars
    PROVE  EventsReachEngine'
<1> DEFINE n == Len(stack[t])
           me == [Top(t) EXCEPT !.at = place, !.calls = @ + 1]
<1>1. TypeOK /\ StackInv /\ n \in Nat \ {0} /\ Top(t) \in Frame BY TopFacts
<1>2. /\ StackStep(t) /\ stack'[t][n] = me
      /\ Len(stack'[t]) > n => /\ original[Top(t).h] # "engine"
                               /\ stack'[t][Len(stack'[t])] = NewFrame(Top(t).v)
  BY <1>1, CallStep
<1>3. GoesOn(Top(t)) BY TopGoesOn
<1>4. me.v = Top(t).v /\ me.h = Top(t).h /\ me.at = place BY <1>1 DEF Frame
<1>5. GoesOn(me) BY <1>3, <1>4 DEF GoesOn
<1>6. Len(stack'[t]) \in Nat /\ Len(stack'[t]) <= n + 1
  BY <1>1, <1>2 DEF StackStep, Touches
<1>7. Len(stack'[t]) = n + 1 => GoesOn(stack'[t][n + 1])
  <2> SUFFICES ASSUME Len(stack'[t]) = n + 1 PROVE GoesOn(stack'[t][n + 1]) OBVIOUS
  <2>1. original[Top(t).h] # "engine" /\ stack'[t][n + 1] = NewFrame(Top(t).v)
    BY <1>1, <1>2
  <2>2. Disturbed(Top(t).v) BY <1>3, <2>1 DEF GoesOn
  <2> QED BY <2>1, <2>2 DEF GoesOn, NewFrame
<1> HIDE DEF me
<1>8. \A i \in {n, n + 1} : i > 0 /\ i <= Len(stack'[t]) => GoesOn(stack'[t][i])
  BY <1>1, <1>2, <1>5, <1>6, <1>7
<1> QED BY <1>1, <1>2, <1>8, GoingOn

LEMMA TrampolineGoesOn ==
    ASSUME CallInv, CapturedInv, ListInv, SlotInv, EventsReachEngine,
           NEW t \in Threads, Trampoline(t)
    PROVE  EventsReachEngine'
<1>1. stack[t] # <<>>
  BY DEF Trampoline, LookupFinds, LookupMisses, CheckRunning, PassThrough, Enter, HandlerCalls,
         InnerReturns, HandlerEnds, LeaveReturns, LeaveFallsBack, OriginalReturns, AtTop
<1>2. UNCHANGED hookVars
  BY DEF Trampoline, LookupFinds, LookupMisses, CheckRunning, PassThrough, Enter, HandlerCalls,
         InnerReturns, HandlerEnds, LeaveReturns, LeaveFallsBack, OriginalReturns
<1>3. TypeOK /\ Top(t) \in Frame /\ FrameInv(Top(t)) BY <1>1, TopFacts
<1>4. GoesOn(Top(t)) BY <1>1, TopGoesOn
<1>5. CASE LookupFinds(t)
  <2>1. PICK i \in 1..Len(listed) :
          /\ VtableOf[listed[i]] = Top(t).v
          /\ \A j \in 1..(i - 1) : VtableOf[listed[j]] # Top(t).v
          /\ Retop(t, [Top(t) EXCEPT !.at = "found", !.h = listed[i]])
    BY <1>5 DEF LookupFinds
  <2> DEFINE f == [Top(t) EXCEPT !.at = "found", !.h = listed[i]]
  <2>2. listed[i] \in Hooks BY ElementOfSeq, <1>3 DEF TypeOK
  <2>3. f \in Frame /\ f.v = Top(t).v /\ f.h = listed[i] /\ f.at = "found"
    BY <1>3, <2>2 DEF Frame
  <2>4. Disturbed(Top(t).v) \/ original[listed[i]] = "engine"
    BY <1>3, <2>1, FirstIsEngine
  <2>5. GoesOn(f) BY <2>3, <2>4 DEF GoesOn
  <2>6. Retop(t, f) BY <2>1
  <2> HIDE DEF f
  <2> QED BY <1>1, <1>2, <2>3, <2>5, <2>6, RetopGoesOn
<1>6. CASE LookupMisses(t) \/ LeaveReturns(t) \/ OriginalReturns(t)
  BY <1>1, <1>2, <1>6, PopGoesOn DEF LookupMisses, LeaveReturns, OriginalReturns
<1>7. ASSUME NEW f \in Frame, Retop(t, f), f.v = Top(t).v, f.h = Top(t).h,
             f.at # "enter", Top(t).at # "enter"
      PROVE  EventsReachEngine'
  <2>1. GoesOn(f) BY <1>4, <1>7 DEF GoesOn
  <2> QED BY <1>1, <1>2, <1>7, <2>1, RetopGoesOn
<1>8. CASE CheckRunning(t)
  <2> DEFINE f == [Top(t) EXCEPT !.at = "count"]
  <2>1. f \in Frame /\ f.v = Top(t).v /\ f.h = Top(t).h /\ f.at = "count" BY <1>3 DEF Frame
  <2>2. Retop(t, f) /\ Top(t).at = "found" BY <1>8 DEF CheckRunning, AtTop
  <2> HIDE DEF f
  <2> QED BY <1>7, <2>1, <2>2
<1>9. CASE Enter(t)
  <2> DEFINE f == [Top(t) EXCEPT !.at = "handler", !.saved = called[t]]
  <2>1. called[t] \in BOOLEAN BY <1>3 DEF TypeOK
  <2>2. f \in Frame /\ f.v = Top(t).v /\ f.h = Top(t).h /\ f.at = "handler"
    BY <1>3, <2>1 DEF Frame
  <2>3. Retop(t, f) /\ Top(t).at = "count" BY <1>9 DEF Enter, AtTop
  <2> HIDE DEF f
  <2> QED BY <1>7, <2>2, <2>3
<1>10. CASE InnerReturns(t)
  <2> DEFINE f == [Top(t) EXCEPT !.at = "handler"]
  <2>1. f \in Frame /\ f.v = Top(t).v /\ f.h = Top(t).h /\ f.at = "handler" BY <1>3 DEF Frame
  <2>2. Retop(t, f) /\ Top(t).at = "inner" BY <1>10 DEF InnerReturns, AtTop
  <2> HIDE DEF f
  <2> QED BY <1>7, <2>1, <2>2
<1>11. CASE HandlerEnds(t)
  <2>1. PICK b \in BOOLEAN : Retop(t, [Top(t) EXCEPT !.at = "leave", !.panicked = b])
    BY <1>11 DEF HandlerEnds
  <2> DEFINE f == [Top(t) EXCEPT !.at = "leave", !.panicked = b]
  <2>2. f \in Frame /\ f.v = Top(t).v /\ f.h = Top(t).h /\ f.at = "leave" BY <1>3 DEF Frame
  <2>3. Retop(t, f) /\ Top(t).at = "handler" BY <1>11, <2>1 DEF HandlerEnds, AtTop
  <2> HIDE DEF f
  <2> QED BY <1>7, <2>2, <2>3
<1>12. CASE PassThrough(t) \/ HandlerCalls(t) \/ LeaveFallsBack(t)
  <2>1. PICK place \in {"inner", "pass", "fallback"} : CallOriginal(t, place)
    BY <1>12 DEF PassThrough, HandlerCalls, LeaveFallsBack
  <2>2. Top(t).at # "enter" BY <1>12 DEF PassThrough, HandlerCalls, LeaveFallsBack, AtTop
  <2> QED BY <1>1, <1>2, <2>1, <2>2, CallGoesOn
<1> QED BY <1>5, <1>6, <1>8, <1>9, <1>10, <1>11, <1>12 DEF Trampoline

\* An event comes in through a patched slot, so it meets an entry.
LEMMA DispatchGoesOn ==
    ASSUME CallInv, SlotsAreSound, EventsReachEngine,
           NEW t \in Threads, NEW v \in Vtables, Dispatch(t, v)
    PROVE  EventsReachEngine'
<1>1. TypeOK /\ StackInv BY DEF CallInv
<1>2. /\ StackStep(t) /\ Len(stack'[t]) = Len(stack[t]) + 1
      /\ \A i \in 1..Len(stack[t]) : stack'[t][i] = stack[t][i]
      /\ stack'[t][Len(stack[t]) + 1] = NewFrame(v)
  BY <1>1, PushStep DEF Dispatch
<1>3. Len(stack[t]) \in Nat BY <1>1 DEF TypeOK
<1>4. GoesOn(NewFrame(v))
  BY DEF Dispatch, SlotsAreSound, PatchedIsListed, GoesOn, NewFrame
<1>5. Len(stack[t]) > 0 => GoesOn(stack'[t][Len(stack[t])])
  BY <1>2, <1>3 DEF EventsReachEngine, GoesOn
<1>6. UNCHANGED hookVars BY DEF Dispatch
<1>7. \A i \in {Len(stack[t]), Len(stack[t]) + 1} :
        i > 0 /\ i <= Len(stack'[t]) => GoesOn(stack'[t][i])
  BY <1>2, <1>4, <1>5
<1> QED BY <1>1, <1>2, <1>6, <1>7, GoingOn

\* The registry's steps leave the frames alone, and what a hook has captured.
LEMMA RegistryGoesOn ==
    ASSUME CallInv, SlotInv, EventsReachEngine,
           \/ \E h \in Hooks : Install(h) \/ RemoveHook(h) \/ Drop(h)
           \/ Shutdown \/ UNCHANGED vars
    PROVE  EventsReachEngine'
<1>1. stack' = stack
  BY DEF Install, InstallCapture, InstallList, InstallPatch, InstallFail, Register,
         DropUnregistered, RemoveHook, Drop, DropRestore, DropRestoreFails, DropUnlist,
         DropFinish, DropGivesUp, Shutdown, ShutdownFlag, ShutdownTake, ShutdownNext,
         ShutdownDone, vars, callVars
<1>2. \A v \in Vtables : Disturbed(v) => Disturbed(v)'
  <2>1. CASE \E h \in Hooks : DropRestore(h) \/ DropRestoreFails(h) BY <2>1, DisturbedStays
  <2>2. CASE ~\E h \in Hooks : DropRestore(h) \/ DropRestoreFails(h)
    <3>1. UNCHANGED <<crossed, unrestored>>
      BY <2>2 DEF Install, InstallCapture, InstallList, InstallPatch, InstallFail, Register,
             DropUnregistered, RemoveHook, Drop, DropUnlist, DropFinish, DropGivesUp,
             Shutdown, ShutdownFlag, ShutdownTake, ShutdownNext, ShutdownDone, vars, hookVars
    <3> QED BY <3>1, DisturbedStays
  <2> QED BY <2>1, <2>2
<1>3. \A g \in Hooks : original[g] = "engine" => original'[g] = "engine"
  <2>1. ASSUME NEW h \in Hooks, InstallCapture(h), NEW g \in Hooks, original[g] = "engine"
        PROVE  original'[g] = "engine"
    <3>1. g # h BY <2>1 DEF InstallCapture, Step, SlotInv
    <3> QED BY <2>1, <3>1 DEF InstallCapture
  <2>2. CASE ~\E h \in Hooks : InstallCapture(h)
    <3>1. UNCHANGED original
      BY <2>2 DEF Install, InstallList, InstallPatch, InstallFail, Register,
             DropUnregistered, RemoveHook, Drop, DropRestore, DropRestoreFails, DropUnlist,
             DropFinish, DropGivesUp, Shutdown, ShutdownFlag, ShutdownTake, ShutdownNext,
             ShutdownDone, vars, hookVars
    <3> QED BY <3>1
  <2> QED BY <2>1, <2>2
<1> SUFFICES ASSUME NEW t \in Threads, NEW i \in 1..Len(stack[t]) PROVE GoesOn(stack[t][i])'
  BY <1>1 DEF EventsReachEngine, GoesOn
<1>4. /\ stack[t][i] \in Frame /\ stack[t][i].v \in Vtables
      /\ stack[t][i].at # "enter" => stack[t][i].h \in Hooks
  <2>1. stack[t] \in Seq(Frame) BY DEF CallInv, TypeOK
  <2>2. stack[t][i] \in Frame BY <2>1, ElementOfSeq
  <2> QED BY <2>2 DEF CallInv, StackInv, FrameInv, Frame
<1>5. GoesOn(stack[t][i]) BY DEF EventsReachEngine, GoesOn
<1> QED BY <1>1, <1>2, <1>3, <1>4, <1>5 DEF GoesOn

\* An event that has come in gets to the engine's function, however hooks nest
\* and share vtables: the entry it finds captured that function, and a slot is
\* patched only while there is an entry to find.  The exceptions are an event
\* whose entries are taken off before it looks, and a vtable that was disturbed.
THEOREM EventsGetThrough == Spec => []EventsReachEngine
<1> DEFINE Inv == IInv /\ ListInv /\ SlotInv /\ SlotsAreSound
<1>1. Init => EventsReachEngine BY DEF Init, EventsReachEngine
<1>2. Inv /\ EventsReachEngine /\ [Next]_vars => EventsReachEngine'
  <2> SUFFICES ASSUME Inv, EventsReachEngine, [Next]_vars PROVE EventsReachEngine' OBVIOUS
  <2>1. CallInv /\ CapturedInv BY DEF IInv
  <2>2. ASSUME NEW t \in Threads, Trampoline(t) PROVE EventsReachEngine'
    BY <2>1, <2>2, TrampolineGoesOn
  <2>3. ASSUME NEW t \in Threads, NEW v \in Vtables, Dispatch(t, v) PROVE EventsReachEngine'
    BY <2>1, <2>3, DispatchGoesOn
  <2>4. CASE \/ \E h \in Hooks : Install(h) \/ RemoveHook(h) \/ Drop(h)
             \/ Shutdown \/ UNCHANGED vars
    BY <2>1, <2>4, RegistryGoesOn
  <2> QED BY <2>2, <2>3, <2>4 DEF Next
<1>3. Spec => []Inv BY Invariance, SlotInvariance, SlotsStaySound, PTL
<1> QED BY <1>1, <1>2, <1>3, PTL DEF Spec
==============================================================================
