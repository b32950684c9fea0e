-------------------------- MODULE MainThreadQueueProofs --------------------------
(***************************************************************************)
(* Proofs about MainThreadQueue for any sets of calls and any budget.      *)
(*                                                                         *)
(* The invariant follows a call from the queue to its caller.  A job is in *)
(* the queue, in the batch or on the main thread, at one place and once    *)
(* (JobsInv); afterwards it has panicked, left a result that nobody has    *)
(* fetched, or been answered (FateInv); and the newest job of all that     *)
(* wait is the last of the queue or, when that is empty, of the batch      *)
(* (LatestInv).  With it every step is one of JobCall, or none.            *)
(***************************************************************************)
EXTENDS MainThreadQueue, SequenceTheorems, TLAPS

Distinct(s) == \A i, j \in 1 .. Len(s) : s[i] = s[j] => i = j

Open(c) == c \in Waiting \/ c = job

Active(c) == caller[c] \in {"polling", "late"}

JobsInv ==
    /\ Distinct(queue) /\ Distinct(batch)
    /\ ToSet(queue) \cap ToSet(batch) = {}
    /\ job \notin Waiting
    /\ main = "job" <=> job # None
    /\ main \notin {"drain", "job"} => batch = <<>>

\* The main thread waits for one call at most.
OwnInv ==
    /\ \A c \in Own : Active(c) => main = "own"
    /\ \A c, d \in Own : Active(c) /\ Active(d) => c = d

FateInv == \A c \in Calls :
    /\ got[c] # "none" <=> caller[c] = "done"
    /\ caller[c] = "new" <=>
         ~Open(c) /\ c \notin panicked /\ result[c] = "none" /\ got[c] \notin Outcomes
    /\ Open(c) => c \notin panicked
    /\ Open(c) \/ c \in panicked => result[c] = "none" /\ got[c] \notin Outcomes
    /\ result[c] # "none" => got[c] \notin Outcomes

LatestInv ==
    /\ queue # <<>> => queue[Len(queue)] = latest
    /\ queue = <<>> /\ batch # <<>> => batch[Len(batch)] = latest
    /\ queue = <<>> /\ batch = <<>> => effect = latest

IInv == TypeOK /\ ShadowIsExact /\ JobsInv /\ OwnInv /\ FateInv /\ LatestInv

------------------------------------------------------------------------------
(* Sequences.                                                              *)

LEMMA SetOf ==
    ASSUME NEW S, NEW s \in Seq(S)
    PROVE  /\ Len(s) \in Nat /\ ToSet(s) \subseteq S
           /\ \A i \in 1 .. Len(s) : s[i] \in S
           /\ \A x : x \in ToSet(s) <=> \E i \in 1 .. Len(s) : s[i] = x
           /\ s = <<>> <=> Len(s) = 0
           /\ s = <<>> <=> ToSet(s) = {}
<1>1. Len(s) \in Nat /\ DOMAIN s = 1 .. Len(s) /\ \A i \in 1 .. Len(s) : s[i] \in S
  BY LenProperties, ElementOfSeq
<1>2. s = <<>> <=> Len(s) = 0 BY EmptySeq
<1>3. \A x : x \in ToSet(s) <=> \E i \in 1 .. Len(s) : s[i] = x BY <1>1 DEF ToSet
<1>4. Len(s) = 0 => ToSet(s) = {} BY <1>1, <1>3
<1>5. Len(s) # 0 => s[1] \in ToSet(s) BY <1>1, <1>3
<1> QED BY <1>1, <1>2, <1>3, <1>4, <1>5

\* A job is queued behind the others.
LEMMA Appended ==
    ASSUME NEW S, NEW s \in Seq(S), NEW x \in S
    PROVE  /\ Append(s, x) \in Seq(S) /\ Append(s, x) # <<>>
           /\ Len(Append(s, x)) = Len(s) + 1
           /\ Append(s, x)[Len(s) + 1] = x
           /\ ToSet(Append(s, x)) = ToSet(s) \cup {x}
           /\ Distinct(s) /\ x \notin ToSet(s) => Distinct(Append(s, x))
<1> DEFINE t == Append(s, x)
<1>1. /\ t \in Seq(S) /\ t # <<>> /\ Len(t) = Len(s) + 1 /\ t[Len(s) + 1] = x
      /\ \A i \in 1 .. Len(s) : t[i] = s[i]
  BY AppendProperties
<1>2. Len(s) \in Nat BY SetOf
<1> HIDE DEF t
<1>3. \A y : y \in ToSet(s) <=> \E i \in 1 .. Len(s) : s[i] = y BY SetOf
<1>4. \A y : y \in ToSet(t) <=> \E i \in 1 .. Len(t) : t[i] = y BY <1>1, SetOf
<1>5. ToSet(t) = ToSet(s) \cup {x}
  <2>1. ASSUME NEW y \in ToSet(t) PROVE y \in ToSet(s) \cup {x}
    <3>1. PICK i \in 1 .. Len(t) : t[i] = y BY <1>4
    <3> QED BY <1>1, <1>2, <1>3, <3>1
  <2>2. ASSUME NEW y \in ToSet(s) PROVE y \in ToSet(t)
    <3>1. PICK i \in 1 .. Len(s) : s[i] = y BY <1>3
    <3>2. i \in 1 .. Len(t) /\ t[i] = y BY <1>1, <1>2, <3>1
    <3> QED BY <1>4, <3>2
  <2>3. x \in ToSet(t) BY <1>1, <1>2, <1>4
  <2> QED BY <2>1, <2>2, <2>3
<1>6. ASSUME Distinct(s), x \notin ToSet(s) PROVE Distinct(t)
  BY <1>1, <1>2, <1>3, <1>6 DEF Distinct
<1> QED BY <1>1, <1>5, <1>6 DEF t

\* s is a, of length k, and then b.
Parts(S, s, k, a, b) ==
    /\ a \in Seq(S) /\ b \in Seq(S) /\ Len(a) = k /\ Len(b) = Len(s) - k
    /\ \A i \in 1 .. k : a[i] = s[i]
    /\ \A i \in 1 .. Len(s) - k : b[i] = s[k + i]
    /\ ToSet(a) \cup ToSet(b) = ToSet(s)
    /\ Distinct(s) => Distinct(a) /\ Distinct(b) /\ ToSet(a) \cap ToSet(b) = {}

\* The first k jobs are taken and the others stay.
LEMMA Split ==
    ASSUME NEW S, NEW s \in Seq(S), NEW k \in 0 .. Len(s)
    PROVE  Parts(S, s, k, SubSeq(s, 1, k), SubSeq(s, k + 1, Len(s)))
<1> DEFINE a == SubSeq(s, 1, k)
           b == SubSeq(s, k + 1, Len(s))
<1>a. a = SubSeq(s, 1, k) OBVIOUS
<1>b. b = SubSeq(s, k + 1, Len(s)) OBVIOUS
<1> HIDE DEF a, b
<1>n. Len(s) \in Nat /\ k \in Nat /\ k <= Len(s) BY SetOf
<1>1. /\ a \in Seq(S) /\ Len(a) = k /\ \A i \in 1 .. k : a[i] = s[i]
  <2>1. \A i \in 1 .. k : s[i] \in S BY <1>n, SetOf
  <2> QED BY <1>a, <1>n, <2>1, SubSeqProperties
<1>2. /\ b \in Seq(S) /\ Len(b) = Len(s) - k /\ \A i \in 1 .. Len(s) - k : b[i] = s[k + i]
  <2>1. \A i \in k + 1 .. Len(s) : s[i] \in S BY <1>n, SetOf
  <2> QED BY <1>b, <1>n, <2>1, SubSeqProperties
<1>3. /\ \A y : y \in ToSet(s) <=> \E i \in 1 .. Len(s) : s[i] = y
      /\ \A y : y \in ToSet(a) <=> \E i \in 1 .. k : a[i] = y
      /\ \A y : y \in ToSet(b) <=> \E i \in 1 .. Len(s) - k : b[i] = y
  <2>1. \A y : y \in ToSet(s) <=> \E i \in 1 .. Len(s) : s[i] = y BY SetOf
  <2>2. \A y : y \in ToSet(a) <=> \E i \in 1 .. Len(a) : a[i] = y BY <1>1, SetOf
  <2>3. \A y : y \in ToSet(b) <=> \E i \in 1 .. Len(b) : b[i] = y
    <3>1. b \in Seq(S) BY <1>2
    <3> QED BY ONLY <3>1, SetOf
  <2> QED BY <1>1, <1>2, <2>1, <2>2, <2>3
<1>4. ToSet(a) \cup ToSet(b) = ToSet(s)
  <2>1. ASSUME NEW y \in ToSet(a) PROVE y \in ToSet(s)
    <3>1. PICK i \in 1 .. k : a[i] = y BY <1>3
    <3>2. i \in 1 .. Len(s) /\ s[i] = y BY <1>n, <1>1, <3>1
    <3> QED BY <1>3, <3>2
  <2>2. ASSUME NEW y \in ToSet(b) PROVE y \in ToSet(s)
    <3>1. PICK i \in 1 .. Len(s) - k : b[i] = y BY <1>3
    <3>2. k + i \in 1 .. Len(s) /\ s[k + i] = y BY <1>n, <1>2, <3>1
    <3> QED BY <1>3, <3>2
  <2>3. ASSUME NEW y \in ToSet(s) PROVE y \in ToSet(a) \cup ToSet(b)
    <3>1. PICK i \in 1 .. Len(s) : s[i] = y BY <1>3
    <3>2. CASE i <= k
      <4>1. i \in 1 .. k /\ a[i] = y BY <1>n, <1>1, <3>1, <3>2
      <4> QED BY <1>3, <4>1
    <3>3. CASE i > k
      <4>1. i - k \in 1 .. Len(s) - k /\ k + (i - k) = i BY <1>n, <3>1, <3>3
      <4>2. b[i - k] = y BY <1>2, <3>1, <4>1
      <4> QED BY <1>3, <4>1, <4>2
    <3> QED BY <1>n, <3>2, <3>3
  <2> QED BY <2>1, <2>2, <2>3
<1>5. ASSUME Distinct(s) PROVE Distinct(a) /\ Distinct(b) /\ ToSet(a) \cap ToSet(b) = {}
  <2>1. Distinct(a) BY <1>n, <1>1, <1>5 DEF Distinct
  <2>2. Distinct(b)
    <3>1. SUFFICES ASSUME NEW i \in 1 .. Len(s) - k, NEW j \in 1 .. Len(s) - k, b[i] = b[j]
                   PROVE  i = j
      BY <1>2 DEF Distinct
    <3>2. k + i \in 1 .. Len(s) /\ k + j \in 1 .. Len(s) /\ s[k + i] = s[k + j]
      BY <1>n, <1>2, <3>1
    <3>3. k + i = k + j BY <1>5, <3>2 DEF Distinct
    <3> QED BY <1>n, <3>3
  <2>3. ASSUME NEW y \in ToSet(a), y \in ToSet(b) PROVE FALSE
    <3>1. PICK i \in 1 .. k : a[i] = y BY <1>3
    <3>2. PICK j \in 1 .. Len(s) - k : b[j] = y BY <1>3, <2>3
    <3>3. i \in 1 .. Len(s) /\ k + j \in 1 .. Len(s) /\ s[i] = s[k + j]
      BY <1>n, <1>1, <1>2, <3>1, <3>2
    <3>4. i = k + j BY <1>5, <3>3 DEF Distinct
    <3> QED BY <1>n, <3>1, <3>2, <3>4
  <2> QED BY <2>1, <2>2, <2>3
<1> QED BY <1>1, <1>2, <1>4, <1>5 DEF Parts, a, b

\* The oldest job leaves.
LEMMA Popped ==
    ASSUME NEW S, NEW s \in Seq(S), s # <<>>
    PROVE  /\ Head(s) \in S /\ Tail(s) \in Seq(S)
           /\ Len(Tail(s)) = Len(s) - 1 /\ Len(s) \in Nat \ {0}
           /\ \A i \in 1 .. Len(s) - 1 : Tail(s)[i] = s[i + 1]
           /\ Head(s) = s[1]
           /\ ToSet(s) = {Head(s)} \cup ToSet(Tail(s))
           /\ Distinct(s) => Distinct(Tail(s)) /\ Head(s) \notin ToSet(Tail(s))
<1>1. /\ Head(s) \in S /\ Tail(s) \in Seq(S) /\ Len(Tail(s)) = Len(s) - 1
      /\ \A i \in 1 .. Len(s) - 1 : Tail(s)[i] = s[i + 1]
  BY HeadTailProperties
<1>2. Len(s) \in Nat \ {0} /\ Head(s) = s[1] BY SetOf
<1> DEFINE t == Tail(s)
<1> HIDE DEF t
<1>3. /\ \A y : y \in ToSet(s) <=> \E i \in 1 .. Len(s) : s[i] = y
      /\ \A y : y \in ToSet(t) <=> \E i \in 1 .. Len(s) - 1 : t[i] = y
  BY <1>1, SetOf DEF t
<1>4. \A i \in 1 .. Len(s) - 1 : t[i] = s[i + 1] BY <1>1 DEF t
<1>5. ToSet(s) = {Head(s)} \cup ToSet(t)
  <2>1. ASSUME NEW y \in ToSet(s) PROVE y \in {Head(s)} \cup ToSet(t)
    <3>1. PICK i \in 1 .. Len(s) : s[i] = y BY <1>3
    <3>2. CASE i = 1 BY <1>2, <3>1, <3>2
    <3>3. CASE i # 1
      <4>1. i - 1 \in 1 .. Len(s) - 1 /\ (i - 1) + 1 = i BY <1>2, <3>1, <3>3
      <4>2. t[i - 1] = y BY <1>4, <3>1, <4>1
      <4> QED BY <1>3, <4>1, <4>2
    <3> QED BY <3>2, <3>3
  <2>2. ASSUME NEW y \in ToSet(t) PROVE y \in ToSet(s)
    <3>1. PICK i \in 1 .. Len(s) - 1 : t[i] = y BY <1>3
    <3>2. i + 1 \in 1 .. Len(s) /\ s[i + 1] = y BY <1>2, <1>4, <3>1
    <3> QED BY <1>3, <3>2
  <2>3. Head(s) \in ToSet(s) BY <1>2, <1>3
  <2> QED BY <2>1, <2>2, <2>3
<1>6. ASSUME Distinct(s) PROVE Distinct(t) /\ Head(s) \notin ToSet(t)
  <2>1. Distinct(t)
    <3>1. SUFFICES ASSUME NEW i \in 1 .. Len(s) - 1, NEW j \in 1 .. Len(s) - 1, t[i] = t[j]
                   PROVE  i = j
      BY <1>1 DEF Distinct, t
    <3>2. i + 1 \in 1 .. Len(s) /\ j + 1 \in 1 .. Len(s) /\ s[i + 1] = s[j + 1]
      BY <1>2, <1>4, <3>1
    <3>3. i + 1 = j + 1 BY <1>6, <3>2 DEF Distinct
    <3> QED BY <1>2, <3>3
  <2>2. ASSUME Head(s) \in ToSet(t) PROVE FALSE
    <3>1. PICK i \in 1 .. Len(s) - 1 : t[i] = Head(s) BY <1>3, <2>2
    <3>2. 1 \in 1 .. Len(s) /\ i + 1 \in 1 .. Len(s) /\ s[i + 1] = s[1]
      BY <1>2, <1>4, <3>1
    <3>3. i + 1 = 1 BY <1>6, <3>2 DEF Distinct
    <3> QED BY <1>2, <3>1, <3>3
  <2> QED BY <2>1, <2>2
<1> QED BY <1>1, <1>2, <1>5, <1>6 DEF t

------------------------------------------------------------------------------
(* The callers.                                                            *)

LEMMA Constants ==
    /\ Own \subseteq Calls /\ None \notin Calls /\ Budget \in Nat \ {0}
    /\ "none" \notin Outcomes /\ "timed_out" \notin Outcomes
    /\ Results = {"none"} \cup Outcomes
BY QueueAssumption DEF Outcomes, Results

LEMMA Initially == Init => IInv
<1> SUFFICES ASSUME Init PROVE IInv OBVIOUS
<1>1. queue = <<>> /\ batch = <<>> /\ queue \in Seq(Calls) BY DEF Init
<1>2. Waiting = {} /\ Len(queue) = 0 /\ Len(batch) = 0 BY <1>1, SetOf DEF Waiting
<1>3. TypeOK BY <1>1 DEF Init, TypeOK, Results
<1>4. ShadowIsExact /\ LatestInv BY <1>1, <1>2 DEF Init, ShadowIsExact, LatestInv
<1>5. JobsInv BY <1>1, <1>2, Constants DEF Init, JobsInv, Distinct, Waiting
<1>6. OwnInv BY Constants DEF Init, OwnInv, Active
<1>7. FateInv BY <1>2, Constants DEF Init, FateInv, Open
<1> QED BY <1>3, <1>4, <1>5, <1>6, <1>7 DEF IInv

\* What IInv says of the sequences.
LEMMA Sequences ==
    ASSUME IInv
    PROVE  /\ queue \in Seq(Calls) /\ batch \in Seq(Calls)
           /\ Len(queue) \in Nat /\ Len(batch) \in Nat
           /\ Waiting \subseteq Calls
           /\ Waiting = {} <=> queue = <<>> /\ batch = <<>>
<1>1. queue \in Seq(Calls) /\ batch \in Seq(Calls) BY DEF IInv, TypeOK
<1>2. Len(queue) \in Nat /\ ToSet(queue) \subseteq Calls /\ (queue = <<>> <=> ToSet(queue) = {})
  BY <1>1, SetOf
<1>3. Len(batch) \in Nat /\ ToSet(batch) \subseteq Calls /\ (batch = <<>> <=> ToSet(batch) = {})
  BY <1>1, SetOf
<1> QED BY <1>1, <1>2, <1>3 DEF Waiting

\* A new call, from a worker or from the main thread itself.
LEMMA Pushes ==
    ASSUME IInv, NEW c \in Calls, caller[c] = "new", Push(c),
           mutex' \in Calls \cup {None}, UNCHANGED <<batch, job>>,
           \/ c \notin Own /\ main' = main
           \/ c \in Own /\ main = "engine" /\ main' = "own"
    PROVE  IInv' /\ Waiting' = Waiting \cup {c}
<1>t. TypeOK /\ JobsInv /\ OwnInv /\ FateInv /\ LatestInv BY DEF IInv
<1>1. /\ queue' = Append(queue, c) /\ pending' = Len(queue) + 1 /\ latest' = c
      /\ caller' = [caller EXCEPT ![c] = "polling"]
      /\ UNCHANGED <<result, got, effect, panicked>>
  BY DEF Push
<1>2. ~Open(c) /\ c \notin panicked /\ result[c] = "none" /\ got[c] \notin Outcomes
      /\ c \notin ToSet(queue) /\ c \notin ToSet(batch)
  BY <1>t, Constants DEF FateInv, Open, Waiting
<1>3. /\ queue' \in Seq(Calls) /\ queue' # <<>> /\ Len(queue') = Len(queue) + 1
      /\ queue'[Len(queue) + 1] = c /\ ToSet(queue') = ToSet(queue) \cup {c}
      /\ Distinct(queue) /\ c \notin ToSet(queue) => Distinct(queue')
  BY <1>1, Sequences, Appended
<1>4. Waiting' = Waiting \cup {c} BY <1>3 DEF Waiting
<1>5. TypeOK'
  <2>1. pending' \in Nat BY <1>1, Sequences
  <2> QED BY <1>t, <1>1, <1>3, <2>1 DEF TypeOK
<1>6. ShadowIsExact' BY <1>1, <1>3 DEF ShadowIsExact
<1>7. JobsInv'
  <2>1. Distinct(queue)' BY <1>t, <1>2, <1>3 DEF JobsInv, Distinct
  <2>2. Distinct(batch)' BY <1>t DEF JobsInv, Distinct
  <2>3. ToSet(queue') \cap ToSet(batch') = {} BY <1>t, <1>2, <1>3 DEF JobsInv
  <2>4. job' \notin Waiting' BY <1>t, <1>2, <1>4 DEF JobsInv, Open
  <2> QED BY <1>t, <2>1, <2>2, <2>3, <2>4 DEF JobsInv
<1>8. OwnInv' BY <1>t, <1>1, Constants DEF TypeOK, OwnInv, Active
<1>9. FateInv'
  <2>1. \A d \in Calls \ {c} : Open(d)' = Open(d) BY <1>4 DEF Open
  <2>2. Open(c)' BY <1>4 DEF Open
  <2> QED BY <1>t, <1>1, <1>2, <2>1, <2>2 DEF TypeOK, FateInv
<1>10. LatestInv' BY <1>1, <1>3 DEF LatestInv
<1> QED BY <1>4, <1>5, <1>6, <1>7, <1>8, <1>9, <1>10 DEF IInv

\* A caller that got an answer, or the timeout, returns.
LEMMA ReturnsKeeps ==
    ASSUME IInv, NEW c \in Calls, Active(c), UNCHANGED <<queueVars, batch, job, histVars>>,
           NEW r \in Outcomes \cup {"timed_out"}, Returns(c, r),
           \/ r \in Outcomes /\ result[c] # "none" /\ result' = [result EXCEPT ![c] = "none"]
           \/ r = "timed_out" /\ result' = result
    PROVE  IInv' /\ Waiting' = Waiting
<1>t. TypeOK /\ JobsInv /\ OwnInv /\ FateInv /\ LatestInv BY DEF IInv
<1>1. /\ caller' = [caller EXCEPT ![c] = "done"] /\ got' = [got EXCEPT ![c] = r]
      /\ mutex' = IF mutex = c THEN None ELSE mutex
      /\ main' = IF c \in Own THEN "engine" ELSE main
      /\ UNCHANGED <<queue, pending, batch, job, effect, latest, panicked>>
  BY DEF Returns, queueVars, histVars
<1>2. Waiting' = Waiting BY <1>1 DEF Waiting
<1>3. TypeOK' BY <1>t, <1>1, Constants DEF TypeOK
<1>4. c \in Own => main = "own" BY <1>t DEF OwnInv
<1>5. JobsInv' BY <1>t, <1>1, <1>2, <1>4 DEF JobsInv, Distinct
<1>6. OwnInv' BY <1>t, <1>1, Constants DEF TypeOK, OwnInv, Active
<1>7. FateInv'
  <2>1. \A d \in Calls : Open(d)' = Open(d) BY <1>1, <1>2 DEF Open
  <2>2. \A d \in Calls \ {c} : UNCHANGED <<caller[d], got[d], result[d]>>
    BY <1>t, <1>1 DEF TypeOK
  <2>3. /\ caller'[c] = "done" /\ got'[c] = r /\ r # "none"
        /\ r \in Outcomes => result'[c] = "none" /\ ~Open(c) /\ c \notin panicked
        /\ r \notin Outcomes => result'[c] = result[c] /\ got[c] = "none"
    BY <1>t, <1>1, Constants DEF TypeOK, FateInv, Active
  <2> QED BY <1>t, <1>1, <2>1, <2>2, <2>3, Constants DEF FateInv, Active
<1>8. LatestInv' BY <1>t, <1>1 DEF LatestInv
<1> QED BY <1>1, <1>2, <1>3, <1>5, <1>6, <1>7, <1>8 DEF IInv, ShadowIsExact

------------------------------------------------------------------------------
(* Steps that touch no job: the main thread, with no batch in hand, goes    *)
(* elsewhere, or a caller looks in vain.                                   *)

LEMMA StillMoves ==
    ASSUME IInv, UNCHANGED <<queueVars, batch, job, result, got, mutex, histVars>>,
           \/ main' = main
           \/ /\ main \notin {"job", "own"} /\ batch = <<>>
              /\ main' \in {"engine", "blocked", "joining", "unloaded"},
           \/ caller' = caller
           \/ \E c \in Calls : /\ caller[c] = "polling"
                               /\ caller' = [caller EXCEPT ![c] = "late"]
    PROVE  IInv' /\ Waiting' = Waiting
<1>t. TypeOK /\ JobsInv /\ OwnInv /\ FateInv /\ LatestInv BY DEF IInv
<1>1. UNCHANGED <<queue, pending, batch, job, result, got, effect, latest, panicked>>
  BY DEF queueVars, histVars
<1>2. Waiting' = Waiting BY <1>1 DEF Waiting
<1>3. /\ caller' \in [Calls -> {"new", "polling", "late", "done"}]
      /\ \A c \in Calls : /\ caller'[c] = "new" <=> caller[c] = "new"
                          /\ caller'[c] = "done" <=> caller[c] = "done"
                          /\ Active(c)' = Active(c)
  BY <1>t DEF TypeOK, Active
<1>4. TypeOK' BY <1>t, <1>1, <1>3 DEF TypeOK
<1>5. JobsInv' BY <1>t, <1>1, <1>2 DEF JobsInv, Distinct
<1>6. OwnInv' BY <1>t, <1>3, Constants DEF OwnInv
<1>7. FateInv' BY <1>t, <1>1, <1>2, <1>3 DEF FateInv, Open
<1>8. LatestInv' BY <1>t, <1>1 DEF LatestInv
<1> QED BY <1>1, <1>2, <1>4, <1>5, <1>6, <1>7, <1>8 DEF IInv, ShadowIsExact

------------------------------------------------------------------------------
(* The main thread's drain.                                                *)

LEMMA DrainTakesKeeps ==
    ASSUME IInv, DrainTakes PROVE IInv' /\ Waiting' = Waiting
<1>t. TypeOK /\ JobsInv /\ OwnInv /\ FateInv /\ LatestInv /\ ShadowIsExact BY DEF IInv
<1> DEFINE k == IF Len(queue) < Budget THEN Len(queue) ELSE Budget
<1>1. /\ main = "engine" /\ pending # 0 /\ main' = "drain" /\ pending' = Len(queue')
      /\ batch' = SubSeq(queue, 1, k) /\ queue' = SubSeq(queue, k + 1, Len(queue))
      /\ UNCHANGED <<job, result, caller, got, mutex, effect, latest, panicked>>
  BY DEF DrainTakes, callerVars, histVars
<1>2. k \in 1 .. Len(queue) /\ k \in 0 .. Len(queue) /\ Len(queue) \in Nat
  BY <1>t, <1>1, Sequences, Constants DEF ShadowIsExact
<1> HIDE DEF k
<1>3. /\ batch' \in Seq(Calls) /\ queue' \in Seq(Calls)
      /\ Len(batch') = k /\ Len(queue') = Len(queue) - k
      /\ \A i \in 1 .. k : batch'[i] = queue[i]
      /\ \A i \in 1 .. Len(queue) - k : queue'[i] = queue[k + i]
      /\ ToSet(batch') \cup ToSet(queue') = ToSet(queue)
      /\ Distinct(queue) =>
           Distinct(batch') /\ Distinct(queue') /\ ToSet(batch') \cap ToSet(queue') = {}
  <2>1. queue \in Seq(Calls) BY Sequences
  <2>2. Parts(Calls, queue, k, batch', queue') BY <1>1, <1>2, <2>1, Split
  <2> QED BY <2>2 DEF Parts
<1>4. batch = <<>> /\ ToSet(batch) = {} BY <1>t, <1>1, Sequences, SetOf DEF JobsInv
<1>5. Waiting' = Waiting BY <1>3, <1>4 DEF Waiting
<1>6. TypeOK'
  <2>1. Len(queue') \in Nat BY <1>2, <1>3
  <2> QED BY <1>t, <1>1, <1>3, <2>1 DEF TypeOK
<1>7. JobsInv'
  <2>1. Distinct(queue') /\ Distinct(batch') /\ ToSet(queue') \cap ToSet(batch') = {}
    BY <1>t, <1>3 DEF JobsInv
  <2>2. Distinct(queue)' /\ Distinct(batch)' BY <2>1 DEF Distinct
  <2>3. main # "job" /\ main' # "job" BY <1>1
  <2> QED BY <1>t, <1>1, <1>5, <2>1, <2>2, <2>3 DEF JobsInv
<1>8. OwnInv'
  <2>1. \A c \in Own : ~Active(c) BY <1>t, <1>1 DEF OwnInv
  <2> QED BY <1>1, <2>1 DEF OwnInv, Active
<1>9. FateInv' BY <1>t, <1>1, <1>5 DEF FateInv, Open
<1>10. LatestInv'
  <2>1. queue # <<>> /\ queue[Len(queue)] = latest BY <1>t, <1>2, Sequences, EmptySeq DEF LatestInv
  <2>2. batch' # <<>> BY <1>2, <1>3, EmptySeq
  <2>3. CASE queue' = <<>>
    <3>1. k = Len(queue) BY <1>2, <1>3, <2>3, EmptySeq
    <3> QED BY <1>1, <1>2, <1>3, <2>1, <2>2, <2>3, <3>1 DEF LatestInv
  <2>4. CASE queue' # <<>>
    <3>1. Len(queue) - k \in Nat /\ Len(queue) - k # 0 BY <1>2, <1>3, <2>4, EmptySeq
    <3>2. Len(queue) - k \in 1 .. Len(queue) - k /\ k + (Len(queue) - k) = Len(queue)
      BY <1>2, <3>1
    <3>3. queue'[Len(queue')] = queue[Len(queue)] BY <1>3, <3>2
    <3> QED BY <1>1, <2>1, <2>4, <3>3 DEF LatestInv
  <2> QED BY <2>3, <2>4
<1> QED BY <1>1, <1>5, <1>6, <1>7, <1>8, <1>9, <1>10 DEF IInv, ShadowIsExact

\* The oldest job of the batch becomes the one that runs.
LEMMA JobBeginsKeeps ==
    ASSUME IInv, JobBegins
    PROVE  /\ IInv' /\ job = None /\ job' \in Calls /\ job' \in Waiting
           /\ Waiting' = Waiting \ {job'}
<1>t. TypeOK /\ JobsInv /\ OwnInv /\ FateInv /\ LatestInv BY DEF IInv
<1>1. /\ main = "drain" /\ batch # <<>> /\ main' = "job"
      /\ job' = Head(batch) /\ batch' = Tail(batch) /\ effect' = Head(batch)
      /\ UNCHANGED <<queue, pending, result, caller, got, mutex, latest, panicked>>
  BY DEF JobBegins, queueVars, callerVars
<1>2. /\ job' \in Calls /\ batch' \in Seq(Calls)
      /\ Len(batch') = Len(batch) - 1 /\ Len(batch) \in Nat \ {0}
      /\ \A i \in 1 .. Len(batch) - 1 : batch'[i] = batch[i + 1]
      /\ job' = batch[1] /\ ToSet(batch) = {job'} \cup ToSet(batch')
      /\ Distinct(batch) => Distinct(batch') /\ job' \notin ToSet(batch')
  BY <1>1, Sequences, Popped
<1>3. Distinct(batch') /\ job' \notin ToSet(batch') /\ job' \notin ToSet(queue)
  BY <1>t, <1>2 DEF JobsInv
<1>4. job' \in Waiting /\ Waiting' = Waiting \ {job'} BY <1>1, <1>2, <1>3 DEF Waiting
<1>5. job = None BY <1>t, <1>1 DEF JobsInv
<1>6. TypeOK' BY <1>t, <1>1, <1>2 DEF TypeOK
<1>7. JobsInv'
  <2>1. Distinct(queue)' /\ Distinct(batch)' BY <1>t, <1>1, <1>3 DEF JobsInv, Distinct
  <2>2. ToSet(queue') \cap ToSet(batch') = {} BY <1>t, <1>1, <1>2 DEF JobsInv
  <2>3. job' # None BY <1>2, Constants
  <2> QED BY <1>1, <1>4, <2>1, <2>2, <2>3 DEF JobsInv
<1>8. OwnInv'
  <2>1. \A c \in Own : ~Active(c) BY <1>t, <1>1 DEF OwnInv
  <2> QED BY <1>1, <2>1 DEF OwnInv, Active
<1>9. FateInv'
  <2>1. \A c \in Calls : Open(c)' <=> Open(c) BY <1>2, <1>4, <1>5, Constants DEF Open
  <2> QED BY <1>t, <1>1, <2>1 DEF FateInv
<1>10. LatestInv'
  <2>1. CASE queue # <<>> BY <1>t, <1>1, <2>1 DEF LatestInv
  <2>2. CASE queue = <<>> /\ Len(batch) = 1
    <3>1. batch' = <<>> BY <1>2, <2>2, EmptySeq
    <3> QED BY <1>t, <1>1, <1>2, <2>2, <3>1 DEF LatestInv
  <2>3. CASE queue = <<>> /\ Len(batch) # 1
    <3>1. Len(batch) - 1 \in 1 .. Len(batch) - 1 /\ (Len(batch) - 1) + 1 = Len(batch)
      BY <1>2, <2>3
    <3>2. batch'[Len(batch')] = batch[Len(batch)] BY <1>2, <3>1
    <3>3. batch' # <<>> BY <1>2, <3>1, EmptySeq
    <3> QED BY <1>t, <1>1, <2>3, <3>2, <3>3 DEF LatestInv
  <2> QED BY <2>1, <2>2, <2>3
<1> QED BY <1>1, <1>2, <1>4, <1>5, <1>6, <1>7, <1>8, <1>9, <1>10 DEF IInv, ShadowIsExact

\* The job ends: it leaves a result for its caller, or it panics.
LEMMA JobEndsKeeps ==
    ASSUME IInv, JobReturns \/ JobPanics
    PROVE  /\ IInv' /\ job \in Calls /\ Open(job) /\ job' = None /\ Waiting' = Waiting
           /\ \/ JobPanics /\ result' = result /\ panicked' = panicked \cup {job}
              \/ /\ panicked' = panicked
                 /\ \E o \in Outcomes : result' = [result EXCEPT ![job] = o]
<1>t. TypeOK /\ JobsInv /\ OwnInv /\ FateInv /\ LatestInv BY DEF IInv
<1>1. /\ main = "job" /\ main' = "drain" /\ job' = None
      /\ UNCHANGED <<queue, pending, batch, caller, got, mutex, effect, latest>>
  BY DEF JobReturns, JobPanics, queueVars, callerVars, histVars
<1>2. job \in Calls /\ job # None BY <1>t, <1>1 DEF TypeOK, JobsInv
<1>j. PICK j \in Calls : j = job /\ j # None BY <1>2
<1>3. Waiting' = Waiting BY <1>1 DEF Waiting
<1>4. /\ result[job] = "none" /\ got[job] \notin Outcomes /\ job \notin panicked
      /\ caller[job] # "new" /\ job \notin Waiting
  BY <1>t, <1>2 DEF FateInv, Open, JobsInv
<1>5. \/ JobPanics /\ result' = result /\ panicked' = panicked \cup {job}
      \/ panicked' = panicked /\ \E o \in Outcomes : result' = [result EXCEPT ![job] = o]
  BY DEF JobReturns, JobPanics, histVars
<1>6. TypeOK' BY <1>t, <1>1, <1>2, <1>5, Constants DEF TypeOK
<1>7. JobsInv'
  <2>1. job' \notin Waiting' BY <1>1, <1>3, Sequences, Constants
  <2> QED BY <1>t, <1>1, <2>1 DEF JobsInv, Distinct
<1>8. OwnInv'
  <2>1. \A c \in Own : ~Active(c) BY <1>t, <1>1 DEF OwnInv
  <2> QED BY <1>1, <2>1 DEF OwnInv, Active
<1>9. FateInv'
  <2>2. ~Open(j)' /\ caller'[j] # "new" /\ got'[j] \notin Outcomes
    BY <1>1, <1>j, <1>3, <1>4 DEF Open
  <2>3. \/ j \in panicked' /\ result'[j] = "none"
        \/ j \notin panicked' /\ result'[j] # "none"
    BY <1>t, <1>j, <1>4, <1>5, Constants DEF TypeOK
  <2> SUFFICES ASSUME NEW c \in Calls
               PROVE  /\ got'[c] # "none" <=> caller'[c] = "done"
                      /\ caller'[c] = "new" <=>
                           /\ ~Open(c)' /\ c \notin panicked' /\ result'[c] = "none"
                           /\ got'[c] \notin Outcomes
                      /\ Open(c)' => c \notin panicked'
                      /\ Open(c)' \/ c \in panicked' =>
                           result'[c] = "none" /\ got'[c] \notin Outcomes
                      /\ result'[c] # "none" => got'[c] \notin Outcomes
    BY DEF FateInv
  <2>4. CASE c = j BY <1>t, <1>1, <2>2, <2>3, <2>4 DEF FateInv
  <2>5. CASE c # j
    <3>1. Open(c)' <=> Open(c) BY <1>1, <1>j, <1>3, <2>5, Constants DEF Open
    <3>2. result'[c] = result[c] /\ (c \in panicked' <=> c \in panicked)
      BY <1>t, <1>j, <1>5, <2>5 DEF TypeOK
    <3> QED BY <1>t, <1>1, <3>1, <3>2 DEF FateInv
  <2> QED BY <2>4, <2>5
<1>10. LatestInv' BY <1>t, <1>1 DEF LatestInv
<1> QED BY <1>1, <1>2, <1>3, <1>5, <1>6, <1>7, <1>8, <1>9, <1>10 DEF IInv, ShadowIsExact, Open

------------------------------------------------------------------------------
(* The invariant.                                                          *)

\* The steps of StillMoves.
Still ==
    \/ \E c \in Calls : Late(c)
    \/ DrainEnds \/ Blocks \/ Unblocks \/ Shutdown \/ Joined
    \/ UNCHANGED vars

LEMMA StillKeeps ==
    ASSUME IInv, Still
    PROVE  IInv' /\ Waiting' = Waiting /\ UNCHANGED <<job, result, got, panicked>>
           /\ \A c \in Calls : /\ caller'[c] = "new" <=> caller[c] = "new"
                               /\ caller'[c] = "done" <=> caller[c] = "done"
<1>1. UNCHANGED <<queueVars, batch, job, result, got, mutex, histVars>>
  BY DEF Still, Late, DrainEnds, Blocks, Unblocks, Shutdown, Joined, vars, mainVars, callerVars
<1>2. \/ main' = main
      \/ /\ main \notin {"job", "own"} /\ batch = <<>>
         /\ main' \in {"engine", "blocked", "joining", "unloaded"}
  BY DEF Still, Late, DrainEnds, Blocks, Unblocks, Shutdown, Joined, vars, mainVars, IInv, JobsInv
<1>3. \/ caller' = caller
      \/ \E c \in Calls : caller[c] = "polling" /\ caller' = [caller EXCEPT ![c] = "late"]
  BY DEF Still, Late, DrainEnds, Blocks, Unblocks, Shutdown, Joined, vars, callerVars
<1>4. IInv' /\ Waiting' = Waiting BY <1>1, <1>2, <1>3, StillMoves
<1>5. \A c \in Calls : /\ caller'[c] = "new" <=> caller[c] = "new"
                       /\ caller'[c] = "done" <=> caller[c] = "done"
  BY <1>3 DEF IInv, TypeOK
<1> QED BY <1>1, <1>4, <1>5 DEF histVars

\* A call of either kind, and both kinds of return.
LEMMA CallKeeps ==
    ASSUME IInv, NEW c \in Calls, Call(c) \/ CallOwn(c)
    PROVE  IInv' /\ Push(c) /\ caller[c] = "new" /\ job' = job /\ Waiting' = Waiting \cup {c}
<1>1. /\ Push(c) /\ caller[c] = "new" /\ UNCHANGED <<batch, job>>
      /\ \/ c \notin Own /\ main' = main
         \/ c \in Own /\ main = "engine" /\ main' = "own"
  <2>1. CASE Call(c) BY <2>1 DEF Call, mainVars
  <2>2. CASE CallOwn(c) BY <2>2 DEF CallOwn
  <2> QED BY <2>1, <2>2
<1>2. mutex' \in Calls \cup {None} BY DEF Call, CallOwn, Acquires, IInv, TypeOK
<1> QED BY <1>1, <1>2, Pushes

LEMMA PollKeeps ==
    ASSUME IInv, NEW c \in Calls, Poll(c) PROVE IInv' /\ Waiting' = Waiting
<1>1. result[c] \in Outcomes /\ result' = [result EXCEPT ![c] = "none"] /\ Active(c)
      /\ Returns(c, result[c]) /\ UNCHANGED <<queueVars, batch, job, histVars>>
  BY Constants DEF Poll, IInv, TypeOK, Active
<1>2. PICK r \in Outcomes : r = result[c] BY <1>1
<1> QED BY <1>1, <1>2, Constants, ReturnsKeeps

LEMMA TimesOutKeeps ==
    ASSUME IInv, NEW c \in Calls, TimesOut(c) PROVE IInv' /\ Waiting' = Waiting
<1>1. Returns(c, "timed_out") /\ result' = result /\ Active(c)
      /\ UNCHANGED <<queueVars, batch, job, histVars>>
  BY DEF TimesOut, Active
<1> QED BY <1>1, ReturnsKeeps

LEMMA NextCases ==
    ASSUME [Next]_vars
    PROVE  \/ \E c \in Calls : Call(c) \/ CallOwn(c) \/ Poll(c) \/ TimesOut(c)
           \/ DrainTakes \/ JobBegins \/ JobReturns \/ JobPanics
           \/ Still
BY DEF Next, Caller, Main, Still, Unloaded

LEMMA Inductive == IInv /\ [Next]_vars => IInv'
<1> SUFFICES ASSUME IInv, [Next]_vars PROVE IInv' OBVIOUS
<1>1. ASSUME NEW c \in Calls, Call(c) \/ CallOwn(c) PROVE IInv' BY <1>1, CallKeeps
<1>2. ASSUME NEW c \in Calls, Poll(c) \/ TimesOut(c) PROVE IInv'
  BY <1>2, PollKeeps, TimesOutKeeps
<1>3. CASE DrainTakes BY <1>3, DrainTakesKeeps
<1>4. CASE JobBegins BY <1>4, JobBeginsKeeps
<1>5. CASE JobReturns \/ JobPanics BY <1>5, JobEndsKeeps
<1>6. CASE Still BY <1>6, StillKeeps
<1> QED BY <1>1, <1>2, <1>3, <1>4, <1>5, <1>6, NextCases

\* The inductive invariant, for all sets of calls and every budget.
THEOREM Invariance == Spec => []IInv
<1> QED BY Initially, Inductive, PTL DEF Spec

\* Type correctness.
THEOREM TypeCorrect == Spec => []TypeOK
<1>1. IInv => TypeOK BY DEF IInv
<1> QED BY <1>1, Invariance, PTL

\* The shadow that drain's fast path reads is the length of the queue: a frame
\* that skips the mutex skips nothing else.
THEOREM ShadowNeverLies == Spec => []ShadowIsExact
<1>1. IInv => ShadowIsExact BY DEF IInv
<1> QED BY <1>1, Invariance, PTL

\* Jobs run in the order in which they were queued, also those whose callers
\* have given up: when none waits, the game shows the effect of the newest.
THEOREM NewestEffectStays == Spec => []LastEffectWins
<1>1. IInv => LastEffectWins BY Sequences DEF IInv, LatestInv, LastEffectWins
<1> QED BY <1>1, Invariance, PTL

------------------------------------------------------------------------------
(* The refinement.                                                         *)

LEMMA InitRefines == Init => Abstract!Init
<1> SUFFICES ASSUME Init PROVE Abstract!Init OBVIOUS
<1>1. \A c \in Calls : PhaseOf(c) = "new" BY DEF Init, PhaseOf
<1>2. \A c \in Calls : AnswerOf(c) = "none" BY DEF Init, AnswerOf
<1> QED BY <1>1, <1>2 DEF Abstract!Init

\* The phase of a job, read off the invariant.
LEMMA PhaseIs ==
    ASSUME IInv, NEW c \in Calls
    PROVE  /\ c \in Waiting => PhaseOf(c) = "queued"
           /\ c = job => PhaseOf(c) = "running"
           /\ c \in panicked => PhaseOf(c) = "dropped"
           /\ caller[c] = "new" <=> PhaseOf(c) = "new"
           /\ PhaseOf(c) = "running" => c = job
           /\ PhaseOf(c) \in Outcomes <=> result[c] \in Outcomes \/ got[c] \in Outcomes
           /\ result[c] \in Outcomes => PhaseOf(c) = result[c]
           /\ got[c] \in Outcomes => PhaseOf(c) = got[c]
<1>1. /\ got[c] # "none" <=> caller[c] = "done"
      /\ caller[c] = "new" <=>
           ~Open(c) /\ c \notin panicked /\ result[c] = "none" /\ got[c] \notin Outcomes
      /\ Open(c) => c \notin panicked
      /\ Open(c) \/ c \in panicked => result[c] = "none" /\ got[c] \notin Outcomes
      /\ result[c] # "none" => got[c] \notin Outcomes
      /\ c = job => c \notin Waiting
      /\ result[c] \in Results /\ got[c] \in Results \cup {"timed_out"}
  BY DEF IInv, TypeOK, FateInv, JobsInv
<1>2. Outcomes = {"ok", "err"} /\ Results = {"none", "ok", "err"} BY DEF Outcomes, Results
<1> QED BY <1>1, <1>2 DEF PhaseOf, Open

\* What a step does to one call, for JobCall.
Unmoved(c) == PhaseOf(c)' = PhaseOf(c) /\ AnswerOf(c)' = AnswerOf(c)

\* A call whose job stays where it is and whose caller does not return.
LEMMA NotMoved ==
    ASSUME NEW c \in Calls,
           c \in Waiting' <=> c \in Waiting, c = job' <=> c = job,
           c \in panicked' <=> c \in panicked,
           caller'[c] = "new" <=> caller[c] = "new",
           caller'[c] = "done" <=> caller[c] = "done",
           result'[c] = result[c], got'[c] = got[c]
    PROVE  Unmoved(c)
BY DEF Unmoved, PhaseOf, AnswerOf

LEMMA NobodyMoves ==
    ASSUME \A c \in Calls : Unmoved(c)
    PROVE  UNCHANGED <<[c \in Calls |-> PhaseOf(c)], [c \in Calls |-> AnswerOf(c)]>>
<1>1. \A c \in Calls : PhaseOf(c)' = PhaseOf(c) BY DEF Unmoved
<1>2. \A c \in Calls : AnswerOf(c)' = AnswerOf(c) BY DEF Unmoved
<1>3. [c \in Calls |-> PhaseOf(c)]' = [c \in Calls |-> PhaseOf(c)] BY <1>1
<1>4. [c \in Calls |-> AnswerOf(c)]' = [c \in Calls |-> AnswerOf(c)] BY <1>2
<1> QED BY <1>3, <1>4

LEMMA OnePhaseMoves ==
    ASSUME NEW c \in Calls, NEW v, PhaseOf(c)' = v, AnswerOf(c)' = AnswerOf(c),
           \A d \in Calls \ {c} : Unmoved(d)
    PROVE  /\ [d \in Calls |-> PhaseOf(d)]' = [[d \in Calls |-> PhaseOf(d)] EXCEPT ![c] = v]
           /\ UNCHANGED [d \in Calls |-> AnswerOf(d)]
<1>1. \A d \in Calls : PhaseOf(d)' = IF d = c THEN v ELSE PhaseOf(d) BY DEF Unmoved
<1>2. \A d \in Calls : AnswerOf(d)' = AnswerOf(d) BY DEF Unmoved
<1>3. [d \in Calls |-> PhaseOf(d)]' = [[d \in Calls |-> PhaseOf(d)] EXCEPT ![c] = v] BY <1>1
<1>4. UNCHANGED [d \in Calls |-> AnswerOf(d)] BY <1>2
<1> QED BY <1>3, <1>4

LEMMA OneAnswerMoves ==
    ASSUME NEW c \in Calls, NEW v, AnswerOf(c)' = v, PhaseOf(c)' = PhaseOf(c),
           \A d \in Calls \ {c} : Unmoved(d)
    PROVE  /\ [d \in Calls |-> AnswerOf(d)]' = [[d \in Calls |-> AnswerOf(d)] EXCEPT ![c] = v]
           /\ UNCHANGED [d \in Calls |-> PhaseOf(d)]
<1>1. \A d \in Calls : AnswerOf(d)' = IF d = c THEN v ELSE AnswerOf(d) BY DEF Unmoved
<1>2. \A d \in Calls : PhaseOf(d)' = PhaseOf(d) BY DEF Unmoved
<1>3. [d \in Calls |-> AnswerOf(d)]' = [[d \in Calls |-> AnswerOf(d)] EXCEPT ![c] = v] BY <1>1
<1>4. UNCHANGED [d \in Calls |-> PhaseOf(d)] BY <1>2
<1> QED BY <1>3, <1>4

LEMMA CallSubmits ==
    ASSUME IInv, NEW c \in Calls, Call(c) \/ CallOwn(c) PROVE Abstract!Submit(c)
<1>1. /\ IInv' /\ caller[c] = "new" /\ job' = job /\ Waiting' = Waiting \cup {c}
      /\ caller' = [caller EXCEPT ![c] = "polling"] /\ UNCHANGED <<result, got, panicked>>
  BY CallKeeps DEF Push
<1>2. PhaseOf(c) = "new" /\ AnswerOf(c) = "none"
  BY <1>1, PhaseIs DEF AnswerOf, IInv, FateInv, TypeOK
<1>3. PhaseOf(c)' = "queued"
  BY <1>1 DEF IInv, TypeOK, PhaseOf
<1>4. AnswerOf(c)' = AnswerOf(c) BY <1>1 DEF AnswerOf
<1>5. ASSUME NEW d \in Calls \ {c} PROVE Unmoved(d)
  BY <1>1, NotMoved DEF IInv, TypeOK
<1> QED BY <1>2, <1>3, <1>4, <1>5, OnePhaseMoves DEF Abstract!Submit

LEMMA PollAnswers ==
    ASSUME IInv, NEW c \in Calls, Poll(c) PROVE Abstract!Answer(c)
<1>1. /\ caller[c] = "polling" /\ result[c] \in Outcomes
      /\ IInv' /\ Waiting' = Waiting /\ UNCHANGED <<job, panicked>>
      /\ result' = [result EXCEPT ![c] = "none"] /\ got' = [got EXCEPT ![c] = result[c]]
      /\ caller' = [caller EXCEPT ![c] = "done"]
  BY PollKeeps, Constants DEF Poll, Returns, IInv, TypeOK, histVars
<1>2. got[c] = "none" /\ result[c] # "timed_out" BY <1>1, Constants DEF IInv, FateInv
<1>3. PhaseOf(c) = result[c] /\ AnswerOf(c) = "none" BY <1>1, <1>2, PhaseIs DEF AnswerOf
<1>4. got'[c] = result[c] BY <1>1 DEF IInv, TypeOK
<1>5. PhaseOf(c)' = PhaseOf(c)
  <2>1. PhaseOf(c)' = got'[c]
    BY <1>1, <1>2, <1>4, Constants DEF PhaseOf, IInv, TypeOK, FateInv, Open
  <2> QED BY <1>3, <1>4, <2>1
<1>6. AnswerOf(c)' = result[c] BY <1>2, <1>4 DEF AnswerOf
<1>7. ASSUME NEW d \in Calls \ {c} PROVE Unmoved(d)
  BY <1>1, NotMoved DEF IInv, TypeOK
<1>8. result[c] \in Abstract!Outcomes BY <1>1 DEF Outcomes, Abstract!Outcomes
<1> QED BY <1>3, <1>5, <1>6, <1>7, <1>8, OneAnswerMoves DEF Abstract!Answer

LEMMA TimeoutGivesUp ==
    ASSUME IInv, NEW c \in Calls, TimesOut(c) PROVE Abstract!GiveUp(c)
<1>1. /\ caller[c] = "late" /\ IInv' /\ Waiting' = Waiting /\ UNCHANGED <<job, panicked, result>>
      /\ got' = [got EXCEPT ![c] = "timed_out"] /\ caller' = [caller EXCEPT ![c] = "done"]
  BY TimesOutKeeps DEF TimesOut, Returns, histVars
<1>2. got[c] = "none" BY <1>1 DEF IInv, FateInv
<1>3. PhaseOf(c) # "new" /\ AnswerOf(c) = "none" BY <1>1, <1>2, PhaseIs DEF AnswerOf
<1>4. got'[c] = "timed_out" /\ caller'[c] = "done" BY <1>1 DEF IInv, TypeOK
<1>5. PhaseOf(c)' = PhaseOf(c) BY <1>1, <1>4 DEF PhaseOf
<1>6. AnswerOf(c)' = "gave_up" BY <1>4 DEF AnswerOf
<1>7. ASSUME NEW d \in Calls \ {c} PROVE Unmoved(d)
  BY <1>1, NotMoved DEF IInv, TypeOK
<1> QED BY <1>3, <1>5, <1>6, <1>7, OneAnswerMoves DEF Abstract!GiveUp

LEMMA JobBeginsRefines ==
    ASSUME IInv, JobBegins PROVE \E c \in Calls : Abstract!Begin(c)
<1>1. /\ IInv' /\ job = None /\ job' \in Calls /\ job' \in Waiting /\ Waiting' = Waiting \ {job'}
      /\ UNCHANGED <<result, caller, got, panicked>>
  BY JobBeginsKeeps DEF JobBegins, callerVars
<1>2. PICK c \in Calls : c = job' BY <1>1
<1>3. PhaseOf(c) = "queued" /\ \A d \in Calls : PhaseOf(d) # "running"
  BY <1>1, <1>2, Constants, PhaseIs
<1>4. PhaseOf(c)' = "running"
  BY <1>1, <1>2, <1>3, PhaseIs DEF PhaseOf
<1>5. AnswerOf(c)' = AnswerOf(c) BY <1>1 DEF AnswerOf
<1>6. ASSUME NEW d \in Calls \ {c} PROVE Unmoved(d)
  BY <1>1, <1>2, Constants, NotMoved
<1> QED BY <1>3, <1>4, <1>5, <1>6, OnePhaseMoves DEF Abstract!Begin

LEMMA JobEndsRefines ==
    ASSUME IInv, JobReturns \/ JobPanics
    PROVE  \E c \in Calls : Abstract!Finish(c) \/ Abstract!Drop({c})
<1>1. /\ IInv' /\ job \in Calls /\ job' = None /\ Waiting' = Waiting
      /\ \/ result' = result /\ panicked' = panicked \cup {job}
         \/ panicked' = panicked /\ \E o \in Outcomes : result' = [result EXCEPT ![job] = o]
  BY JobEndsKeeps
<1>u. UNCHANGED <<caller, got>> BY DEF JobReturns, JobPanics, callerVars
<1>2. PICK c \in Calls : c = job BY <1>1
<1>3. /\ PhaseOf(c) = "running" /\ c \notin Waiting /\ caller[c] # "new" /\ c \notin panicked
      /\ got[c] \notin Outcomes
  BY <1>2, PhaseIs DEF IInv, JobsInv, FateInv, Open
<1>4. AnswerOf(c)' = AnswerOf(c) BY <1>u DEF AnswerOf
<1>5. ASSUME NEW d \in Calls \ {c} PROVE Unmoved(d)
  <2>1. result'[d] = result[d] /\ (d \in panicked' <=> d \in panicked)
    BY <1>1, <1>2 DEF IInv, TypeOK
  <2> QED BY <1>1, <1>u, <1>2, <2>1, Constants, NotMoved
<1>6. CASE result' = result /\ panicked' = panicked \cup {job}
  <2>1. PhaseOf(c)' = "dropped" BY <1>1, <1>u, <1>2, <1>3, <1>6, Constants DEF PhaseOf
  <2>2. /\ [d \in Calls |-> PhaseOf(d)]' = [[d \in Calls |-> PhaseOf(d)] EXCEPT ![c] = "dropped"]
        /\ UNCHANGED [d \in Calls |-> AnswerOf(d)]
    BY <1>4, <1>5, <2>1, OnePhaseMoves
  <2> QED BY <1>3, <2>2 DEF Abstract!Drop
<1>7. CASE panicked' = panicked /\ \E o \in Outcomes : result' = [result EXCEPT ![job] = o]
  <2>1. PICK o \in Outcomes : result' = [result EXCEPT ![job] = o] BY <1>7
  <2>2. result'[c] = o BY <1>2, <2>1 DEF IInv, TypeOK
  <2>a. caller[c] = "done" => got[c] = "timed_out"
    BY <1>3, Constants DEF IInv, TypeOK, FateInv
  <2>b. c \notin Waiting' /\ c # job' /\ c \notin panicked'
    BY <1>1, <1>3, <1>7, Constants
  <2>3. PhaseOf(c)' = o BY <1>u, <1>3, <2>a, <2>b, <2>2 DEF PhaseOf
  <2>4. /\ [d \in Calls |-> PhaseOf(d)]' = [[d \in Calls |-> PhaseOf(d)] EXCEPT ![c] = o]
        /\ UNCHANGED [d \in Calls |-> AnswerOf(d)]
    BY <1>4, <1>5, <2>3, OnePhaseMoves
  <2>5. o \in Abstract!Outcomes BY DEF Outcomes, Abstract!Outcomes
  <2> QED BY <1>3, <2>4, <2>5 DEF Abstract!Finish
<1> QED BY <1>1, <1>6, <1>7

\* Every step of the queue is one of JobCall, or none.
LEMMA StepRefines ==
    ASSUME IInv, [Next]_vars
    PROVE  [Abstract!Next]_<<[c \in Calls |-> PhaseOf(c)], [c \in Calls |-> AnswerOf(c)]>>
<1>1. ASSUME NEW c \in Calls, Call(c) \/ CallOwn(c) PROVE Abstract!Next
  BY <1>1, CallSubmits DEF Abstract!Next
<1>2. ASSUME NEW c \in Calls, Poll(c) \/ TimesOut(c) PROVE Abstract!Next
  BY <1>2, PollAnswers, TimeoutGivesUp DEF Abstract!Next
<1>3. CASE JobBegins BY <1>3, JobBeginsRefines DEF Abstract!Next
<1>4. CASE JobReturns \/ JobPanics
  <2>1. PICK c \in Calls : Abstract!Finish(c) \/ Abstract!Drop({c}) BY <1>4, JobEndsRefines
  <2>2. {c} \in SUBSET Calls OBVIOUS
  <2> QED BY <2>1, <2>2 DEF Abstract!Next
<1>5. CASE DrainTakes \/ Still
  <2>1. /\ Waiting' = Waiting /\ UNCHANGED <<job, result, got, panicked>>
        /\ \A c \in Calls : /\ caller'[c] = "new" <=> caller[c] = "new"
                            /\ caller'[c] = "done" <=> caller[c] = "done"
    BY <1>5, DrainTakesKeeps, StillKeeps DEF DrainTakes, callerVars, histVars
  <2>2. \A c \in Calls : Unmoved(c) BY <2>1, NotMoved
  <2> QED BY <2>2, NobodyMoves
<1> QED BY <1>1, <1>2, <1>3, <1>4, <1>5, NextCases

\* A call through this queue is a call of JobCall: its job runs at most once
\* and not beside another, and what the caller is told is what the job did.
THEOREM Refinement == Spec => ImplementsJobCall
<1>1. IInv /\ [Next]_vars =>
        [Abstract!Next]_<<[c \in Calls |-> PhaseOf(c)], [c \in Calls |-> AnswerOf(c)]>>
  BY StepRefines
<1> QED BY <1>1, InitRefines, Invariance, PTL DEF Spec, ImplementsJobCall, Abstract!Spec

\* One step of the abstract call, said of what the mapping says before and
\* after it, keeps what JobCall promises.
LEMMA StepKeepsPromise ==
    ASSUME Abstract!TypeOK, Abstract!Promise,
           [Abstract!Next]_<<[c \in Calls |-> PhaseOf(c)], [c \in Calls |-> AnswerOf(c)]>>
    PROVE  (Abstract!TypeOK /\ Abstract!Promise)'
<1>t. /\ \A c \in Calls : PhaseOf(c) \in Abstract!Phases /\ AnswerOf(c) \in Abstract!Answers
      /\ \A c, d \in Calls : PhaseOf(c) = "running" /\ PhaseOf(d) = "running" => c = d
      /\ \A c \in Calls : AnswerOf(c) \in Abstract!Outcomes => PhaseOf(c) = AnswerOf(c)
      /\ \A c \in Calls : AnswerOf(c) = "full" => PhaseOf(c) = "new"
  BY DEF Abstract!TypeOK, Abstract!Promise
<1>k. ASSUME /\ \A c \in Calls : PhaseOf(c)' \in Abstract!Phases /\ AnswerOf(c)' \in Abstract!Answers
             /\ \A c, d \in Calls : PhaseOf(c)' = "running" /\ PhaseOf(d)' = "running" => c = d
             /\ \A c \in Calls : AnswerOf(c)' \in Abstract!Outcomes => PhaseOf(c)' = AnswerOf(c)'
             /\ \A c \in Calls : AnswerOf(c)' = "full" => PhaseOf(c)' = "new"
      PROVE  (Abstract!TypeOK /\ Abstract!Promise)'
  BY <1>k DEF Abstract!TypeOK, Abstract!Promise, Abstract!Phases, Abstract!Answers, Abstract!Outcomes
<1>1. ASSUME NEW e \in Calls, Abstract!Submit(e) \/ Abstract!Begin(e) \/ Abstract!Finish(e)
      PROVE  (Abstract!TypeOK /\ Abstract!Promise)'
  <2>1. /\ \A c \in Calls : AnswerOf(c)' = AnswerOf(c)
        /\ \A c \in Calls \ {e} : PhaseOf(c)' = PhaseOf(c)
    BY <1>1 DEF Abstract!Submit, Abstract!Begin, Abstract!Finish
  <2>2. \/ /\ PhaseOf(e) = "new" /\ AnswerOf(e) = "none" /\ PhaseOf(e)' = "queued"
        \/ /\ PhaseOf(e) = "queued" /\ PhaseOf(e)' = "running"
           /\ \A c \in Calls : PhaseOf(c) # "running"
        \/ /\ PhaseOf(e) = "running" /\ PhaseOf(e)' \in Abstract!Outcomes
    BY <1>1 DEF Abstract!Submit, Abstract!Begin, Abstract!Finish
  <2> QED BY <1>t, <1>k, <2>1, <2>2 DEF Abstract!Phases, Abstract!Answers, Abstract!Outcomes
<1>2. ASSUME NEW e \in Calls, Abstract!Refuse(e) \/ Abstract!Answer(e) \/ Abstract!GiveUp(e)
      PROVE  (Abstract!TypeOK /\ Abstract!Promise)'
  <2>1. /\ \A c \in Calls : PhaseOf(c)' = PhaseOf(c)
        /\ \A c \in Calls \ {e} : AnswerOf(c)' = AnswerOf(c)
    BY <1>2 DEF Abstract!Refuse, Abstract!Answer, Abstract!GiveUp
  <2>2. \/ PhaseOf(e) = "new" /\ AnswerOf(e)' = "full"
        \/ PhaseOf(e) \in Abstract!Outcomes /\ AnswerOf(e)' = PhaseOf(e)
        \/ AnswerOf(e)' = "gave_up"
    BY <1>2 DEF Abstract!Refuse, Abstract!Answer, Abstract!GiveUp
  <2> QED BY <1>t, <1>k, <2>1, <2>2 DEF Abstract!Phases, Abstract!Answers, Abstract!Outcomes
<1>3. ASSUME NEW S \in SUBSET Calls, Abstract!Drop(S)
      PROVE  (Abstract!TypeOK /\ Abstract!Promise)'
  <2>1. /\ \A c \in Calls : AnswerOf(c)' = AnswerOf(c)
        /\ \A c \in Calls \ S : PhaseOf(c)' = PhaseOf(c)
        /\ \A c \in S : PhaseOf(c) \in {"queued", "running"} /\ PhaseOf(c)' = "dropped"
    BY <1>3 DEF Abstract!Drop
  <2> QED BY <1>t, <1>k, <2>1 DEF Abstract!Phases, Abstract!Answers, Abstract!Outcomes
<1>4. CASE UNCHANGED <<[c \in Calls |-> PhaseOf(c)], [c \in Calls |-> AnswerOf(c)]>>
  BY <1>4 DEF Abstract!TypeOK, Abstract!Promise
<1> QED BY <1>1, <1>2, <1>3, <1>4 DEF Abstract!Next

LEMMA PromiseIsKept == Abstract!Spec => [](Abstract!TypeOK /\ Abstract!Promise)
<1>1. Abstract!Init => Abstract!TypeOK /\ Abstract!Promise
  BY DEF Abstract!Init, Abstract!TypeOK, Abstract!Promise, Abstract!Phases, Abstract!Answers, Abstract!Outcomes
<1> QED BY <1>1, StepKeepsPromise, PTL DEF Abstract!Spec

\* So jobs run one at a time on the main thread, and what run returns is the
\* outcome of its own job or that it gave up (main_thread_queue.rs: run, drain).
THEOREM CallersAreToldTrue == Spec => []Abstract!Promise
<1> QED BY Refinement, PromiseIsKept, PTL DEF ImplementsJobCall
==============================================================================
