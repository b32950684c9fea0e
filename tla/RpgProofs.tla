------------------------------ MODULE RpgProofs ------------------------------
(***************************************************************************)
(* Proofs about RpgTracker driven by RpgSlots, for any slots, skills,      *)
(* level curve and counts, and any number of slot changes and crashes.     *)
(*                                                                         *)
(* What a change, a load or a save in flight will publish, write or roll   *)
(* back to decides whether the properties hold once it is over.  The       *)
(* inductive invariant therefore says in which order the poller and the    *)
(* ops can come (SessionInv), what a change holds on the way to the disk   *)
(* (SaveInv), that every state in flight or on disk is settled, that is,   *)
(* not below the level of its experience (SettledInv), and balanced        *)
(* (BalanceInv), what a load holds (LoadInv), and which skills of the      *)
(* world are up to date with which state, panics of effects included       *)
(* (WorldInv).                                                             *)
(***************************************************************************)
EXTENDS RpgSlots, FiniteSetTheorems, TLAPS

\* A change is made to a bound slot; a slot is bound only while the poller
\* sleeps or is about to unbind it; a load is the poller's own.
SessionInv ==
    /\ tx # None => inner # None
    /\ inner # None => at \in {"asleep", "deactivate"} /\ last # None
    /\ loading # None <=> at = "activating"
    /\ at \in {"activate", "activating"} => cur # None

\* A change rolls back to what the file holds until it has been renamed, and
\* then holds what the file holds; it takes away no experience, and changes no
\* skill but the one it re-applies.
SaveInv ==
    /\ unsynced = {}
    /\ \A p \in Slots : file[p] # Torn
    /\ tx = None /\ inner # None /\ inner.slot \notin unread
           => inner.st = Loaded(file[inner.slot])
    /\ tx # None =>
         /\ tx.prev.xp <= inner.st.xp
         /\ \A s \in Skills : s # tx.skill => inner.st.levels[s] = tx.prev.levels[s]
         /\ tx.at # "apply" /\ inner.slot \notin unread
                => tx.prev = Loaded(file[inner.slot])
         /\ tx.at = "apply" =>
              tx.skill # None /\ inner.slot \notin unread /\ file[inner.slot] = inner.st

Settled(st) == st.level >= LevelFor[st.xp]

SettledInv ==
    /\ inner # None => Settled(inner.st)
    /\ tx # None => Settled(tx.prev)
    /\ loading # None => Settled(loading.st)
    /\ \A p \in Slots : file[p] # None => Settled(file[p])

BalanceInv ==
    /\ inner # None => Balanced(inner.st)
    /\ tx # None => Balanced(tx.prev)
    /\ loading # None => Balanced(loading.st)
    /\ \A p \in Slots : file[p] # None => Balanced(file[p])

\* What is published after a load is what the file holds then.
LoadInv ==
    loading # None /\ loading.slot \notin unread =>
        loading.st = Loaded(file[loading.slot])

\* The world has the levels of the state a change started from until its skill
\* is re-applied.
WorldInv ==
    /\ inner # None =>
         \A s \in Skills \ (toggling \cup stale) :
             tx = None \/ tx.at # "apply" \/ s # tx.skill => world[s] = Effective(Shown, s)
    /\ loading # None =>
         \A s \in Skills \ (toggling \cup stale) :
             s \notin loading.todo => world[s] = Effective(loading.st, s)

IInv ==
    /\ TypeInvariant /\ SessionInv /\ SaveInv /\ SettledInv
    /\ BalanceInv /\ LoadInv /\ WorldInv

------------------------------------------------------------------------------
(* States of a slot.                                                       *)

LEMMA Sentinels ==
    /\ None \notin Slots /\ None \notin Skills /\ None \notin State
    /\ None \notin Bound /\ None \notin Change /\ None \notin Load
    /\ Torn \notin State /\ Torn # None
BY SentinelAssumption

\* Min of the sets that the operations take it of.
LEMMA MinOfTwo ==
    ASSUME NEW a \in Nat, NEW b \in Nat
    PROVE  Min({a, b}) \in {a, b} /\ Min({a, b}) <= a /\ Min({a, b}) <= b
<1>1. \E x \in {a, b} : \A y \in {a, b} : x <= y
  <2>1. CASE a <= b BY <2>1
  <2>2. CASE ~(a <= b) BY <2>2
  <2> QED BY <2>1, <2>2
<1> QED BY <1>1 DEF Min

LEMMA MinOfThree ==
    ASSUME NEW a \in Nat, NEW b \in Nat, NEW c \in Nat
    PROVE  /\ Min({a, b, c}) \in {a, b, c}
           /\ Min({a, b, c}) <= a /\ Min({a, b, c}) <= b /\ Min({a, b, c}) <= c
<1>1. \E x \in {a, b, c} : \A y \in {a, b, c} : x <= y
  <2>1. CASE a <= b /\ a <= c BY <2>1
  <2>2. CASE b <= a /\ b <= c BY <2>2
  <2>3. CASE c <= a /\ c <= b BY <2>3
  <2> QED BY <2>1, <2>2, <2>3
<1> QED BY <1>1 DEF Min

\* Setting one skill to another level changes the number of spent points by the
\* difference.
LEMMA SpentIsFinite ==
    ASSUME NEW f \in [Skills -> 0..MaxLevel]
    PROVE  IsFiniteSet(Spent(f)) /\ Cardinality(Spent(f)) \in Nat
<1>1. IsFiniteSet(Skills) /\ MaxLevel \in Nat BY TrackerAssumption
<1>2. IsFiniteSet(1..MaxLevel) BY <1>1, FS_Interval
<1>3. IsFiniteSet(Skills \X (1..MaxLevel)) BY <1>1, <1>2, FS_Product
<1>4. Spent(f) \in SUBSET (Skills \X (1..MaxLevel)) BY DEF Spent
<1>5. IsFiniteSet(Spent(f)) BY <1>3, <1>4, FS_Subset
<1> QED BY <1>5, FS_CardinalityType

\* The spent points of one skill, and those of all the others.
LEMMA SpentOfSkill ==
    ASSUME NEW f \in [Skills -> 0..MaxLevel], NEW s \in Skills
    PROVE  Cardinality(Spent(f)) =
               Cardinality({b \in Spent(f) : b[1] # s}) + f[s]
<1> DEFINE Own  == {s} \X (1..f[s])
           Rest == {b \in Spent(f) : b[1] # s}
<1>1. MaxLevel \in Nat /\ f[s] \in 0..MaxLevel BY TrackerAssumption
<1>2. IsFiniteSet(1..f[s]) /\ Cardinality(1..f[s]) = f[s] BY <1>1, FS_Interval
<1>3. IsFiniteSet({s}) /\ Cardinality({s}) = 1 BY FS_Singleton
<1>4. IsFiniteSet(Own) /\ Cardinality(Own) = 1 * f[s]
  BY <1>2, <1>3, FS_Product
<1>5. Rest \in SUBSET Spent(f) OBVIOUS
<1>6. IsFiniteSet(Rest) BY <1>5, SpentIsFinite, FS_Subset
<1>7. Spent(f) = Rest \cup Own BY <1>1 DEF Spent
<1>8. Rest \cap Own = {} OBVIOUS
<1>9. Cardinality(Rest \cap Own) = 0 BY <1>8, FS_EmptySet
<1>10. Cardinality(Rest \cup Own) = Cardinality(Rest) + Cardinality(Own) - 0
  BY <1>4, <1>6, <1>9, FS_Union
<1>11. Cardinality(Rest) \in Nat BY <1>6, FS_CardinalityType
<1> HIDE DEF Own, Rest
<1>12. Cardinality(Spent(f)) = Cardinality(Rest) + f[s]
  BY <1>1, <1>4, <1>7, <1>10, <1>11
<1> QED BY <1>12 DEF Rest

LEMMA SpentChanges ==
    ASSUME NEW f \in [Skills -> 0..MaxLevel], NEW s \in Skills, NEW v \in 0..MaxLevel
    PROVE  Cardinality(Spent([f EXCEPT ![s] = v])) = Cardinality(Spent(f)) - f[s] + v
<1> DEFINE g == [f EXCEPT ![s] = v]
           Rest == {b \in Spent(f) : b[1] # s}
<1>1. g \in [Skills -> 0..MaxLevel] /\ g[s] = v OBVIOUS
<1>2. {b \in Spent(g) : b[1] # s} = Rest BY DEF Spent
<1>3. Cardinality(Spent(g)) = Cardinality(Rest) + v
  BY <1>1, <1>2, SpentOfSkill
<1>4. Cardinality(Spent(f)) = Cardinality(Rest) + f[s] BY SpentOfSkill
<1>5. Rest \in SUBSET Spent(f) OBVIOUS
<1>6. IsFiniteSet(Rest) BY <1>5, SpentIsFinite, FS_Subset
<1>7. Cardinality(Rest) \in Nat BY <1>6, FS_CardinalityType
<1>8. f[s] \in Nat /\ v \in Nat BY TrackerAssumption
<1> HIDE DEF g, Rest
<1>9. Cardinality(Spent(g)) = Cardinality(Spent(f)) - f[s] + v
  BY <1>3, <1>4, <1>7, <1>8
<1> QED BY <1>9 DEF g

\* Nothing is spent on skills at level 0.
LEMMA NothingSpent == Cardinality(Spent([s \in Skills |-> 0])) = 0
<1>1. Spent([s \in Skills |-> 0]) = {} BY TrackerAssumption DEF Spent
<1> QED BY <1>1, FS_EmptySet

\* Points moved between the unspent ones and one skill keep the balance.
LEMMA PointsMove ==
    ASSUME NEW st \in State, NEW s \in Skills, NEW pts \in Nat, NEW v \in 0..MaxLevel,
           pts + v = st.points + st.levels[s]
    PROVE  LET new == [st EXCEPT !.points = pts, !.levels[s] = v]
           IN  /\ new \in State
               /\ new.xp = st.xp /\ new.level = st.level
               /\ \A t \in Skills : t # s => new.levels[t] = st.levels[t]
               /\ Balanced(st) => Balanced(new)
<1> DEFINE new == [st EXCEPT !.points = pts, !.levels[s] = v]
<1>1. /\ new \in State
      /\ new.xp = st.xp /\ new.level = st.level /\ new.granted = st.granted
      /\ new.points = pts /\ new.levels = [st.levels EXCEPT ![s] = v]
  BY DEF State
<1>2. \A t \in Skills : t # s => new.levels[t] = st.levels[t] BY DEF State
<1>3. /\ st.levels \in [Skills -> 0..MaxLevel] /\ st.points \in Nat
      /\ st.level \in Nat /\ st.granted \in 0..MaxGranted
  BY DEF State
<1>4. Cardinality(Spent(new.levels)) = Cardinality(Spent(st.levels)) - st.levels[s] + v
  BY <1>1, <1>3, SpentChanges
<1>5. Cardinality(Spent(st.levels)) \in Nat BY <1>3, SpentIsFinite
<1>6. LevelFor[0] \in Nat /\ st.levels[s] \in Nat /\ v \in Nat /\ st.granted \in Nat
  BY <1>3, TrackerAssumption
<1> HIDE DEF new
<1>7. Balanced(st) => Balanced(new)
  BY <1>1, <1>3, <1>4, <1>5, <1>6 DEF Balanced
<1> QED BY <1>1, <1>2, <1>7 DEF new

\* Levels and grants that come with their points keep the balance.
LEMMA PointsCome ==
    ASSUME NEW st \in State, NEW new \in State, NEW n \in Nat,
           new.levels = st.levels, new.points = st.points + n,
           new.level + new.granted = st.level + st.granted + n
    PROVE  Balanced(st) => Balanced(new)
<1>1. /\ st.levels \in [Skills -> 0..MaxLevel] /\ st.points \in Nat
      /\ st.level \in Nat /\ st.granted \in 0..MaxGranted
      /\ new.level \in Nat /\ new.granted \in 0..MaxGranted
  BY DEF State
<1>2. Cardinality(Spent(st.levels)) \in Nat BY <1>1, SpentIsFinite
<1>3. LevelFor[0] \in Nat /\ st.granted \in Nat /\ new.granted \in Nat
  BY <1>1, TrackerAssumption
<1> QED BY <1>1, <1>2, <1>3 DEF Balanced

\* Experience with the level it brings, and granted points.
Advanced(st, n, more) ==
    [st EXCEPT !.xp = @ + n, !.level = @ + more, !.points = @ + more]

LEMMA XpComes ==
    ASSUME NEW st \in State, NEW n \in Nat, NEW more \in Nat, st.xp + n \in 0..MaxXp
    PROVE  /\ Advanced(st, n, more) \in State
           /\ Advanced(st, n, more).xp = st.xp + n
           /\ Advanced(st, n, more).level = st.level + more
           /\ Advanced(st, n, more).points = st.points + more
           /\ Advanced(st, n, more).levels = st.levels
           /\ Advanced(st, n, more).granted = st.granted
<1>1. st.level + more \in Nat /\ st.points + more \in Nat BY DEF State
<1> QED BY <1>1 DEF State, Advanced

LEMMA GrantComes ==
    ASSUME NEW st \in State, NEW n \in Nat, st.granted + n \in 0..MaxGranted
    PROVE  LET new == [st EXCEPT !.points = @ + n, !.granted = @ + n]
           IN  /\ new \in State /\ new.xp = st.xp /\ new.level = st.level
               /\ new.points = st.points + n /\ new.levels = st.levels
               /\ new.granted = st.granted + n
<1>1. st.points + n \in Nat BY DEF State
<1> QED BY <1>1 DEF State

\* What is loaded: a state that is settled and has its points.
LEMMA FreshState == Fresh \in State /\ Derived(Fresh) \in State /\ Settled(Derived(Fresh)) /\ Balanced(Derived(Fresh))
<1>1. 0 \in 0..MaxXp /\ 0 \in 0..MaxLevel /\ 0 \in 0..MaxGranted BY TrackerAssumption
<1>2. LevelFor[0] \in Nat BY <1>1, TrackerAssumption
<1>3. Fresh \in State BY <1>1 DEF Fresh, State
<1>4. Derived(Fresh) = [Fresh EXCEPT !.level = LevelFor[0]]
  BY <1>2 DEF Derived, Fresh
<1>5. /\ Derived(Fresh) \in State
      /\ Derived(Fresh).xp = 0 /\ Derived(Fresh).level = LevelFor[0]
      /\ Derived(Fresh).points = 0 /\ Derived(Fresh).granted = 0
      /\ Derived(Fresh).levels = [s \in Skills |-> 0]
  BY <1>2, <1>3, <1>4 DEF Fresh, State
<1>6. Settled(Derived(Fresh)) BY <1>2, <1>5 DEF Settled
<1>7. Balanced(Derived(Fresh)) BY <1>2, <1>5, NothingSpent DEF Balanced
<1> QED BY <1>3, <1>5, <1>6, <1>7

LEMMA SettledIsDerived ==
    ASSUME NEW st \in State, Settled(st)
    PROVE  Derived(st) = st
<1>1. st.level \in Nat /\ LevelFor[st.xp] \in Nat BY TrackerAssumption DEF State
<1>2. ~(st.level < LevelFor[st.xp]) BY <1>1 DEF Settled
<1>3. Derived(st) = [st EXCEPT !.level = st.level] BY <1>2 DEF Derived
<1> QED BY <1>3 DEF State

LEMMA LoadedState ==
    ASSUME NEW f \in State \cup {None}, f # None => Settled(f) /\ Balanced(f)
    PROVE  /\ Loaded(f) \in State /\ Settled(Loaded(f)) /\ Balanced(Loaded(f))
           /\ f # None => Loaded(f) = f
<1>1. CASE f = None BY <1>1, FreshState DEF Loaded
<1>2. CASE f # None
  <2>1. f \in State /\ f # Torn BY <1>2, Sentinels
  <2>2. Loaded(f) = Derived(f) BY <1>2, <2>1 DEF Loaded
  <2> QED BY <1>2, <2>1, <2>2, SettledIsDerived
<1> QED BY <1>1, <1>2

------------------------------------------------------------------------------
(* The invariant, action by action.                                        *)

LEMMA Typed ==
    ASSUME IInv
    PROVE  /\ inner # None => inner \in Bound /\ inner.slot \in Slots /\ inner.st \in State
           /\ tx # None => /\ tx \in Change /\ tx.prev \in State
                           /\ tx.skill \in Skills \cup {None}
                           /\ tx.at \in {"write", "sync", "rename", "apply"}
           /\ loading # None => /\ loading \in Load /\ loading.slot \in Slots
                                /\ loading.st \in State /\ loading.todo \subseteq Skills
           /\ file \in [Slots -> State \cup {None}]
<1>1. TypeOK /\ SaveInv BY DEF IInv, TypeInvariant, SlotsTypeOK
<1>2. file \in [Slots -> State \cup {None}] BY <1>1 DEF TypeOK, SaveInv
<1> QED BY <1>1, <1>2 DEF TypeOK, Bound, Change, Load

LEMMA Initially == Init => IInv
<1> SUFFICES ASSUME Init PROVE IInv OBVIOUS
<1>1. 0 \in 0..MaxLevel /\ MaxMoves \in Nat /\ MaxCrashes \in Nat
  BY TrackerAssumption, SlotsAssumption
<1>2. TypeInvariant
  <2>1. TypeOK BY <1>1 DEF TypeOK, Init, TrackerInit
  <2>2. missed \in BOOLEAN BY DEF Init
  <2> QED BY <1>1, <2>1, <2>2 DEF TypeInvariant, SlotsTypeOK, Init, Slot
<1>3. SessionInv BY DEF SessionInv, Init, TrackerInit
<1>4. SaveInv BY Sentinels DEF SaveInv, Init, TrackerInit
<1>5. SettledInv /\ BalanceInv BY DEF SettledInv, BalanceInv, Init, TrackerInit
<1>6. LoadInv /\ WorldInv BY DEF LoadInv, WorldInv, Init, TrackerInit
<1> QED BY <1>2, <1>3, <1>4, <1>5, <1>6 DEF IInv

\* Every operation on the bound state begins a change in the same way.
LEMMA BeginKeeps ==
    ASSUME IInv, Ready, UNCHANGED <<pollerVars, envVars>>,
           NEW st \in State, NEW s \in Skills \cup {None}, Begin(st, s),
           st.xp >= inner.st.xp,
           \A t \in Skills : t # s => st.levels[t] = inner.st.levels[t],
           Settled(inner.st) => Settled(st),
           Balanced(inner.st) => Balanced(st)
    PROVE  IInv'
<1>t. /\ TypeInvariant /\ SessionInv /\ SaveInv /\ SettledInv
      /\ BalanceInv /\ LoadInv /\ WorldInv
  BY DEF IInv
<1>1. /\ inner # None /\ tx = None
      /\ inner \in Bound /\ inner.slot \in Slots /\ inner.st \in State
  BY Typed DEF Ready
<1>2. /\ inner' \in Bound /\ inner'.slot = inner.slot /\ inner'.st = st
      /\ inner' # None
  BY <1>1, Sentinels DEF Begin, Bound
<1>3. /\ tx' \in Change /\ tx' # None
      /\ tx'.prev = inner.st /\ tx'.skill = s /\ tx'.at = "write"
  BY <1>1, Sentinels DEF Begin, Change
<1>4. UNCHANGED <<loading, disabled, toggling, world, stale, diskVars, pollerVars, envVars>>
  BY DEF Begin
<1>5. Settled(inner.st) /\ Balanced(inner.st)
  BY <1>t, <1>1 DEF SettledInv, BalanceInv
<1>6. inner.st.xp \in Nat /\ st.xp \in Nat BY <1>1, TrackerAssumption DEF State
<1>7. TypeInvariant'
  BY <1>t, <1>2, <1>3, <1>4
  DEF TypeInvariant, SlotsTypeOK, TypeOK, diskVars, pollerVars, envVars
<1>8. SessionInv' BY <1>t, <1>1, <1>2, <1>4 DEF SessionInv, pollerVars
<1>9. SaveInv'
  <2>1. Loaded(file[inner.slot])' = Loaded(file[inner.slot])
    BY <1>2, <1>4 DEF diskVars
  <2>2. inner.slot \notin unread => inner.st = Loaded(file[inner.slot])
    BY <1>t, <1>1 DEF SaveInv
  <2>3. tx'.prev.xp <= inner'.st.xp BY <1>2, <1>3, <1>6
  <2>4. \A t \in Skills : t # tx'.skill => inner'.st.levels[t] = tx'.prev.levels[t]
    BY <1>2, <1>3
  <2> QED BY <1>t, <1>2, <1>3, <1>4, <2>1, <2>2, <2>3, <2>4 DEF SaveInv, diskVars
<1>10. SettledInv'
  BY <1>t, <1>2, <1>3, <1>4, <1>5 DEF SettledInv, Settled, diskVars
<1>11. BalanceInv'
  BY <1>t, <1>2, <1>3, <1>4, <1>5 DEF BalanceInv, Balanced, diskVars
<1>12. LoadInv' BY <1>t, <1>4 DEF LoadInv, Loaded, Derived, diskVars
<1>13. WorldInv'
  <2>1. Shown = inner.st /\ Shown' = inner.st BY <1>1, <1>3 DEF Shown
  <2>2. \A t \in Skills \ (toggling \cup stale) : world[t] = Effective(inner.st, t)
    BY <1>t, <1>1, <2>1 DEF WorldInv
  <2>3. \A t \in Skills \ (toggling \cup stale)' : world'[t] = Effective(Shown, t)'
    BY <1>4, <2>1, <2>2 DEF Effective
  <2>4. loading' # None =>
          \A t \in Skills \ (toggling \cup stale)' :
              t \notin loading'.todo => world'[t] = Effective(loading.st, t)'
    BY <1>t, <1>4 DEF WorldInv, Effective
  <2> QED BY <2>3, <2>4 DEF WorldInv
<1> QED BY <1>7, <1>8, <1>9, <1>10, <1>11, <1>12, <1>13 DEF IInv

\* Spending and refunding move points ...
LEMMA Operations ==
    ASSUME IInv, UNCHANGED <<pollerVars, envVars>>, NEW n \in Counts, NEW s \in Skills,
           SpendSkillPoints(s, n) \/ RefundSkillPoints(s, n)
    PROVE  IInv'
<1> DEFINE st == inner.st
<1>1. Ready /\ st \in State BY Typed DEF Ready, SpendSkillPoints, RefundSkillPoints
<1>2. /\ n \in Nat /\ MaxLevel \in Nat
      /\ st.points \in Nat /\ st.levels[s] \in 0..MaxLevel /\ st.xp \in Nat
  BY <1>1, TrackerAssumption DEF State
<1>3. CASE SpendSkillPoints(s, n)
  <2> DEFINE spend == Min({n, st.points, MaxLevel - st.levels[s]})
             new   == [st EXCEPT !.points = @ - spend, !.levels[s] = @ + spend]
  <2>1. spend > 0 /\ Begin(new, s) BY <1>3 DEF SpendSkillPoints
  <2>2. MaxLevel - st.levels[s] \in Nat BY <1>2
  <2>3. spend \in Nat /\ spend <= st.points /\ spend <= MaxLevel - st.levels[s]
    BY <1>2, <2>2, MinOfThree
  <2> HIDE DEF spend
  <2>4. /\ st.points - spend \in Nat /\ st.levels[s] + spend \in 0..MaxLevel
        /\ (st.points - spend) + (st.levels[s] + spend) = st.points + st.levels[s]
    BY <1>2, <2>3
  <2>5. new = [st EXCEPT !.points = st.points - spend, !.levels[s] = st.levels[s] + spend]
    BY <1>1 DEF State
  <2>6. /\ new \in State
        /\ new.xp = st.xp /\ new.level = st.level
        /\ \A t \in Skills : t # s => new.levels[t] = st.levels[t]
        /\ Balanced(st) => Balanced(new)
    BY <1>1, <2>4, <2>5, PointsMove
  <2>7. Settled(st) => Settled(new) BY <2>6 DEF Settled
  <2> HIDE DEF new
  <2> QED BY <1>1, <1>2, <2>1, <2>6, <2>7, BeginKeeps
<1>4. CASE RefundSkillPoints(s, n)
  <2> DEFINE refund == Min({n, st.levels[s]})
             new    == [st EXCEPT !.points = @ + refund, !.levels[s] = @ - refund]
  <2>1. refund > 0 /\ Begin(new, s) BY <1>4 DEF RefundSkillPoints
  <2>2. st.levels[s] \in Nat BY <1>2
  <2>3. refund \in Nat /\ refund <= st.levels[s] BY <1>2, <2>2, MinOfTwo
  <2> HIDE DEF refund
  <2>4. /\ st.points + refund \in Nat /\ st.levels[s] - refund \in 0..MaxLevel
        /\ (st.points + refund) + (st.levels[s] - refund) = st.points + st.levels[s]
    BY <1>2, <2>3
  <2>5. new = [st EXCEPT !.points = st.points + refund, !.levels[s] = st.levels[s] - refund]
    BY <1>1 DEF State
  <2>6. /\ new \in State
        /\ new.xp = st.xp /\ new.level = st.level
        /\ \A t \in Skills : t # s => new.levels[t] = st.levels[t]
        /\ Balanced(st) => Balanced(new)
    BY <1>1, <2>4, <2>5, PointsMove
  <2>7. Settled(st) => Settled(new) BY <2>6 DEF Settled
  <2> HIDE DEF new
  <2> QED BY <1>1, <1>2, <2>1, <2>6, <2>7, BeginKeeps
<1> QED BY <1>3, <1>4

\* ... experience and grants bring them.
LEMMA Progress ==
    ASSUME IInv, UNCHANGED <<pollerVars, envVars>>, NEW n \in Counts,
           RecordXp(n) \/ DebugGrantSkillPoints(n)
    PROVE  IInv'
<1> DEFINE st == inner.st
<1>1. Ready /\ st \in State BY Typed DEF Ready, RecordXp, DebugGrantSkillPoints
<1>2. /\ n \in Nat /\ st.points \in Nat
      /\ st.xp \in Nat /\ st.level \in Nat /\ st.granted \in Nat
  BY <1>1, TrackerAssumption DEF State
<1>3. CASE RecordXp(n)
  <2> DEFINE now  == LevelFor[st.xp + n]
             more == IF now > st.level THEN now - st.level ELSE 0
             new  == Advanced(st, n, more)
  <2>1. st.xp + n <= MaxXp /\ Begin(new, None) BY <1>3 DEF RecordXp, Advanced
  <2>2. st.xp + n \in 0..MaxXp /\ now \in Nat BY <1>2, <2>1, TrackerAssumption
  <2>3. more \in Nat /\ st.level + more >= now BY <1>2, <2>2
  <2>4. /\ new \in State /\ new.xp = st.xp + n /\ new.level = st.level + more
        /\ new.points = st.points + more /\ new.levels = st.levels
        /\ new.granted = st.granted
    <3>1. st \in State /\ n \in Nat /\ more \in Nat /\ st.xp + n \in 0..MaxXp
      BY <1>1, <1>2, <2>2, <2>3
    <3> HIDE DEF more, now, st
    <3> QED BY ONLY <3>1, XpComes
  <2>5. Settled(new) BY <2>3, <2>4 DEF Settled
  <2> HIDE DEF new, more, now
  <2>6. Balanced(st) => Balanced(new)
    <3>1. new.level + new.granted = st.level + st.granted + more BY <1>2, <2>3, <2>4
    <3> QED BY <1>1, <2>3, <2>4, <3>1, PointsCome
  <2>7. new.xp >= st.xp BY <1>2, <2>4
  <2> QED BY <1>1, <2>1, <2>4, <2>5, <2>6, <2>7, BeginKeeps
<1>4. CASE DebugGrantSkillPoints(n)
  <2> DEFINE new == [st EXCEPT !.points = @ + n, !.granted = @ + n]
  <2>1. st.granted + n <= MaxGranted /\ Begin(new, None)
    BY <1>4 DEF DebugGrantSkillPoints
  <2>2. st.granted + n \in 0..MaxGranted BY <1>2, <2>1, TrackerAssumption
  <2>3. /\ new \in State /\ new.xp = st.xp /\ new.level = st.level
        /\ new.points = st.points + n /\ new.levels = st.levels
        /\ new.granted = st.granted + n
    BY <1>1, <1>2, <2>2, GrantComes
  <2> HIDE DEF new
  <2>4. Settled(st) => Settled(new) BY <2>3 DEF Settled
  <2>5. Balanced(st) => Balanced(new)
    <3>1. new.level + new.granted = st.level + st.granted + n BY <1>2, <2>3
    <3> QED BY <1>1, <1>2, <2>3, <3>1, PointsCome
  <2>6. new.xp >= st.xp BY <1>2, <2>3
  <2> QED BY <1>1, <2>1, <2>3, <2>4, <2>5, <2>6, BeginKeeps
<1> QED BY <1>3, <1>4

\* The temporary file is written and flushed: only the place moves.
LEMMA SaveProceeds ==
    ASSUME IInv, UNCHANGED <<pollerVars, envVars>>, SaveWrite \/ SaveSync
    PROVE  IInv'
<1>t. /\ TypeInvariant /\ SessionInv /\ SaveInv /\ SettledInv
      /\ BalanceInv /\ LoadInv /\ WorldInv
  BY DEF IInv
<1>1. /\ tx # None /\ tx \in Change /\ tx.at # "apply"
      /\ tx' = [tx EXCEPT !.at = "sync"] \/ tx' = [tx EXCEPT !.at = "rename"]
      /\ UNCHANGED <<inner, loading, disabled, toggling, world, stale, diskVars>>
  BY Typed DEF SaveWrite, SaveSync
<1>2. /\ tx' \in Change /\ tx' # None /\ tx'.prev = tx.prev /\ tx'.skill = tx.skill
      /\ tx'.at # "apply"
  BY <1>1, Sentinels DEF Change
<1>3. TypeInvariant'
  BY <1>t, <1>1, <1>2
  DEF TypeInvariant, SlotsTypeOK, TypeOK, diskVars, pollerVars, envVars
<1>4. SessionInv' BY <1>t, <1>1, <1>2 DEF SessionInv, pollerVars
<1>5. SaveInv' BY <1>t, <1>1, <1>2 DEF SaveInv, diskVars, Loaded, Derived
<1>6. SettledInv' /\ BalanceInv'
  BY <1>t, <1>1, <1>2 DEF SettledInv, BalanceInv, Settled, Balanced, diskVars
<1>7. LoadInv' BY <1>t, <1>1 DEF LoadInv, Loaded, Derived, diskVars
<1>8. WorldInv'
  <2>1. Shown = tx.prev /\ Shown' = tx.prev BY <1>1, <1>2 DEF Shown
  <2> QED BY <1>t, <1>1, <1>2, <2>1 DEF WorldInv, Effective
<1> QED BY <1>3, <1>4, <1>5, <1>6, <1>7, <1>8 DEF IInv

\* The new file is in place.
LEMMA SaveLands ==
    ASSUME IInv, UNCHANGED <<pollerVars, envVars>>, SaveRename
    PROVE  IInv'
<1>t. /\ TypeInvariant /\ SessionInv /\ SaveInv /\ SettledInv
      /\ BalanceInv /\ LoadInv /\ WorldInv
  BY DEF IInv
<1>1. /\ tx # None /\ tx \in Change /\ tx.at = "rename" /\ tx.skill \in Skills \cup {None}
      /\ inner # None /\ inner.slot \in Slots /\ inner.st \in State
      /\ file \in [Slots -> State \cup {None}] /\ loading = None
  BY <1>t, Typed DEF SaveRename, SessionInv
<1>2. /\ file' = [file EXCEPT ![inner.slot] = inner.st]
      /\ unsynced' = unsynced \ {inner.slot}
      /\ unread' = unread \ {inner.slot}
      /\ tx' = IF tx.skill = None THEN None ELSE [tx EXCEPT !.at = "apply"]
      /\ UNCHANGED <<inner, loading, disabled, toggling, world, stale>>
  BY DEF SaveRename
<1>3. file' \in [Slots -> State \cup {None}] /\ file'[inner.slot] = inner.st
  BY <1>1, <1>2
<1>4. tx' # None => /\ tx' \in Change /\ tx'.prev = tx.prev /\ tx'.skill = tx.skill
                    /\ tx'.at = "apply" /\ tx.skill # None
  BY <1>1, <1>2 DEF Change
<1>a. tx' = None => tx.skill = None BY <1>1, <1>2, Sentinels DEF Change
<1>5. Settled(inner.st) /\ Balanced(inner.st)
  BY <1>t, <1>1 DEF SettledInv, BalanceInv
<1>6. Loaded(file[inner.slot])' = inner.st
  <2>1. inner.st # None /\ inner.st # Torn BY <1>1, Sentinels
  <2>2. Derived(inner.st) = inner.st BY <1>1, <1>5, SettledIsDerived
  <2> QED BY <1>2, <1>3, <2>1, <2>2 DEF Loaded, Derived
<1>7. TypeInvariant'
  <2>1. tx' \in Change \cup {None} BY <1>4
  <2>2. file' \in [Slots -> State \cup {None, Torn}] BY <1>3
  <2> QED BY <1>t, <1>2, <2>1, <2>2
          DEF TypeInvariant, SlotsTypeOK, TypeOK, pollerVars, envVars
<1>8. SessionInv' BY <1>t, <1>1, <1>2 DEF SessionInv, pollerVars
<1>9. SaveInv'
  <2>1. unsynced' = {} BY <1>t, <1>2 DEF SaveInv
  <2>2. \A p \in Slots : file'[p] # Torn BY <1>3, Sentinels
  <2>3. tx' = None => inner'.st = Loaded(file[inner.slot])' BY <1>2, <1>6
  <2>4. tx' # None =>
          /\ tx'.prev.xp <= inner'.st.xp
          /\ \A s \in Skills : s # tx'.skill => inner'.st.levels[s] = tx'.prev.levels[s]
          /\ tx'.skill # None /\ inner'.slot \notin unread' /\ file'[inner'.slot] = inner'.st
    BY <1>t, <1>1, <1>2, <1>3, <1>4 DEF SaveInv
  <2> QED BY <1>4, <2>1, <2>2, <2>3, <2>4 DEF SaveInv
<1>10. SettledInv'
  BY <1>t, <1>1, <1>2, <1>3, <1>4, <1>5 DEF SettledInv, Settled
<1>11. BalanceInv'
  BY <1>t, <1>1, <1>2, <1>3, <1>4, <1>5 DEF BalanceInv, Balanced
<1>12. LoadInv' BY <1>1, <1>2 DEF LoadInv
<1>13. WorldInv'
  <2>1. Shown = tx.prev /\ Shown' = inner.st BY <1>1, <1>2, <1>4 DEF Shown
  <2>2. \A s \in Skills : s # tx.skill => inner.st.levels[s] = tx.prev.levels[s]
    BY <1>t, <1>1 DEF SaveInv
  <2>3. \A s \in Skills \ (toggling \cup stale) : world[s] = Effective(tx.prev, s)
    BY <1>t, <1>1, <2>1 DEF WorldInv
  <2>4. ASSUME NEW s \in Skills, s \notin (toggling \cup stale)',
               tx' = None \/ tx'.at # "apply" \/ s # tx'.skill
        PROVE  world'[s] = Effective(Shown, s)'
    <3>1. s # tx.skill BY <1>4, <1>a, <2>4, Sentinels
    <3> QED BY <1>2, <2>1, <2>2, <2>3, <2>4, <3>1 DEF Effective
  <2> QED BY <1>1, <1>2, <2>4 DEF WorldInv
<1> QED BY <1>7, <1>8, <1>9, <1>10, <1>11, <1>12, <1>13 DEF IInv

\* The save fails: memory is again what the file holds.
LEMMA SaveRollsBack ==
    ASSUME IInv, UNCHANGED <<pollerVars, envVars>>, SaveFails
    PROVE  IInv'
<1>t. /\ TypeInvariant /\ SessionInv /\ SaveInv /\ SettledInv
      /\ BalanceInv /\ LoadInv /\ WorldInv
  BY DEF IInv
<1>1. /\ tx # None /\ tx.at # "apply" /\ tx.prev \in State
      /\ inner # None /\ inner \in Bound
  BY <1>t, Typed DEF SaveFails, SessionInv
<1>2. /\ inner' \in Bound /\ inner' # None
      /\ inner'.slot = inner.slot /\ inner'.st = tx.prev
  BY <1>1, Sentinels DEF SaveFails, Bound
<1>3. tx' = None /\ UNCHANGED <<loading, disabled, toggling, world, stale, diskVars>>
  BY DEF SaveFails
<1>4. TypeInvariant'
  BY <1>t, <1>2, <1>3
  DEF TypeInvariant, SlotsTypeOK, TypeOK, diskVars, pollerVars, envVars
<1>5. SessionInv' BY <1>t, <1>1, <1>2, <1>3 DEF SessionInv, pollerVars
<1>6. SaveInv' BY <1>t, <1>1, <1>2, <1>3 DEF SaveInv, diskVars, Loaded, Derived
<1>7. SettledInv' /\ BalanceInv'
  BY <1>t, <1>1, <1>2, <1>3 DEF SettledInv, BalanceInv, Settled, Balanced, diskVars
<1>8. LoadInv' BY <1>t, <1>3 DEF LoadInv, Loaded, Derived, diskVars
<1>9. WorldInv'
  <2>1. Shown = tx.prev /\ Shown' = tx.prev BY <1>1, <1>2, <1>3 DEF Shown
  <2> QED BY <1>t, <1>1, <1>3, <2>1 DEF WorldInv, Effective
<1> QED BY <1>4, <1>5, <1>6, <1>7, <1>8, <1>9 DEF IInv

\* The level that the world is given is one that a skill can have.
LEMMA EffectiveLevel ==
    ASSUME NEW st \in State, NEW s \in Skills
    PROVE  Effective(st, s) \in 0..MaxLevel
BY TrackerAssumption DEF Effective, State

\* What a panicking effect leaves: a skill that is not stale was either given its
\* level before the panic, or left alone.
LEMMA PanicLeaves ==
    ASSUME IInv, NEW st \in State, NEW given \in SUBSET Skills, NEW s \in Skills,
           GivenUpTo(st, given, s)
    PROVE  /\ world' \in [Skills -> 0..MaxLevel]
           /\ stale' \subseteq Skills /\ s \in stale'
           /\ \A t \in Skills : t \notin stale' =>
                \/ world'[t] = Effective(st, t)
                \/ t \notin given /\ t \notin stale /\ world'[t] = world[t]
<1>1. world \in [Skills -> 0..MaxLevel] /\ stale \subseteq Skills
  BY DEF IInv, TypeInvariant, SlotsTypeOK, TypeOK
<1>2. \A t \in Skills : Effective(st, t) \in 0..MaxLevel BY EffectiveLevel
<1>3. /\ stale' = (stale \ given) \cup {s}
      /\ world' = Given(st, given) \/ world' = Given(st, given \cup {s})
  BY DEF GivenUpTo
<1>4. ASSUME NEW g \in SUBSET Skills, world' = Given(st, g)
      PROVE  /\ world' \in [Skills -> 0..MaxLevel]
             /\ \A t \in Skills : world'[t] = IF t \in g THEN Effective(st, t) ELSE world[t]
  BY <1>1, <1>2, <1>4 DEF Given
<1>5. given \cup {s} \in SUBSET Skills OBVIOUS
<1> QED BY <1>1, <1>3, <1>4, <1>5

\* The changed skill is re-applied, or its effect panics: but for the stale
\* skills, the world has the bound state's levels.
LEMMA SaveApplies ==
    ASSUME IInv, UNCHANGED <<pollerVars, envVars>>, ApplyChanged \/ ApplyChangedPanics
    PROVE  IInv'
<1>t. /\ TypeInvariant /\ SessionInv /\ SaveInv /\ SettledInv
      /\ BalanceInv /\ LoadInv /\ WorldInv
  BY DEF IInv
<1>1. /\ tx # None /\ tx.at = "apply" /\ tx.skill \in Skills
      /\ inner # None /\ inner.slot \in Slots /\ inner.st \in State /\ loading = None
  BY <1>t, Typed DEF ApplyChanged, ApplyChangedPanics, SessionInv, SaveInv
<1>2. tx' = None /\ UNCHANGED <<inner, loading, disabled, toggling, diskVars>>
  BY DEF ApplyChanged, ApplyChangedPanics
<1>3. \A t \in Skills : t \notin toggling \cup stale /\ t # tx.skill =>
          world[t] = Effective(inner.st, t)
  <2>1. Shown = inner.st BY <1>1 DEF Shown
  <2> QED BY <1>t, <1>1, <2>1 DEF WorldInv
<1>4. /\ world' \in [Skills -> 0..MaxLevel] /\ stale' \subseteq Skills
      /\ \A t \in Skills : t \notin toggling \cup stale' => world'[t] = Effective(inner.st, t)
  <2>1. CASE ApplyChanged
    <3>1. world \in [Skills -> 0..MaxLevel] /\ stale \subseteq Skills
      BY <1>t DEF TypeInvariant, SlotsTypeOK, TypeOK
    <3>2. /\ world' = [world EXCEPT ![tx.skill] = Effective(inner.st, tx.skill)]
          /\ stale' = stale \ {tx.skill}
      BY <2>1 DEF ApplyChanged
    <3>3. Effective(inner.st, tx.skill) \in 0..MaxLevel BY <1>1, EffectiveLevel
    <3> QED BY <1>1, <1>3, <3>1, <3>2, <3>3
  <2>2. CASE ApplyChangedPanics
    <3> DEFINE st == inner.st  given == {}  s == tx.skill
    <3>1. GivenUpTo(st, given, s) BY <2>2 DEF ApplyChangedPanics
    <3>2. st \in State /\ given \in SUBSET Skills /\ s \in Skills BY <1>1
    <3> HIDE DEF st, given, s
    <3>3. /\ world' \in [Skills -> 0..MaxLevel]
          /\ stale' \subseteq Skills /\ s \in stale'
          /\ \A t \in Skills : t \notin stale' =>
               \/ world'[t] = Effective(st, t)
               \/ t \notin given /\ t \notin stale /\ world'[t] = world[t]
      BY <3>1, <3>2, PanicLeaves
    <3> QED BY <1>3, <3>3 DEF st, s
  <2> QED BY <2>1, <2>2
<1>5. TypeInvariant'
  BY <1>t, <1>2, <1>4
  DEF TypeInvariant, SlotsTypeOK, TypeOK, diskVars, pollerVars, envVars
<1>6. SessionInv' BY <1>t, <1>1, <1>2 DEF SessionInv, pollerVars
<1>7. SaveInv'
  <2>1. file[inner.slot] = inner.st /\ Settled(inner.st)
    BY <1>t, <1>1 DEF SaveInv, SettledInv
  <2>2. inner.st # None /\ inner.st # Torn BY <1>1, Sentinels
  <2>3. Loaded(file[inner.slot]) = inner.st
    BY <1>1, <2>1, <2>2, SettledIsDerived DEF Loaded
  <2> QED BY <1>t, <1>2, <2>3 DEF SaveInv, diskVars, Loaded, Derived
<1>8. SettledInv' /\ BalanceInv'
  BY <1>t, <1>2 DEF SettledInv, BalanceInv, Settled, Balanced, diskVars
<1>9. LoadInv' BY <1>1, <1>2 DEF LoadInv
<1>10. WorldInv'
  <2>1. Shown' = inner.st BY <1>2 DEF Shown
  <2> QED BY <1>1, <1>2, <1>4, <2>1 DEF WorldInv, Effective
<1> QED BY <1>5, <1>6, <1>7, <1>8, <1>9, <1>10 DEF IInv

\* A toggle, and re-applying, touch the world and the disabled set only.
LEMMA WorldChanges ==
    ASSUME IInv, UNCHANGED <<pollerVars, envVars, inner, tx, loading, diskVars>>,
           disabled' \subseteq Skills, toggling' \subseteq Skills, stale' \subseteq Skills,
           world' \in [Skills -> 0..MaxLevel], WorldInv'
    PROVE  IInv'
<1>t. /\ TypeInvariant /\ SessionInv /\ SaveInv /\ SettledInv
      /\ BalanceInv /\ LoadInv
  BY DEF IInv
<1>1. TypeInvariant'
  BY <1>t DEF TypeInvariant, SlotsTypeOK, TypeOK, diskVars, pollerVars, envVars
<1>2. SessionInv' BY <1>t DEF SessionInv, pollerVars
<1>3. SaveInv' BY <1>t DEF SaveInv, diskVars, Loaded, Derived
<1>4. SettledInv' /\ BalanceInv'
  BY <1>t DEF SettledInv, BalanceInv, Settled, Balanced, diskVars
<1>5. LoadInv' BY <1>t DEF LoadInv, diskVars, Loaded, Derived
<1> QED BY <1>1, <1>2, <1>3, <1>4, <1>5 DEF IInv

LEMMA Toggles ==
    ASSUME IInv, UNCHANGED <<pollerVars, envVars>>, NEW s \in Skills, ToggleSet(s)
    PROVE  IInv'
<1>t. TypeOK /\ WorldInv BY DEF IInv, TypeInvariant, SlotsTypeOK
<1>1. /\ disabled' \subseteq Skills /\ toggling' = toggling \cup {s}
      /\ UNCHANGED <<inner, tx, loading, world, stale, diskVars>>
  BY <1>t DEF ToggleSet, TypeOK
<1>2. /\ toggling' \subseteq Skills /\ stale' \subseteq Skills
      /\ world' \in [Skills -> 0..MaxLevel]
  BY <1>t, <1>1 DEF TypeOK
<1>4. \A t \in Skills : t # s => (t \in disabled' <=> t \in disabled) BY DEF ToggleSet
<1>5. Shown' = Shown BY <1>1 DEF Shown
<1>6. WorldInv'
  <2>1. ASSUME NEW t \in Skills, t \notin toggling' \cup stale', inner # None,
               tx = None \/ tx.at # "apply" \/ t # tx.skill
        PROVE  world'[t] = Effective(Shown, t)'
    <3>1. t # s /\ t \notin toggling \cup stale BY <1>1, <2>1
    <3>2. world[t] = Effective(Shown, t) BY <1>t, <2>1, <3>1 DEF WorldInv
    <3> QED BY <1>1, <1>4, <1>5, <3>1, <3>2 DEF Effective
  <2>2. ASSUME NEW t \in Skills, t \notin toggling' \cup stale', loading # None,
               t \notin loading.todo
        PROVE  world'[t] = Effective(loading.st, t)'
    <3>1. t # s /\ t \notin toggling \cup stale BY <1>1, <2>2
    <3>2. world[t] = Effective(loading.st, t) BY <1>t, <2>2, <3>1 DEF WorldInv
    <3> QED BY <1>1, <1>4, <3>1, <3>2 DEF Effective
  <2> QED BY <1>1, <2>1, <2>2 DEF WorldInv
<1> QED BY <1>1, <1>2, <1>6, WorldChanges

LEMMA Reapplies ==
    ASSUME IInv, UNCHANGED <<pollerVars, envVars>>,
           ReapplyAll \/ \E s \in Skills : ToggleReapply(s)
    PROVE  IInv'
<1>t. TypeOK /\ WorldInv /\ SessionInv BY DEF IInv, TypeInvariant, SlotsTypeOK
<1>1. CASE ReapplyAll
  <2>1. /\ tx = None /\ inner # None /\ inner.st \in State /\ loading = None
        /\ world' = [t \in Skills |-> Effective(inner.st, t)]
        /\ stale' = {}
        /\ UNCHANGED <<inner, tx, loading, disabled, toggling, diskVars>>
    BY <1>1, <1>t, Typed DEF ReapplyAll, Ready, SessionInv
  <2>2. world' \in [Skills -> 0..MaxLevel] BY <2>1, EffectiveLevel
  <2>3. Shown' = inner.st BY <2>1 DEF Shown
  <2>4. WorldInv' BY <2>1, <2>3 DEF WorldInv, Effective
  <2> QED BY <1>t, <2>1, <2>2, <2>4, WorldChanges DEF TypeOK
<1>2. ASSUME NEW s \in Skills, ToggleReapply(s) PROVE IInv'
  <2>1. /\ tx = None /\ toggling' = toggling \ {s}
        /\ UNCHANGED <<inner, tx, loading, disabled, diskVars>>
    BY <1>2 DEF ToggleReapply
  <2>2. CASE inner = None
    <3>1. /\ stale' = IF loading = None THEN stale ELSE stale \cup {s}
          /\ UNCHANGED world
      BY <1>2, <2>2 DEF ToggleReapply
    <3>2. WorldInv' BY <1>t, <2>1, <2>2, <3>1 DEF WorldInv, Effective
    <3> QED BY <1>t, <2>1, <3>1, <3>2, WorldChanges DEF TypeOK
  <2>3. CASE inner # None
    <3>1. /\ world' = [world EXCEPT ![s] = Effective(inner.st, s)]
          /\ stale' = stale \ {s}
      BY <1>2, <2>3 DEF ToggleReapply
    <3>2. loading = None /\ inner.st \in State BY <1>t, <2>3, Typed DEF SessionInv
    <3>3. world' \in [Skills -> 0..MaxLevel]
      BY <1>t, <3>1, <3>2, EffectiveLevel DEF TypeOK
    <3>4. Shown = inner.st /\ Shown' = inner.st BY <2>1 DEF Shown
    <3>5. \A t \in Skills \ (toggling \cup stale) : world[t] = Effective(inner.st, t)
      BY <1>t, <2>1, <2>3, <3>4 DEF WorldInv
    <3>6. \A t \in Skills \ (toggling' \cup stale') : world'[t] = Effective(inner.st, t)
      BY <1>t, <2>1, <3>1, <3>5 DEF TypeOK
    <3>7. WorldInv' BY <2>1, <3>2, <3>4, <3>6 DEF WorldInv, Effective
    <3> QED BY <1>t, <2>1, <3>1, <3>3, <3>7, WorldChanges DEF TypeOK
  <2> QED BY <2>2, <2>3
<1> QED BY <1>1, <1>2

\* An effect panics in a change that has been saved, or in a re-apply.
LEMMA Panics ==
    ASSUME IInv, EffectPanics
    PROVE  IInv'
<1>t. TypeOK /\ WorldInv /\ SessionInv BY DEF IInv, TypeInvariant, SlotsTypeOK
<1>1. UNCHANGED <<pollerVars, envVars>> BY DEF EffectPanics
<1>2. ASSUME NEW s \in Skills, NEW given \in SUBSET Skills, Ready,
             GivenUpTo(inner.st, given, s), toggling' \subseteq Skills,
             toggling \subseteq toggling' \cup {s},
             UNCHANGED <<inner, tx, loading, disabled, diskVars>>
      PROVE  IInv'
  <2>1. tx = None /\ inner # None /\ inner.st \in State /\ loading = None
    BY <1>t, <1>2, Typed DEF Ready, SessionInv
  <2>2. /\ world' \in [Skills -> 0..MaxLevel]
        /\ stale' \subseteq Skills /\ s \in stale'
        /\ \A t \in Skills : t \notin stale' =>
             \/ world'[t] = Effective(inner.st, t)
             \/ t \notin given /\ t \notin stale /\ world'[t] = world[t]
    BY <1>2, <2>1, PanicLeaves
  <2>3. Shown = inner.st /\ Shown' = inner.st BY <1>2, <2>1 DEF Shown
  <2>4. \A t \in Skills \ (toggling \cup stale) : world[t] = Effective(inner.st, t)
    BY <1>t, <2>1, <2>3 DEF WorldInv
  <2>5. \A t \in Skills \ (toggling' \cup stale') : world'[t] = Effective(inner.st, t)
    BY <1>2, <2>2, <2>4
  <2>6. WorldInv' BY <1>2, <2>1, <2>3, <2>5 DEF WorldInv, Effective
  <2>7. disabled' \subseteq Skills BY <1>t, <1>2 DEF TypeOK
  <2> QED BY <1>1, <1>2, <2>2, <2>6, <2>7, WorldChanges
<1>3. CASE ApplyChangedPanics BY <1>1, <1>3, SaveApplies
<1>4. ASSUME NEW s \in Skills, ToggleReapplyPanics(s) PROVE IInv'
  <2>1. /\ Ready /\ GivenUpTo(inner.st, {}, s) /\ toggling' = toggling \ {s}
        /\ UNCHANGED <<inner, tx, loading, disabled, diskVars>>
    BY <1>4 DEF ToggleReapplyPanics
  <2>2. toggling' \subseteq Skills /\ toggling \subseteq toggling' \cup {s}
    BY <1>t, <2>1 DEF TypeOK
  <2> QED BY <1>2, <2>1, <2>2
<1>5. CASE ReapplyAllPanics
  <2>1. PICK s \in Skills, given \in SUBSET Skills : GivenUpTo(inner.st, given, s)
    BY <1>5 DEF ReapplyAllPanics
  <2>2. Ready /\ UNCHANGED <<inner, tx, loading, disabled, toggling, diskVars>>
    BY <1>5 DEF ReapplyAllPanics
  <2>3. toggling' \subseteq Skills /\ toggling \subseteq toggling' \cup {s}
    BY <1>t, <2>2 DEF TypeOK
  <2> QED BY <1>2, <2>1, <2>2, <2>3
<1> QED BY <1>3, <1>4, <1>5 DEF EffectPanics

\* The poller looks at the game, and the game moves: the tracker is left alone.
LEMMA TrackerRests ==
    ASSUME IInv, UNCHANGED rpgVars, SlotsTypeOK', SessionInv'
    PROVE  IInv'
<1>t. /\ SaveInv /\ SettledInv /\ BalanceInv /\ LoadInv /\ WorldInv BY DEF IInv
<1>1. SaveInv'
  BY <1>t DEF SaveInv, rpgVars, trackerVars, diskVars, Loaded, Derived
<1>2. SettledInv' /\ BalanceInv'
  BY <1>t DEF SettledInv, BalanceInv, Settled, Balanced, rpgVars, trackerVars, diskVars
<1>3. LoadInv'
  BY <1>t DEF LoadInv, rpgVars, trackerVars, diskVars, Loaded, Derived
<1>4. WorldInv'
  <2>1. Shown' = Shown BY DEF Shown, rpgVars, trackerVars
  <2> QED BY <1>t, <2>1 DEF WorldInv, Effective, rpgVars, trackerVars
<1> QED BY <1>1, <1>2, <1>3, <1>4 DEF IInv, TypeInvariant

LEMMA Looks ==
    ASSUME IInv
    PROVE  /\ Resolve \/ ResolvePanics => IInv'
           /\ \A p \in Slot : GameMoves(p) => IInv'
<1>t. SlotsTypeOK /\ SessionInv BY DEF IInv, TypeInvariant
<1>1. ASSUME NEW p \in Slot, Resolved(p) PROVE IInv'
  <2>1. /\ at = "asleep" /\ cur' = p /\ last' = last
        /\ at' = IF p = last THEN "asleep" ELSE IF last = None THEN "activate" ELSE "deactivate"
        /\ UNCHANGED <<rpgVars, envVars, missed>>
    BY <1>1 DEF Resolved
  <2>2. SlotsTypeOK'
    BY <1>t, <2>1 DEF SlotsTypeOK, TypeOK, rpgVars, trackerVars, diskVars, envVars
  <2>3. SessionInv' BY <1>t, <2>1 DEF SessionInv, rpgVars, trackerVars
  <2> QED BY <2>1, <2>2, <2>3, TrackerRests
<1>2. ASSUME NEW p \in Slot, GameMoves(p) PROVE IInv'
  <2>1. /\ moves < MaxMoves /\ game' = p /\ moves' = moves + 1
        /\ UNCHANGED <<rpgVars, pollerVars, crashes>>
    BY <1>2 DEF GameMoves
  <2>2. moves' \in 0..MaxMoves BY <1>t, <2>1, SlotsAssumption DEF SlotsTypeOK
  <2>3. SlotsTypeOK'
    BY <1>t, <2>1, <2>2 DEF SlotsTypeOK, TypeOK, rpgVars, trackerVars, diskVars, pollerVars
  <2>4. SessionInv' BY <1>t, <2>1 DEF SessionInv, rpgVars, trackerVars, pollerVars
  <2> QED BY <2>1, <2>3, <2>4, TrackerRests
<1>3. game \in Slot /\ None \in Slot BY <1>t DEF SlotsTypeOK, Slot
<1> QED BY <1>1, <1>2, <1>3 DEF Resolve, ResolvePanics

\* The slot is unbound.
LEMMA Unbinds ==
    ASSUME IInv, Deactivate
    PROVE  IInv'
<1>t. /\ SlotsTypeOK /\ SessionInv /\ SaveInv /\ SettledInv /\ BalanceInv
  BY DEF IInv, TypeInvariant
<1>1. /\ at = "deactivate" /\ tx = None /\ inner' = None
      /\ UNCHANGED <<tx, loading, disabled, toggling, world, stale, diskVars>>
      /\ missed' = FALSE /\ UNCHANGED <<cur, envVars>>
      /\ \/ cur = None /\ last' = None /\ at' = "asleep"
         \/ cur # None /\ last' = last /\ at' = "activate"
  BY DEF Deactivate, DeactivateSlot, Settle
<1>2. loading = None BY <1>t, <1>1 DEF SessionInv
<1>3. SlotsTypeOK'
  <2>1. TypeOK' BY <1>t, <1>1 DEF SlotsTypeOK, TypeOK, diskVars
  <2>2. missed' \in BOOLEAN BY <1>1
  <2> QED BY <1>t, <1>1, <2>1, <2>2 DEF SlotsTypeOK, Slot, envVars
<1>4. SessionInv' BY <1>t, <1>1, <1>2 DEF SessionInv
<1>5. SaveInv' BY <1>t, <1>1 DEF SaveInv, diskVars
<1>6. SettledInv' /\ BalanceInv'
  BY <1>t, <1>1, <1>2 DEF SettledInv, BalanceInv, Settled, Balanced, diskVars
<1>7. LoadInv' /\ WorldInv' BY <1>1, <1>2 DEF LoadInv, WorldInv
<1> QED BY <1>3, <1>4, <1>5, <1>6, <1>7 DEF IInv, TypeInvariant

\* A load starts: nothing is in the world yet.
LEMMA Loads ==
    ASSUME IInv, Activate
    PROVE  IInv'
<1>t. /\ SlotsTypeOK /\ SessionInv /\ SaveInv /\ SettledInv /\ BalanceInv
  BY DEF IInv, TypeInvariant
<1>1. /\ at = "activate" /\ cur \in Slots /\ cur # None
      /\ inner = None /\ tx = None /\ loading = None
      /\ at' = "activating" /\ stale' = {}
      /\ UNCHANGED <<inner, tx, disabled, toggling, world, file, unsynced, last, cur, missed, envVars>>
  BY <1>t DEF Activate, ActivateLoad, ActivateLoadFails, SessionInv, SlotsTypeOK, Slot
<1>2. PICK st \in {Loaded(file[cur]), Derived(Fresh)} :
        /\ loading' = [slot |-> cur, st |-> st, todo |-> Skills]
        /\ \/ st = Loaded(file[cur]) /\ unread' = unread \ {cur}
           \/ st = Derived(Fresh) /\ unread' = unread \cup {cur}
  BY DEF Activate, ActivateLoad, ActivateLoadFails
<1>3. file[cur] \in State \cup {None} BY <1>1, Typed
<1>4. file[cur] # None => Settled(file[cur]) /\ Balanced(file[cur])
  BY <1>t, <1>1 DEF SettledInv, BalanceInv
<1>5. st \in State /\ Settled(st) /\ Balanced(st)
  BY <1>3, <1>4, LoadedState, FreshState
<1>6. /\ loading' \in Load /\ loading' # None
      /\ loading'.slot = cur /\ loading'.st = st /\ loading'.todo = Skills
  BY <1>1, <1>2, <1>5, Sentinels DEF Load
<1>7. SlotsTypeOK'
  <2>1. unread' \subseteq Slots BY <1>t, <1>1, <1>2 DEF SlotsTypeOK, TypeOK
  <2>2. TypeOK' BY <1>t, <1>1, <1>6, <2>1 DEF SlotsTypeOK, TypeOK
  <2> QED BY <1>t, <1>1, <2>2 DEF SlotsTypeOK, envVars
<1>8. SessionInv' BY <1>t, <1>1, <1>6 DEF SessionInv
<1>9. SaveInv' BY <1>t, <1>1 DEF SaveInv
<1>10. SettledInv' /\ BalanceInv'
  BY <1>t, <1>1, <1>5, <1>6 DEF SettledInv, BalanceInv, Settled, Balanced
<1>11. LoadInv'
  <2>1. Loaded(file[cur])' = Loaded(file[cur]) BY <1>1 DEF Loaded, Derived
  <2> QED BY <1>1, <1>2, <1>6, <2>1 DEF LoadInv
<1>12. WorldInv' BY <1>1, <1>6 DEF WorldInv
<1> QED BY <1>7, <1>8, <1>9, <1>10, <1>11, <1>12 DEF IInv, TypeInvariant

\* One skill of the loaded state reaches the world.
LEMMA LoadsSkill ==
    ASSUME IInv, ActivateSkill
    PROVE  IInv'
<1>t. /\ SlotsTypeOK /\ SessionInv /\ SaveInv /\ SettledInv
      /\ BalanceInv /\ LoadInv /\ WorldInv
  BY DEF IInv, TypeInvariant
<1>1. PICK s \in Skills : ActivateApply(s) BY DEF ActivateSkill
<1>2. /\ at = "activating" /\ loading # None /\ loading \in Load /\ loading.st \in State
      /\ s \in loading.todo /\ inner = None
      /\ world' = [world EXCEPT ![s] = Effective(loading.st, s)]
      /\ loading' = [loading EXCEPT !.todo = @ \ {s}]
      /\ UNCHANGED <<inner, tx, disabled, toggling, stale, diskVars, pollerVars, envVars>>
  BY <1>t, <1>1, Typed DEF ActivateSkill, ActivateApply, SessionInv
<1>3. /\ loading' \in Load /\ loading' # None
      /\ loading'.slot = loading.slot /\ loading'.st = loading.st
      /\ loading'.todo = loading.todo \ {s}
  BY <1>2, Sentinels DEF Load
<1>4. world \in [Skills -> 0..MaxLevel] BY <1>t DEF SlotsTypeOK, TypeOK
<1>5. world' \in [Skills -> 0..MaxLevel] BY <1>2, <1>4, EffectiveLevel
<1>6. SlotsTypeOK'
  BY <1>t, <1>2, <1>3, <1>5 DEF SlotsTypeOK, TypeOK, diskVars, pollerVars, envVars
<1>7. SessionInv' BY <1>t, <1>2, <1>3 DEF SessionInv, pollerVars
<1>8. SaveInv' BY <1>t, <1>2 DEF SaveInv, diskVars, Loaded, Derived
<1>9. SettledInv' /\ BalanceInv'
  BY <1>t, <1>2, <1>3 DEF SettledInv, BalanceInv, Settled, Balanced, diskVars
<1>10. LoadInv' BY <1>t, <1>2, <1>3 DEF LoadInv, Loaded, Derived, diskVars
<1>11. WorldInv' BY <1>t, <1>2, <1>3, <1>4 DEF WorldInv, Effective
<1> QED BY <1>6, <1>7, <1>8, <1>9, <1>10, <1>11 DEF IInv, TypeInvariant

\* The loaded state is published.
LEMMA Publishes ==
    ASSUME IInv, Activated
    PROVE  IInv'
<1>t. /\ SlotsTypeOK /\ SessionInv /\ SaveInv /\ SettledInv
      /\ BalanceInv /\ LoadInv /\ WorldInv
  BY DEF IInv, TypeInvariant
<1>1. /\ at = "activating" /\ loading # None /\ loading.slot \in Slots /\ loading.st \in State
      /\ loading.todo = {} /\ tx = None /\ cur # None
      /\ inner' = [slot |-> loading.slot, st |-> loading.st]
      /\ loading' = None /\ last' = cur /\ at' = "asleep"
      /\ UNCHANGED <<tx, disabled, toggling, world, stale, diskVars, cur, missed, envVars>>
  BY <1>t, Typed DEF Activated, ActivatePublish, Settle, SessionInv
<1>2. /\ inner' \in Bound /\ inner' # None
      /\ inner'.slot = loading.slot /\ inner'.st = loading.st
  BY <1>1, Sentinels DEF Bound
<1>3. SlotsTypeOK'
  BY <1>t, <1>1, <1>2 DEF SlotsTypeOK, TypeOK, diskVars, envVars
<1>4. SessionInv' BY <1>t, <1>1, <1>2 DEF SessionInv
<1>5. SaveInv' BY <1>t, <1>1, <1>2 DEF SaveInv, LoadInv, diskVars, Loaded, Derived
<1>6. SettledInv' /\ BalanceInv'
  BY <1>t, <1>1, <1>2 DEF SettledInv, BalanceInv, Settled, Balanced, diskVars
<1>7. LoadInv' BY <1>1 DEF LoadInv
<1>8. WorldInv'
  <2>1. Shown' = loading.st BY <1>1, <1>2 DEF Shown
  <2> QED BY <1>t, <1>1, <1>2, <2>1 DEF WorldInv, Effective
<1> QED BY <1>3, <1>4, <1>5, <1>6, <1>7, <1>8 DEF IInv, TypeInvariant

\* The load ends in a panic, or the host goes down: no slot is bound.
LEMMA Breaks ==
    ASSUME IInv, ActivationPanics \/ Crash
    PROVE  IInv'
<1>t. SlotsTypeOK /\ SessionInv /\ SaveInv /\ SettledInv /\ BalanceInv
  BY DEF IInv, TypeInvariant
<1>1. /\ inner' = None /\ tx' = None /\ loading' = None
      /\ file' = file /\ unsynced' = {} /\ unread' \subseteq Slots
      /\ disabled' \subseteq Skills /\ toggling' \subseteq Skills /\ stale' \subseteq Skills
      /\ world' \in [Skills -> 0..MaxLevel]
      /\ at' = "asleep" /\ last' \in Slot /\ cur' \in Slot /\ game' \in Slot
      /\ moves' = moves /\ crashes' \in 0..MaxCrashes /\ missed' \in BOOLEAN
  <2>1. CASE ActivationPanics
    <3>1. inner = None /\ tx = None BY <1>t, <2>1 DEF SessionInv, ActivationPanics
    <3>2. /\ loading' = None
          /\ UNCHANGED <<inner, tx, disabled, toggling, diskVars, cur, envVars>>
          /\ last' = cur /\ at' = "asleep"
      BY <2>1 DEF ActivationPanics, ActivatePanics, Settle
    <3>3. missed' \in BOOLEAN BY <2>1 DEF ActivationPanics
    <3>4. PICK s \in loading.todo : GivenUpTo(loading.st, {}, s)
      BY <2>1 DEF ActivationPanics, ActivatePanics
    <3>5. loading.st \in State /\ s \in Skills
      BY <2>1, Typed DEF ActivationPanics, ActivatePanics
    <3>6. world' \in [Skills -> 0..MaxLevel] /\ stale' \subseteq Skills
      BY <3>4, <3>5, PanicLeaves
    <3> QED BY <1>t, <3>1, <3>2, <3>3, <3>6
            DEF SlotsTypeOK, TypeOK, SaveInv, diskVars, envVars
  <2>2. CASE Crash
    <3>1. /\ inner' = None /\ tx' = None /\ loading' = None
          /\ disabled' = {} /\ toggling' = {} /\ stale' = {}
          /\ world' = [s \in Skills |-> 0]
          /\ file' = [p \in Slots |-> IF p \in unsynced THEN Torn ELSE file[p]]
          /\ unsynced' = {} /\ unread' = {}
          /\ game' = None /\ last' = None /\ cur' = None /\ at' = "asleep"
          /\ crashes < MaxCrashes /\ crashes' = crashes + 1 /\ UNCHANGED moves
      BY <2>2 DEF Crash, TrackerCrash
    <3>2. file' = file
      <4>1. file \in [Slots -> State \cup {None, Torn}] /\ unsynced = {}
        BY <1>t DEF SlotsTypeOK, TypeOK, SaveInv
      <4> QED BY <3>1, <4>1
    <3>3. missed' \in BOOLEAN BY <2>2 DEF Crash
    <3>4. crashes' \in 0..MaxCrashes BY <1>t, <3>1, SlotsAssumption DEF SlotsTypeOK
    <3>5. world' \in [Skills -> 0..MaxLevel] BY <3>1, TrackerAssumption
    <3> QED BY <3>1, <3>2, <3>3, <3>4, <3>5 DEF Slot
  <2> QED BY <2>1, <2>2
<1>2. SlotsTypeOK' BY <1>t, <1>1 DEF SlotsTypeOK, TypeOK
<1>3. SessionInv' BY <1>1 DEF SessionInv
<1>4. SaveInv' BY <1>t, <1>1 DEF SaveInv
<1>5. SettledInv' /\ BalanceInv'
  BY <1>t, <1>1 DEF SettledInv, BalanceInv, Settled, Balanced
<1>6. LoadInv' /\ WorldInv' BY <1>1 DEF LoadInv, WorldInv
<1> QED BY <1>2, <1>3, <1>4, <1>5, <1>6 DEF IInv, TypeInvariant

\* Every step keeps IInv.
LEMMA Inductive == IInv /\ [Next]_vars => IInv'
<1> SUFFICES ASSUME IInv, [Next]_vars PROVE IInv' OBVIOUS
<1>1. CASE Op
  <2>1. UNCHANGED <<pollerVars, envVars>> BY <1>1 DEF Op
  <2>2. ASSUME NEW s \in Skills, NEW n \in Counts,
               SpendSkillPoints(s, n) \/ RefundSkillPoints(s, n)
        PROVE  IInv'
    BY <2>1, <2>2, Operations
  <2>3. ASSUME NEW n \in Counts, RecordXp(n) \/ DebugGrantSkillPoints(n) PROVE IInv'
    BY <2>1, <2>3, Progress
  <2>4. ASSUME NEW s \in Skills, ToggleSet(s) PROVE IInv' BY <2>1, <2>4, Toggles
  <2>5. CASE ReapplyAll BY <2>1, <2>5, Reapplies
  <2> QED BY <1>1, <2>2, <2>3, <2>4, <2>5 DEF Op
<1>2. CASE Saving
  BY <1>2, SaveProceeds, SaveLands, SaveApplies DEF Saving, Save
<1>3. CASE SavingFails BY <1>3, SaveRollsBack DEF SavingFails
<1>4. CASE Reapplying \/ EffectPanics BY <1>4, Reapplies, Panics DEF Reapplying
<1>5. CASE Poller BY <1>5, Looks, Unbinds, Loads, LoadsSkill, Publishes DEF Poller
<1>6. CASE ResolvePanics BY <1>6, Looks
<1>7. CASE ActivationPanics \/ Crash BY <1>7, Breaks
<1>8. ASSUME NEW p \in Slot, GameMoves(p) PROVE IInv' BY <1>8, Looks
<1>9. CASE UNCHANGED vars
  <2>1. SlotsTypeOK' /\ SessionInv'
    BY <1>9 DEF IInv, TypeInvariant, SlotsTypeOK, TypeOK, SessionInv, vars, rpgVars,
                trackerVars, diskVars, pollerVars, envVars
  <2> QED BY <1>9, <2>1, TrackerRests DEF vars
<1> QED BY <1>1, <1>2, <1>3, <1>4, <1>5, <1>6, <1>7, <1>8, <1>9 DEF Next

------------------------------------------------------------------------------
(* Theorems.                                                               *)

\* The inductive invariant, for every value of the constants.
THEOREM Invariance == Spec => []IInv
<1> QED BY Initially, Inductive, PTL DEF Spec

\* Type correctness of the tracker, its files and the poller (tracker.rs,
\* store.rs, poller.rs): no count leaves its range, however spends, refunds,
\* grants and failed saves follow each other.
THEOREM TypeCorrect == Spec => []TypeInvariant
<1>1. IInv => TypeInvariant BY DEF IInv
<1> QED BY <1>1, Invariance, PTL

\* Points are neither lost nor made, in memory, while a save is under way or
\* rolled back, and on disk (Tracker::spend, refund, record_xp and their
\* roll-backs; activate_slot, which derives the level without granting points).
THEOREM PointsAreConserved == Spec => []PointsConserved
<1>1. IInv => PointsConserved BY DEF IInv, BalanceInv, PointsConserved
<1> QED BY <1>1, Invariance, PTL

\* Between changes the bound state is the one a restart would load: every
\* operation saves what it keeps and rolls back what it could not save
\* (Tracker's operations with SlotStore::save and load).
THEOREM MemoryStaysDurable == Spec => []MemoryIsDurable
<1>1. IInv => MemoryIsDurable BY DEF IInv, SaveInv, MemoryIsDurable
<1> QED BY <1>1, Invariance, PTL

\* Between changes the live world has the tracker's levels, with the disabled
\* skills at 0, but for those whose effect panicked or whose toggle is not
\* re-applied (apply_one_unlocked, reapply_one, reapply_all, activate_slot's
\* loop).
THEOREM WorldFollows == Spec => []WorldMatches
<1>1. ASSUME IInv, tx = None, inner # None, NEW s \in Skills \ (toggling \cup stale)
      PROVE  world[s] = Effective(inner.st, s)
  <2>1. Shown = inner.st BY <1>1 DEF Shown
  <2> QED BY <1>1, <2>1 DEF IInv, WorldInv
<1>2. IInv => WorldMatches BY <1>1 DEF WorldMatches
<1> QED BY <1>2, Invariance, PTL

\* What a step does to the files: nothing, or it puts the bound state in place
\* of the file it was changed from.
LEMMA FilesChange ==
    ASSUME IInv, [Next]_vars
    PROVE  \/ file' = file
           \/ /\ inner # None /\ inner.slot \in Slots /\ inner.st \in State
              /\ tx # None /\ tx.at # "apply"
              /\ file' = [file EXCEPT ![inner.slot] = inner.st]
<1>t. SlotsTypeOK /\ SessionInv /\ SaveInv BY DEF IInv, TypeInvariant
<1>1. CASE Op
  BY <1>1 DEF Op, SpendSkillPoints, RefundSkillPoints, RecordXp, DebugGrantSkillPoints,
              Begin, ToggleSet, ReapplyAll, diskVars
<1>2. CASE Saving
  <2>1. CASE SaveRename BY <1>t, <2>1, Typed DEF SaveRename, SessionInv
  <2>2. CASE SaveWrite \/ SaveSync \/ ApplyChanged
    BY <2>2 DEF SaveWrite, SaveSync, ApplyChanged, diskVars
  <2> QED BY <1>2, <2>1, <2>2 DEF Saving, Save
<1>3. CASE SavingFails BY <1>3 DEF SavingFails, SaveFails, diskVars
<1>4. CASE Reapplying \/ EffectPanics
  BY <1>4 DEF Reapplying, ToggleReapply, EffectPanics, ApplyChangedPanics, ToggleReapplyPanics,
              ReapplyAllPanics, diskVars
<1>5. CASE Poller
  BY <1>5 DEF Poller, Resolve, Resolved, Deactivate, DeactivateSlot, Activate, ActivateLoad,
              ActivateLoadFails, ActivateSkill, ActivateApply, Activated, ActivatePublish,
              rpgVars, diskVars
<1>6. CASE ResolvePanics BY <1>6 DEF ResolvePanics, Resolved, rpgVars, diskVars
<1>7. CASE ActivationPanics BY <1>7 DEF ActivationPanics, ActivatePanics, diskVars
<1>8. CASE Crash
  <2>1. file' = [p \in Slots |-> IF p \in unsynced THEN Torn ELSE file[p]]
    BY <1>8 DEF Crash, TrackerCrash
  <2>2. file \in [Slots -> State \cup {None, Torn}] /\ unsynced = {}
    BY <1>t DEF SlotsTypeOK, TypeOK, SaveInv
  <2> QED BY <2>1, <2>2
<1>9. ASSUME NEW p \in Slot, GameMoves(p) PROVE file' = file
  BY <1>9 DEF GameMoves, rpgVars, diskVars
<1>10. CASE UNCHANGED vars BY <1>10 DEF vars, rpgVars, diskVars
<1> QED BY <1>1, <1>2, <1>3, <1>4, <1>5, <1>6, <1>7, <1>8, <1>9, <1>10 DEF Next

\* No step tears a save file or takes experience out of it: not a failed save,
\* a crash, nor another slot's session (SlotStore::save by way of a temporary
\* file, and the roll-backs in Tracker).
THEOREM ProgressIsKept == Spec => ProgressKept
<1>1. ASSUME IInv, [Next]_vars, NEW p \in Slots
      PROVE  /\ file'[p] # Torn
             /\ file[p] # None /\ p \notin unread
                  => file'[p] # None /\ file'[p].xp >= file[p].xp
  <2>t. SaveInv /\ SettledInv /\ BalanceInv BY <1>1 DEF IInv
  <2>1. file[p] \in State \cup {None} /\ file[p] # Torn BY <1>1, <2>t, Typed DEF SaveInv
  <2>2. file[p] # None => file[p].xp \in Nat BY <2>1, TrackerAssumption DEF State
  <2>3. CASE file' = file BY <2>1, <2>2, <2>3
  <2>4. CASE /\ inner # None /\ inner.slot \in Slots /\ inner.st \in State
             /\ tx # None /\ tx.at # "apply"
             /\ file' = [file EXCEPT ![inner.slot] = inner.st]
    <3>1. inner.st # None /\ inner.st # Torn BY <2>4, Sentinels
    <3>2. CASE p # inner.slot BY <1>1, <2>1, <2>2, <2>4, <3>2, Typed
    <3>3. CASE p = inner.slot
      <4>1. file'[p] = inner.st BY <1>1, <2>4, <3>3, Typed
      <4>2. ASSUME file[p] # None, p \notin unread PROVE inner.st.xp >= file[p].xp
        <5>1. file[p] \in State /\ Settled(file[p]) /\ Balanced(file[p])
          BY <2>t, <2>1, <4>2 DEF SettledInv, BalanceInv
        <5>2. Loaded(file[p]) = file[p] BY <5>1, <4>2, LoadedState
        <5>3. tx.prev = file[p] /\ tx.prev.xp <= inner.st.xp
          BY <2>t, <2>4, <3>3, <4>2, <5>2 DEF SaveInv
        <5>4. inner.st.xp \in Nat BY <2>4, TrackerAssumption DEF State
        <5> QED BY <2>2, <4>2, <5>3, <5>4
      <4> QED BY <3>1, <4>1, <4>2
    <3> QED BY <3>2, <3>3
  <2> QED BY <1>1, <2>3, <2>4, FilesChange
<1>2. IInv /\ [Next]_vars =>
        [\A p \in Slots :
           /\ file'[p] # Torn
           /\ file[p] # None /\ p \notin unread
                => file'[p] # None /\ file'[p].xp >= file[p].xp]_vars
  BY <1>1
<1> QED BY <1>2, Invariance, PTL DEF Spec, ProgressKept

\* All that is in the files has been flushed.
LEMMA CrashKeepsFiles == IInv /\ Crash => file' = file
<1> SUFFICES ASSUME IInv, Crash PROVE file' = file OBVIOUS
<1>1. file' = [p \in Slots |-> IF p \in unsynced THEN Torn ELSE file[p]]
  BY DEF Crash, TrackerCrash
<1>2. file \in [Slots -> State \cup {None}] /\ unsynced = {}
  BY Typed DEF IInv, SaveInv
<1> QED BY <1>1, <1>2

\* A power loss in the middle of a change takes the slot back to the state from
\* before it or the one after it, never to anything between, and takes nothing
\* back of a change that was renamed into place (store.rs: save_atomic).  No
\* other slot is touched.
CrashIsAtomic ==
    [][Crash =>
         /\ file' = file
         /\ inner # None /\ tx = None /\ inner.slot \notin unread
                => Loaded(file'[inner.slot]) = inner.st
         /\ tx # None /\ inner.slot \notin unread
                => Loaded(file'[inner.slot]) = IF tx.at = "apply" THEN inner.st ELSE tx.prev]_vars

THEOREM CrashesAreAtomic == Spec => CrashIsAtomic
<1>1. ASSUME IInv, Crash
      PROVE  /\ file' = file
             /\ inner # None /\ tx = None /\ inner.slot \notin unread
                    => Loaded(file[inner.slot]) = inner.st
             /\ tx # None /\ inner.slot \notin unread
                    => Loaded(file[inner.slot]) = IF tx.at = "apply" THEN inner.st ELSE tx.prev
  <2>t. SessionInv /\ SaveInv /\ SettledInv /\ BalanceInv BY <1>1 DEF IInv
  <2>1. file' = file BY <1>1, CrashKeepsFiles
  <2>2. ASSUME inner # None, tx = None, inner.slot \notin unread
        PROVE  Loaded(file[inner.slot]) = inner.st
    BY <2>t, <2>2 DEF SaveInv
  <2>3. ASSUME tx # None, inner.slot \notin unread, tx.at # "apply"
        PROVE  Loaded(file[inner.slot]) = tx.prev
    BY <2>t, <2>3 DEF SaveInv
  <2>4. ASSUME tx # None, inner.slot \notin unread, tx.at = "apply"
        PROVE  Loaded(file[inner.slot]) = inner.st
    <3>1. inner # None /\ inner.st \in State /\ file[inner.slot] = inner.st
      BY <1>1, <2>t, <2>4, Typed DEF SessionInv, SaveInv
    <3>2. Settled(inner.st) /\ Balanced(inner.st) BY <2>t, <3>1 DEF SettledInv, BalanceInv
    <3>3. inner.st \in State \cup {None} /\ inner.st # None BY <3>1, Sentinels
    <3> QED BY <3>1, <3>2, <3>3, LoadedState
  <2> QED BY <2>1, <2>2, <2>3, <2>4
<1>2. IInv /\ [Next]_vars =>
        [Crash =>
           /\ file' = file
           /\ inner # None /\ tx = None /\ inner.slot \notin unread
                  => Loaded(file'[inner.slot]) = inner.st
           /\ tx # None /\ inner.slot \notin unread
                  => Loaded(file'[inner.slot]) = IF tx.at = "apply" THEN inner.st ELSE tx.prev]_vars
  BY <1>1
<1> QED BY <1>2, Invariance, PTL DEF Spec, CrashIsAtomic

------------------------------------------------------------------------------
(* The tracker implements Ledger.                                          *)

\* A change under way is one of the ledger's; a load holds what was saved, or
\* starts anew because the file could not be read.
LedgerInv ==
    /\ tx # None => Promised!Follows(tx.prev, inner.st)
    /\ loading # None /\ loading.slot \in unread => loading.st = Derived(Fresh)

BoundSlot == IF inner = None THEN None ELSE inner.slot
ShownState == IF inner = None THEN None ELSE Shown

\* Spending and refunding move points ...
LEMMA MovesFollow ==
    ASSUME IInv, NEW n \in Counts, NEW s \in Skills,
           SpendSkillPoints(s, n) \/ RefundSkillPoints(s, n)
    PROVE  \E st \in State, k \in Skills \cup {None} :
               Begin(st, k) /\ Promised!Follows(inner.st, st)
<1> DEFINE st == inner.st
<1>1. st \in State BY Typed DEF Ready, SpendSkillPoints, RefundSkillPoints
<1>2. /\ n \in Nat /\ MaxLevel \in Nat
      /\ st.points \in Nat /\ st.levels[s] \in 0..MaxLevel
  BY <1>1, TrackerAssumption DEF State
<1>3. ASSUME NEW p \in Nat, NEW v \in 0..MaxLevel, p + v = st.points + st.levels[s],
             Begin([st EXCEPT !.points = p, !.levels[s] = v], s)
      PROVE  \E new \in State, k \in Skills \cup {None} :
                 Begin(new, k) /\ Promised!Follows(st, new)
  <2> DEFINE new == [st EXCEPT !.points = p, !.levels[s] = v]
  <2>1. /\ new \in State /\ new.points = p /\ new.levels[s] = v
        /\ new = [st EXCEPT !.points = new.points, !.levels[s] = new.levels[s]]
    BY <1>1 DEF State
  <2>2. Begin(new, s) BY <1>3
  <2> HIDE DEF new
  <2>3. new.points >= 0 BY <2>1
  <2>4. Promised!PointsMoved(st, new) BY <1>3, <2>1, <2>3 DEF Promised!PointsMoved
  <2>5. s \in Skills \cup {None} OBVIOUS
  <2> QED BY <2>1, <2>2, <2>4, <2>5 DEF Promised!Follows
<1>4. CASE SpendSkillPoints(s, n)
  <2> DEFINE d == Min({n, st.points, MaxLevel - st.levels[s]})
  <2>1. MaxLevel - st.levels[s] \in Nat BY <1>2
  <2>2. d \in Nat /\ d <= st.points /\ d <= MaxLevel - st.levels[s]
    BY <1>2, <2>1, MinOfThree
  <2>3. Begin([st EXCEPT !.points = @ - d, !.levels[s] = @ + d], s)
    BY <1>4 DEF SpendSkillPoints
  <2> HIDE DEF d
  <2>4. Begin([st EXCEPT !.points = st.points - d, !.levels[s] = st.levels[s] + d], s)
    <3>1. [st EXCEPT !.points = @ - d, !.levels[s] = @ + d]
            = [st EXCEPT !.points = st.points - d, !.levels[s] = st.levels[s] + d]
      BY <1>1 DEF State
    <3> QED BY <2>3, <3>1
  <2>5. /\ st.points - d \in Nat /\ st.levels[s] + d \in 0..MaxLevel
        /\ (st.points - d) + (st.levels[s] + d) = st.points + st.levels[s]
    BY <1>2, <2>2
  <2> HIDE DEF st
  <2>6. \E new \in State, k \in Skills \cup {None} :
            Begin(new, k) /\ Promised!Follows(st, new)
    BY <1>3, <2>4, <2>5
  <2> QED BY <2>6 DEF st
<1>5. CASE RefundSkillPoints(s, n)
  <2> DEFINE d == Min({n, st.levels[s]})
  <2>1. st.levels[s] \in Nat BY <1>2
  <2>2. d \in Nat /\ d <= st.levels[s] BY <1>2, <2>1, MinOfTwo
  <2>3. Begin([st EXCEPT !.points = @ + d, !.levels[s] = @ - d], s)
    BY <1>5 DEF RefundSkillPoints
  <2> HIDE DEF d
  <2>4. Begin([st EXCEPT !.points = st.points + d, !.levels[s] = st.levels[s] - d], s)
    <3>1. [st EXCEPT !.points = @ + d, !.levels[s] = @ - d]
            = [st EXCEPT !.points = st.points + d, !.levels[s] = st.levels[s] - d]
      BY <1>1 DEF State
    <3> QED BY <2>3, <3>1
  <2>5. /\ st.points + d \in Nat /\ st.levels[s] - d \in 0..MaxLevel
        /\ (st.points + d) + (st.levels[s] - d) = st.points + st.levels[s]
    BY <1>2, <2>2
  <2> HIDE DEF st
  <2>6. \E new \in State, k \in Skills \cup {None} :
            Begin(new, k) /\ Promised!Follows(st, new)
    BY <1>3, <2>4, <2>5
  <2> QED BY <2>6 DEF st
<1> QED BY <1>4, <1>5

\* ... experience advances, and the debug op grants.
LEMMA ProgressFollows ==
    ASSUME IInv, NEW n \in Counts, RecordXp(n) \/ DebugGrantSkillPoints(n)
    PROVE  \E st \in State, k \in Skills \cup {None} :
               Begin(st, k) /\ Promised!Follows(inner.st, st)
<1> DEFINE st == inner.st
<1>1. st \in State BY Typed DEF Ready, RecordXp, DebugGrantSkillPoints
<1>2. /\ n \in Nat /\ st.points \in Nat
      /\ st.xp \in Nat /\ st.level \in Nat /\ st.granted \in Nat
  BY <1>1, TrackerAssumption DEF State
<1>3. None \in Skills \cup {None} OBVIOUS
<1>4. CASE RecordXp(n)
  <2> DEFINE now  == LevelFor[st.xp + n]
             more == IF now > st.level THEN now - st.level ELSE 0
             new  == Advanced(st, n, more)
  <2>1. st.xp + n <= MaxXp /\ Begin(new, None) BY <1>4 DEF RecordXp, Advanced
  <2>2. st.xp + n \in 0..MaxXp /\ now \in Nat BY <1>2, <2>1, TrackerAssumption
  <2>3. more \in Nat BY <1>2, <2>2
  <2>4. new \in State /\ new.xp = st.xp + n
    <3>1. st \in State /\ n \in Nat /\ more \in Nat /\ st.xp + n \in 0..MaxXp
      BY <1>1, <1>2, <2>2, <2>3
    <3> HIDE DEF more, now, st
    <3> QED BY ONLY <3>1, XpComes
  <2>5. new = [st EXCEPT !.xp = new.xp, !.level = @ + more, !.points = @ + more]
    <3>1. new = [st EXCEPT !.xp = st.xp + n, !.level = st.level + more, !.points = st.points + more]
      <4> HIDE DEF more
      <4> QED BY <1>1 DEF Advanced, State
    <3>2. [st EXCEPT !.xp = new.xp, !.level = @ + more, !.points = @ + more]
            = [st EXCEPT !.xp = new.xp, !.level = st.level + more, !.points = st.points + more]
      <4> HIDE DEF more, new
      <4> QED BY <1>1 DEF State
    <3> HIDE DEF new, more
    <3> QED BY <2>4, <3>1, <3>2
  <2>6. new.xp >= st.xp BY <1>2, <2>4
  <2> HIDE DEF new
  <2>7. Promised!Advanced(st, new) BY <2>4, <2>5, <2>6 DEF Promised!Advanced
  <2> QED BY <1>3, <2>1, <2>4, <2>7 DEF Promised!Follows
<1>5. CASE DebugGrantSkillPoints(n)
  <2> DEFINE new == [st EXCEPT !.points = @ + n, !.granted = @ + n]
  <2>1. st.granted + n <= MaxGranted /\ Begin(new, None)
    BY <1>5 DEF DebugGrantSkillPoints
  <2>2. st.granted + n \in 0..MaxGranted BY <1>2, <2>1, TrackerAssumption
  <2>3. new \in State /\ new.points = st.points + n /\ new.granted = st.granted + n
    BY <1>1, <1>2, <2>2, GrantComes
  <2>4. new = [st EXCEPT !.points = new.points, !.granted = new.granted]
    BY <1>1, <2>3 DEF State
  <2> HIDE DEF new
  <2>5. /\ new.granted >= st.granted
        /\ new.points - st.points = new.granted - st.granted
    BY <1>2, <2>3
  <2>6. Promised!PointsGranted(st, new) BY <2>4, <2>5 DEF Promised!PointsGranted
  <2> QED BY <1>3, <2>1, <2>3, <2>6 DEF Promised!Follows
<1> QED BY <1>4, <1>5

\* What the steps do to the variables that the ledger is about.
LEMMA LedgerCases ==
    ASSUME IInv, [Next]_vars
    PROVE  \/ \E st \in State, k \in Skills \cup {None} :
                  Ready /\ Begin(st, k) /\ Promised!Follows(inner.st, st)
           \/ SaveWrite \/ SaveSync \/ SaveRename \/ SaveFails
           \/ ApplyChanged \/ ApplyChangedPanics
           \/ UNCHANGED <<inner, tx, loading, file, unread>>
           \/ Deactivate \/ Activate \/ ActivateSkill \/ Activated \/ ActivationPanics \/ Crash
<1> DEFINE Begins == \E st \in State, k \in Skills \cup {None} :
                         Ready /\ Begin(st, k) /\ Promised!Follows(inner.st, st)
<1>1. ASSUME NEW s \in Skills, NEW n \in Counts, SpendSkillPoints(s, n) \/ RefundSkillPoints(s, n)
      PROVE  Begins
  <2>1. Ready BY <1>1 DEF SpendSkillPoints, RefundSkillPoints
  <2> QED BY <1>1, <2>1, MovesFollow
<1>2. ASSUME NEW n \in Counts, RecordXp(n) \/ DebugGrantSkillPoints(n) PROVE Begins
  <2>1. Ready BY <1>2 DEF RecordXp, DebugGrantSkillPoints
  <2> QED BY <1>2, <2>1, ProgressFollows
<1>3. ASSUME NEW s \in Skills, ToggleSet(s) \/ ToggleReapply(s) \/ ToggleReapplyPanics(s)
      PROVE  UNCHANGED <<inner, tx, loading, file, unread>>
  BY <1>3 DEF ToggleSet, ToggleReapply, ToggleReapplyPanics, diskVars
<1>4. ReapplyAll \/ ReapplyAllPanics => UNCHANGED <<inner, tx, loading, file, unread>>
  BY DEF ReapplyAll, ReapplyAllPanics, diskVars
<1>5. UNCHANGED rpgVars => UNCHANGED <<inner, tx, loading, file, unread>>
  BY DEF rpgVars, trackerVars, diskVars
<1>6. Resolve \/ ResolvePanics => UNCHANGED rpgVars BY DEF Resolve, ResolvePanics, Resolved
<1>7. ASSUME NEW p \in Slot, GameMoves(p) PROVE UNCHANGED rpgVars BY <1>7 DEF GameMoves
<1>8. UNCHANGED vars => UNCHANGED rpgVars BY DEF vars
<1> HIDE DEF Begins
<1>9. Op => Begins \/ UNCHANGED <<inner, tx, loading, file, unread>>
  BY <1>1, <1>2, <1>3, <1>4, Zenon DEF Op
<1>10. Reapplying => UNCHANGED <<inner, tx, loading, file, unread>>
  BY <1>3, Zenon DEF Reapplying
<1>11. (\E p \in Slot : GameMoves(p)) \/ Resolve \/ ResolvePanics \/ UNCHANGED vars
         => UNCHANGED <<inner, tx, loading, file, unread>>
  BY <1>5, <1>6, <1>7, <1>8, Zenon
<1>12. \/ Op \/ Reapplying \/ EffectPanics \/ SaveWrite \/ SaveSync \/ SaveRename \/ ApplyChanged \/ SaveFails
       \/ (\E p \in Slot : GameMoves(p)) \/ Resolve \/ ResolvePanics \/ UNCHANGED vars
       \/ Deactivate \/ Activate \/ ActivateSkill \/ Activated \/ ActivationPanics \/ Crash
  BY DEF Next, Saving, Save, SavingFails, Poller
<1>13. EffectPanics => ApplyChangedPanics \/ UNCHANGED <<inner, tx, loading, file, unread>>
  BY <1>3, <1>4, Zenon DEF EffectPanics
<1> QED BY <1>9, <1>10, <1>11, <1>12, <1>13 DEF Begins

LEMMA LedgerInductive ==
    ASSUME IInv, LedgerInv, [Next]_vars
    PROVE  LedgerInv'
<1>t. SessionInv /\ LedgerInv BY DEF IInv
<1>1. ASSUME NEW st \in State, NEW k \in Skills \cup {None},
             Ready, Begin(st, k), Promised!Follows(inner.st, st)
      PROVE  LedgerInv'
  <2>1. inner \in Bound BY <1>1, Typed DEF Ready
  <2>2. inner'.st = st /\ tx'.prev = inner.st /\ UNCHANGED <<loading, unread>>
    BY <1>1, <2>1 DEF Begin, Bound, diskVars
  <2> QED BY <1>t, <1>1, <2>2 DEF LedgerInv, Derived
<1>2. CASE SaveWrite \/ SaveSync \/ SaveRename
  <2>1. tx # None /\ tx \in Change /\ loading = None
    BY <1>2, <1>t, Typed DEF SaveWrite, SaveSync, SaveRename, SessionInv
  <2>2. /\ UNCHANGED <<inner, loading>>
        /\ tx' = None \/ \E a \in {"sync", "rename", "apply"} : tx' = [tx EXCEPT !.at = a]
    BY <1>2 DEF SaveWrite, SaveSync, SaveRename
  <2>3. tx' # None => tx'.prev = tx.prev BY <2>1, <2>2 DEF Change
  <2> QED BY <1>t, <2>1, <2>2, <2>3 DEF LedgerInv
<1>3. CASE ApplyChanged \/ ApplyChangedPanics \/ SaveFails
  BY <1>3, <1>t DEF ApplyChanged, ApplyChangedPanics, SaveFails, SessionInv, LedgerInv
<1>4. CASE UNCHANGED <<inner, tx, loading, file, unread>>
  BY <1>4, <1>t DEF LedgerInv, Derived
<1>5. CASE Deactivate
  BY <1>5, <1>t DEF Deactivate, DeactivateSlot, LedgerInv, Derived, diskVars
<1>6. CASE Activate
  <2>1. tx' = None BY <1>6, <1>t DEF Activate, ActivateLoad, ActivateLoadFails, SessionInv
  <2>2. loading'.slot = cur BY <1>6 DEF Activate, ActivateLoad, ActivateLoadFails
  <2>3. CASE ActivateLoad(cur) BY <2>1, <2>2, <2>3 DEF ActivateLoad, LedgerInv
  <2>4. CASE ActivateLoadFails(cur)
    <3>1. loading'.st = Derived(Fresh) BY <2>4 DEF ActivateLoadFails
    <3> QED BY <2>1, <3>1 DEF LedgerInv, Derived
  <2> QED BY <1>6, <2>3, <2>4 DEF Activate
<1>7. CASE ActivateSkill
  <2>1. PICK s \in Skills : ActivateApply(s) BY <1>7 DEF ActivateSkill
  <2>2. loading # None /\ loading \in Load BY <2>1, Typed DEF ActivateApply
  <2>3. /\ loading'.slot = loading.slot /\ loading'.st = loading.st
        /\ UNCHANGED <<inner, tx, unread>>
    BY <2>1, <2>2 DEF ActivateApply, Load, diskVars
  <2> QED BY <1>t, <2>2, <2>3 DEF LedgerInv, Derived
<1>8. CASE Activated \/ ActivationPanics \/ Crash
  <2>1. tx' = None /\ loading' = None
    BY <1>8, <1>t DEF Activated, ActivatePublish, ActivationPanics, ActivatePanics, SessionInv,
                      Crash, TrackerCrash
  <2> QED BY <2>1 DEF LedgerInv
<1> QED BY <1>1, <1>2, <1>3, <1>4, <1>5, <1>6, <1>7, <1>8, LedgerCases

\* A slot is left.
LEMMA LedgerLeft ==
    ASSUME IInv, file' = file, inner' = None
    PROVE  [Promised!Next]_<<file, BoundSlot, ShownState>>
<1>1. BoundSlot' = None /\ ShownState' = None BY DEF BoundSlot, ShownState
<1>2. CASE inner = None
  <2>1. BoundSlot = None /\ ShownState = None BY <1>2 DEF BoundSlot, ShownState
  <2> QED BY <1>1, <2>1
<1>3. CASE inner # None
  <2>1. BoundSlot = inner.slot /\ inner.slot \in Slots BY <1>3, Typed DEF BoundSlot
  <2>2. BoundSlot # None BY <2>1, Sentinels
  <2>3. Promised!Leave BY <1>1, <2>2 DEF Promised!Leave, BoundSlot, ShownState
  <2> QED BY <2>3 DEF Promised!Next
<1> QED BY <1>2, <1>3

\* A slot is bound to what was loaded.
LEMMA LedgerBound ==
    ASSUME IInv, LedgerInv, Activated
    PROVE  [Promised!Next]_<<file, BoundSlot, ShownState>>
<1>t. SessionInv /\ LoadInv /\ SettledInv /\ BalanceInv BY DEF IInv
<1> DEFINE p == loading.slot
<1>1. /\ loading # None /\ p \in Slots /\ loading.st \in State
      /\ tx = None /\ tx' = None /\ file' = file /\ inner = None
      /\ inner' = [slot |-> p, st |-> loading.st]
  BY <1>t, Typed DEF Activated, ActivatePublish, SessionInv, diskVars
<1>2. inner' # None /\ inner'.slot = p /\ inner'.st = loading.st
  BY <1>1, Sentinels DEF Bound
<1>3. BoundSlot = None /\ BoundSlot' = p /\ ShownState' = loading.st
  BY <1>1, <1>2 DEF BoundSlot, ShownState, Shown
<1>4. Derived(Fresh) = Promised!Start
  <2>1. 0 \in 0..MaxXp /\ LevelFor[0] \in Nat BY TrackerAssumption
  <2> QED BY <2>1 DEF Derived, Fresh, Promised!Start
<1>5. file[p] \in State \cup {None} /\ (file[p] # None => Settled(file[p]) /\ Balanced(file[p]))
  BY <1>t, <1>1, Typed DEF SettledInv, BalanceInv
<1>6. CASE p \notin unread
  <2>1. loading.st = Loaded(file[p]) BY <1>t, <1>1, <1>6 DEF LoadInv
  <2>2. loading.st = IF file[p] = None THEN Promised!Start ELSE file[p]
    BY <1>4, <1>5, <2>1, LoadedState DEF Loaded
  <2>3. Promised!Bind(p)
    BY <1>1, <1>3, <2>2 DEF Promised!Bind, BoundSlot, ShownState
  <2> QED BY <1>1, <2>3 DEF Promised!Next
<1>7. CASE p \in unread
  <2>1. loading.st = Promised!Start BY <1>1, <1>4, <1>7 DEF LedgerInv
  <2>2. CASE file[p] = None
    <3>1. Promised!Bind(p)
      BY <1>1, <1>3, <2>1, <2>2 DEF Promised!Bind, BoundSlot, ShownState
    <3> QED BY <1>1, <3>1 DEF Promised!Next
  <2>3. CASE file[p] # None
    <3>1. Promised!BindUnread(p)
      BY <1>1, <1>3, <2>1, <2>3 DEF Promised!BindUnread, BoundSlot, ShownState
    <3> QED BY <1>1, <3>1 DEF Promised!Next
  <2> QED BY <2>2, <2>3
<1> QED BY <1>6, <1>7

\* A change is put in place.
LEMMA LedgerChanged ==
    ASSUME IInv, LedgerInv, SaveRename
    PROVE  [Promised!Next]_<<file, BoundSlot, ShownState>>
<1>1. /\ tx # None /\ tx \in Change /\ tx.at = "rename"
      /\ inner # None /\ inner.slot \in Slots
      /\ file' = [file EXCEPT ![inner.slot] = inner.st] /\ inner' = inner
      /\ tx' = IF tx.skill = None THEN None ELSE [tx EXCEPT !.at = "apply"]
  BY Typed DEF SaveRename, IInv, SessionInv
<1>2. tx' # None => tx'.at = "apply" BY <1>1 DEF Change
<1>3. /\ BoundSlot = inner.slot /\ BoundSlot' = inner.slot
      /\ ShownState = tx.prev /\ ShownState' = inner.st
  BY <1>1, <1>2 DEF BoundSlot, ShownState, Shown
<1>4. BoundSlot # None BY <1>1, <1>3, Sentinels
<1>5. Promised!Follows(ShownState, ShownState')
  BY <1>1, <1>3 DEF LedgerInv
<1>6. file' = [file EXCEPT ![BoundSlot] = ShownState'] BY <1>1, <1>3
<1>7. Promised!Change
  BY <1>3, <1>4, <1>5, <1>6 DEF Promised!Change, BoundSlot, ShownState
<1> QED BY <1>7 DEF Promised!Next

LEMMA LedgerSteps ==
    ASSUME IInv, LedgerInv, [Next]_vars
    PROVE  [Promised!Next]_<<file, BoundSlot, ShownState>>
<1>t. SessionInv BY DEF IInv
<1>1. ASSUME NEW st \in State, NEW k \in Skills \cup {None}, Ready, Begin(st, k)
      PROVE  UNCHANGED <<file, BoundSlot, ShownState>>
  <2>1. inner # None /\ inner \in Bound /\ tx = None BY <1>1, Typed DEF Ready
  <2>2. /\ inner' # None /\ inner'.slot = inner.slot /\ file' = file
        /\ tx' # None /\ tx'.prev = inner.st /\ tx'.at = "write"
    <3>1. inner' \in Bound /\ inner'.slot = inner.slot
      BY <1>1, <2>1 DEF Begin, Bound
    <3>2. tx' \in Change /\ tx'.prev = inner.st /\ tx'.at = "write"
      BY <1>1, <2>1 DEF Begin, Bound, Change
    <3>3. file' = file BY <1>1 DEF Begin, diskVars
    <3> QED BY <3>1, <3>2, <3>3, Sentinels
  <2>3. BoundSlot' = BoundSlot /\ ShownState' = ShownState
    BY <2>1, <2>2 DEF BoundSlot, ShownState, Shown
  <2> QED BY <2>2, <2>3
<1>2. CASE SaveWrite \/ SaveSync
  <2>1. /\ tx # None /\ tx \in Change /\ tx.at # "apply" /\ file' = file /\ inner' = inner
        /\ \E a \in {"sync", "rename"} : tx' = [tx EXCEPT !.at = a]
    BY <1>2, Typed DEF SaveWrite, SaveSync, diskVars
  <2>2. tx' \in Change /\ tx'.prev = tx.prev /\ tx'.at # "apply" BY <2>1 DEF Change
  <2>3. tx' # None BY <2>2, Sentinels
  <2>4. BoundSlot' = BoundSlot /\ ShownState' = ShownState
    BY <2>1, <2>2, <2>3 DEF BoundSlot, ShownState, Shown
  <2> QED BY <2>1, <2>4
<1>3. CASE ApplyChanged \/ ApplyChangedPanics
  BY <1>3 DEF ApplyChanged, ApplyChangedPanics, BoundSlot, ShownState, Shown, diskVars
<1>4. CASE SaveFails
  <2>1. /\ tx # None /\ tx.at # "apply" /\ inner # None /\ inner \in Bound /\ tx.prev \in State
    BY <1>4, <1>t, Typed DEF SaveFails, SessionInv
  <2>2. /\ inner' \in Bound /\ inner'.slot = inner.slot /\ inner'.st = tx.prev
        /\ tx' = None /\ file' = file
    BY <1>4, <2>1 DEF SaveFails, Bound, diskVars
  <2>3. inner' # None BY <2>2, Sentinels
  <2>4. BoundSlot' = BoundSlot /\ ShownState' = ShownState
    BY <2>1, <2>2, <2>3 DEF BoundSlot, ShownState, Shown
  <2> QED BY <2>2, <2>4
<1>5. CASE UNCHANGED <<inner, tx, loading, file, unread>>
  BY <1>5 DEF BoundSlot, ShownState, Shown
<1>6. CASE Deactivate
  BY <1>6, LedgerLeft DEF Deactivate, DeactivateSlot, diskVars
<1>7. CASE Activate
  BY <1>7 DEF Activate, ActivateLoad, ActivateLoadFails, BoundSlot, ShownState, Shown
<1>8. CASE ActivateSkill
  BY <1>8 DEF ActivateSkill, ActivateApply, BoundSlot, ShownState, Shown, diskVars
<1>9. CASE Activated BY <1>9, LedgerBound
<1>10. CASE ActivationPanics
  BY <1>10 DEF ActivationPanics, ActivatePanics, BoundSlot, ShownState, Shown, diskVars
<1>11. CASE Crash
  <2>1. inner' = None BY <1>11 DEF Crash, TrackerCrash
  <2>2. file' = file BY <1>11, CrashKeepsFiles
  <2> QED BY <2>1, <2>2, LedgerLeft
<1>12. CASE SaveRename BY <1>12, LedgerChanged
<1> QED BY <1>1, <1>2, <1>3, <1>4, <1>5, <1>6, <1>7, <1>8, <1>9, <1>10, <1>11, <1>12, LedgerCases

\* The tracker, its store and the poller keep the ledger's promise: an operation
\* happens to memory and disk together or not at all, whichever step of the save
\* fails and wherever the power goes; a load gives back what was saved, or starts
\* anew where it cannot be read.
THEOREM Refinement == Spec => ImplementsLedger
<1>1. Init => LedgerInv BY DEF Init, TrackerInit, LedgerInv
<1>2. Init => Promised!Init
  BY DEF Init, TrackerInit, Promised!Init
<1>3. IInv /\ LedgerInv /\ [Next]_vars => LedgerInv' BY LedgerInductive
<1>4. IInv /\ LedgerInv /\ [Next]_vars =>
        [Promised!Next]_<<file, IF inner = None THEN None ELSE inner.slot,
                          IF inner = None THEN None ELSE Shown>>
  BY LedgerSteps DEF BoundSlot, ShownState
<1> QED BY <1>1, <1>2, <1>3, <1>4, Invariance, PTL
      DEF Spec, ImplementsLedger, Promised!Spec
==============================================================================
