------------------------------ MODULE RpgTracker -----------------------------
(***************************************************************************)
(* modforge's RPG progression for one player: the tracker                  *)
(* (src/modforge/src/rpg/tracker.rs), the disabled-skills toggle           *)
(* (disabled.rs) and the per-slot save files (store.rs).                   *)
(*                                                                         *)
(* A change of the state runs under Tracker::inner's lock: mutate memory,  *)
(* save, roll back if the save failed, re-apply the skill to the world.    *)
(* `tx` is that change while it holds the lock.  Loading a slot applies    *)
(* every skill WITHOUT the lock and takes it only to publish the state;    *)
(* a toggle changes the disabled set first and re-applies afterwards.      *)
(* An effect may panic: the unwinding frees the lock, what was saved stays *)
(* saved, and the caller lives on.  The host may crash at any step.        *)
(***************************************************************************)
EXTENDS Integers, FiniteSets, FiniteSetsExt

CONSTANTS
    Slots,       \* slot keys that are valid file names
    Skills,      \* catalog rows with an OnSlotChange trigger
    MaxLevel,    \* SkillDef::max_level, the same for every row
    LevelFor,    \* [0..MaxXp -> levels], Curve::level_for_xp
    MaxXp,       \* bound: experience a slot collects
    MaxGranted,  \* bound: points granted by the debug op
    Counts,      \* the `count` arguments tried
    None,        \* Option::None
    Torn         \* the content of a file whose write was cut short

ASSUME TrackerAssumption ==
    /\ IsFiniteSet(Skills)
    /\ MaxLevel \in Nat
    /\ MaxXp \in Nat
    /\ MaxGranted \in Nat
    /\ LevelFor \in [0..MaxXp -> Nat]
    /\ Counts \subseteq Nat

VARIABLES
    inner,      \* Mutex<Option<TrackerInner>>: None or the bound slot's state
    tx,         \* the change holding the lock, or None
    loading,    \* activate_slot between its load and its publication, or None
    disabled,   \* DisabledSkills: skills treated as level 0
    toggling,   \* skills toggled and not re-applied yet
    world,      \* [Skills -> level the live world was last given]
    file,       \* [Slots -> None (no file), Torn or the saved state]
    unsynced,   \* slots whose file content would not survive a power loss
    unread,     \* history: slots bound to a fresh state because the read failed
    stale       \* history: skills that the world may not have as it should: their
                \* toggle found no slot while one was loading, or their effect panicked

trackerVars == <<inner, tx, loading, disabled, toggling, world, stale>>
diskVars    == <<file, unsynced, unread>>
rpgVars     == <<trackerVars, diskVars>>

\* SkillsState.  `granted` is history: the points the debug op has added.
State ==
    [xp      : 0..MaxXp,
     level   : Nat,
     points  : Nat,
     levels  : [Skills -> 0..MaxLevel],
     granted : 0..MaxGranted]

Fresh ==
    [xp |-> 0, level |-> 0, points |-> 0,
     levels |-> [s \in Skills |-> 0], granted |-> 0]

Bound == [slot : Slots, st : State]

\* `skill` is the one to re-apply after the save, if the operation does that.
Change ==
    [prev : State, skill : Skills \cup {None}, at : {"write", "sync", "rename", "apply"}]

Load == [slot : Slots, st : State, todo : SUBSET Skills]

\* None and Torn are told apart from everything they stand beside.
ASSUME SentinelAssumption ==
    /\ None \notin Slots \cup Skills \cup State \cup Bound \cup Change \cup Load
    /\ Torn \notin State \cup {None}

TypeOK ==
    /\ inner \in Bound \cup {None}
    /\ tx \in Change \cup {None}
    /\ loading \in Load \cup {None}
    /\ disabled \subseteq Skills
    /\ toggling \subseteq Skills
    /\ world \in [Skills -> 0..MaxLevel]
    /\ file \in [Slots -> State \cup {None, Torn}]
    /\ unsynced \subseteq Slots
    /\ unread \subseteq Slots
    /\ stale \subseteq Skills

TrackerInit ==
    /\ inner = None
    /\ tx = None
    /\ loading = None
    /\ disabled = {}
    /\ toggling = {}
    /\ world = [s \in Skills |-> 0]
    /\ file = [p \in Slots |-> None]
    /\ unsynced = {}
    /\ unread = {}
    /\ stale = {}

\* The level the world is given: a disabled skill counts as level 0.
Effective(st, s) == IF s \in disabled THEN 0 ELSE st.levels[s]

\* The world after each of the skills `given` was applied from st.
Given(st, given) == [s \in Skills |-> IF s \in given THEN Effective(st, s) ELSE world[s]]

\* The skills `given` were applied, and the effect of the next, s, panicked: the
\* world may have it or not.
GivenUpTo(st, given, s) ==
    /\ world' \in {Given(st, given), Given(st, given \cup {s})}
    /\ stale' = (stale \ given) \cup {s}

------------------------------------------------------------------------------
(* Changes of the bound state, under the lock.                             *)

\* The lock is free and a slot is bound.
Ready == tx = None /\ inner # None

\* Memory becomes st; the save comes next, then skill s is re-applied.
Begin(st, s) ==
    /\ inner' = [inner EXCEPT !.st = st]
    /\ tx' = [prev |-> inner.st, skill |-> s, at |-> "write"]
    /\ UNCHANGED <<loading, disabled, toggling, world, stale, diskVars>>

\* Mutant of SpendSkillPoints: the unspent points do not limit the spending.
SpendUnlimited(s, n) ==
    /\ Ready
    /\ LET st    == inner.st
           spend == Min({n, MaxLevel - st.levels[s]})
       IN  /\ spend > 0
           /\ Begin([st EXCEPT !.points = @ - spend, !.levels[s] = @ + spend], s)

SpendSkillPoints(s, n) ==
    /\ Ready
    /\ LET st    == inner.st
           spend == Min({n, st.points, MaxLevel - st.levels[s]})
       IN  /\ spend > 0
           /\ Begin([st EXCEPT !.points = @ - spend, !.levels[s] = @ + spend], s)

RefundSkillPoints(s, n) ==
    /\ Ready
    /\ LET st     == inner.st
           refund == Min({n, st.levels[s]})
       IN  /\ refund > 0
           /\ Begin([st EXCEPT !.points = @ + refund, !.levels[s] = @ - refund], s)

RecordXp(n) ==
    /\ Ready
    /\ inner.st.xp + n <= MaxXp
    /\ LET st   == inner.st
           now  == LevelFor[st.xp + n]
           more == IF now > st.level THEN now - st.level ELSE 0
       IN  Begin([st EXCEPT !.xp = @ + n, !.level = @ + more, !.points = @ + more], None)

DebugGrantSkillPoints(n) ==
    /\ Ready
    /\ inner.st.granted + n <= MaxGranted
    /\ Begin([inner.st EXCEPT !.points = @ + n, !.granted = @ + n], None)

\* Mutant of SaveWrite: the slot's own file is written, not a temporary one.
SaveInPlace ==
    /\ tx # None /\ tx.at = "write"
    /\ tx' = [tx EXCEPT !.at = "sync"]
    /\ file' = [file EXCEPT ![inner.slot] = inner.st]
    /\ unsynced' = unsynced \cup {inner.slot}
    /\ UNCHANGED <<inner, loading, disabled, toggling, world, stale, unread>>

\* The temporary file is created and written ...
SaveWrite ==
    /\ tx # None /\ tx.at = "write"
    /\ tx' = [tx EXCEPT !.at = "sync"]
    /\ UNCHANGED <<inner, loading, disabled, toggling, world, stale, diskVars>>

\* ... flushed ...
SaveSync ==
    /\ tx # None /\ tx.at = "sync"
    /\ tx' = [tx EXCEPT !.at = "rename"]
    /\ UNCHANGED <<inner, loading, disabled, toggling, world, stale, diskVars>>

\* ... and renamed over the slot's file.  An operation that re-applies nothing
\* is over.
SaveRename ==
    /\ tx # None /\ tx.at = "rename"
    /\ file' = [file EXCEPT ![inner.slot] = inner.st]
    /\ unsynced' = unsynced \ {inner.slot}
    /\ unread' = unread \ {inner.slot}
    /\ tx' = IF tx.skill = None THEN None ELSE [tx EXCEPT !.at = "apply"]
    /\ UNCHANGED <<inner, loading, disabled, toggling, world, stale>>

\* Mutant of SaveFails: the level is not rolled back.
SaveFailsKeepsLevel ==
    /\ tx # None /\ tx.at # "apply"
    /\ inner' = [inner EXCEPT !.st = [tx.prev EXCEPT !.level = inner.st.level]]
    /\ tx' = None
    /\ UNCHANGED <<loading, disabled, toggling, world, stale, diskVars>>

\* Mutant of SaveFails: nothing is rolled back.
SaveFailsKeepsAll ==
    /\ tx # None /\ tx.at # "apply"
    /\ tx' = None
    /\ UNCHANGED <<inner, loading, disabled, toggling, world, stale, diskVars>>

\* Any step of the save fails: the operation rolls its mutation back.
SaveFails ==
    /\ tx # None /\ tx.at # "apply"
    /\ inner' = [inner EXCEPT !.st = tx.prev]
    /\ tx' = None
    /\ UNCHANGED <<loading, disabled, toggling, world, stale, diskVars>>

\* Mutant of ApplyChanged: the disabled toggle is not honoured.
ApplyChangedRaw ==
    /\ tx # None /\ tx.at = "apply"
    /\ world' = [world EXCEPT ![tx.skill] = inner.st.levels[tx.skill]]
    /\ stale' = stale \ {tx.skill}
    /\ tx' = None
    /\ UNCHANGED <<inner, loading, disabled, toggling, diskVars>>

\* apply_one_unlocked, still under the lock.
ApplyChanged ==
    /\ tx # None /\ tx.at = "apply"
    /\ world' = [world EXCEPT ![tx.skill] = Effective(inner.st, tx.skill)]
    /\ stale' = stale \ {tx.skill}
    /\ tx' = None
    /\ UNCHANGED <<inner, loading, disabled, toggling, diskVars>>

\* Its effect panics: memory and file keep the new state.
ApplyChangedPanics ==
    /\ tx # None /\ tx.at = "apply"
    /\ GivenUpTo(inner.st, {}, tx.skill)
    /\ tx' = None
    /\ UNCHANGED <<inner, loading, disabled, toggling, diskVars>>

------------------------------------------------------------------------------
(* Toggles, and re-applying on demand.                                     *)

\* DisabledSkills::set, which needs no tracker lock.
ToggleSet(s) ==
    /\ s \notin toggling
    /\ disabled' = IF s \in disabled THEN disabled \ {s} ELSE disabled \cup {s}
    /\ toggling' = toggling \cup {s}
    /\ UNCHANGED <<inner, tx, loading, world, stale, diskVars>>

\* reapply_one after the toggle: nothing to do while no slot is bound.
ToggleReapply(s) ==
    /\ s \in toggling
    /\ tx = None
    /\ toggling' = toggling \ {s}
    /\ IF inner = None
         THEN /\ stale' = IF loading = None THEN stale ELSE stale \cup {s}
              /\ UNCHANGED world
         ELSE /\ world' = [world EXCEPT ![s] = Effective(inner.st, s)]
              /\ stale' = stale \ {s}
    /\ UNCHANGED <<inner, tx, loading, disabled, diskVars>>

\* The re-applied effect panics.
ToggleReapplyPanics(s) ==
    /\ s \in toggling
    /\ Ready
    /\ toggling' = toggling \ {s}
    /\ GivenUpTo(inner.st, {}, s)
    /\ UNCHANGED <<inner, tx, loading, disabled, diskVars>>

ReapplyAll ==
    /\ Ready
    /\ world' = [s \in Skills |-> Effective(inner.st, s)]
    /\ stale' = {}
    /\ UNCHANGED <<inner, tx, loading, disabled, toggling, diskVars>>

\* One of the effects panics; those after it in the catalog are not reached.
ReapplyAllPanics ==
    /\ Ready
    /\ \E s \in Skills, done \in SUBSET Skills :
          s \notin done /\ GivenUpTo(inner.st, done, s)
    /\ UNCHANGED <<inner, tx, loading, disabled, toggling, diskVars>>

------------------------------------------------------------------------------
(* activate_slot and deactivate_slot.                                      *)

\* The level is derived again from the experience, without granting points.
Derived(st) == [st EXCEPT !.level = IF @ < LevelFor[st.xp] THEN LevelFor[st.xp] ELSE @]

\* SlotStore::load: a missing or unparseable file is a fresh state.
Loaded(f) == Derived(IF f \in {None, Torn} THEN Fresh ELSE f)

ActivateLoad(p) ==
    /\ loading = None
    /\ loading' = [slot |-> p, st |-> Loaded(file[p]), todo |-> Skills]
    /\ unread' = unread \ {p}
    /\ stale' = {}
    /\ UNCHANGED <<inner, tx, disabled, toggling, world, file, unsynced>>

\* The file is there and cannot be read: that is taken for a missing one.
ActivateLoadFails(p) ==
    /\ loading = None
    /\ file[p] # None
    /\ loading' = [slot |-> p, st |-> Derived(Fresh), todo |-> Skills]
    /\ unread' = unread \cup {p}
    /\ stale' = {}
    /\ UNCHANGED <<inner, tx, disabled, toggling, world, file, unsynced>>

\* One skill of the catalog is applied; the lock is not held.
ActivateApply(s) ==
    /\ loading # None
    /\ s \in loading.todo
    /\ world' = [world EXCEPT ![s] = Effective(loading.st, s)]
    /\ loading' = [loading EXCEPT !.todo = @ \ {s}]
    /\ UNCHANGED <<inner, tx, disabled, toggling, stale, diskVars>>

ActivatePublish ==
    /\ loading # None
    /\ loading.todo = {}
    /\ tx = None
    /\ inner' = [slot |-> loading.slot, st |-> loading.st]
    /\ loading' = None
    /\ UNCHANGED <<tx, disabled, toggling, world, stale, diskVars>>

\* An effect panics on the way: no slot is published.
ActivatePanics ==
    /\ loading # None
    /\ \E s \in loading.todo : GivenUpTo(loading.st, {}, s)
    /\ loading' = None
    /\ UNCHANGED <<inner, tx, disabled, toggling, diskVars>>

DeactivateSlot ==
    /\ tx = None
    /\ inner' = None
    /\ UNCHANGED <<tx, loading, disabled, toggling, world, stale, diskVars>>

\* Power loss: memory and world are gone, unflushed file content is torn.
TrackerCrash ==
    /\ inner' = None
    /\ tx' = None
    /\ loading' = None
    /\ disabled' = {}
    /\ toggling' = {}
    /\ world' = [s \in Skills |-> 0]
    /\ stale' = {}
    /\ file' = [p \in Slots |-> IF p \in unsynced THEN Torn ELSE file[p]]
    /\ unsynced' = {}
    /\ unread' = {}

Save == SaveWrite \/ SaveSync \/ SaveRename \/ ApplyChanged
==============================================================================
