------------------------------- MODULE RpgSlots ------------------------------
(***************************************************************************)
(* The tracker of RpgTracker driven by its two clients: the slot poller    *)
(* (src/modforge/src/rpg/poller.rs), a thread that asks the game which     *)
(* save slot is loaded and binds the tracker to it, and the ops of players *)
(* and tools, which may come at any time.  The game changes slots as it    *)
(* likes; the host may crash and be started again.                         *)
(***************************************************************************)
EXTENDS RpgTracker

CONSTANTS
    MaxMoves,   \* bound: slot changes made by the game
    MaxCrashes  \* bound: crashes of the host

ASSUME SlotsAssumption == MaxMoves \in Nat /\ MaxCrashes \in Nat

VARIABLES
    game,       \* the slot loaded in the game, or None at its menu
    moves,      \* slot changes so far
    crashes,    \* crashes so far
    last,       \* run's `last`: the slot the poller acted upon
    cur,        \* run's `cur`: the slot it has just resolved
    at,         \* where run is: "asleep", "deactivate", "activate", "activating"
    missed      \* history: the activation for `last` panicked

pollerVars == <<last, cur, at, missed>>
envVars    == <<game, moves, crashes>>
vars       == <<rpgVars, pollerVars, envVars>>

Slot == Slots \cup {None}

SlotsTypeOK ==
    /\ TypeOK
    /\ game \in Slot /\ last \in Slot /\ cur \in Slot
    /\ moves \in 0..MaxMoves
    /\ crashes \in 0..MaxCrashes
    /\ at \in {"asleep", "deactivate", "activate", "activating"}
    /\ missed \in BOOLEAN

Init ==
    /\ TrackerInit
    /\ game = None /\ moves = 0 /\ crashes = 0
    /\ last = None /\ cur = None /\ at = "asleep" /\ missed = FALSE

------------------------------------------------------------------------------
(* The poller's loop.                                                      *)

\* `last` becomes `cur` and the poller sleeps for its interval.
Settle(p) == last' = p /\ at' = "asleep"

\* The slot is resolved and compared with the last one.
Resolved(p) ==
    /\ at = "asleep"
    /\ cur' = p
    /\ last' = last
    /\ at' = IF p = last THEN "asleep" ELSE IF last = None THEN "activate" ELSE "deactivate"
    /\ UNCHANGED <<rpgVars, envVars, missed>>

Resolve == Resolved(game)

\* A resolver that panics counts as one that sees no slot.
ResolvePanics == Resolved(None)

\* Mutant of Deactivate: a change of slots is over once the old one is unbound.
DeactivateOnly ==
    /\ at = "deactivate"
    /\ DeactivateSlot
    /\ Settle(cur)
    /\ missed' = FALSE
    /\ UNCHANGED <<cur, envVars>>

Deactivate ==
    /\ at = "deactivate"
    /\ DeactivateSlot
    /\ IF cur = None THEN Settle(None) ELSE at' = "activate" /\ last' = last
    /\ missed' = FALSE
    /\ UNCHANGED <<cur, envVars>>

Activate ==
    /\ at = "activate"
    /\ ActivateLoad(cur) \/ ActivateLoadFails(cur)
    /\ at' = "activating"
    /\ UNCHANGED <<last, cur, missed, envVars>>

ActivateSkill ==
    /\ at = "activating"
    /\ \E s \in Skills : ActivateApply(s)
    /\ UNCHANGED <<pollerVars, envVars>>

Activated ==
    /\ at = "activating"
    /\ ActivatePublish
    /\ Settle(cur)
    /\ UNCHANGED <<cur, missed, envVars>>

\* fire() catches the panic; `last` is set all the same.
ActivationPanics ==
    /\ at = "activating"
    /\ ActivatePanics
    /\ Settle(cur)
    /\ missed' = TRUE
    /\ UNCHANGED <<cur, envVars>>

Poller == Resolve \/ Deactivate \/ Activate \/ ActivateSkill \/ Activated

------------------------------------------------------------------------------
(* Ops, the game and the host.                                             *)

Op ==
    /\ \/ \E s \in Skills, n \in Counts : SpendSkillPoints(s, n) \/ RefundSkillPoints(s, n)
       \/ \E n \in Counts : RecordXp(n) \/ DebugGrantSkillPoints(n)
       \/ \E s \in Skills : ToggleSet(s)
       \/ ReapplyAll
    /\ UNCHANGED <<pollerVars, envVars>>

Saving == Save /\ UNCHANGED <<pollerVars, envVars>>

SavingFails == SaveFails /\ UNCHANGED <<pollerVars, envVars>>

Reapplying ==
    /\ \E s \in Skills : ToggleReapply(s)
    /\ UNCHANGED <<pollerVars, envVars>>

\* The op dispatch catches the panic (ops.rs).
EffectPanics ==
    /\ \/ ApplyChangedPanics
       \/ \E s \in Skills : ToggleReapplyPanics(s)
       \/ ReapplyAllPanics
    /\ UNCHANGED <<pollerVars, envVars>>

GameMoves(p) ==
    /\ moves < MaxMoves
    /\ p # game
    /\ game' = p
    /\ moves' = moves + 1
    /\ UNCHANGED <<rpgVars, pollerVars, crashes>>

Crash ==
    /\ crashes < MaxCrashes
    /\ TrackerCrash
    /\ game' = None
    /\ last' = None /\ cur' = None /\ at' = "asleep" /\ missed' = FALSE
    /\ crashes' = crashes + 1
    /\ UNCHANGED moves

Next ==
    \/ Poller \/ ResolvePanics \/ ActivationPanics
    \/ Op \/ Saving \/ SavingFails \/ Reapplying \/ EffectPanics
    \/ \E p \in Slot : GameMoves(p)
    \/ Crash

Spec == Init /\ [][Next]_vars

\* The poller thread runs; what holds or waits for the tracker's lock gets on
\* (parking_lot hands the lock to a waiter in the end); resolvers do not panic
\* for ever, which keeps Resolve from being overtaken each time.
Fairness ==
    /\ WF_vars(Saving)
    /\ WF_vars(Reapplying)
    /\ SF_vars(Resolve)
    /\ SF_vars(Deactivate)
    /\ WF_vars(Activate)
    /\ WF_vars(ActivateSkill)
    /\ WF_vars(Activated)

FairSpec == Spec /\ Fairness

------------------------------------------------------------------------------
(* Properties.                                                             *)

\* Every type is kept: no count goes below zero or above its maximum.
TypeInvariant == SlotsTypeOK

\* The points spent on skills, one for each level of a skill.
Spent(levels) == {b \in Skills \X (1..MaxLevel) : b[2] <= levels[b[1]]}

\* Points are neither lost nor made: what a slot's state holds, unspent or
\* spent on skills, is one point per level above the one that a fresh state
\* starts on plus the debug grants, in memory, during a save and its roll-back,
\* and on disk.
Balanced(st) ==
    st.points + Cardinality(Spent(st.levels)) + LevelFor[0] = st.level + st.granted

PointsConserved ==
    /\ inner # None => Balanced(inner.st)
    /\ loading # None => Balanced(loading.st)
    /\ \A p \in Slots : file[p] \notin {None, Torn} => Balanced(file[p])

\* What the player sees is what a restart would bring back: between changes,
\* the bound state is the one loading its file again would give.  A slot whose
\* file could not be read is the exception until its next save.
MemoryIsDurable ==
    tx = None /\ inner # None /\ inner.slot \notin unread
        => inner.st = Loaded(file[inner.slot])

\* Between changes, the live world has the level of every skill that the
\* tracker has, the disabled ones taken as 0.  Exceptions, each until the skill
\* is applied again: a toggle under way, one that came while a slot was loading
\* and so found none to re-apply, and a skill whose effect panicked after the
\* change had been saved.
WorldMatches ==
    tx = None /\ inner # None /\ loading = None
        => \A s \in Skills \ (toggling \cup stale) : world[s] = Effective(inner.st, s)

\* A save file is never torn, and no step takes experience out of it: not a
\* failed save, nor a crash, nor another slot's session.  A slot bound to a
\* fresh state because its file could not be read is the exception.
ProgressKept ==
    [][\A p \in Slots :
         /\ file'[p] # Torn
         /\ file[p] # None /\ p \notin unread
              => file'[p] # None /\ file'[p].xp >= file[p].xp]_vars

\* The progress the bound slot stands at: until a change is renamed into place,
\* that from before it.
Shown == IF tx # None /\ tx.at # "apply" THEN tx.prev ELSE inner.st

Promised == INSTANCE Ledger WITH
    saved <- file,
    bound <- IF inner = None THEN None ELSE inner.slot,
    shown <- IF inner = None THEN None ELSE Shown

\* Whatever fails or races, each operation happens to memory and disk together
\* or not at all, a load gives back what was saved, and nothing but an
\* operation changes a slot's progress (tracker.rs, store.rs).
ImplementsLedger == Promised!Spec

\* Once the game stays in a slot, the tracker is bound to it, unless the
\* activation panicked; once it stays at its menu, the tracker is unbound.
SlotFollowsGame ==
    /\ \A p \in Slots : <>[](game = p) => []<>(missed \/ (inner # None /\ inner.slot = p))
    /\ <>[](game = None) => []<>(inner = None)

\* store.rs:69-72: a load starts fresh "if the file is missing or unparseable",
\* so a save file that is there and parses keeps what was earned.  The code
\* starts fresh on every read error, and the next save replaces the file.
EarnedIsKept ==
    [][\A p \in Slots :
         file[p] \notin {None, Torn} => file'[p].xp >= file[p].xp]_vars
==============================================================================
