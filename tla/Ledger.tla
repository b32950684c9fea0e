------------------------------- MODULE Ledger --------------------------------
(***************************************************************************)
(* What a player is promised of the progress in each save slot, whatever   *)
(* files, locks and failing writes are behind it.                          *)
(*                                                                         *)
(* A slot has the progress that was last saved in it.  While a slot is     *)
(* bound the player is shown a progress, and a change shows and saves the  *)
(* next one in a single step: there is no change that is seen and not      *)
(* saved, or saved half, or saved for another slot.  A change is one of    *)
(* three: points move between the unspent ones and a skill, experience     *)
(* brings the points of the levels it reaches, points are granted.  A slot *)
(* may be left at any time, by its owner or by a power loss, and nothing   *)
(* is lost by that.                                                        *)
(***************************************************************************)
EXTENDS Integers

CONSTANTS
    Slots, Skills,
    MaxLevel,   \* the highest level of a skill
    LevelFor,   \* the level that an amount of experience gives
    None

VARIABLES
    saved,      \* [Slots -> the progress saved in the slot, or None]
    bound,      \* the slot that is played, or None
    shown       \* the progress the player sees there, or None

\* A slot without progress starts on the curve's first level.
Start ==
    [xp |-> 0, level |-> LevelFor[0], points |-> 0,
     levels |-> [s \in Skills |-> 0], granted |-> 0]

Init ==
    /\ saved = [p \in Slots |-> None]
    /\ bound = None
    /\ shown = None

\* Points are spent on a skill, or taken back from it.
PointsMoved(old, new) ==
    \E s \in Skills :
        /\ new = [old EXCEPT !.points = new.points, !.levels[s] = new.levels[s]]
        /\ new.points + new.levels[s] = old.points + old.levels[s]
        /\ new.points >= 0 /\ new.levels[s] \in 0..MaxLevel

\* Experience is gained; each level it brings is worth a point.
Advanced(old, new) ==
    LET now  == LevelFor[new.xp]
        more == IF now > old.level THEN now - old.level ELSE 0
    IN  /\ new = [old EXCEPT !.xp = new.xp, !.level = @ + more, !.points = @ + more]
        /\ new.xp >= old.xp

PointsGranted(old, new) ==
    /\ new = [old EXCEPT !.points = new.points, !.granted = new.granted]
    /\ new.granted >= old.granted
    /\ new.points - old.points = new.granted - old.granted

Follows(old, new) ==
    PointsMoved(old, new) \/ Advanced(old, new) \/ PointsGranted(old, new)

Change ==
    /\ bound # None
    /\ UNCHANGED bound
    /\ Follows(shown, shown')
    /\ saved' = [saved EXCEPT ![bound] = shown']

\* A slot is bound to what was saved in it ...
Bind(p) ==
    /\ bound = None
    /\ bound' = p
    /\ shown' = IF saved[p] = None THEN Start ELSE saved[p]
    /\ UNCHANGED saved

\* ... unless that cannot be read: then the player starts anew, and the first
\* change replaces what was there.
BindUnread(p) ==
    /\ bound = None
    /\ saved[p] # None
    /\ bound' = p
    /\ shown' = Start
    /\ UNCHANGED saved

Leave ==
    /\ bound # None
    /\ bound' = None
    /\ shown' = None
    /\ UNCHANGED saved

Next == Change \/ Leave \/ \E p \in Slots : Bind(p) \/ BindUnread(p)

Spec == Init /\ [][Next]_<<saved, bound, shown>>
==============================================================================
