------------------------------ MODULE MCRpgSlots -----------------------------
(* RpgSlots for TLC: one or two slots, one skill, and a curve that gives a   *)
(* level per point of experience.                                           *)
EXTENDS RpgSlots

CONSTANTS p1, p2, s1

TwoSlots == {p1, p2}
OneSlot  == {p1}
OneSkill == {s1}
Curve    == [x \in 0..MaxXp |-> x + 1]
==============================================================================
