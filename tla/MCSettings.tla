------------------------------ MODULE MCSettings -----------------------------
(* Settings for TLC: a thread that updates twice.                          *)
EXTENDS Settings

CONSTANT u1
==============================================================================
