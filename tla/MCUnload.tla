------------------------------- MODULE MCUnload ------------------------------
(* Unload for TLC: one request and two attempts to install a hook.         *)
EXTENDS Unload

CONSTANTS r1, i1, i2
==============================================================================
