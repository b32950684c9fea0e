------------------------------- MODULE MCPeHook ------------------------------
(***************************************************************************)
(* PeHook for TLC: two hooks that share a vtable, as two widget classes do, *)
(* and one engine thread whose events nest two deep, so that a handler's    *)
(* own call can re-enter its hook, or, when that was dropped, the other.    *)
(***************************************************************************)
EXTENDS PeHook

CONSTANTS h1, h2, va

Shared == [h \in {h1, h2} |-> va]
==============================================================================
