------------------------------ MODULE MCPeQueue ------------------------------
(***************************************************************************)
(* PeQueue for TLC: three calls against a queue of depth two, so that one  *)
(* call can be refused, a batch can hold two jobs while a third call is    *)
(* pushed behind it, and drains can be nested one deep.                    *)
(***************************************************************************)
EXTENDS PeQueue
==============================================================================
