----------------------------- MODULE MCImageSwap -----------------------------
(* ImageSwap for TLC: a first deploy, three more, the game killed twice.   *)
EXTENDS ImageSwap
==============================================================================
