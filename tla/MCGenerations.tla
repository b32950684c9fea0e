---------------------------- MODULE MCGenerations ----------------------------
(* Generations for TLC: the initial image and three more, each of which may *)
(* be bad, and as many calls of init as it takes to re-arm an image twice.  *)
EXTENDS Generations
==============================================================================
