------------------------------ MODULE MCWorkers ------------------------------
(* Workers for TLC: a slot poller and an interval worker.                  *)
EXTENDS Workers

CONSTANTS p1, i1
==============================================================================
