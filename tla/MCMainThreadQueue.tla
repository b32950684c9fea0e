-------------------------- MODULE MCMainThreadQueue --------------------------
(* MainThreadQueue for TLC: a request, an effect of a worker and one of    *)
(* the main thread, and frames that take one job less than can be queued.  *)
EXTENDS MainThreadQueue

CONSTANTS request, level, own
==============================================================================
