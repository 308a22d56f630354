--------------------------- MODULE MC_CheckQueue ---------------------------
(* Two worker threads and the master, model values for the threads.       *)
EXTENDS CheckQueue

CONSTANTS w1, w2, m

MC_Workers == {w1, w2}
=============================================================================
