--------------------------- MODULE MCRunRegistry ---------------------------
(* Two calls of start_run for one directory, runs of two tasks. *)
EXTENDS RunRegistry
CONSTANTS r1, r2, a, b
=============================================================================
