----------------------------- MODULE MCRunFiles -----------------------------
(* Three facts, three messages, a task that is resumed and run again. *)
EXTENDS RunFiles
CONSTANTS i1, i2, i3, i4, i5

\* The second key's line is as long as two of the first's.
MCLineSize == [k \in Key |-> k]
=============================================================================
