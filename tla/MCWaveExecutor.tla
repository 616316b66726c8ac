--------------------------- MODULE MCWaveExecutor ---------------------------
(* Plans of four tasks: a diamond, and two independent chains. *)
EXTENDS WaveExecutor

CONSTANTS a, b, c, d

Deps(f) == [t \in Task |-> IF t \in DOMAIN f THEN f[t] ELSE {}]

MCPlans ==
    { [waves |-> <<{a}, {b, c}, {d}>>,
       deps  |-> Deps([t \in {b, c, d} |-> IF t = d THEN {b, c} ELSE {a}])],
      [waves |-> <<{a, c}, {b, d}>>,
       deps  |-> Deps([t \in {b, d} |-> IF t = b THEN {a} ELSE {c}])] }
=============================================================================
