----------------------------- MODULE MCWavePlan -----------------------------
(* Every list of up to three tasks over three good names and a bad one, and every *)
(* batch of up to two dispatched behind one or two accepted tasks.                *)
EXTENDS WavePlan

CONSTANTS a, b, c, dot

Lists(N, D, n) == UNION {[1 .. i -> [name : N, deps : D]] : i \in 0 .. n}

MCInputs ==
    Lists({a, b, c}, SUBSET {a, b, c}, 3)
        \cup Lists({a, dot}, SUBSET {a, dot}, 2)
        \cup {Synthetic(acc, batch) : acc \in {<<a>>, <<a, b>>},
                                      batch \in Lists({a, b, c}, SUBSET {a, b, c}, 2)}
=============================================================================
