--------------------------- MODULE MCCoordinator ---------------------------
(* Small instances of Coordinator for TLC. *)
EXTENDS Coordinator

CONSTANTS a, b, x, k

\* The run starts with a alone and b and x are dispatched, or with b after a.
MCPlans == { [names |-> {a}, deps |-> [t \in Task |-> {}]],
             [names |-> {a, b}, deps |-> [t \in Task |-> IF t = b THEN {a} ELSE {}]] }
=============================================================================
