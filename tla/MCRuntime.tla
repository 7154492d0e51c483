------------------------------ MODULE MCRuntime ------------------------------
(* Three nodes: one with one processor, one with two, one with none; tasks    *)
(* of two nodes ask for the shutdown, with different codes.                   *)
EXTENDS RuntimeLifecycle

CONSTANTS p1, q1, q2

MCNodes == 0..2
MCProcs == [n \in 0..2 |-> CASE n = 0 -> <<p1>> [] n = 1 -> <<q1, q2>> [] n = 2 -> <<>>]
MCCodeOf == [n \in {0, 1} |-> n + 1]

=============================================================================
