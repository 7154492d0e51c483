--------------------------- MODULE MCObjectTables ---------------------------
(***************************************************************************)
(* Two nodes with two threads each, and leaves of two entries, of which    *)
(* the first has one to give: three IDs need a second leaf.  Node 0 owns   *)
(* the sparsity maps; node 1's are the ones whose creator has to be fixed. *)
(***************************************************************************)
EXTENDS ObjectTables, TLC

CONSTANTS t1, t2, u1, u2

MCThread == {t1, t2, u1, u2}
MCHomeOf == [t \in MCThread |-> IF t \in {t1, t2} THEN 0 ELSE 1]

(* The threads of a node are alike.                                        *)
MCSymmetry == Permutations({t1, t2}) \cup Permutations({u1, u2})
=============================================================================
