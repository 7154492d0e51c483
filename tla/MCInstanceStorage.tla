------------------------- MODULE MCInstanceStorage --------------------------
(* Five threads on the owner and one elsewhere; tables that grow twice, two  *)
(* slots at a time, to a limit of four; room for two instances.              *)
EXTENDS InstanceStorage, TLC

CONSTANTS o, r, o1, o2, o3, o4, o5, r1

MCNodes == {o, r}
MCThreads == {o1, o2, o3, o4, o5, r1}
MCNodeOf == [t \in MCThreads |-> IF t = r1 THEN r ELSE o]

\* The threads of the owner are alike.
OwnerThreads == Permutations(MCThreads \ {r1})

=============================================================================
