----------------------------- MODULE MCManager -----------------------------
(* Instances of EndpointManager: the messages To1 go to target t1, the     *)
(* others to t2.                                                           *)
EXTENDS EndpointManager, TLC

CONSTANTS t1, t2, To1

MCTarget == {t1, t2}
MCDest == [m \in Msg |-> IF m \in To1 THEN t1 ELSE t2]
=============================================================================
