-------------------------------- MODULE MCMPI --------------------------------
(* Two nodes, two posted receives, sequence numbers modulo two: two threads   *)
(* of one node send, one of them more messages than there are receives; the   *)
(* other node replies.                                                        *)
EXTENDS ActiveMessagesMPI

CONSTANTS a, b, t1, t2

MCNodes == {a, b}
MCThreads == {t1, t2}
MCHomeOf == [t \in MCThreads |-> a]
MCMaxSends == [t \in MCThreads |-> IF t = t1 THEN 3 ELSE 1]
MCKindsOf == [t \in MCThreads |-> IF t = t1 THEN {"medium"}
                                  ELSE {"medium", "request", "long"}]

=============================================================================
