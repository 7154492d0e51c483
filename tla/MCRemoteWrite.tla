---------------------------- MODULE MCRemoteWrite ----------------------------
(* A transfer of one call, any one, beside another of two calls.           *)
EXTENDS RemoteWrite

CONSTANTS x1, x2

SmallSeqs(S) == UNION {[1 .. n -> S] : n \in 1 .. 3}

AnyCall ==
  [kind : {"rdma", "write"}, offset : {4}, len : {1, 4, 7}]
  \cup [kind : {"lines"}, offset : {4}, len : {1, 3, 4}, lines : 1 .. 3]
  \cup [kind : {"spans"}, offset : {4}, sizes : SmallSeqs({1, 2, 3, 6})]
  \cup [kind : {"serdez"}, offset : {4}, sizes : SmallSeqs({1, 2, 4}), step : {2}]
  \cup [kind : {"reduce"}, offset : {4}, len : {1, 2, 3}, count : {1, 4}, step : {1, 3}]

TwoCalls == <<[kind |-> "write", offset |-> 0, len |-> 2], [kind |-> "rdma", offset |-> 9, len |-> 7]>>

MCTransfer == {x1, x2}
MCPlan == [x \in MCTransfer |-> IF x = x1 THEN {<<c>> : c \in AnyCall} ELSE {TwoCalls}]
=============================================================================
