---------------------------- MODULE MCSrcDataPool ----------------------------
(***************************************************************************)
(* Six messages through two outgoing queues and a pool of four blocks of  *)
(* two bytes: one fills the pool, sizes are not all multiples of a block,  *)
(* two spill in the enqueuing thread, one in an exempt thread; two are in  *)
(* registered memory, of which one is contiguous and needs no span.        *)
(***************************************************************************)
EXTENDS SrcDataPool

CONSTANTS q1, q2, whole, half, odd, pair, tiny, reg

MCEndpoint == {q1, q2}
MCMsg == {whole, half, odd, pair, tiny, reg}
MCEpOf == [m \in MCMsg |-> IF m \in {whole, odd, pair} THEN q1 ELSE q2]
MCPayloadSize == [m \in MCMsg |->
  CASE m = whole -> 8 [] m = half -> 4 [] m = odd -> 3 [] m = pair -> 2 [] m = tiny -> 1 [] m = reg -> 5]
MCMode == [m \in MCMsg |->
  CASE m = whole -> "KEEP" [] m = half -> "COPY" [] m = odd -> "FREE" [] m = pair -> "KEEP"
    [] m = tiny -> "COPY" [] m = reg -> "KEEP"]
MCContiguous == MCMsg \ {half, pair}
MCRegistered == {pair, reg}
MCExempt == {half}

=============================================================================
