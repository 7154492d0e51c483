----------------------------- MODULE MCEndpoint -----------------------------
(***************************************************************************)
(* Two endpoints facing each other.  With 256-byte buffers two small       *)
(* messages (100 bytes) share a buffer and a large one (200 bytes) fits    *)
(* behind neither; an empty one has no payload.                            *)
(***************************************************************************)
EXTENDS ActiveMessageEndpoint

CONSTANTS epA, epB,                       \* the endpoints
          FromA, Small, Large            \* subsets of Msg

MCPeer == [e \in {epA, epB} |-> IF e = epA THEN epB ELSE epA]
MCEpOf == [m \in Msg |-> IF m \in FromA THEN epA ELSE epB]
MCPayloadSize ==
  [m \in Msg |-> IF m \in Small THEN 100 ELSE IF m \in Large THEN 200 ELSE 0]
=============================================================================
