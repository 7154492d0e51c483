--------------------------- MODULE MCLongMessage ---------------------------
(* Instances of LongMessage.  Even is cut into two full chunks, Odd into   *)
(* three chunks of which the last is short, any other message is one chunk.*)
EXTENDS LongMessage

CONSTANTS Even, Odd

MCPayloadSize == [m \in Msg |-> CASE m \in Even -> 4 [] m \in Odd -> 5 [] OTHER -> 2]

(* Addresses far enough apart; any injective choice will do.               *)
MCDestPtr == CHOOSE f \in [Msg -> {10 * i : i \in 1 .. Cardinality(Msg)}] :
               \A m, n \in Msg : m # n => f[m] # f[n]
=============================================================================
