--------------------------- MODULE MCReceivePath ---------------------------
(***************************************************************************)
(* Node 0 sends three messages in chunks of two bytes: one of two full     *)
(* chunks, one of three of which the last is short, one of a single chunk. *)
(* Node 1 sends a message without payload.  Two handler threads.           *)
(***************************************************************************)
EXTENDS ReceivePath

CONSTANTS even, odd, single, short, h1, h2, s1

MCThreads == {h1, h2}
MCSendThread == {s1}
MCLongMsg == {even, odd, single}
MCMsg == MCLongMsg \cup {short}
MCSenderOf == [m \in MCMsg |-> IF m = short THEN 1 ELSE 0]
MCDestPtr == [m \in MCLongMsg |-> CASE m = even -> 10 [] m = odd -> 20 [] OTHER -> 30]
MCPayloadSize == [m \in MCLongMsg |-> CASE m = even -> 4 [] m = odd -> 5 [] OTHER -> 2]
MCInPool == {even, odd}
=============================================================================
