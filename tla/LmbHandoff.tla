----------------------------- MODULE LmbHandoff -----------------------------
(***************************************************************************)
(* What the LMB flow control promises: a buffer belongs to its writer or   *)
(* to its reader.  Only the writer puts messages in, messages leave in any *)
(* order, and the buffer goes back to the writer only when it is empty.    *)
(***************************************************************************)
CONSTANTS Buffer, Msg

VARIABLES owner, unread

vars == <<owner, unread>>

Init ==
  /\ owner  = [c \in Buffer |-> "writer"]
  /\ unread = [c \in Buffer |-> {}]

Write(c, m) ==
  /\ owner[c] = "writer"
  /\ m \notin unread[c]
  /\ unread' = [unread EXCEPT ![c] = @ \cup {m}]
  /\ UNCHANGED owner

Read(c, m) ==
  /\ m \in unread[c]
  /\ unread' = [unread EXCEPT ![c] = @ \ {m}]
  /\ UNCHANGED owner

HandOver(c) ==
  /\ owner[c] = "writer"
  /\ owner' = [owner EXCEPT ![c] = "reader"]
  /\ UNCHANGED unread

Return(c) ==
  /\ owner[c] = "reader"
  /\ unread[c] = {}
  /\ owner' = [owner EXCEPT ![c] = "writer"]
  /\ UNCHANGED unread

Next ==
  \E c \in Buffer : \/ HandOver(c) \/ Return(c)
                    \/ \E m \in Msg : Write(c, m) \/ Read(c, m)

Spec == Init /\ [][Next]_vars
=============================================================================
