-------------------------- MODULE RemoteWriteFence --------------------------
(***************************************************************************)
(* How the sender of remote writes learns that they are all done.  Writes  *)
(* carry the (sender, sequence id) of their transfer; after the last one   *)
(* the sender sends a fence with their number.  Messages are handled in    *)
(* any order, by several handler threads: the receiver keeps an entry per  *)
(* transfer that counts writes down from zero until the fence raises it by *)
(* num_writes, and acknowledges the fence when the count is zero.          *)
(***************************************************************************)
EXTENDS Integers

CONSTANT Transfer      \* (sender, sequence_id > 0), never reused

VARIABLES
  num_writes,          \* [x]: writes sent so far, summed over do_remote_* calls
  in_flight,           \* [x]: of these, not yet handled
  applied,             \* [x]: of these, data in place, not yet counted
  fence,               \* [x]: "open", "sent", "known", "acked" or "finished"
  partial_remote_writes \* [x]: NoEntry or the entry

fence_vars == <<num_writes, in_flight, applied, fence, partial_remote_writes>>

NoEntry == [fence |-> FALSE, remaining_count |-> 0]
Entry   == [fence : BOOLEAN, remaining_count : Int]

FenceInit ==
  /\ num_writes = [x \in Transfer |-> 0]
  /\ in_flight = [x \in Transfer |-> 0]
  /\ applied = [x \in Transfer |-> 0]
  /\ fence = [x \in Transfer |-> "open"]
  /\ partial_remote_writes = [x \in Transfer |-> NoEntry]
-----------------------------------------------------------------------------
(* A do_remote_* call that sends n messages and returns n.                 *)
SendWrites(x, n) ==
  /\ fence[x] = "open"
  /\ num_writes' = [num_writes EXCEPT ![x] = @ + n]
  /\ in_flight' = [in_flight EXCEPT ![x] = @ + n]
  /\ UNCHANGED <<applied, fence, partial_remote_writes>>

(* do_remote_fence: assert(num_writes > 0).                                *)
SendFence(x) ==
  /\ fence[x] = "open" /\ num_writes[x] > 0
  /\ fence' = [fence EXCEPT ![x] = "sent"]
  /\ UNCHANGED <<num_writes, in_flight, applied, partial_remote_writes>>

(* A write handler puts the data in place ...                              *)
ApplyWrite(x) ==
  /\ in_flight[x] > 0
  /\ in_flight' = [in_flight EXCEPT ![x] = @ - 1]
  /\ applied' = [applied EXCEPT ![x] = @ + 1]
  /\ UNCHANGED <<num_writes, fence, partial_remote_writes>>

(* A first write that starts the count at zero.                            *)
CountFromZero(x) ==
  LET e == partial_remote_writes[x]
  IN IF e = NoEntry THEN NoEntry ELSE [e EXCEPT !.remaining_count = @ - 1]

(* An old entry loses one, a new one starts at -1.                         *)
Counted(x) == [partial_remote_writes[x] EXCEPT !.remaining_count = @ - 1]

(* ... and counts it, under partial_remote_writes_lock; the write that     *)
(* brings the count to zero acknowledges the fence and erases the entry.   *)
TrackWrite(x) ==
  /\ applied[x] > 0
  /\ applied' = [applied EXCEPT ![x] = @ - 1]
  /\ partial_remote_writes' = [partial_remote_writes EXCEPT ![x] =
       IF Counted(x).remaining_count = 0 THEN NoEntry ELSE Counted(x)]
  /\ fence' = [fence EXCEPT ![x] = IF Counted(x).remaining_count = 0 THEN "acked" ELSE @]
  /\ UNCHANGED <<num_writes, in_flight>>

(* A fence that takes the place of the entry it finds.                     *)
FencedAnew(x) == [fence |-> TRUE, remaining_count |-> num_writes[x]]

(* The fence adds to the count it finds.                                   *)
Fenced(x) == [fence |-> TRUE,
              remaining_count |-> partial_remote_writes[x].remaining_count + num_writes[x]]

HandleFence(x) ==
  /\ fence[x] = "sent"
  /\ partial_remote_writes' = [partial_remote_writes EXCEPT ![x] =
       IF Fenced(x).remaining_count = 0 THEN NoEntry ELSE Fenced(x)]
  /\ fence' = [fence EXCEPT ![x] = IF Fenced(x).remaining_count = 0 THEN "acked" ELSE "known"]
  /\ UNCHANGED <<num_writes, in_flight, applied>>

(* RemoteWriteFenceAckMessage: the fence's operation is told.              *)
HandleFenceAck(x) ==
  /\ fence[x] = "acked"
  /\ fence' = [fence EXCEPT ![x] = "finished"]
  /\ UNCHANGED <<num_writes, in_flight, applied, partial_remote_writes>>
-----------------------------------------------------------------------------
FenceNext == \E x \in Transfer :
  \/ \E n \in Nat : SendWrites(x, n)
  \/ SendFence(x) \/ ApplyWrite(x) \/ TrackWrite(x) \/ HandleFence(x) \/ HandleFenceAck(x)

FenceSpec == FenceInit /\ [][FenceNext]_fence_vars
-----------------------------------------------------------------------------
FenceTypeOK ==
  /\ num_writes \in [Transfer -> Nat]
  /\ in_flight \in [Transfer -> Nat]
  /\ applied \in [Transfer -> Nat]
  /\ fence \in [Transfer -> {"open", "sent", "known", "acked", "finished"}]
  /\ partial_remote_writes \in [Transfer -> Entry]

Tracked(x) == num_writes[x] - in_flight[x] - applied[x]

(***************************************************************************)
(* The inductive invariant.  Before the fence is known the entry holds     *)
(* minus the number of writes counted; from then on what is left of        *)
(* num_writes, which is not zero; and there is no entry when there is      *)
(* nothing to remember.                                                    *)
(***************************************************************************)
EntryExact(x) ==
  /\ Tracked(x) >= 0
  /\ fence[x] \in {"open", "sent"} =>
       partial_remote_writes[x] = [fence |-> FALSE, remaining_count |-> 0 - Tracked(x)]
  /\ fence[x] = "sent" => num_writes[x] > 0
  /\ fence[x] = "known" =>
       /\ partial_remote_writes[x] = [fence |-> TRUE, remaining_count |-> num_writes[x] - Tracked(x)]
       /\ Tracked(x) < num_writes[x]
  /\ fence[x] \in {"acked", "finished"} =>
       /\ partial_remote_writes[x] = NoEntry
       /\ Tracked(x) = num_writes[x]

FenceInv == FenceTypeOK /\ \A x \in Transfer : EntryExact(x)

(***************************************************************************)
(* A fence is acknowledged only when no write of its transfer is still on  *)
(* its way or has yet to be counted, in whatever order the messages were   *)
(* handled, and the map then forgets the transfer for good.                *)
(***************************************************************************)
AckAfterWrites ==
  \A x \in Transfer : fence[x] \in {"acked", "finished"} =>
    in_flight[x] = 0 /\ applied[x] = 0 /\ partial_remote_writes[x] = NoEntry
=============================================================================
