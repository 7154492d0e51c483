----------------------- MODULE ActiveMessageEndpoint -----------------------
(***************************************************************************)
(* The GASNet endpoint: one object per (node, peer) pair, holding the      *)
(* outgoing queues towards the peer and the flow control of the long       *)
(* message buffers (LMBs).  An endpoint writes payloads into NumLmbs       *)
(* buffers that live in its peer's memory.  A full buffer is "flipped":    *)
(* the writer stops using it and sends FLIP_REQ with the number of         *)
(* messages it put there; the reader acknowledges with FLIP_ACK once that  *)
(* many have been handled, in whatever order request and messages arrive.  *)
(*                                                                         *)
(* The network (GASNet) delivers every message once, in any order.  A      *)
(* message is "unread" until its handler has run and handle_long_msgptr    *)
(* has counted it: up to there its bytes sit in the LMB.                   *)
(*                                                                         *)
(* Mutexes make each iteration of push_messages, and each handler, one     *)
(* atomic step; the send that follows the unlock commutes with every other *)
(* step because the network may delay it anyway.                           *)
(***************************************************************************)
EXTENDS Integers, Sequences, FiniteSets

CONSTANTS
  EP,           \* the endpoints
  Peer,         \* Peer[e]: the endpoint at the other side of e
  NumLmbs,      \* num_lmbs: buffers per direction
  LmbSize,      \* lmb_size: bytes per buffer
  Msg,          \* message objects; one is reused once it has been handled
  EpOf,         \* EpOf[m]: the endpoint m is sent through
  PayloadSize,  \* PayloadSize[m]: hdr->payload_size
  HasDstPtr     \* messages whose destination pointer is known (dstptr # 0)

Buffers == 0 .. NumLmbs - 1

ASSUME EndpointAssumption ==
  /\ Peer \in [EP -> EP]
  /\ \A e \in EP : Peer[Peer[e]] = e
  /\ NumLmbs \in Nat \ {0}
  /\ LmbSize \in Nat
  /\ EpOf \in [Msg -> EP]
  /\ PayloadSize \in [Msg -> Nat]
  /\ HasDstPtr \subseteq Msg
  \* the assertion of push_messages on a message that goes through an LMB
  /\ \A m \in Msg \ HasDstPtr : PayloadSize[m] <= LmbSize

ASSUME FiniteMsg == IsFiniteSet(Msg)

VARIABLES
  out_short_hdrs,    \* [e][b]: FLIP_ACKs for buffer b queued at e
  out_long_hdrs,     \* [e]: the queue of everything else
  payload_pending,   \* messages in mode PAYLOAD_PENDING
  cur_write_lmb, cur_write_offset, cur_write_count,
  lmb_w_avail,       \* [e][b]: e may write into its peer's buffer b
  lmb_r_counts,      \* [e][b]: messages of the peer handled in b, less the
                     \* counts of the flip requests received
  place,             \* where a message is: Idle, Queued, Direct or a buffer
  dest_ptr,          \* offset in its buffer of a message sent through an LMB
  flip_reqs,         \* [e][b]: counts of the FLIP_REQs from e in the network
  flip_acks          \* [e][b]: number of FLIP_ACKs from e in the network

writer  == <<cur_write_lmb, cur_write_offset, cur_write_count, lmb_w_avail>>
queues  == <<out_short_hdrs, out_long_hdrs, payload_pending>>
network == <<place, dest_ptr, flip_reqs, flip_acks>>
vars    == <<queues, writer, lmb_r_counts, network>>

Idle   == -3
Queued == -2
Direct == -1   \* sent without an LMB: short, or to a known pointer

(* What a mask without the carry would do. *)
AlignDown(x) == (x \div 128) * 128

(* "keep write offset aligned to 128B" *)
AlignUp(x) == IF x % 128 = 0 THEN x ELSE ((x \div 128) + 1) * 128

(* The messages that occupy buffer b of e's peer. *)
Unread(e, b) == {m \in Msg : EpOf[m] = e /\ place[m] = b}

Init ==
  /\ out_short_hdrs   = [e \in EP |-> [b \in Buffers |-> 0]]
  /\ out_long_hdrs    = [e \in EP |-> <<>>]
  /\ payload_pending  = {}
  /\ cur_write_lmb    = [e \in EP |-> 0]
  /\ cur_write_offset = [e \in EP |-> 0]
  /\ cur_write_count  = [e \in EP |-> 0]
  /\ lmb_w_avail      = [e \in EP |-> [b \in Buffers |-> TRUE]]
  /\ lmb_r_counts     = [e \in EP |-> [b \in Buffers |-> 0]]
  /\ place            = [m \in Msg |-> Idle]
  /\ dest_ptr         = [m \in Msg |-> 0]
  /\ flip_reqs        = [e \in EP |-> [b \in Buffers |-> <<>>]]
  /\ flip_acks        = [e \in EP |-> [b \in Buffers |-> 0]]
-----------------------------------------------------------------------------
(* A queue that serves the newest message first.                           *)
EnqueueAtFront(m, pending) ==
  /\ place[m] = Idle
  /\ pending => PayloadSize[m] > 0
  /\ out_long_hdrs' = [out_long_hdrs EXCEPT ![EpOf[m]] = <<m>> \o @]
  /\ payload_pending' = IF pending THEN payload_pending \cup {m} ELSE payload_pending
  /\ place' = [place EXCEPT ![m] = Queued]
  /\ UNCHANGED <<out_short_hdrs, writer, lmb_r_counts, dest_ptr, flip_reqs, flip_acks>>

(* enqueue_message, as every caller uses it (in_order): the message goes   *)
(* to the long queue; reserve_srcdata may leave a payload pending.         *)
EnqueueMessage(m, pending) ==
  /\ place[m] = Idle
  /\ pending => PayloadSize[m] > 0
  /\ out_long_hdrs' = [out_long_hdrs EXCEPT ![EpOf[m]] = Append(@, m)]
  /\ payload_pending' = IF pending THEN payload_pending \cup {m} ELSE payload_pending
  /\ place' = [place EXCEPT ![m] = Queued]
  /\ UNCHANGED <<out_short_hdrs, writer, lmb_r_counts, dest_ptr, flip_reqs, flip_acks>>

(* assign_srcdata_pointer: the source data pool found room for m.          *)
AssignSrcdata(m) ==
  /\ m \in payload_pending
  /\ payload_pending' = payload_pending \ {m}
  /\ UNCHANGED <<out_short_hdrs, out_long_hdrs, writer, lmb_r_counts, network>>

(* send_short, of a FLIP_ACK: a gasnet_AMRequest chosen by the number of   *)
(* arguments puts it on the network.                                       *)
SendShort(e, b) == flip_acks' = [flip_acks EXCEPT ![e][b] = @ + 1]

(* push_messages: a short message (here always a FLIP_ACK) goes first.     *)
PushShort(e, b) ==
  /\ out_short_hdrs[e][b] > 0
  /\ out_short_hdrs' = [out_short_hdrs EXCEPT ![e][b] = @ - 1]
  /\ SendShort(e, b)
  /\ UNCHANGED <<out_long_hdrs, payload_pending, writer, lmb_r_counts,
                 place, dest_ptr, flip_reqs>>

(* The long queue is looked at only when no short message is waiting.      *)
LongAtHead(e, m) ==
  /\ \A b \in Buffers : out_short_hdrs[e][b] = 0
  /\ out_long_hdrs[e] # <<>>
  /\ m = Head(out_long_hdrs[e])

NeedsLmb(m) == PayloadSize[m] > 0 /\ m \notin HasDstPtr

(* No payload, or a known destination pointer: sent without an LMB.        *)
PushDirect(e) ==
  \E m \in Msg :
    /\ LongAtHead(e, m)
    /\ m \notin payload_pending
    /\ ~NeedsLmb(m)
    /\ out_long_hdrs' = [out_long_hdrs EXCEPT ![e] = Tail(@)]
    /\ place' = [place EXCEPT ![m] = Direct]
    /\ UNCHANGED <<out_short_hdrs, payload_pending, writer, lmb_r_counts,
                   dest_ptr, flip_reqs, flip_acks>>

(* The head of the queue needs the LMB, and the LMB is available.          *)
LmbCandidate(e, m) ==
  /\ LongAtHead(e, m)
  /\ m \notin payload_pending
  /\ NeedsLmb(m)
  /\ lmb_w_avail[e][cur_write_lmb[e]]

Fits(e, m) == cur_write_offset[e] + PayloadSize[m] <= LmbSize

PushLmb(e) ==
  \E m \in Msg :
    /\ LmbCandidate(e, m)
    /\ Fits(e, m)
    /\ place' = [place EXCEPT ![m] = cur_write_lmb[e]]
    /\ dest_ptr' = [dest_ptr EXCEPT ![m] = cur_write_offset[e]]
    /\ cur_write_offset' = [cur_write_offset EXCEPT ![e] = AlignUp(@ + PayloadSize[m])]
    /\ cur_write_count' = [cur_write_count EXCEPT ![e] = @ + 1]
    /\ out_long_hdrs' = [out_long_hdrs EXCEPT ![e] = Tail(@)]
    /\ UNCHANGED <<out_short_hdrs, payload_pending, cur_write_lmb, lmb_w_avail,
                   lmb_r_counts, flip_reqs, flip_acks>>

(* A flip that forgets to restart the message count.                       *)
FlipLmbKeepingCount(e) ==
  /\ \E m \in Msg : LmbCandidate(e, m) /\ ~Fits(e, m)
  /\ LET b == cur_write_lmb[e]
     IN /\ flip_reqs' = [flip_reqs EXCEPT ![e][b] = Append(@, cur_write_count[e])]
        /\ lmb_w_avail' = [lmb_w_avail EXCEPT ![e][b] = FALSE]
        /\ cur_write_lmb' = [cur_write_lmb EXCEPT ![e] = (b + 1) % NumLmbs]
  /\ cur_write_offset' = [cur_write_offset EXCEPT ![e] = 0]
  /\ UNCHANGED <<queues, cur_write_count, lmb_r_counts, place, dest_ptr, flip_acks>>

(* No room: flip the buffer that is now full.                              *)
FlipLmb(e) ==
  /\ \E m \in Msg : LmbCandidate(e, m) /\ ~Fits(e, m)
  /\ LET b == cur_write_lmb[e]
     IN /\ flip_reqs' = [flip_reqs EXCEPT ![e][b] = Append(@, cur_write_count[e])]
        /\ lmb_w_avail' = [lmb_w_avail EXCEPT ![e][b] = FALSE]
        /\ cur_write_lmb' = [cur_write_lmb EXCEPT ![e] = (b + 1) % NumLmbs]
  /\ cur_write_offset' = [cur_write_offset EXCEPT ![e] = 0]
  /\ cur_write_count' = [cur_write_count EXCEPT ![e] = 0]
  /\ UNCHANGED <<queues, lmb_r_counts, place, dest_ptr, flip_acks>>
-----------------------------------------------------------------------------
(* Acknowledging as soon as the request has arrived.                       *)
AdjustAckingEarly(f, b, x) ==
  /\ lmb_r_counts' = [lmb_r_counts EXCEPT ![f][b] = @ + x]
  /\ out_short_hdrs' = IF lmb_r_counts[f][b] + x <= 0
                         THEN [out_short_hdrs EXCEPT ![f][b] = @ + 1]
                         ELSE out_short_hdrs

(* The reader f counts x in buffer b, and queues a FLIP_ACK at zero.       *)
AdjustReadCount(f, b, x) ==
  /\ lmb_r_counts' = [lmb_r_counts EXCEPT ![f][b] = @ + x]
  /\ out_short_hdrs' = IF lmb_r_counts[f][b] + x = 0
                         THEN [out_short_hdrs EXCEPT ![f][b] = @ + 1]
                         ELSE out_short_hdrs

(* run_handler, then handle_long_msgptr, of a message in buffer b.         *)
HandleLongMsgptr(m, b) ==
  /\ place[m] = b
  /\ AdjustReadCount(Peer[EpOf[m]], b, 1)
  /\ place' = [place EXCEPT ![m] = Idle]
  /\ dest_ptr' = [dest_ptr EXCEPT ![m] = 0]
  /\ UNCHANGED <<out_long_hdrs, payload_pending, writer, flip_reqs, flip_acks>>

(* The pointer is in no LMB ("probably a medium message?"): no counting.   *)
HandleDirect(m) ==
  /\ place[m] = Direct
  /\ place' = [place EXCEPT ![m] = Idle]
  /\ UNCHANGED <<queues, writer, lmb_r_counts, dest_ptr, flip_reqs, flip_acks>>

HandleFlipRequest(e, b) ==
  /\ flip_reqs[e][b] # <<>>
  /\ AdjustReadCount(Peer[e], b, -Head(flip_reqs[e][b]))
  /\ flip_reqs' = [flip_reqs EXCEPT ![e][b] = Tail(@)]
  /\ UNCHANGED <<out_long_hdrs, payload_pending, writer, place, dest_ptr, flip_acks>>

(* "we can that mark that write buffer as available again"                 *)
HandleFlipAck(f, b) ==
  /\ flip_acks[f][b] > 0
  /\ flip_acks' = [flip_acks EXCEPT ![f][b] = @ - 1]
  /\ lmb_w_avail' = [lmb_w_avail EXCEPT ![Peer[f]][b] = TRUE]
  /\ UNCHANGED <<queues, cur_write_lmb, cur_write_offset, cur_write_count,
                 lmb_r_counts, place, dest_ptr, flip_reqs>>
-----------------------------------------------------------------------------
EndpointStep(e) ==
  \/ PushDirect(e) \/ PushLmb(e) \/ FlipLmb(e)
  \/ \E b \in Buffers : \/ PushShort(e, b)
                        \/ HandleFlipRequest(e, b)
                        \/ HandleFlipAck(e, b)

MessageStep(m) ==
  \/ \E pending \in BOOLEAN : EnqueueMessage(m, pending)
  \/ AssignSrcdata(m)
  \/ HandleDirect(m)
  \/ \E b \in Buffers : HandleLongMsgptr(m, b)

Next == (\E e \in EP : EndpointStep(e)) \/ (\E m \in Msg : MessageStep(m))

Spec == Init /\ [][Next]_vars

(***************************************************************************)
(* Polling threads run push_messages for ever, the network delivers, the   *)
(* handler threads drain, and the source data pool serves its queue.  The  *)
(* long queue needs strong fairness: a FLIP_ACK that arrives before every  *)
(* iteration of push_messages would starve it, but each needs a flip by    *)
(* the peer, a network round trip after the previous one, so iterations    *)
(* that find the short queue empty keep coming.                            *)
(***************************************************************************)
Fairness ==
  /\ \A e \in EP :
       /\ SF_vars(PushDirect(e) \/ PushLmb(e) \/ FlipLmb(e))
       /\ \A b \in Buffers : /\ WF_vars(PushShort(e, b))
                             /\ WF_vars(HandleFlipRequest(e, b) \/ HandleFlipAck(Peer[e], b))
  /\ \A m \in Msg :
       WF_vars(\/ AssignSrcdata(m) \/ HandleDirect(m)
               \/ \E b \in Buffers : HandleLongMsgptr(m, b))

FairSpec == Spec /\ Fairness
-----------------------------------------------------------------------------
TypeOK ==
  /\ out_short_hdrs   \in [EP -> [Buffers -> Nat]]
  /\ out_long_hdrs    \in [EP -> Seq(Msg)]
  /\ payload_pending  \subseteq Msg
  /\ cur_write_lmb    \in [EP -> Buffers]
  /\ cur_write_offset \in [EP -> Nat]
  /\ cur_write_count  \in [EP -> Nat]
  /\ lmb_w_avail      \in [EP -> [Buffers -> BOOLEAN]]
  /\ lmb_r_counts     \in [EP -> [Buffers -> Int]]
  /\ place            \in [Msg -> Buffers \cup {Idle, Queued, Direct}]
  /\ dest_ptr         \in [Msg -> Nat]
  /\ flip_reqs        \in [EP -> [Buffers -> Seq(Nat)]]
  /\ flip_acks        \in [EP -> [Buffers -> Nat]]

(* FLIP_ACKs for the buffer b that e writes: queued at, or sent by, its peer. *)
AcksDue(e, b) == out_short_hdrs[Peer[e]][b] + flip_acks[Peer[e]][b]

(***************************************************************************)
(* push_messages never writes over a payload whose handler has not run:    *)
(* the unread messages of a buffer occupy disjoint byte ranges inside it,  *)
(* across any number of flips.                                             *)
(***************************************************************************)
UnreadDisjoint ==
  \A m, n \in Msg :
    /\ place[m] \in Buffers => dest_ptr[m] + PayloadSize[m] <= LmbSize
    /\ (m # n /\ EpOf[m] = EpOf[n] /\ place[m] = place[n] /\ place[m] \in Buffers)
         => \/ dest_ptr[m] + PayloadSize[m] <= dest_ptr[n]
            \/ dest_ptr[n] + PayloadSize[n] <= dest_ptr[m]

(***************************************************************************)
(* A FLIP_ACK is sent once per flip and only for a drained buffer, however *)
(* the flip request and the messages overtake each other: while one is     *)
(* due the buffer holds nothing, has no flip request outstanding and is    *)
(* closed to the writer.                                                   *)
(***************************************************************************)
AckMeansDrained ==
  \A e \in EP, b \in Buffers :
    /\ AcksDue(e, b) <= 1
    /\ AcksDue(e, b) = 1 => /\ Unread(e, b) = {}
                            /\ flip_reqs[e][b] = <<>>
                            /\ ~lmb_w_avail[e][b]

(***************************************************************************)
(* A writer is never blocked on a buffer nobody will give back: a closed   *)
(* buffer still has a flip request, an unread message or an acknowledgement *)
(* on its way (the lmb_r_counts arithmetic misses no zero crossing).       *)
(***************************************************************************)
ClosedHasCause ==
  \A e \in EP, b \in Buffers :
    ~lmb_w_avail[e][b] => \/ flip_reqs[e][b] # <<>>
                          \/ Unread(e, b) # {}
                          \/ AcksDue(e, b) > 0

(***************************************************************************)
(* The life of a buffer, which makes the properties above inductive.  The  *)
(* messages handled (r) and unread (n) of buffer b add up to what the      *)
(* writer put in, until the flip request is subtracted.                    *)
(***************************************************************************)
Open(e, b, r, n) ==
  /\ lmb_w_avail[e][b] /\ flip_reqs[e][b] = <<>> /\ AcksDue(e, b) = 0
  /\ r >= 0
  /\ r + n = IF b = cur_write_lmb[e] THEN cur_write_count[e] ELSE 0

Flipped(e, b, r, n) ==
  /\ ~lmb_w_avail[e][b] /\ AcksDue(e, b) = 0
  /\ r >= 0
  /\ flip_reqs[e][b] = <<r + n>>

Draining(e, b, r, n) ==
  /\ ~lmb_w_avail[e][b] /\ flip_reqs[e][b] = <<>> /\ AcksDue(e, b) = 0
  /\ r = -n /\ n > 0

Drained(e, b, r, n) ==
  /\ ~lmb_w_avail[e][b] /\ flip_reqs[e][b] = <<>> /\ AcksDue(e, b) = 1
  /\ r = 0 /\ n = 0

BufferPhase(e, b) ==
  LET r == lmb_r_counts[Peer[e]][b]
      n == Cardinality(Unread(e, b))
  IN Open(e, b, r, n) \/ Flipped(e, b, r, n) \/ Draining(e, b, r, n) \/ Drained(e, b, r, n)

(* A queued message is in one queue, once.                                 *)
QueueInv ==
  \A e \in EP : \A i, j \in 1 .. Len(out_long_hdrs[e]) :
    /\ EpOf[out_long_hdrs[e][i]] = e
    /\ place[out_long_hdrs[e][i]] = Queued
    /\ i # j => out_long_hdrs[e][i] # out_long_hdrs[e][j]

(* The writer's offset is past everything it has put in the open buffer.   *)
WriterInv ==
  \A e \in EP :
    /\ ~lmb_w_avail[e][cur_write_lmb[e]] => cur_write_count[e] = 0
    /\ lmb_w_avail[e][cur_write_lmb[e]] =>
         \A m \in Unread(e, cur_write_lmb[e]) :
           dest_ptr[m] + PayloadSize[m] <= cur_write_offset[e]

(***************************************************************************)
(* The inductive invariant behind the flow control of push_messages and    *)
(* the two flip handlers.                                                  *)
(***************************************************************************)
EndpointInv ==
  /\ TypeOK
  /\ QueueInv
  /\ WriterInv
  /\ UnreadDisjoint
  /\ \A e \in EP, b \in Buffers : BufferPhase(e, b)

(***************************************************************************)
(* Every message handed to enqueue_message is eventually handled at the    *)
(* peer, even when both directions are out of buffers: FLIP_ACKs overtake  *)
(* the long queue, so flow control never waits for flow control.           *)
(***************************************************************************)
EveryMessageHandled ==
  \A m \in Msg : place[m] = Queued ~> place[m] = Idle

(***************************************************************************)
(* The endpoints implement the abstract handoff: a buffer is the writer's  *)
(* exactly while lmb_w_avail says so.                                      *)
(***************************************************************************)
Handoff ==
  INSTANCE LmbHandoff WITH
    Buffer <- EP \X Buffers,
    owner  <- [c \in EP \X Buffers |->
                 IF lmb_w_avail[c[1]][c[2]] THEN "writer" ELSE "reader"],
    unread <- [c \in EP \X Buffers |-> Unread(c[1], c[2])]

ImplementsHandoff == Handoff!Spec
=============================================================================
