------------------------ MODULE ActiveMessageEndpointProofs ------------------------
(***************************************************************************)
(* The theorems about the endpoint, for any number of endpoints and        *)
(* buffers and messages of any size: first the types of its variables and  *)
(* what a step that leaves the buffers or the queues alone preserves, then *)
(* the writer's side, then the reader's side.                              *)
(***************************************************************************)
EXTENDS ActiveMessageEndpoint, FiniteSetTheorems, TLAPS

(* Buffers are natural numbers, none of them a marker for "no buffer".     *)
LEMMA BufferFacts ==
  /\ Buffers \subseteq Nat
  /\ 0 \in Buffers
  /\ Idle \notin Buffers /\ Queued \notin Buffers /\ Direct \notin Buffers
  /\ \A b \in Buffers : (b + 1) % NumLmbs \in Buffers
BY EndpointAssumption DEF Buffers, Idle, Queued, Direct

(* Only finitely many messages can be unread.                              *)
LEMMA UnreadFinite ==
  ASSUME NEW e, NEW b
  PROVE  /\ IsFiniteSet(Unread(e, b))
         /\ Cardinality(Unread(e, b)) \in Nat
<1>1. Unread(e, b) \in SUBSET Msg
  BY DEF Unread
<1>2. IsFiniteSet(Unread(e, b))
  BY <1>1, FiniteMsg, FS_Subset
<1>3. QED
  BY <1>2, FS_CardinalityType

(* push_messages advances the write offset past the message.               *)
LEMMA AlignUpBound ==
  ASSUME NEW x \in Nat
  PROVE  AlignUp(x) \in Nat /\ AlignUp(x) >= x
BY DEF AlignUp

(* Counting in a buffer keeps the counters and the short queue well typed. *)
LEMMA AdjustType ==
  ASSUME TypeOK, NEW f \in EP, NEW b \in Buffers, NEW x \in Int,
         AdjustReadCount(f, b, x)
  PROVE  /\ lmb_r_counts' \in [EP -> [Buffers -> Int]]
         /\ out_short_hdrs' \in [EP -> [Buffers -> Nat]]
<1>1. lmb_r_counts[f][b] + x \in Int /\ out_short_hdrs[f][b] + 1 \in Nat
  BY SMTT(30) DEF TypeOK
<1>2. lmb_r_counts' \in [EP -> [Buffers -> Int]]
  BY <1>1, SMTT(90) DEF TypeOK, AdjustReadCount
<1>3. out_short_hdrs' \in [EP -> [Buffers -> Nat]]
  BY <1>1, SMTT(90) DEF TypeOK, AdjustReadCount
<1>4. QED
  BY <1>2, <1>3

(* The endpoint's variables always have their types.                       *)
LEMMA TypeStep == TypeOK /\ [Next]_vars => TypeOK'
<1> SUFFICES ASSUME TypeOK, [Next]_vars
             PROVE  TypeOK'
  OBVIOUS
<1>1. ASSUME NEW m \in Msg, NEW pending \in BOOLEAN, EnqueueMessage(m, pending)
      PROVE  TypeOK'
  <2>1. EpOf[m] \in EP /\ out_long_hdrs[EpOf[m]] \in Seq(Msg)
    BY EndpointAssumption DEF TypeOK
  <2>2. Append(out_long_hdrs[EpOf[m]], m) \in Seq(Msg)
    BY <2>1
  <2>3. out_long_hdrs' \in [EP -> Seq(Msg)]
    BY <1>1, <2>1, <2>2 DEF TypeOK, EnqueueMessage
  <2>4. QED
    BY <1>1, <2>3, Zenon DEF TypeOK, EnqueueMessage, writer
<1>2. ASSUME NEW m \in Msg, AssignSrcdata(m)
      PROVE  TypeOK'
  BY <1>2 DEF TypeOK, AssignSrcdata, writer, network
<1>3. ASSUME NEW e \in EP, NEW b \in Buffers, PushShort(e, b)
      PROVE  TypeOK'
  <2>1. out_short_hdrs[e][b] - 1 \in Nat /\ flip_acks[e][b] + 1 \in Nat
    BY <1>3, SMTT(30) DEF TypeOK, PushShort, SendShort
  <2>2. /\ out_short_hdrs' \in [EP -> [Buffers -> Nat]]
        /\ flip_acks' \in [EP -> [Buffers -> Nat]]
    BY <1>3, <2>1, SMTT(90) DEF TypeOK, PushShort, SendShort
  <2>3. QED
    BY <1>3, <2>2, Zenon DEF TypeOK, PushShort, SendShort, writer
<1>4. ASSUME NEW e \in EP, PushDirect(e)
      PROVE  TypeOK'
  <2>1. Tail(out_long_hdrs[e]) \in Seq(Msg)
    BY <1>4 DEF TypeOK, PushDirect, LongAtHead
  <2>2. out_long_hdrs' \in [EP -> Seq(Msg)]
    BY <1>4, <2>1 DEF TypeOK, PushDirect
  <2>3. QED
    BY <1>4, <2>2, SMTT(30) DEF TypeOK, PushDirect, writer
<1>5. ASSUME NEW e \in EP, PushLmb(e)
      PROVE  TypeOK'
  <2>1. PICK m \in Msg : PushLmb(e)!(m)
    BY <1>5, Zenon DEF PushLmb
  <2>2. PayloadSize[m] \in Nat
    BY EndpointAssumption
  <2>3. cur_write_offset[e] + PayloadSize[m] \in Nat
    BY <2>2, SMTT(30) DEF TypeOK
  <2>4. AlignUp(cur_write_offset[e] + PayloadSize[m]) \in Nat
    BY <2>3, AlignUpBound
  <2>5. Tail(out_long_hdrs[e]) \in Seq(Msg)
    BY <2>1 DEF TypeOK, LmbCandidate, LongAtHead
  <2>6. out_long_hdrs' \in [EP -> Seq(Msg)]
    BY <2>1, <2>5 DEF TypeOK
  <2>7. cur_write_offset' \in [EP -> Nat]
    BY <2>1, <2>4 DEF TypeOK
  <2>8. /\ place' \in [Msg -> Buffers \cup {Idle, Queued, Direct}]
        /\ dest_ptr' \in [Msg -> Nat]
        /\ cur_write_count' \in [EP -> Nat]
    BY <2>1, SMTT(30) DEF TypeOK
  <2>9. QED
    BY <2>1, <2>6, <2>7, <2>8, SMTT(90) DEF TypeOK
<1>6. ASSUME NEW e \in EP, FlipLmb(e)
      PROVE  TypeOK'
  <2>1. Append(flip_reqs[e][cur_write_lmb[e]], cur_write_count[e]) \in Seq(Nat)
    BY DEF TypeOK
  <2>2. flip_reqs' \in [EP -> [Buffers -> Seq(Nat)]]
    BY <1>6, <2>1, SMTT(30) DEF TypeOK, FlipLmb
  <2>3. (cur_write_lmb[e] + 1) % NumLmbs \in Buffers
    BY BufferFacts, Zenon DEF TypeOK
  <2>4. cur_write_lmb' \in [EP -> Buffers]
    BY <1>6, <2>3 DEF TypeOK, FlipLmb
  <2>5. lmb_w_avail' \in [EP -> [Buffers -> BOOLEAN]]
    BY <1>6 DEF TypeOK, FlipLmb
  <2>6. QED
    BY <1>6, <2>2, <2>4, <2>5, Zenon DEF TypeOK, FlipLmb, queues
<1>7. ASSUME NEW m \in Msg, NEW b \in Buffers, HandleLongMsgptr(m, b)
      PROVE  TypeOK'
  <2>1. Peer[EpOf[m]] \in EP
    BY EndpointAssumption
  <2>2. /\ lmb_r_counts' \in [EP -> [Buffers -> Int]]
        /\ out_short_hdrs' \in [EP -> [Buffers -> Nat]]
    BY <1>7, <2>1, AdjustType DEF HandleLongMsgptr
  <2>3. QED
    BY <1>7, <2>2, SMTT(90) DEF TypeOK, HandleLongMsgptr, writer
<1>8. ASSUME NEW m \in Msg, HandleDirect(m)
      PROVE  TypeOK'
  BY <1>8 DEF TypeOK, HandleDirect, queues, writer
<1>9. ASSUME NEW e \in EP, NEW b \in Buffers, HandleFlipRequest(e, b)
      PROVE  TypeOK'
  <2>1. flip_reqs[e][b] \in Seq(Nat) /\ flip_reqs[e][b] # <<>>
    BY <1>9 DEF TypeOK, HandleFlipRequest
  <2>2. Tail(flip_reqs[e][b]) \in Seq(Nat) /\ -Head(flip_reqs[e][b]) \in Int
    BY <2>1
  <2>3. Peer[e] \in EP
    BY EndpointAssumption
  <2>4. /\ lmb_r_counts' \in [EP -> [Buffers -> Int]]
        /\ out_short_hdrs' \in [EP -> [Buffers -> Nat]]
    BY <1>9, <2>2, <2>3, AdjustType, SMTT(30) DEF HandleFlipRequest
  <2>5. flip_reqs' \in [EP -> [Buffers -> Seq(Nat)]]
    BY <1>9, <2>2, Zenon DEF TypeOK, HandleFlipRequest
  <2>6. QED
    BY <1>9, <2>4, <2>5, Zenon DEF TypeOK, HandleFlipRequest, writer
<1>10. ASSUME NEW e \in EP, NEW b \in Buffers, HandleFlipAck(e, b)
       PROVE  TypeOK'
  <2>0. Peer[e] \in EP
    BY EndpointAssumption
  <2>1. flip_acks[e][b] - 1 \in Nat
    BY <1>10, SMTT(30) DEF TypeOK, HandleFlipAck
  <2>2. flip_acks' \in [EP -> [Buffers -> Nat]]
    BY <1>10, <2>1, SMTT(30) DEF TypeOK, HandleFlipAck
  <2>3. lmb_w_avail' \in [EP -> [Buffers -> BOOLEAN]]
    BY <1>10, <2>0, Zenon DEF TypeOK, HandleFlipAck
  <2>4. QED
    BY <1>10, <2>2, <2>3, Zenon DEF TypeOK, HandleFlipAck, queues
<1>11. CASE UNCHANGED vars
  BY <1>11 DEF TypeOK, vars, queues, writer, network
<1>12. QED
  BY <1>1, <1>2, <1>3, <1>4, <1>5, <1>6, <1>7, <1>8, <1>9, <1>10, <1>11
     DEF Next, EndpointStep, MessageStep
-----------------------------------------------------------------------------
(* The types of single counters.                                           *)
LEMMA Elements ==
  ASSUME TypeOK, NEW e \in EP, NEW b \in Buffers
  PROVE  /\ out_short_hdrs[e][b] \in Nat
         /\ flip_acks[e][b] \in Nat
         /\ lmb_r_counts[e][b] \in Int
         /\ lmb_w_avail[e][b] \in BOOLEAN
         /\ flip_reqs[e][b] \in Seq(Nat)
         /\ cur_write_lmb[e] \in Buffers
         /\ cur_write_offset[e] \in Nat
         /\ cur_write_count[e] \in Nat
         /\ Peer[e] \in EP
<1>1. out_short_hdrs[e][b] \in Nat
  BY DEF TypeOK
<1>2. flip_acks[e][b] \in Nat
  BY DEF TypeOK
<1>3. lmb_r_counts[e][b] \in Int
  BY DEF TypeOK
<1>4. lmb_w_avail[e][b] \in BOOLEAN
  BY DEF TypeOK
<1>5. flip_reqs[e][b] \in Seq(Nat)
  BY DEF TypeOK
<1>6. cur_write_lmb[e] \in Buffers /\ cur_write_offset[e] \in Nat /\ cur_write_count[e] \in Nat
  BY DEF TypeOK
<1>7. Peer[e] \in EP
  BY EndpointAssumption
<1>8. QED
  BY <1>1, <1>2, <1>3, <1>4, <1>5, <1>6, <1>7

(* A step that changes nothing a buffer's phase looks at keeps the phase.  *)
LEMMA PhaseFrame ==
  ASSUME NEW e \in EP, NEW b \in Buffers, BufferPhase(e, b),
         lmb_w_avail'[e][b] = lmb_w_avail[e][b],
         flip_reqs'[e][b] = flip_reqs[e][b],
         AcksDue(e, b)' = AcksDue(e, b),
         lmb_r_counts'[Peer[e]][b] = lmb_r_counts[Peer[e]][b],
         Unread(e, b)' = Unread(e, b),
         cur_write_lmb'[e] = cur_write_lmb[e],
         cur_write_count'[e] = cur_write_count[e]
  PROVE  BufferPhase(e, b)'
BY Zenon DEF BufferPhase, Open, Flipped, Draining, Drained

(* The head of a long queue is a queued message of that endpoint.          *)
LEMMA HeadFacts ==
  ASSUME TypeOK, QueueInv, NEW e \in EP, NEW m \in Msg, LongAtHead(e, m)
  PROVE  /\ EpOf[m] = e
         /\ place[m] = Queued
         /\ Tail(out_long_hdrs[e]) \in Seq(Msg)
         /\ Len(Tail(out_long_hdrs[e])) = Len(out_long_hdrs[e]) - 1
         /\ \A i \in 1 .. Len(Tail(out_long_hdrs[e])) :
              /\ i + 1 \in 1 .. Len(out_long_hdrs[e])
              /\ Tail(out_long_hdrs[e])[i] = out_long_hdrs[e][i + 1]
              /\ out_long_hdrs[e][i + 1] # m
<1> DEFINE q == out_long_hdrs[e]
<1>1. q \in Seq(Msg) /\ q # <<>> /\ m = q[1] /\ Len(q) \in Nat /\ Len(q) > 0
  BY DEF TypeOK, LongAtHead
<1>2. EpOf[m] = e /\ place[m] = Queued
  BY <1>1 DEF QueueInv
<1>3. Tail(q) \in Seq(Msg) /\ Len(Tail(q)) = Len(q) - 1
  BY <1>1
<1>4. ASSUME NEW i \in 1 .. Len(Tail(q))
      PROVE  /\ i + 1 \in 1 .. Len(q)
             /\ Tail(q)[i] = q[i + 1]
             /\ q[i + 1] # m
  <2>1. i + 1 \in 1 .. Len(q) /\ 1 \in 1 .. Len(q) /\ i + 1 # 1
    BY <1>1, <1>3, <1>4
  <2>2. Tail(q)[i] = q[i + 1]
    BY <1>1, <1>3, <1>4
  <2>3. q[i + 1] # q[1]
    BY <2>1 DEF QueueInv
  <2>4. QED
    BY <1>1, <2>1, <2>2, <2>3
<1>5. QED
  BY <1>2, <1>3, <1>4

(* Taking the head off a long queue keeps the queues in order.             *)
LEMMA PopQueue ==
  ASSUME TypeOK, QueueInv, NEW e \in EP, NEW m \in Msg, NEW p,
         LongAtHead(e, m),
         out_long_hdrs' = [out_long_hdrs EXCEPT ![e] = Tail(@)],
         place' = [place EXCEPT ![m] = p]
  PROVE  QueueInv'
<1> SUFFICES ASSUME NEW f \in EP, NEW i \in 1 .. Len(out_long_hdrs'[f]),
                    NEW j \in 1 .. Len(out_long_hdrs'[f])
             PROVE  /\ EpOf[out_long_hdrs'[f][i]] = f
                    /\ place'[out_long_hdrs'[f][i]] = Queued
                    /\ i # j => out_long_hdrs'[f][i] # out_long_hdrs'[f][j]
  BY Zenon DEF QueueInv
<1>0. EpOf[m] = e
  BY HeadFacts
<1>1. CASE f = e
  <2> DEFINE q == out_long_hdrs[e]
  <2>1. out_long_hdrs'[f] = Tail(q) /\ q \in Seq(Msg)
    BY <1>1 DEF TypeOK
  <2>2. \A k \in 1 .. Len(Tail(q)) : /\ k + 1 \in 1 .. Len(q)
                                     /\ Tail(q)[k] = q[k + 1]
                                     /\ q[k + 1] # m
    BY HeadFacts
  <2>3. i \in 1 .. Len(Tail(q)) /\ j \in 1 .. Len(Tail(q))
    BY <2>1, Zenon
  <2>4. /\ i + 1 \in 1 .. Len(q) /\ j + 1 \in 1 .. Len(q)
        /\ out_long_hdrs'[f][i] = q[i + 1] /\ q[i + 1] # m
        /\ out_long_hdrs'[f][j] = q[j + 1]
    BY <2>1, <2>2, <2>3, Zenon
  <2>5. q[i + 1] \in Msg
    BY <2>1, <2>4
  <2>6. /\ EpOf[q[i + 1]] = e
        /\ place[q[i + 1]] = Queued
        /\ i + 1 # j + 1 => q[i + 1] # q[j + 1]
    BY <2>4 DEF QueueInv
  <2>7. place'[q[i + 1]] = Queued
    BY <2>4, <2>5, <2>6 DEF TypeOK
  <2>8. i # j => i + 1 # j + 1
    OBVIOUS
  <2>9. QED
    BY <1>1, <2>4, <2>6, <2>7, <2>8
<1>2. CASE f # e
  <2> DEFINE q == out_long_hdrs[f]
  <2>1. out_long_hdrs'[f] = q /\ q \in Seq(Msg)
    BY <1>2 DEF TypeOK
  <2>2. i \in 1 .. Len(q) /\ j \in 1 .. Len(q) /\ q[i] \in Msg
    BY <2>1
  <2>3. /\ EpOf[q[i]] = f
        /\ place[q[i]] = Queued
        /\ i # j => q[i] # q[j]
    BY <2>2 DEF QueueInv
  <2>4. place'[q[i]] = Queued
    BY <1>0, <1>2, <2>2, <2>3, Zenon DEF TypeOK
  <2>5. QED
    BY <2>1, <2>3, <2>4, Zenon
<1>3. QED
  BY <1>1, <1>2, Zenon
-----------------------------------------------------------------------------
(* What the buffers contribute to the invariant.                           *)
BufferInv ==
  /\ WriterInv
  /\ UnreadDisjoint
  /\ \A e \in EP, b \in Buffers : BufferPhase(e, b)

(* No message enters or leaves a buffer. *)
SameContents ==
  \A n \in Msg : /\ (place'[n] \in Buffers) <=> (place[n] \in Buffers)
                 /\ place[n] \in Buffers => place'[n] = place[n]

(* A step that moves no message into or out of a buffer, and leaves the    *)
(* flow control alone, keeps all that is said about the buffers.           *)
LEMMA BufferFrame ==
  ASSUME TypeOK, BufferInv, SameContents,
         UNCHANGED <<writer, lmb_r_counts, dest_ptr, flip_reqs>>,
         \A e \in EP, b \in Buffers : AcksDue(e, b)' = AcksDue(e, b)
  PROVE  BufferInv'
<1>1. \A e \in EP, b \in Buffers : Unread(e, b)' = Unread(e, b)
  BY DEF Unread, SameContents
<1>2. WriterInv'
  BY <1>1 DEF WriterInv, BufferInv, writer, TypeOK
<1>3. UnreadDisjoint'
  BY DEF UnreadDisjoint, BufferInv, SameContents
<1>4. ASSUME NEW e \in EP, NEW b \in Buffers
      PROVE  BufferPhase(e, b)'
  BY <1>1, PhaseFrame DEF BufferInv, writer
<1>5. QED
  BY <1>2, <1>3, <1>4 DEF BufferInv

(* Moving a message between places that are no buffers.                    *)
LEMMA MoveOutside ==
  ASSUME TypeOK, NEW m \in Msg, NEW p \in {Idle, Queued, Direct},
         place[m] \notin Buffers, place' = [place EXCEPT ![m] = p]
  PROVE  SameContents
BY BufferFacts DEF TypeOK, SameContents

(* Moving a message that is in no queue.                                   *)
LEMMA QueueFrame ==
  ASSUME TypeOK, QueueInv, NEW m \in Msg, NEW p, place[m] # Queued,
         place' = [place EXCEPT ![m] = p], UNCHANGED out_long_hdrs
  PROVE  QueueInv'
<1> SUFFICES ASSUME NEW f \in EP, NEW i \in 1 .. Len(out_long_hdrs[f]),
                    NEW j \in 1 .. Len(out_long_hdrs[f])
             PROVE  /\ EpOf[out_long_hdrs[f][i]] = f
                    /\ place'[out_long_hdrs[f][i]] = Queued
                    /\ i # j => out_long_hdrs[f][i] # out_long_hdrs[f][j]
  BY DEF QueueInv
<1>1. out_long_hdrs[f] \in Seq(Msg) /\ out_long_hdrs[f][i] \in Msg
  BY DEF TypeOK
<1>2. /\ EpOf[out_long_hdrs[f][i]] = f
      /\ place[out_long_hdrs[f][i]] = Queued
      /\ i # j => out_long_hdrs[f][i] # out_long_hdrs[f][j]
  BY DEF QueueInv
<1>3. QED
  BY <1>1, <1>2, SMTT(30) DEF TypeOK

-----------------------------------------------------------------------------
(* The writer's side: enqueue_message, assign_srcdata_pointer and          *)
(* push_messages preserve the invariant, as does a handler that uses no    *)
(* LMB.                                                                    *)

(* enqueue_message *)
LEMMA EnqueueInv ==
  ASSUME EndpointInv, NEW m \in Msg, NEW pending \in BOOLEAN, EnqueueMessage(m, pending)
  PROVE  QueueInv' /\ BufferInv'
<1> DEFINE d == EpOf[m]
           q == out_long_hdrs[d]
<1>0. TypeOK /\ QueueInv /\ BufferInv
  BY DEF EndpointInv, BufferInv
<1>1. BufferInv'
  <2>1. place[m] \notin Buffers
    BY BufferFacts, Zenon DEF EnqueueMessage
  <2>2. \A e \in EP, b \in Buffers : AcksDue(e, b)' = AcksDue(e, b)
    BY DEF EnqueueMessage, AcksDue
  <2>3. QED
    BY <1>0, <2>1, <2>2, MoveOutside, BufferFrame, Zenon DEF EnqueueMessage
<1>2. QueueInv'
  <2>1. d \in EP /\ q \in Seq(Msg) /\ place[m] = Idle /\ Idle # Queued
    BY <1>0, EndpointAssumption DEF TypeOK, EnqueueMessage, Idle, Queued
  <2>2. /\ Append(q, m) \in Seq(Msg)
        /\ Len(Append(q, m)) = Len(q) + 1
        /\ Append(q, m)[Len(q) + 1] = m
        /\ \A i \in 1 .. Len(q) : Append(q, m)[i] = q[i]
    BY <2>1
  <2> SUFFICES ASSUME NEW f \in EP, NEW i \in 1 .. Len(out_long_hdrs'[f]),
                      NEW j \in 1 .. Len(out_long_hdrs'[f])
               PROVE  /\ EpOf[out_long_hdrs'[f][i]] = f
                      /\ place'[out_long_hdrs'[f][i]] = Queued
                      /\ i # j => out_long_hdrs'[f][i] # out_long_hdrs'[f][j]
    BY Zenon DEF QueueInv
  <2>3. CASE f = d
    <3>1. out_long_hdrs'[f] = Append(q, m)
      BY <1>0, <2>1, <2>3, Zenon DEF EnqueueMessage, TypeOK
    <3>2. \A k \in 1 .. Len(q) : q[k] \in Msg /\ EpOf[q[k]] = d /\ place[q[k]] = Queued
      BY <1>0, <2>1 DEF QueueInv
    <3>3. \A k \in 1 .. Len(q) : q[k] # m /\ place'[q[k]] = Queued
      BY <1>0, <2>1, <3>2, Zenon DEF EnqueueMessage, TypeOK
    <3>4. place'[m] = Queued
      BY <1>0, Zenon DEF EnqueueMessage, TypeOK
    <3>5. Len(q) \in Nat /\ i \in 1 .. Len(q) + 1 /\ j \in 1 .. Len(q) + 1
      BY <2>1, <2>2, <3>1
    <3>6. (i \in 1 .. Len(q) \/ i = Len(q) + 1) /\ (j \in 1 .. Len(q) \/ j = Len(q) + 1)
      BY <3>5
    <3>7. \A k, l \in 1 .. Len(q) : k # l => q[k] # q[l]
      BY <1>0, <2>1 DEF QueueInv
    <3>8. QED
      BY <2>2, <2>3, <3>1, <3>2, <3>3, <3>4, <3>6, <3>7, SMTT(30)
  <2>4. CASE f # d
    <3>1. out_long_hdrs'[f] = out_long_hdrs[f] /\ out_long_hdrs[f] \in Seq(Msg)
      BY <1>0, <2>1, <2>4, Zenon DEF EnqueueMessage, TypeOK
    <3>2. /\ out_long_hdrs[f][i] \in Msg
          /\ EpOf[out_long_hdrs[f][i]] = f
          /\ place[out_long_hdrs[f][i]] = Queued
          /\ i # j => out_long_hdrs[f][i] # out_long_hdrs[f][j]
      BY <1>0, <3>1 DEF QueueInv
    <3>3. place'[out_long_hdrs[f][i]] = Queued
      BY <1>0, <3>2, Zenon DEF EnqueueMessage, TypeOK
    <3>4. QED
      BY <3>1, <3>2, <3>3
  <2>5. QED
    BY <2>3, <2>4
<1>3. QED
  BY <1>1, <1>2

(* assign_srcdata_pointer *)
LEMMA AssignInv ==
  ASSUME EndpointInv, NEW m \in Msg, AssignSrcdata(m)
  PROVE  QueueInv' /\ BufferInv'
<1>1. TypeOK /\ QueueInv /\ BufferInv
  BY DEF EndpointInv, BufferInv
<1>2. SameContents
  BY DEF AssignSrcdata, network, SameContents
<1>3. \A e \in EP, b \in Buffers : AcksDue(e, b)' = AcksDue(e, b)
  BY DEF AssignSrcdata, network, AcksDue
<1>4. BufferInv'
  BY <1>1, <1>2, <1>3, BufferFrame DEF AssignSrcdata, network
<1>5. QueueInv'
  BY <1>1 DEF AssignSrcdata, network, QueueInv
<1>6. QED
  BY <1>4, <1>5

(* push_messages, a FLIP_ACK: it moves from the queue into the network.    *)
LEMMA PushShortInv ==
  ASSUME EndpointInv, NEW e \in EP, NEW b \in Buffers, PushShort(e, b)
  PROVE  QueueInv' /\ BufferInv'
<1>1. TypeOK /\ QueueInv /\ BufferInv
  BY DEF EndpointInv, BufferInv
<1>2. SameContents
  BY DEF PushShort, SendShort, SameContents
<1>3. ASSUME NEW f \in EP, NEW c \in Buffers
      PROVE  AcksDue(f, c)' = AcksDue(f, c)
  <2>1. Peer[f] \in EP
    BY EndpointAssumption
  <2>2. /\ out_short_hdrs[Peer[f]][c] \in Nat
        /\ flip_acks[Peer[f]][c] \in Nat
    BY <1>1, <2>1, Elements
  <2>3. CASE Peer[f] = e /\ c = b
    <3>1. /\ out_short_hdrs'[e][b] = out_short_hdrs[e][b] - 1
          /\ flip_acks'[e][b] = flip_acks[e][b] + 1
      BY <1>1 DEF PushShort, SendShort, TypeOK
    <3>2. QED
      BY <2>2, <2>3, <3>1 DEF AcksDue
  <2>4. CASE Peer[f] # e \/ c # b
    <3>1. out_short_hdrs'[Peer[f]][c] = out_short_hdrs[Peer[f]][c]
      BY <1>1, <2>1, <2>4, Zenon DEF PushShort, SendShort, TypeOK
    <3>2. flip_acks'[Peer[f]][c] = flip_acks[Peer[f]][c]
      BY <1>1, <2>1, <2>4, Zenon DEF PushShort, SendShort, TypeOK
    <3>3. QED
      BY <3>1, <3>2 DEF AcksDue
  <2>5. QED
    BY <2>3, <2>4
<1>4. BufferInv'
  BY <1>1, <1>2, <1>3, BufferFrame DEF PushShort, SendShort
<1>5. QueueInv'
  BY <1>1 DEF PushShort, SendShort, QueueInv
<1>6. QED
  BY <1>4, <1>5

(* push_messages, a message that needs no LMB.                             *)
LEMMA PushDirectInv ==
  ASSUME EndpointInv, NEW e \in EP, PushDirect(e)
  PROVE  QueueInv' /\ BufferInv'
<1>1. TypeOK /\ QueueInv /\ BufferInv
  BY DEF EndpointInv, BufferInv
<1>2. PICK m \in Msg :
        /\ LongAtHead(e, m)
        /\ out_long_hdrs' = [out_long_hdrs EXCEPT ![e] = Tail(@)]
        /\ place' = [place EXCEPT ![m] = Direct]
        /\ UNCHANGED <<out_short_hdrs, writer, lmb_r_counts, dest_ptr, flip_reqs, flip_acks>>
  BY Zenon DEF PushDirect
<1>3. place[m] = Queued
  BY <1>1, <1>2, HeadFacts, Zenon
<1>4. SameContents
  BY <1>1, <1>2, <1>3, BufferFacts, MoveOutside, Zenon
<1>5. \A f \in EP, b \in Buffers : AcksDue(f, b)' = AcksDue(f, b)
  BY <1>2, Zenon DEF AcksDue
<1>6. BufferInv'
  BY <1>1, <1>2, <1>4, <1>5, BufferFrame
<1>7. QueueInv'
  BY <1>1, <1>2, PopQueue, Zenon
<1>8. QED
  BY <1>6, <1>7

(* the handler of a message that needed no LMB                             *)
LEMMA HandleDirectInv ==
  ASSUME EndpointInv, NEW m \in Msg, HandleDirect(m)
  PROVE  QueueInv' /\ BufferInv'
<1>1. TypeOK /\ QueueInv /\ BufferInv
  BY DEF EndpointInv, BufferInv
<1>2. place[m] \notin Buffers /\ place[m] # Queued
  BY BufferFacts DEF HandleDirect, Direct, Queued
<1>3. SameContents
  BY <1>1, <1>2, MoveOutside, Zenon DEF HandleDirect
<1>4. \A f \in EP, b \in Buffers : AcksDue(f, b)' = AcksDue(f, b)
  BY DEF AcksDue, HandleDirect, queues
<1>5. BufferInv'
  BY <1>1, <1>3, <1>4, BufferFrame DEF HandleDirect
<1>6. QueueInv'
  BY <1>1, <1>2, QueueFrame, Zenon DEF HandleDirect, queues
<1>7. QED
  BY <1>5, <1>6

(* push_messages, a message that fits into the current LMB.                *)
LEMMA PushLmbInv ==
  ASSUME EndpointInv, NEW e \in EP, PushLmb(e)
  PROVE  QueueInv' /\ BufferInv'
<1>1. TypeOK /\ QueueInv /\ WriterInv /\ UnreadDisjoint
  BY DEF EndpointInv
<1>a. PICK b \in Buffers : b = cur_write_lmb[e]
  BY <1>1 DEF TypeOK
<1>b. PICK off \in Nat : off = cur_write_offset[e]
  BY <1>1 DEF TypeOK
<1>2. PICK m \in Msg :
        /\ LmbCandidate(e, m) /\ Fits(e, m)
        /\ place' = [place EXCEPT ![m] = b]
        /\ dest_ptr' = [dest_ptr EXCEPT ![m] = off]
        /\ cur_write_offset' = [cur_write_offset EXCEPT ![e] = AlignUp(off + PayloadSize[m])]
        /\ cur_write_count' = [cur_write_count EXCEPT ![e] = cur_write_count[e] + 1]
        /\ out_long_hdrs' = [out_long_hdrs EXCEPT ![e] = Tail(@)]
        /\ UNCHANGED <<out_short_hdrs, cur_write_lmb, lmb_w_avail, lmb_r_counts,
                       flip_reqs, flip_acks>>
  BY <1>a, <1>b, Zenon DEF PushLmb
<1>3. LongAtHead(e, m) /\ lmb_w_avail[e][b]
  BY <1>2, <1>a, Zenon DEF LmbCandidate
<1>4. EpOf[m] = e /\ place[m] = Queued /\ place[m] \notin Buffers
  BY <1>1, <1>3, HeadFacts, BufferFacts
<1>5. QueueInv'
  BY <1>1, <1>2, <1>3, PopQueue, Zenon
<1>c. PayloadSize[m] \in Nat /\ off + PayloadSize[m] \in Nat
  BY EndpointAssumption
<1>6. /\ off + PayloadSize[m] <= LmbSize
      /\ AlignUp(off + PayloadSize[m]) \in Nat
      /\ AlignUp(off + PayloadSize[m]) >= off + PayloadSize[m]
  BY <1>2, <1>b, <1>c, AlignUpBound DEF Fits
<1>7. /\ \A n \in Msg \ {m} : place'[n] = place[n] /\ dest_ptr'[n] = dest_ptr[n]
      /\ place'[m] = b /\ dest_ptr'[m] = off
      /\ \A n \in Msg : dest_ptr[n] \in Nat /\ PayloadSize[n] \in Nat
  BY <1>1, <1>2, EndpointAssumption, Zenon DEF TypeOK
<1>d. Unread(e, b)' = Unread(e, b) \cup {m} /\ m \notin Unread(e, b)
  BY <1>4, <1>7 DEF Unread
<1>8. \A f \in EP, c \in Buffers : (f # e \/ c # b) => Unread(f, c)' = Unread(f, c)
  BY <1>4, <1>7 DEF Unread
<1>9. \A n \in Unread(e, b) : n \in Msg /\ n # m /\ dest_ptr[n] + PayloadSize[n] <= off
  BY <1>1, <1>3, <1>4, <1>a, <1>b, Zenon DEF WriterInv, Unread
<1>10. WriterInv'
  <2> SUFFICES ASSUME NEW f \in EP
               PROVE  /\ ~lmb_w_avail[f][cur_write_lmb[f]] => cur_write_count'[f] = 0
                      /\ lmb_w_avail[f][cur_write_lmb[f]] =>
                           \A n \in Unread(f, cur_write_lmb[f])' :
                             dest_ptr'[n] + PayloadSize[n] <= cur_write_offset'[f]
    BY <1>2, Zenon DEF WriterInv
  <2>0. cur_write_lmb' = cur_write_lmb /\ cur_write_lmb[f] \in Buffers
    BY <1>1, <1>2, Zenon DEF TypeOK
  <2>1. CASE f = e
    <3>1. cur_write_offset'[e] = AlignUp(off + PayloadSize[m])
      BY <1>1, <1>2, Zenon DEF TypeOK
    <3>2. dest_ptr'[m] + PayloadSize[m] <= cur_write_offset'[e]
      BY <1>6, <1>7, <1>c, <3>1, Zenon
    <3>3. ASSUME NEW n \in Unread(e, b)
          PROVE  dest_ptr'[n] + PayloadSize[n] <= cur_write_offset'[e]
      BY <1>6, <1>7, <1>9, <1>c, <3>1
    <3>4. QED
      BY <1>3, <1>a, <1>d, <2>0, <2>1, <3>2, <3>3, Zenon
  <2>2. CASE f # e
    <3>1. /\ cur_write_count'[f] = cur_write_count[f]
          /\ cur_write_offset'[f] = cur_write_offset[f]
          /\ cur_write_lmb[f] \in Buffers
      BY <1>1, <1>2, <2>2, Zenon DEF TypeOK
    <3>2. \A n \in Unread(f, cur_write_lmb[f]) : n \in Msg /\ n # m
      BY <1>4, <2>2, Zenon DEF Unread
    <3>3. Unread(f, cur_write_lmb[f])' = Unread(f, cur_write_lmb[f])
      BY <1>8, <2>0, <2>2
    <3>4. QED
      BY <1>1, <1>7, <3>1, <3>2, <3>3, Zenon DEF WriterInv
  <2>3. QED
    BY <2>1, <2>2, Zenon
<1>11. UnreadDisjoint'
  <2> SUFFICES ASSUME NEW k \in Msg, NEW n \in Msg
               PROVE  /\ place'[k] \in Buffers => dest_ptr'[k] + PayloadSize[k] <= LmbSize
                      /\ (k # n /\ EpOf[k] = EpOf[n] /\ place'[k] = place'[n]
                             /\ place'[k] \in Buffers)
                           => \/ dest_ptr'[k] + PayloadSize[k] <= dest_ptr'[n]
                              \/ dest_ptr'[n] + PayloadSize[n] <= dest_ptr'[k]
    BY Zenon DEF UnreadDisjoint
  <2>1. CASE k # m /\ n # m
    BY <1>1, <1>7, <2>1, Zenon DEF UnreadDisjoint
  <2>2. CASE k = m
    BY <1>4, <1>6, <1>7, <1>9, <1>c, <2>2, Zenon DEF Unread
  <2>3. CASE k # m /\ n = m
    BY <1>1, <1>4, <1>6, <1>7, <1>9, <2>3, Zenon DEF Unread, UnreadDisjoint
  <2>4. QED
    BY <2>1, <2>2, <2>3, Zenon
<1>12. ASSUME NEW f \in EP, NEW c \in Buffers
       PROVE  BufferPhase(f, c)'
  <2>0. BufferPhase(f, c) /\ AcksDue(f, c)' = AcksDue(f, c)
    BY <1>2, Zenon DEF EndpointInv, AcksDue
  <2>1. CASE f = e /\ c = b
    <3>1. PICK r \in Int : r = lmb_r_counts[Peer[e]][b]
      BY <1>1, Elements, Zenon
    <3>2. PICK n \in Nat : n = Cardinality(Unread(e, b))
      BY UnreadFinite
    <3>3. Cardinality(Unread(e, b)') = n + 1
      BY <1>d, <3>2, UnreadFinite, FS_AddElement, Zenon
    <3>4. Open(e, b, r, n)
      BY <1>3, <2>0, <2>1, <3>1, <3>2, Zenon DEF BufferPhase, Flipped, Draining, Drained
    <3>5. cur_write_count'[e] = cur_write_count[e] + 1 /\ cur_write_count[e] \in Nat
      BY <1>1, <1>2, Zenon DEF TypeOK
    <3>6. Open(e, b, r, n + 1)'
      BY <1>2, <1>a, <2>0, <2>1, <3>4, <3>5, SMTT(30) DEF Open
    <3>7. QED
      BY <1>2, <2>1, <3>1, <3>3, <3>6, Zenon DEF BufferPhase
  <2>2. CASE f # e
    <3>1. cur_write_count'[f] = cur_write_count[f] /\ Unread(f, c)' = Unread(f, c)
      BY <1>1, <1>2, <1>8, <2>2, Zenon DEF TypeOK
    <3>2. QED
      BY <1>2, <2>0, <3>1, PhaseFrame, Zenon
  <2>3. CASE f = e /\ c # b
    <3>1. Unread(f, c)' = Unread(f, c) /\ cur_write_lmb'[e] = b
      BY <1>2, <1>8, <1>a, <2>3, Zenon
    <3>2. QED
      BY <1>2, <1>a, <2>0, <2>3, <3>1, Zenon DEF BufferPhase, Open, Flipped, Draining, Drained
  <2>4. QED
    BY <2>1, <2>2, <2>3, Zenon
<1>13. QED
  BY <1>5, <1>10, <1>11, <1>12 DEF BufferInv

(* push_messages, the flip: the open buffer becomes a flipped one, and the *)
(* writer's next buffer, if it is available, is empty.                     *)
LEMMA FlipLmbInv ==
  ASSUME EndpointInv, NEW e \in EP, FlipLmb(e)
  PROVE  QueueInv' /\ BufferInv'
<1>1. TypeOK /\ QueueInv /\ WriterInv /\ UnreadDisjoint
  BY DEF EndpointInv
<1>2. PICK b \in Buffers : b = cur_write_lmb[e]
  BY <1>1 DEF TypeOK
<1>3. PICK x \in Nat : x = cur_write_count[e]
  BY <1>1, Zenon DEF TypeOK
<1>4. /\ lmb_w_avail[e][b]
      /\ flip_reqs' = [flip_reqs EXCEPT ![e][b] = Append(@, x)]
      /\ lmb_w_avail' = [lmb_w_avail EXCEPT ![e][b] = FALSE]
      /\ cur_write_lmb' = [cur_write_lmb EXCEPT ![e] = (b + 1) % NumLmbs]
      /\ cur_write_offset' = [cur_write_offset EXCEPT ![e] = 0]
      /\ cur_write_count' = [cur_write_count EXCEPT ![e] = 0]
      /\ UNCHANGED <<queues, lmb_r_counts, place, dest_ptr, flip_acks>>
  BY <1>2, <1>3, Zenon DEF FlipLmb, LmbCandidate
<1>5. /\ \A f \in EP, c \in Buffers : Unread(f, c)' = Unread(f, c)
      /\ \A f \in EP, c \in Buffers : AcksDue(f, c)' = AcksDue(f, c)
  BY <1>4, Zenon DEF Unread, AcksDue, queues
<1>6. /\ \A f \in EP, c \in Buffers : (f # e \/ c # b) =>
           lmb_w_avail'[f][c] = lmb_w_avail[f][c] /\ flip_reqs'[f][c] = flip_reqs[f][c]
      /\ lmb_w_avail'[e][b] = FALSE
      /\ flip_reqs'[e][b] = Append(flip_reqs[e][b], x)
  <2>1. \A f \in EP, c \in Buffers : (f # e \/ c # b) => lmb_w_avail'[f][c] = lmb_w_avail[f][c]
    BY <1>1, <1>4, Zenon DEF TypeOK
  <2>2. \A f \in EP, c \in Buffers : (f # e \/ c # b) => flip_reqs'[f][c] = flip_reqs[f][c]
    BY <1>1, <1>4, Zenon DEF TypeOK
  <2>3. lmb_w_avail'[e][b] = FALSE
    BY <1>1, <1>4, Zenon DEF TypeOK
  <2>4. flip_reqs'[e][b] = Append(flip_reqs[e][b], x)
    BY <1>1, <1>4, Zenon DEF TypeOK
  <2>5. QED
    BY <2>1, <2>2, <2>3, <2>4, Zenon
<1>7. /\ cur_write_count'[e] = 0
      /\ cur_write_lmb'[e] \in Buffers
      /\ \A f \in EP \ {e} : /\ cur_write_count'[f] = cur_write_count[f]
                             /\ cur_write_offset'[f] = cur_write_offset[f]
                             /\ cur_write_lmb'[f] = cur_write_lmb[f]
  BY <1>1, <1>4, BufferFacts, Zenon DEF TypeOK
<1>8. ASSUME NEW c \in Buffers, c # b, lmb_w_avail[e][c]
      PROVE  Unread(e, c) = {} /\ lmb_r_counts[Peer[e]][c] = 0
  <2>1. BufferPhase(e, c) /\ lmb_r_counts[Peer[e]][c] \in Int
    BY <1>1, Elements, Zenon DEF EndpointInv
  <2>2. Open(e, c, lmb_r_counts[Peer[e]][c], Cardinality(Unread(e, c)))
    BY <1>8, <2>1, Zenon DEF BufferPhase, Flipped, Draining, Drained
  <2>3. Cardinality(Unread(e, c)) \in Nat
    BY UnreadFinite, Zenon
  <2>4. Cardinality(Unread(e, c)) = 0 /\ lmb_r_counts[Peer[e]][c] = 0
    BY <1>2, <1>8, <2>1, <2>2, <2>3 DEF Open
  <2>5. QED
    BY <2>4, UnreadFinite, FS_EmptySet, Zenon
<1>9. QueueInv'
  BY <1>1, <1>4 DEF QueueInv, queues
<1>10. UnreadDisjoint'
  BY <1>1, <1>4, Zenon DEF UnreadDisjoint
<1>11. WriterInv'
  <2> SUFFICES ASSUME NEW f \in EP
               PROVE  /\ ~lmb_w_avail'[f][cur_write_lmb'[f]] => cur_write_count'[f] = 0
                      /\ lmb_w_avail'[f][cur_write_lmb'[f]] =>
                           \A m \in Unread(f, cur_write_lmb[f])' :
                             dest_ptr'[m] + PayloadSize[m] <= cur_write_offset'[f]
    BY Zenon DEF WriterInv
  <2>1. CASE f = e
    <3>1. PICK c \in Buffers : c = cur_write_lmb'[e]
      BY <1>7, Zenon
    <3>2. lmb_w_avail'[e][c] => Unread(e, c)' = {}
      BY <1>5, <1>6, <1>8, SMTT(30)
    <3>3. QED
      BY <1>7, <2>1, <3>1, <3>2, Zenon
  <2>2. CASE f # e
    <3>1. PICK c \in Buffers : c = cur_write_lmb[f]
      BY <1>1, Zenon DEF TypeOK
    <3>2. Unread(f, c)' = Unread(f, c) /\ lmb_w_avail'[f][c] = lmb_w_avail[f][c]
      BY <1>5, <1>6, <2>2, Zenon
    <3>3. QED
      BY <1>1, <1>4, <1>7, <2>2, <3>1, <3>2 DEF WriterInv
  <2>3. QED
    BY <2>1, <2>2, Zenon
<1>12. ASSUME NEW f \in EP, NEW c \in Buffers
       PROVE  BufferPhase(f, c)'
  <2>0. BufferPhase(f, c)
    BY DEF EndpointInv
  <2>1. CASE f = e /\ c = b
    <3>1. PICK r \in Int : r = lmb_r_counts[Peer[e]][b]
      BY <1>1, Elements, Zenon
    <3>2. PICK n \in Nat : n = Cardinality(Unread(e, b))
      BY UnreadFinite
    <3>3. Open(e, b, r, n)
      BY <1>4, <2>0, <2>1, <3>1, <3>2, Zenon DEF BufferPhase, Flipped, Draining, Drained
    <3>4. flip_reqs'[e][b] = <<r + n>>
      BY <1>2, <1>3, <1>6, <3>3, SMTT(30) DEF Open
    <3>5. Flipped(e, b, r, n)'
      BY <1>5, <1>6, <3>3, <3>4, Zenon DEF Flipped, Open
    <3>6. QED
      BY <1>4, <1>5, <2>1, <3>1, <3>2, <3>5, Zenon DEF BufferPhase
  <2>2. CASE f = e /\ c # b
    <3>1. PICK r \in Int : r = lmb_r_counts[Peer[e]][c]
      BY <1>1, Elements, Zenon
    <3>2. PICK n \in Nat : n = Cardinality(Unread(e, c))
      BY UnreadFinite
    <3>3. /\ lmb_w_avail'[e][c] = lmb_w_avail[e][c]
          /\ flip_reqs'[e][c] = flip_reqs[e][c]
          /\ AcksDue(e, c)' = AcksDue(e, c)
      BY <1>5, <1>6, <2>2, Zenon
    <3>4. \/ Open(e, c, r, n)' \/ Flipped(e, c, r, n)' \/ Draining(e, c, r, n)'
          \/ Drained(e, c, r, n)'
      BY <1>2, <1>7, <2>0, <2>2, <3>1, <3>2, <3>3, Zenon
         DEF BufferPhase, Open, Flipped, Draining, Drained
    <3>5. QED
      BY <1>4, <1>5, <2>2, <3>1, <3>2, <3>4, Zenon DEF BufferPhase
  <2>3. CASE f # e
    <3>1. /\ lmb_w_avail'[f][c] = lmb_w_avail[f][c]
          /\ flip_reqs'[f][c] = flip_reqs[f][c]
          /\ cur_write_lmb'[f] = cur_write_lmb[f]
          /\ cur_write_count'[f] = cur_write_count[f]
          /\ lmb_r_counts' = lmb_r_counts
      BY <1>4, <1>6, <1>7, <2>3, Zenon
    <3>2. QED
      BY <1>5, <2>0, <3>1, PhaseFrame, Zenon
  <2>4. QED
    BY <2>1, <2>2, <2>3
<1>13. QED
  BY <1>9, <1>10, <1>11, <1>12 DEF BufferInv

-----------------------------------------------------------------------------
(* The reader's side.                                                       *)

(* What counting in a buffer does to the counters and acknowledgements.    *)
LEMMA AdjustEffect ==
  ASSUME TypeOK, NEW e \in EP, NEW b \in Buffers, NEW x \in Int,
         AdjustReadCount(Peer[e], b, x), UNCHANGED flip_acks
  PROVE  /\ lmb_r_counts'[Peer[e]][b] = lmb_r_counts[Peer[e]][b] + x
         /\ lmb_r_counts[Peer[e]][b] + x = 0 => AcksDue(e, b)' = AcksDue(e, b) + 1
         /\ lmb_r_counts[Peer[e]][b] + x # 0 => AcksDue(e, b)' = AcksDue(e, b)
         /\ \A g \in EP, c \in Buffers : (g # e \/ c # b) =>
               /\ lmb_r_counts'[Peer[g]][c] = lmb_r_counts[Peer[g]][c]
               /\ AcksDue(g, c)' = AcksDue(g, c)
<1>1. Peer[e] \in EP /\ out_short_hdrs[Peer[e]][b] \in Nat /\ flip_acks[Peer[e]][b] \in Nat
  BY Elements, Zenon
<1>2. lmb_r_counts'[Peer[e]][b] = lmb_r_counts[Peer[e]][b] + x
  BY <1>1, Zenon DEF AdjustReadCount, TypeOK
<1>3. ASSUME lmb_r_counts[Peer[e]][b] + x = 0
      PROVE  AcksDue(e, b)' = AcksDue(e, b) + 1
  <2>1. out_short_hdrs'[Peer[e]][b] = out_short_hdrs[Peer[e]][b] + 1
    BY <1>1, <1>3, Zenon DEF AdjustReadCount, TypeOK
  <2>2. QED
    BY <1>1, <2>1 DEF AcksDue
<1>4. ASSUME lmb_r_counts[Peer[e]][b] + x # 0
      PROVE  AcksDue(e, b)' = AcksDue(e, b)
  BY <1>4, Zenon DEF AdjustReadCount, AcksDue
<1>5. ASSUME NEW g \in EP, NEW c \in Buffers, g # e \/ c # b
      PROVE  /\ lmb_r_counts'[Peer[g]][c] = lmb_r_counts[Peer[g]][c]
             /\ AcksDue(g, c)' = AcksDue(g, c)
  <2>1. Peer[g] \in EP /\ (Peer[g] # Peer[e] \/ c # b)
    BY <1>5, EndpointAssumption
  <2>2. lmb_r_counts'[Peer[g]][c] = lmb_r_counts[Peer[g]][c]
    BY <1>1, <2>1, Zenon DEF AdjustReadCount, TypeOK
  <2>3. out_short_hdrs'[Peer[g]][c] = out_short_hdrs[Peer[g]][c]
    BY <1>1, <2>1, Zenon DEF AdjustReadCount, TypeOK
  <2>4. QED
    BY <2>2, <2>3, Zenon DEF AcksDue
<1>6. QED
  BY <1>2, <1>3, <1>4, <1>5, Zenon

(* handle_long_msgptr: one message less in the buffer, one more counted.   *)
LEMMA HandleLongInv ==
  ASSUME EndpointInv, NEW m \in Msg, NEW b \in Buffers, HandleLongMsgptr(m, b)
  PROVE  QueueInv' /\ BufferInv'
<1>1. TypeOK /\ QueueInv /\ WriterInv /\ UnreadDisjoint
  BY DEF EndpointInv
<1>2. PICK e \in EP : e = EpOf[m]
  BY EndpointAssumption
<1>3. /\ place[m] = b
      /\ AdjustReadCount(Peer[e], b, 1)
      /\ place' = [place EXCEPT ![m] = Idle]
      /\ dest_ptr' = [dest_ptr EXCEPT ![m] = 0]
      /\ UNCHANGED <<out_long_hdrs, writer, flip_reqs, flip_acks>>
  BY <1>2, Zenon DEF HandleLongMsgptr
<1>4. place[m] # Queued
  BY <1>3, BufferFacts
<1>5. QueueInv'
  BY <1>1, <1>3, <1>4, QueueFrame, Zenon
<1>6. /\ \A n \in Msg \ {m} : place'[n] = place[n] /\ dest_ptr'[n] = dest_ptr[n]
      /\ place'[m] \notin Buffers
  BY <1>1, <1>3, BufferFacts, Zenon DEF TypeOK
<1>7. Unread(e, b)' = Unread(e, b) \ {m} /\ m \in Unread(e, b)
  BY <1>2, <1>3, <1>6, Zenon DEF Unread
<1>8. \A f \in EP, c \in Buffers : (f # e \/ c # b) => Unread(f, c)' = Unread(f, c)
  BY <1>2, <1>3, <1>6, Zenon DEF Unread
<1>9. \A f \in EP, c \in Buffers : \A n \in Unread(f, c)' : n \in Unread(f, c) /\ n \in Msg \ {m}
  BY <1>6, Zenon DEF Unread
<1>10. WriterInv'
  <2> SUFFICES ASSUME NEW f \in EP
               PROVE  /\ ~lmb_w_avail[f][cur_write_lmb[f]] => cur_write_count[f] = 0
                      /\ lmb_w_avail[f][cur_write_lmb[f]] =>
                           \A n \in Unread(f, cur_write_lmb[f])' :
                             dest_ptr'[n] + PayloadSize[n] <= cur_write_offset[f]
    BY <1>3, Zenon DEF WriterInv, writer
  <2>1. PICK c \in Buffers : c = cur_write_lmb[f] /\ c = cur_write_lmb'[f]
    BY <1>1, <1>3 DEF TypeOK, writer
  <2>2. QED
    BY <1>1, <1>6, <1>9, <2>1, Zenon DEF WriterInv
<1>11. UnreadDisjoint'
  BY <1>1, <1>6, Zenon DEF UnreadDisjoint
<1>12. ASSUME NEW f \in EP, NEW c \in Buffers
       PROVE  BufferPhase(f, c)'
  <2>0. BufferPhase(f, c)
    BY DEF EndpointInv
  <2>1. CASE f = e /\ c = b
    <3>1. PICK r \in Int : r = lmb_r_counts[Peer[e]][b]
      BY <1>1, Elements, Zenon
    <3>2. PICK n \in Nat : n = Cardinality(Unread(e, b))
      BY UnreadFinite
    <3>3. n > 0 /\ Cardinality(Unread(e, b)') = n - 1
      BY <1>7, <3>2, UnreadFinite, FS_RemoveElement, FS_EmptySet
    <3>4. /\ lmb_r_counts'[Peer[e]][b] = r + 1
          /\ r + 1 = 0 => AcksDue(e, b)' = AcksDue(e, b) + 1
          /\ r + 1 # 0 => AcksDue(e, b)' = AcksDue(e, b)
      BY <1>1, <1>3, <3>1, AdjustEffect
    <3>5. Open(e, b, r, n) \/ Flipped(e, b, r, n) \/ Draining(e, b, r, n)
      BY <2>0, <2>1, <3>1, <3>2, <3>3 DEF BufferPhase, Drained
    <3>6. Open(e, b, r, n) => Open(e, b, r + 1, n - 1)'
      BY <1>3, <3>3, <3>4 DEF Open, writer
    <3>7. Flipped(e, b, r, n) => Flipped(e, b, r + 1, n - 1)'
      BY <1>3, <3>3, <3>4 DEF Flipped, writer
    <3>8. Draining(e, b, r, n) => Draining(e, b, r + 1, n - 1)' \/ Drained(e, b, r + 1, n - 1)'
      BY <1>3, <3>3, <3>4 DEF Draining, Drained, writer
    <3>9. QED
      BY <2>1, <3>3, <3>4, <3>5, <3>6, <3>7, <3>8, Zenon DEF BufferPhase
  <2>2. CASE f # e \/ c # b
    <3>1. /\ lmb_r_counts'[Peer[f]][c] = lmb_r_counts[Peer[f]][c]
          /\ AcksDue(f, c)' = AcksDue(f, c)
      BY <1>1, <1>3, <2>2, AdjustEffect
    <3>2. QED
      BY <1>3, <1>8, <2>0, <2>2, <3>1, PhaseFrame, Zenon DEF writer
  <2>3. QED
    BY <2>1, <2>2
<1>13. QED
  BY <1>5, <1>10, <1>11, <1>12 DEF BufferInv

(* handle_flip_request: the count is subtracted, and a buffer whose        *)
(* messages have all been handled is acknowledged at once.                 *)
LEMMA FlipRequestInv ==
  ASSUME EndpointInv, NEW e \in EP, NEW b \in Buffers, HandleFlipRequest(e, b)
  PROVE  QueueInv' /\ BufferInv'
<1>1. TypeOK /\ QueueInv /\ WriterInv /\ UnreadDisjoint /\ BufferPhase(e, b)
  BY DEF EndpointInv
<1>2. PICK r \in Int : r = lmb_r_counts[Peer[e]][b]
  BY <1>1, Elements, SMTT(30)
<1>3. PICK n \in Nat : n = Cardinality(Unread(e, b))
  BY UnreadFinite
<1>4. Flipped(e, b, r, n)
  BY <1>1, <1>2, <1>3 DEF BufferPhase, Open, Draining, Drained, HandleFlipRequest
<1>5. Head(flip_reqs[e][b]) = r + n /\ Tail(flip_reqs[e][b]) = <<>> /\ -(r + n) \in Int
  BY <1>4 DEF Flipped
<1>6. /\ AdjustReadCount(Peer[e], b, -(r + n))
      /\ flip_reqs' = [flip_reqs EXCEPT ![e][b] = <<>>]
      /\ UNCHANGED <<out_long_hdrs, writer, place, dest_ptr, flip_acks>>
  BY <1>5, Zenon DEF HandleFlipRequest
<1>7. /\ flip_reqs'[e][b] = <<>>
      /\ \A f \in EP, c \in Buffers : (f # e \/ c # b) => flip_reqs'[f][c] = flip_reqs[f][c]
  BY <1>1, <1>6, Zenon DEF TypeOK
<1>8. /\ lmb_r_counts'[Peer[e]][b] = r + -(r + n)
      /\ r + -(r + n) = 0 => AcksDue(e, b)' = AcksDue(e, b) + 1
      /\ r + -(r + n) # 0 => AcksDue(e, b)' = AcksDue(e, b)
      /\ \A g \in EP, c \in Buffers : (g # e \/ c # b) =>
            /\ lmb_r_counts'[Peer[g]][c] = lmb_r_counts[Peer[g]][c]
            /\ AcksDue(g, c)' = AcksDue(g, c)
  BY <1>1, <1>2, <1>5, <1>6, AdjustEffect, SMTT(30)
<1>9. \A f \in EP, c \in Buffers : Unread(f, c)' = Unread(f, c)
  BY <1>6 DEF Unread
<1>10. QueueInv'
  BY <1>1, <1>6, SMTT(30) DEF QueueInv
<1>11. UnreadDisjoint'
  BY <1>1, <1>6 DEF UnreadDisjoint
<1>12. WriterInv'
  BY <1>1, <1>6, <1>9, Zenon DEF WriterInv, writer, TypeOK
<1>13. ASSUME NEW f \in EP, NEW c \in Buffers
       PROVE  BufferPhase(f, c)'
  <2>1. CASE f = e /\ c = b
    <3>1. r + -(r + n) = -n
      OBVIOUS
    <3>2. Draining(e, b, -n, n)' \/ Drained(e, b, -n, n)'
      BY <1>4, <1>6, <1>7, <1>8, <3>1 DEF Flipped, Draining, Drained, writer
    <3>3. QED
      BY <1>3, <1>8, <1>9, <2>1, <3>1, <3>2, Zenon DEF BufferPhase
  <2>2. CASE f # e \/ c # b
    <3>1. BufferPhase(f, c)
      BY DEF EndpointInv
    <3>2. QED
      BY <1>6, <1>7, <1>8, <1>9, <2>2, <3>1, PhaseFrame, Zenon DEF writer
  <2>3. QED
    BY <2>1, <2>2
<1>14. QED
  BY <1>10, <1>11, <1>12, <1>13 DEF BufferInv

(* handle_flip_ack: the drained buffer is open again, and empty.           *)
LEMMA FlipAckInv ==
  ASSUME EndpointInv, NEW g \in EP, NEW b \in Buffers, HandleFlipAck(g, b)
  PROVE  QueueInv' /\ BufferInv'
<1>1. TypeOK /\ QueueInv /\ WriterInv /\ UnreadDisjoint
  BY DEF EndpointInv
<1>2. PICK e \in EP : e = Peer[g] /\ Peer[e] = g
  BY EndpointAssumption
<1>3. /\ flip_acks[g][b] > 0
      /\ flip_acks' = [flip_acks EXCEPT ![g][b] = @ - 1]
      /\ lmb_w_avail' = [lmb_w_avail EXCEPT ![e][b] = TRUE]
      /\ UNCHANGED <<queues, cur_write_lmb, cur_write_offset, cur_write_count,
                     lmb_r_counts, place, dest_ptr, flip_reqs>>
  BY <1>2 DEF HandleFlipAck
<1>4. /\ lmb_w_avail'[e][b] = TRUE
      /\ \A f \in EP, c \in Buffers : (f # e \/ c # b) =>
            lmb_w_avail'[f][c] = lmb_w_avail[f][c]
  BY <1>1, <1>3, Zenon DEF TypeOK
<1>5. AcksDue(e, b) > 0 /\ AcksDue(e, b)' = AcksDue(e, b) - 1
  <2>1. flip_acks[g][b] \in Nat /\ out_short_hdrs[g][b] \in Nat
    BY <1>1, Elements
  <2>2. flip_acks'[g][b] = flip_acks[g][b] - 1
    BY <1>1, <1>3, Zenon DEF TypeOK
  <2>3. QED
    BY <1>2, <1>3, <2>1, <2>2 DEF AcksDue, queues
<1>6. ASSUME NEW f \in EP, NEW c \in Buffers, f # e \/ c # b
      PROVE  AcksDue(f, c)' = AcksDue(f, c)
  <2>1. Peer[f] \in EP /\ (Peer[f] # g \/ c # b)
    BY <1>2, <1>6, EndpointAssumption
  <2>2. flip_acks'[Peer[f]][c] = flip_acks[Peer[f]][c]
    BY <1>1, <1>3, <2>1, Zenon DEF TypeOK
  <2>3. QED
    BY <1>3, <2>2, Zenon DEF AcksDue, queues
<1>7. \A f \in EP, c \in Buffers : Unread(f, c)' = Unread(f, c)
  BY <1>3, Zenon DEF Unread
<1>8. PICK r \in Int : r = lmb_r_counts[Peer[e]][b]
  BY <1>1, Elements, SMTT(30)
<1>9. PICK n \in Nat : n = Cardinality(Unread(e, b))
  BY UnreadFinite
<1>10. Drained(e, b, r, n)
  <2>1. BufferPhase(e, b)
    BY DEF EndpointInv
  <2>2. QED
    BY <1>5, <1>8, <1>9, <2>1 DEF BufferPhase, Open, Flipped, Draining
<1>11. Unread(e, b) = {}
  BY <1>9, <1>10, UnreadFinite, FS_EmptySet, Zenon DEF Drained
<1>12. QueueInv'
  BY <1>1, <1>3 DEF QueueInv, queues
<1>13. UnreadDisjoint'
  BY <1>1, <1>3, Zenon DEF UnreadDisjoint
<1>14. WriterInv'
  <2> SUFFICES ASSUME NEW f \in EP
               PROVE  /\ ~lmb_w_avail'[f][cur_write_lmb[f]] => cur_write_count[f] = 0
                      /\ lmb_w_avail'[f][cur_write_lmb[f]] =>
                           \A m \in Unread(f, cur_write_lmb[f])' :
                             dest_ptr[m] + PayloadSize[m] <= cur_write_offset[f]
    BY <1>3, Zenon DEF WriterInv
  <2>1. PICK c \in Buffers : c = cur_write_lmb[f] /\ c = cur_write_lmb'[f]
    BY <1>1, <1>3 DEF TypeOK
  <2>2. CASE f = e /\ c = b
    BY <1>4, <1>7, <1>11, <2>1, <2>2
  <2>3. CASE f # e \/ c # b
    <3>1. lmb_w_avail'[f][c] = lmb_w_avail[f][c] /\ Unread(f, c)' = Unread(f, c)
      BY <1>4, <1>7, <2>3, Zenon
    <3>2. QED
      BY <1>1, <2>1, <3>1, Zenon DEF WriterInv
  <2>4. QED
    BY <2>2, <2>3, Zenon
<1>15. ASSUME NEW f \in EP, NEW c \in Buffers
       PROVE  BufferPhase(f, c)'
  <2>1. CASE f = e /\ c = b
    <3>1. b = cur_write_lmb[e] => cur_write_count[e] = 0
      BY <1>1, <1>10, Zenon DEF WriterInv, Drained
    <3>2. Open(e, b, r, n)'
      BY <1>3, <1>4, <1>5, <1>10, <3>1 DEF Open, Drained
    <3>3. QED
      BY <1>3, <1>7, <1>8, <1>9, <2>1, <3>2, Zenon DEF BufferPhase
  <2>2. CASE f # e \/ c # b
    <3>1. BufferPhase(f, c)
      BY Zenon DEF EndpointInv
    <3>2. QED
      BY <1>3, <1>4, <1>6, <1>7, <2>2, <3>1, PhaseFrame, Zenon
  <2>3. QED
    BY <2>1, <2>2
<1>16. QED
  BY <1>12, <1>13, <1>14, <1>15 DEF BufferInv
-----------------------------------------------------------------------------
(* The constructor's state satisfies the invariant.                        *)
LEMMA InitInv == Init => EndpointInv
<1> SUFFICES ASSUME Init PROVE EndpointInv
  OBVIOUS
<1>1. TypeOK
  BY BufferFacts DEF Init, TypeOK
<1>2. QueueInv
  BY DEF Init, QueueInv
<1>3. \A e, b : b \in Buffers => Unread(e, b) = {}
  BY BufferFacts DEF Init, Unread
<1>4. WriterInv
  BY <1>3, BufferFacts, Zenon DEF Init, WriterInv
<1>5. UnreadDisjoint
  BY BufferFacts, Zenon DEF Init, UnreadDisjoint
<1>6. ASSUME NEW e \in EP, NEW b \in Buffers
      PROVE  BufferPhase(e, b)
  <2>1. Peer[e] \in EP
    BY EndpointAssumption
  <2>2. Cardinality(Unread(e, b)) = 0
    BY <1>3, FS_EmptySet
  <2>3. /\ AcksDue(e, b) = 0 /\ lmb_r_counts[Peer[e]][b] = 0 /\ cur_write_count[e] = 0
        /\ lmb_w_avail[e][b] /\ flip_reqs[e][b] = <<>>
    BY <2>1 DEF Init, AcksDue
  <2>4. QED
    BY <2>2, <2>3 DEF BufferPhase, Open
<1>7. QED
  BY <1>1, <1>2, <1>4, <1>5, <1>6 DEF EndpointInv

(* Every step of push_messages, enqueue_message and the handlers keeps it. *)
LEMMA InvStep == EndpointInv /\ [Next]_vars => EndpointInv'
<1> SUFFICES ASSUME EndpointInv, [Next]_vars
             PROVE  EndpointInv'
  OBVIOUS
<1>1. TypeOK /\ TypeOK'
  BY TypeStep DEF EndpointInv
<1>2. ASSUME NEW e \in EP, EndpointStep(e)
      PROVE  QueueInv' /\ BufferInv'
  <2>1. CASE PushDirect(e)
    BY <2>1, PushDirectInv, Zenon
  <2>2. CASE PushLmb(e)
    BY <2>2, PushLmbInv
  <2>3. CASE FlipLmb(e)
    BY <2>3, FlipLmbInv
  <2>4. ASSUME NEW b \in Buffers, PushShort(e, b)
        PROVE  QueueInv' /\ BufferInv'
    BY <2>4, PushShortInv
  <2>5. ASSUME NEW b \in Buffers, HandleFlipRequest(e, b)
        PROVE  QueueInv' /\ BufferInv'
    BY <2>5, FlipRequestInv
  <2>6. ASSUME NEW b \in Buffers, HandleFlipAck(e, b)
        PROVE  QueueInv' /\ BufferInv'
    BY <2>6, FlipAckInv
  <2>7. QED
    BY <1>2, <2>1, <2>2, <2>3, <2>4, <2>5, <2>6 DEF EndpointStep
<1>3. ASSUME NEW m \in Msg, MessageStep(m)
      PROVE  QueueInv' /\ BufferInv'
  <2>1. ASSUME NEW pending \in BOOLEAN, EnqueueMessage(m, pending)
        PROVE  QueueInv' /\ BufferInv'
    BY <2>1, EnqueueInv, Zenon
  <2>2. CASE AssignSrcdata(m)
    BY <2>2, AssignInv
  <2>3. CASE HandleDirect(m)
    BY <2>3, HandleDirectInv
  <2>4. ASSUME NEW b \in Buffers, HandleLongMsgptr(m, b)
        PROVE  QueueInv' /\ BufferInv'
    BY <2>4, HandleLongInv
  <2>5. QED
    BY <1>3, <2>1, <2>2, <2>3, <2>4, Zenon DEF MessageStep
<1>4. ASSUME UNCHANGED vars
      PROVE  QueueInv' /\ BufferInv'
  <2>1. SameContents
    BY <1>4 DEF SameContents, vars, network
  <2>2. \A e \in EP, b \in Buffers : AcksDue(e, b)' = AcksDue(e, b)
    BY <1>4, Zenon DEF AcksDue, vars, network, queues
  <2>3. BufferInv'
    BY <1>1, <1>4, <2>1, <2>2, BufferFrame DEF BufferInv, EndpointInv, vars, network
  <2>4. QueueInv'
    BY <1>4 DEF QueueInv, EndpointInv, vars, network, queues
  <2>5. QED
    BY <2>3, <2>4, Zenon
<1>5. QueueInv' /\ BufferInv'
  BY <1>2, <1>3, <1>4 DEF Next
<1>6. QED
  BY <1>1, <1>5 DEF EndpointInv, BufferInv

(***************************************************************************)
(* The flow control of push_messages and the flip handlers keeps every     *)
(* buffer in one of its four phases, for any number of endpoints, buffers  *)
(* and messages and any payload sizes.                                     *)
(***************************************************************************)
THEOREM EndpointInvariant == Spec => []EndpointInv
<1>1. QED
  BY InitInv, InvStep, PTL DEF Spec

(***************************************************************************)
(* push_messages never overwrites a payload that has not been handled.     *)
(***************************************************************************)
THEOREM NoOverwrite == Spec => []UnreadDisjoint
<1>1. EndpointInv => UnreadDisjoint
  BY DEF EndpointInv
<1>2. QED
  BY <1>1, EndpointInvariant, PTL

(***************************************************************************)
(* A FLIP_ACK stands for exactly one drained buffer, whatever the order in *)
(* which flip request and messages were handled.                           *)
(***************************************************************************)
THEOREM AcksAreExact == Spec => []AckMeansDrained
<1>1. EndpointInv => AckMeansDrained
  <2> SUFFICES ASSUME EndpointInv, NEW e \in EP, NEW b \in Buffers
               PROVE  /\ AcksDue(e, b) <= 1
                      /\ AcksDue(e, b) = 1 => /\ Unread(e, b) = {}
                                              /\ flip_reqs[e][b] = <<>>
                                              /\ ~lmb_w_avail[e][b]
    BY Zenon DEF AckMeansDrained
  <2>1. BufferPhase(e, b)
    BY DEF EndpointInv
  <2>2. Cardinality(Unread(e, b)) = 0 => Unread(e, b) = {}
    BY UnreadFinite, FS_EmptySet
  <2>3. QED
    BY <2>1, <2>2 DEF BufferPhase, Open, Flipped, Draining, Drained
<1>2. QED
  BY <1>1, EndpointInvariant, PTL

(***************************************************************************)
(* A buffer the writer may not use has always something outstanding that   *)
(* will give it back: the flow control cannot wedge.                       *)
(***************************************************************************)
THEOREM NeverWedged == Spec => []ClosedHasCause
<1>1. EndpointInv => ClosedHasCause
  <2> SUFFICES ASSUME EndpointInv, NEW e \in EP, NEW b \in Buffers, ~lmb_w_avail[e][b]
               PROVE  \/ flip_reqs[e][b] # <<>> \/ Unread(e, b) # {} \/ AcksDue(e, b) > 0
    BY Zenon DEF ClosedHasCause
  <2>1. BufferPhase(e, b)
    BY DEF EndpointInv
  <2>2. Unread(e, b) = {} => Cardinality(Unread(e, b)) = 0
    <3>1. Cardinality({}) = 0
      BY FS_EmptySet
    <3>2. QED
      BY <3>1
  <2>3. PICK r, n : /\ n = Cardinality(Unread(e, b))
                    /\ Flipped(e, b, r, n) \/ Draining(e, b, r, n) \/ Drained(e, b, r, n)
    BY <2>1, Zenon DEF BufferPhase, Open
  <2>4. Flipped(e, b, r, n) => flip_reqs[e][b] # <<>>
    BY DEF Flipped
  <2>5. Draining(e, b, r, n) => Unread(e, b) # {}
    BY <2>2, <2>3 DEF Draining
  <2>6. Drained(e, b, r, n) => AcksDue(e, b) > 0
    BY DEF Drained
  <2>7. QED
    BY <2>3, <2>4, <2>5, <2>6, Zenon
<1>2. QED
  BY <1>1, EndpointInvariant, PTL
-----------------------------------------------------------------------------
(* The abstract owner and contents of the buffers, as Handoff maps them.   *)
OwnerOf ==
  [c \in EP \X Buffers |-> IF lmb_w_avail[c[1]][c[2]] THEN "writer" ELSE "reader"]

ContentsOf == [c \in EP \X Buffers |-> Unread(c[1], c[2])]

OnBuffers(f) == f = [c \in EP \X Buffers |-> f[c]]

Changed(f, c, v) == [f EXCEPT ![c] = v]

(* Two functions on the buffers that differ at one buffer only.            *)
LEMMA ChangeOne ==
  ASSUME NEW f, NEW g, NEW v, NEW e \in EP, NEW b \in Buffers,
         OnBuffers(f), OnBuffers(g),
         \A d \in EP, a \in Buffers :
           g[<<d, a>>] = IF d = e /\ a = b THEN v ELSE f[<<d, a>>]
  PROVE  g = Changed(f, <<e, b>>, v)
<1>1. ASSUME NEW c \in EP \X Buffers
      PROVE  g[c] = Changed(f, <<e, b>>, v)[c]
  <2>1. PICK d \in EP, a \in Buffers : c = <<d, a>>
    OBVIOUS
  <2>2. c = <<e, b>> <=> (d = e /\ a = b)
    BY <2>1
  <2>3. g[c] = IF c = <<e, b>> THEN v ELSE f[c]
    BY <2>1, <2>2
  <2>4. QED
    BY <2>3 DEF OnBuffers, Changed
<1>2. QED
  BY <1>1, Zenon DEF OnBuffers, Changed

(* Both are functions on the buffers, before and after a step.             *)
LEMMA MappedFunctions ==
  /\ OnBuffers(OwnerOf) /\ OnBuffers(OwnerOf')
  /\ OnBuffers(ContentsOf) /\ OnBuffers(ContentsOf')
BY Zenon DEF OnBuffers, OwnerOf, ContentsOf

(* A step that moves no message into or out of a buffer and opens or       *)
(* closes none is invisible to the handoff.                                *)
LEMMA HandoffStutter ==
  ASSUME SameContents, UNCHANGED lmb_w_avail
  PROVE  UNCHANGED <<OwnerOf, ContentsOf>>
<1>1. \A e \in EP, b \in Buffers : Unread(e, b)' = Unread(e, b)
  BY DEF Unread, SameContents
<1>2. ContentsOf' = ContentsOf
  BY <1>1 DEF ContentsOf
<1>3. OwnerOf' = OwnerOf
  BY DEF OwnerOf
<1>4. QED
  BY <1>2, <1>3

(* push_messages puts a message into the open buffer: the writer writes.   *)
LEMMA PushLmbWrites ==
  ASSUME EndpointInv, NEW e \in EP, PushLmb(e)
  PROVE  Handoff!Next
<1>1. TypeOK /\ QueueInv
  BY DEF EndpointInv
<1>2. PICK b \in Buffers : b = cur_write_lmb[e]
  BY <1>1 DEF TypeOK
<1>3. PICK m \in Msg : /\ LmbCandidate(e, m)
                       /\ place' = [place EXCEPT ![m] = b]
                       /\ UNCHANGED lmb_w_avail
  BY <1>2, Zenon DEF PushLmb
<1>4. EpOf[m] = e /\ place[m] = Queued
  BY <1>1, <1>3, HeadFacts, Zenon DEF LmbCandidate
<1>5. <<e, b>> \in EP \X Buffers
  OBVIOUS
<1>6. OwnerOf[<<e, b>>] = "writer"
  BY <1>2, <1>3, <1>5 DEF OwnerOf, LmbCandidate
<1>7. m \notin Unread(e, b)
  BY <1>4, BufferFacts, Zenon DEF Unread
<1>8. ASSUME NEW f \in EP, NEW c \in Buffers
      PROVE  Unread(f, c)' = IF f = e /\ c = b THEN Unread(e, b) \cup {m} ELSE Unread(f, c)
  <2>1. place'[m] = b /\ \A k \in Msg : k # m => place'[k] = place[k]
    BY <1>1, <1>3, Zenon DEF TypeOK
  <2>2. CASE f = e /\ c = b
    BY <1>4, <2>1, <2>2, Zenon DEF Unread
  <2>3. CASE ~(f = e /\ c = b)
    <3>1. m \notin Unread(f, c) /\ m \notin Unread(f, c)'
      BY <1>4, <2>1, <2>3, BufferFacts, Zenon DEF Unread
    <3>2. QED
      BY <2>1, <2>3, <3>1, Zenon DEF Unread
  <2>4. QED
    BY <2>2, <2>3
<1>9. ContentsOf' = Changed(ContentsOf, <<e, b>>, Unread(e, b) \cup {m})
  <2>1. \A d \in EP, a \in Buffers :
          ContentsOf'[<<d, a>>] = IF d = e /\ a = b THEN Unread(e, b) \cup {m}
                                                   ELSE ContentsOf[<<d, a>>]
    BY <1>8, Zenon DEF ContentsOf
  <2>2. QED
    BY <2>1, ChangeOne, MappedFunctions, SMTT(30)
<1>10. OwnerOf' = OwnerOf
  BY <1>3 DEF OwnerOf
<1>11. ContentsOf[<<e, b>>] = Unread(e, b)
  BY <1>5 DEF ContentsOf
<1>12. Handoff!Write(<<e, b>>, m)
  BY <1>6, <1>7, <1>9, <1>10, <1>11, Zenon DEF Handoff!Write, OwnerOf, ContentsOf, Changed
<1>13. QED
  BY <1>5, <1>12 DEF Handoff!Next

(* push_messages closes the full buffer: the writer hands it over.         *)
LEMMA FlipLmbHandsOver ==
  ASSUME EndpointInv, NEW e \in EP, FlipLmb(e)
  PROVE  Handoff!Next
<1>1. TypeOK
  BY DEF EndpointInv
<1>2. PICK b \in Buffers : b = cur_write_lmb[e]
  BY <1>1 DEF TypeOK
<1>3. /\ lmb_w_avail[e][b]
      /\ lmb_w_avail' = [lmb_w_avail EXCEPT ![e][b] = FALSE]
      /\ UNCHANGED place
  BY <1>2, Zenon DEF FlipLmb, LmbCandidate
<1>4. <<e, b>> \in EP \X Buffers
  OBVIOUS
<1>5. OwnerOf[<<e, b>>] = "writer"
  BY <1>3, <1>4 DEF OwnerOf
<1>6. ASSUME NEW f \in EP, NEW c \in Buffers
      PROVE  lmb_w_avail'[f][c] = IF f = e /\ c = b THEN FALSE ELSE lmb_w_avail[f][c]
  BY <1>1, <1>3, Zenon DEF TypeOK
<1>7. OwnerOf' = Changed(OwnerOf, <<e, b>>, "reader")
  <2>1. \A d \in EP, a \in Buffers :
          OwnerOf'[<<d, a>>] = IF d = e /\ a = b THEN "reader" ELSE OwnerOf[<<d, a>>]
    BY <1>6, Zenon DEF OwnerOf
  <2>2. QED
    BY <2>1, ChangeOne, MappedFunctions
<1>8. ContentsOf' = ContentsOf
  BY <1>3 DEF ContentsOf, Unread
<1>9. Handoff!HandOver(<<e, b>>)
  BY <1>5, <1>7, <1>8, Zenon DEF Handoff!HandOver, OwnerOf, ContentsOf, Changed
<1>10. QED
  BY <1>4, <1>9, Zenon DEF Handoff!Next

(* The handler of a message in a buffer takes it out: the reader reads.    *)
LEMMA HandleLongReads ==
  ASSUME EndpointInv, NEW m \in Msg, NEW b \in Buffers, HandleLongMsgptr(m, b)
  PROVE  Handoff!Next
<1>1. TypeOK
  BY DEF EndpointInv
<1>2. PICK e \in EP : e = EpOf[m]
  BY EndpointAssumption
<1>3. /\ place[m] = b
      /\ place' = [place EXCEPT ![m] = Idle]
      /\ UNCHANGED lmb_w_avail
  BY Zenon DEF HandleLongMsgptr, writer
<1>4. <<e, b>> \in EP \X Buffers
  OBVIOUS
<1>5. m \in Unread(e, b)
  BY <1>2, <1>3 DEF Unread
<1>6. ASSUME NEW f \in EP, NEW c \in Buffers
      PROVE  Unread(f, c)' = IF f = e /\ c = b THEN Unread(e, b) \ {m} ELSE Unread(f, c)
  BY <1>1, <1>2, <1>3, BufferFacts, Zenon DEF Unread, TypeOK
<1>7. ContentsOf' = Changed(ContentsOf, <<e, b>>, Unread(e, b) \ {m})
  <2>1. PICK rest : rest = Unread(e, b) \ {m}
    BY Zenon
  <2>2. \A d \in EP, a \in Buffers :
          ContentsOf'[<<d, a>>] = IF d = e /\ a = b THEN rest ELSE ContentsOf[<<d, a>>]
    BY <1>6, <2>1, Zenon DEF ContentsOf
  <2>3. ContentsOf' = Changed(ContentsOf, <<e, b>>, rest)
    BY <2>2, ChangeOne, MappedFunctions
  <2>4. QED
    BY <2>1, <2>3, Zenon
<1>8. OwnerOf' = OwnerOf
  BY <1>3, Zenon DEF OwnerOf
<1>9. ContentsOf[<<e, b>>] = Unread(e, b) /\ m \in ContentsOf[<<e, b>>]
  BY <1>4, <1>5 DEF ContentsOf
<1>10. Handoff!Read(<<e, b>>, m)
  BY <1>7, <1>8, <1>9, Zenon DEF Handoff!Read, OwnerOf, ContentsOf, Changed
<1>11. QED
  BY <1>4, <1>10 DEF Handoff!Next

(* handle_flip_ack reopens a buffer that the invariant says is drained:    *)
(* the empty buffer returns to its writer.                                 *)
LEMMA FlipAckReturns ==
  ASSUME EndpointInv, NEW g \in EP, NEW b \in Buffers, HandleFlipAck(g, b)
  PROVE  Handoff!Next
<1>1. TypeOK
  BY DEF EndpointInv
<1>2. PICK e \in EP : e = Peer[g] /\ Peer[e] = g
  BY EndpointAssumption
<1>3. /\ flip_acks[g][b] > 0
      /\ lmb_w_avail' = [lmb_w_avail EXCEPT ![e][b] = TRUE]
      /\ UNCHANGED place
  BY <1>2 DEF HandleFlipAck
<1>4. AcksDue(e, b) > 0
  BY <1>1, <1>2, <1>3, Elements DEF AcksDue
<1>5. PICK r, n : n = Cardinality(Unread(e, b)) /\ Drained(e, b, r, n)
  <2>1. BufferPhase(e, b)
    BY DEF EndpointInv
  <2>2. QED
    BY <1>4, <2>1 DEF BufferPhase, Open, Flipped, Draining
<1>6. Unread(e, b) = {}
  BY <1>5, UnreadFinite, FS_EmptySet, Zenon DEF Drained
<1>7. <<e, b>> \in EP \X Buffers
  OBVIOUS
<1>8. OwnerOf[<<e, b>>] = "reader" /\ ContentsOf[<<e, b>>] = {}
  BY <1>5, <1>6, <1>7, Zenon DEF OwnerOf, ContentsOf, Drained
<1>9. ASSUME NEW f \in EP, NEW c \in Buffers
      PROVE  lmb_w_avail'[f][c] = IF f = e /\ c = b THEN TRUE ELSE lmb_w_avail[f][c]
  BY <1>1, <1>3, Zenon DEF TypeOK
<1>10. OwnerOf' = Changed(OwnerOf, <<e, b>>, "writer")
  <2>1. \A d \in EP, a \in Buffers :
          OwnerOf'[<<d, a>>] = IF d = e /\ a = b THEN "writer" ELSE OwnerOf[<<d, a>>]
    BY <1>9, Zenon DEF OwnerOf
  <2>2. QED
    BY <2>1, ChangeOne, MappedFunctions
<1>11. ContentsOf' = ContentsOf
  BY <1>3 DEF ContentsOf, Unread
<1>12. Handoff!Return(<<e, b>>)
  BY <1>8, <1>10, <1>11, Zenon DEF Handoff!Return, OwnerOf, ContentsOf, Changed
<1>13. QED
  BY <1>7, <1>12 DEF Handoff!Next

(* Every step of the endpoints is a step of the handoff or invisible to it. *)
LEMMA HandoffStep ==
  ASSUME EndpointInv, [Next]_vars
  PROVE  [Handoff!Next]_(Handoff!vars)
<1> DEFINE Silent == UNCHANGED <<OwnerOf, ContentsOf>>
<1>0. TypeOK /\ QueueInv
  BY DEF EndpointInv
<1>1. ASSUME NEW e \in EP, EndpointStep(e)
      PROVE  Handoff!Next \/ Silent
  <2>1. CASE PushDirect(e)
    <3>1. PICK m \in Msg : /\ LongAtHead(e, m)
                           /\ place' = [place EXCEPT ![m] = Direct]
                           /\ UNCHANGED lmb_w_avail
      BY <2>1, Zenon DEF PushDirect, writer
    <3>2. place[m] \notin Buffers
      BY <1>0, <3>1, HeadFacts, BufferFacts
    <3>3. QED
      BY <1>0, <3>1, <3>2, MoveOutside, HandoffStutter, Zenon
  <2>2. CASE PushLmb(e)
    BY <2>2, PushLmbWrites
  <2>3. CASE FlipLmb(e)
    BY <2>3, FlipLmbHandsOver
  <2>4. ASSUME NEW b \in Buffers, PushShort(e, b)
        PROVE  Silent
    BY <2>4, HandoffStutter DEF PushShort, SameContents, writer
  <2>5. ASSUME NEW b \in Buffers, HandleFlipRequest(e, b)
        PROVE  Silent
    BY <2>5, HandoffStutter DEF HandleFlipRequest, SameContents, writer
  <2>6. ASSUME NEW b \in Buffers, HandleFlipAck(e, b)
        PROVE  Handoff!Next
    BY <2>6, FlipAckReturns
  <2>7. QED
    BY <1>1, <2>1, <2>2, <2>3, <2>4, <2>5, <2>6 DEF EndpointStep
<1>2. ASSUME NEW m \in Msg, MessageStep(m)
      PROVE  Handoff!Next \/ Silent
  <2>1. ASSUME NEW pending \in BOOLEAN, EnqueueMessage(m, pending)
        PROVE  Silent
    <3>1. /\ place[m] \notin Buffers
          /\ place' = [place EXCEPT ![m] = Queued]
          /\ UNCHANGED lmb_w_avail
      BY <2>1, BufferFacts, Zenon DEF EnqueueMessage, writer
    <3>2. QED
      BY <1>0, <3>1, MoveOutside, HandoffStutter, Zenon
  <2>2. CASE AssignSrcdata(m)
    BY <2>2, HandoffStutter, Zenon DEF AssignSrcdata, SameContents, writer, network
  <2>3. CASE HandleDirect(m)
    <3>1. /\ place[m] \notin Buffers
          /\ place' = [place EXCEPT ![m] = Idle]
          /\ UNCHANGED lmb_w_avail
      BY <2>3, BufferFacts, Zenon DEF HandleDirect, writer
    <3>2. QED
      BY <1>0, <3>1, MoveOutside, HandoffStutter, Zenon
  <2>4. ASSUME NEW b \in Buffers, HandleLongMsgptr(m, b)
        PROVE  Handoff!Next
    BY <2>4, HandleLongReads
  <2>5. QED
    BY <1>2, <2>1, <2>2, <2>3, <2>4 DEF MessageStep
<1>3. ASSUME UNCHANGED vars
      PROVE  Silent
  BY <1>3, HandoffStutter, Zenon DEF vars, SameContents, writer, network
<1>4. Handoff!Next \/ Silent
  BY <1>1, <1>2, <1>3 DEF Next
<1>5. QED
  BY <1>4, Zenon DEF Handoff!vars, OwnerOf, ContentsOf

(***************************************************************************)
(* The endpoints implement the handoff: whatever the network reorders,     *)
(* push_messages writes only into a buffer that is the writer's, and       *)
(* handle_flip_ack gives it back only when every message in it has been    *)
(* handled.                                                                *)
(***************************************************************************)
THEOREM HandoffImplemented == Spec => ImplementsHandoff
<1>1. Init => Handoff!Init
  BY BufferFacts DEF Init, Handoff!Init, Unread
<1>2. EndpointInv /\ [Next]_vars => [Handoff!Next]_(Handoff!vars)
  BY HandoffStep
<1>3. QED
  BY <1>1, <1>2, EndpointInvariant, PTL DEF Spec, ImplementsHandoff, Handoff!Spec
=============================================================================
