---------------------------- MODULE SrcDataPool ----------------------------
(***************************************************************************)
(* The source data pool of a node and the messages that go through it.     *)
(* enqueue_message first reserves spill memory for a payload that would    *)
(* have to be copied, then, holding the endpoint's mutex, asks the pool    *)
(* for a span and joins the endpoint's queue.  Without a span the message  *)
(* is queued all the same, in mode PAYLOAD_PENDING, and joins the pool's   *)
(* own queue; a span released by the receiver of an earlier message is     *)
(* handed to the first in that queue.  A pusher sends the message at the   *)
(* head of an endpoint's queue, unless it is pending, and deletes it.      *)
(*                                                                         *)
(* A PAYLOAD_COPY payload must be read before enqueue_message returns: its *)
(* caller may reuse the buffer at once, and is taken to do so.  A          *)
(* PAYLOAD_FREE payload, and a copy made while pending, is a heap buffer   *)
(* that the message owns and has to free.                                  *)
(***************************************************************************)
EXTENDS Integers, Sequences, FiniteSets

CONSTANTS
  Endpoint, Msg,  \* an Endpoint is the short or the long queue of one
  EpOf,           \* EpOf[m]: the endpoint m is sent through
  PayloadSize,    \* PayloadSize[m], positive
  Mode,           \* Mode[m]: the caller's "KEEP", "COPY" or "FREE"
  Contiguous,     \* messages with a ContiguousPayload; the others have a
                  \* TwoDPayload or a SpanPayload
  Registered,     \* messages whose payload lies in registered memory
  Exempt,         \* messages enqueued by always_allow_spilling threads
  TotalSize,      \* bytes in the pool
  BlockSize,      \* BLOCK_SIZE of round_up_size
  MaxSpillBytes,  \* max_spill_bytes, 0 for no limit
  StaleReads,     \* what payload_size of a deleted message may read as,
                  \* apart from its value
  Null

ASSUME PoolAssumption ==
  /\ EpOf \in [Msg -> Endpoint]
  /\ TotalSize \in Nat \ {0} /\ MaxSpillBytes \in Nat
  /\ PayloadSize \in [Msg -> 1 .. TotalSize]
  /\ Mode \in [Msg -> {"KEEP", "COPY", "FREE"}]
  /\ BlockSize \in Nat \ {0} /\ TotalSize % BlockSize = 0
  /\ \A m \in Msg \ Exempt :
       MaxSpillBytes # 0 /\ Mode[m] \in {"COPY", "FREE"} => PayloadSize[m] <= MaxSpillBytes
  /\ \A m \in Msg : Mode[m] = "FREE" => m \in Contiguous
  /\ StaleReads \subseteq Int
  /\ Null \notin {"caller", "copy", "enqueued", "reused"}

VARIABLES
  free_list,            \* spans [base, size]
  in_use,               \* [base, size, msg]
  pending_allocations,
  queue,                \* [e]: the endpoint's long queue
  stage,                \* [m]: where m is in its life
  spill,                \* messages with spill memory reserved
  current_spill_bytes,  \* a size_t: negative stands for what it wraps to
  misread,              \* history: a deleted message's payload_size was read
                        \* as another value
  sleeping,             \* suspended spillers that wait on the condvar
  payload_src,          \* [m]: "caller" (its buffer), "copy" or Null
  payload,              \* [m]: what payload points to holds the bytes as
                        \* they were "enqueued" or as they were "reused"
  owned                 \* [m]: heap buffers that m has yet to free

pool == <<free_list, in_use, pending_allocations>>
spilling == <<spill, current_spill_bytes, misread, sleeping>>
data == <<payload_src, payload, owned>>
vars == <<pool, queue, stage, spilling, data>>

(* The three enqueue_message functions: a payload that stays where it is   *)
(* is sent from there if it is contiguous and in registered memory.        *)
PayloadMode(m) ==
  IF Mode[m] = "KEEP" /\ m \in Contiguous \cap Registered THEN "KEEPREG" ELSE Mode[m]

Spills(m)   == PayloadMode(m) \in {"COPY", "FREE"}
UsesPool(m) == PayloadMode(m) # "KEEPREG"

(* Whether the payload source is a ContiguousPayload of mode PAYLOAD_FREE: *)
(* copy_data then frees it, and get_payload_mode says that it spilled.     *)
SourceIsFreed(m) == payload_src[m] = "copy" \/ (Mode[m] = "FREE" /\ m \in Contiguous)

RoundUp(n) == IF n % BlockSize = 0 THEN n ELSE n + (BlockSize - (n % BlockSize))

Bytes(spans) == UNION {s.base .. s.base + s.size - 1 : s \in spans}

Init ==
  /\ free_list = {[base |-> 0, size |-> TotalSize]}
  /\ in_use = {}
  /\ pending_allocations = <<>>
  /\ queue = [e \in Endpoint |-> <<>>]
  /\ stage = [m \in Msg |-> "new"]
  /\ spill = {}
  /\ current_spill_bytes = 0
  /\ misread = FALSE
  /\ sleeping = {}
  /\ payload_src = [m \in Msg |-> "caller"]
  /\ payload = [m \in Msg |-> Null]
  /\ owned = [m \in Msg |-> IF Mode[m] = "FREE" THEN 1 ELSE 0]
-----------------------------------------------------------------------------
SpillFits(m) ==
  \/ MaxSpillBytes = 0
  \/ m \in Exempt
  \/ current_spill_bytes + PayloadSize[m] \in 0 .. MaxSpillBytes

(* alloc_spill_memory, called by enqueue_message until it returns true.    *)
AllocSpillMemory(m) ==
  /\ Spills(m)
  /\ stage[m] = "new" \/ (stage[m] = "suspended" /\ m \notin sleeping)
  /\ IF SpillFits(m)
       THEN /\ spill' = spill \cup {m}
            /\ current_spill_bytes' = current_spill_bytes + PayloadSize[m]
            /\ stage' = [stage EXCEPT ![m] = "reserved"]
            /\ UNCHANGED sleeping
       ELSE /\ stage' = [stage EXCEPT ![m] = "suspended"]
            /\ sleeping' = sleeping \cup {m}
            /\ UNCHANGED <<spill, current_spill_bytes>>
  /\ UNCHANGED <<pool, queue, misread, data>>

(* Giving the bytes back without waking anybody.                           *)
ReleaseSpillQuietly(m, bytes) ==
  /\ spill' = spill \ {m}
  /\ current_spill_bytes' = current_spill_bytes - bytes
  /\ misread' = (misread \/ bytes # PayloadSize[m])
  /\ UNCHANGED sleeping

(* release_spill_memory wakes every suspended thread.                      *)
ReleaseSpillMemory(m, bytes) ==
  /\ spill' = spill \ {m}
  /\ current_spill_bytes' = current_spill_bytes - bytes
  /\ misread' = (misread \/ bytes # PayloadSize[m])
  /\ sleeping' = {}

(* The span alloc_srcptr takes for n bytes: an exact match or else the     *)
(* smallest that is larger, the first one in address order.                *)
Candidates(n) == {s \in free_list : s.size >= n}
Best(n) == CHOOSE s \in Candidates(n) :
             \A o \in Candidates(n) : s.size < o.size \/ (s.size = o.size /\ s.base <= o.base)

(* Taking the bytes from the start of the span, and leaving the start.     *)
CutFromStart(s, n) ==
  [base |-> s.base, size |-> n]

(* The bytes are cut from the end of the span; what is left stays free.    *)
CutFromEnd(s, n) ==
  [base |-> s.base + s.size - n, size |-> n]

(* Looking for a span although others have been waiting for longer.        *)
AllocatesOutOfTurn(m) == Candidates(RoundUp(PayloadSize[m])) # {}

(* "if our pending allocation queue is non-empty, they're first in line"   *)
Allocates(m) == pending_allocations = <<>> /\ Candidates(RoundUp(PayloadSize[m])) # {}

Take(m) ==
  LET n == RoundUp(PayloadSize[m])
      s == Best(n)
      cut == CutFromEnd(s, n)
  IN /\ in_use' = in_use \cup {[base |-> cut.base, size |-> n, msg |-> m]}
     /\ free_list' = (free_list \ {s}) \cup
          IF s.size = n THEN {} ELSE {[base |-> s.base, size |-> s.size - n]}

(* copy_data, then delete payload_src.                                     *)
CopyAndDelete(m, bytes) ==
  /\ payload' = [payload EXCEPT ![m] = bytes]
  /\ payload_src' = [payload_src EXCEPT ![m] = Null]
  /\ owned' = [owned EXCEPT ![m] = IF SourceIsFreed(m) THEN @ - 1 ELSE @]

(* The second half of enqueue_message, under the endpoint's mutex:         *)
(* reserve_srcdata, then the message joins the queue.                      *)
EnqueueInPlace(m) ==
  /\ ~UsesPool(m) /\ stage[m] = "new"
  /\ stage' = [stage EXCEPT ![m] = "ready"]
  /\ queue' = [queue EXCEPT ![EpOf[m]] = Append(@, m)]
  /\ payload' = [payload EXCEPT ![m] = "enqueued"]
  /\ UNCHANGED <<pool, spilling, payload_src, owned>>

MayEnqueue(m) == UsesPool(m) /\ stage[m] = (IF Spills(m) THEN "reserved" ELSE "new")

EnqueueAllocated(m) ==
  /\ MayEnqueue(m)
  /\ Allocates(m)
  /\ Take(m)
  /\ stage' = [stage EXCEPT ![m] = "ready"]
  /\ queue' = [queue EXCEPT ![EpOf[m]] = Append(@, m)]
  /\ IF Spills(m) THEN ReleaseSpillMemory(m, PayloadSize[m]) ELSE UNCHANGED spilling
  /\ CopyAndDelete(m, "enqueued")
  /\ UNCHANGED pending_allocations

JoinPending(m) ==
  /\ MayEnqueue(m)
  /\ ~Allocates(m)
  /\ stage' = [stage EXCEPT ![m] = "pending"]
  /\ pending_allocations' = Append(pending_allocations, m)
  /\ queue' = [queue EXCEPT ![EpOf[m]] = Append(@, m)]
  /\ UNCHANGED <<free_list, in_use, spilling>>

(* Leaving the copy to assign_srcdata_pointer.                             *)
EnqueuePendingUncopied(m) == JoinPending(m) /\ UNCHANGED data

(* "if we've been instructed to copy the data, that has to happen now"     *)
EnqueuePending(m) ==
  /\ JoinPending(m)
  /\ IF Mode[m] = "COPY"
       THEN /\ payload_src' = [payload_src EXCEPT ![m] = "copy"]
            /\ owned' = [owned EXCEPT ![m] = @ + 1]
            /\ UNCHANGED payload
       ELSE UNCHANGED data

(* push_messages sends the head of a queue and deletes it, and with it a   *)
(* payload source that was used in place; payload_mode is PAYLOAD_SRCPTR   *)
(* as soon as assign_srcdata_pointer has set it.                           *)
SendHead(e) ==
  /\ queue[e] # <<>>
  /\ LET m == Head(queue[e])
     IN /\ stage[m] \in {"ready", "assigned"}
        /\ stage' = [stage EXCEPT ![m] =
             IF m \in spill THEN "sent_early" ELSE IF UsesPool(m) THEN "sent" ELSE "done"]
        /\ payload_src' = [payload_src EXCEPT ![m] = Null]
  /\ queue' = [queue EXCEPT ![e] = Tail(@)]
  /\ UNCHANGED <<pool, spilling, payload, owned>>
-----------------------------------------------------------------------------
(* The free neighbours of span s: the bytes reached from it both ways.     *)
MergedLow(s) ==
  CHOOSE b \in 0 .. s.base : /\ b .. s.base - 1 \subseteq Bytes(free_list)
                             /\ b - 1 \notin Bytes(free_list)
MergedHigh(s) ==
  CHOOSE b \in s.base + s.size .. TotalSize : /\ s.base + s.size .. b - 1 \subseteq Bytes(free_list)
                                              /\ b \notin Bytes(free_list)

(* release_srcptr, on the receiver's MSGID_RELEASE_SRCPTR: the span absorbs *)
(* its free neighbours and goes to the first pending message if that fits, *)
(* what is left to the free list.  The loop that follows, over the other   *)
(* pending messages, calls alloc_srcptr while pending_allocations is not   *)
(* empty: it allocates nothing.                                            *)
ReleaseSrcptr(m) ==
  /\ stage[m] \in {"sent", "sent_early"}
  /\ \E s \in in_use :
       /\ s.msg = m
       /\ LET low  == MergedLow(s)
              high == MergedHigh(s)
              rest == {f \in free_list : f.base < low \/ f.base > high}
              p    == Head(pending_allocations)
              n    == RoundUp(PayloadSize[p])
              after == [stage EXCEPT ![m] = IF @ = "sent" THEN "done" ELSE "released_early"]
          IN IF pending_allocations # <<>> /\ high - low >= PayloadSize[p]
               THEN /\ in_use' = (in_use \ {s}) \cup {[base |-> low, size |-> n, msg |-> p]}
                    /\ free_list' = rest \cup
                         IF high - low > n THEN {[base |-> low + n, size |-> high - low - n]} ELSE {}
                    /\ pending_allocations' = Tail(pending_allocations)
                    /\ stage' = [after EXCEPT ![p] = "satisfied"]
               ELSE /\ in_use' = in_use \ {s}
                    /\ free_list' = rest \cup {[base |-> low, size |-> high - low]}
                    /\ stage' = after
                    /\ UNCHANGED pending_allocations
  /\ UNCHANGED <<queue, spilling, data>>

(* assign_srcdata_pointer, with no lock held: copy, set payload_mode ...   *)
AssignSrcdataPointer(m) ==
  /\ stage[m] = "satisfied"
  /\ CopyAndDelete(m, IF payload_src[m] = "caller" /\ Mode[m] = "COPY"
                         THEN "reused" ELSE "enqueued")
  /\ stage' = [stage EXCEPT ![m] = IF SourceIsFreed(m) THEN "assigned" ELSE "ready"]
  /\ UNCHANGED <<pool, queue, spilling>>

(* ... and give back the spill memory, reading payload_size of a message   *)
(* that a pusher may have sent and deleted in the meantime.                *)
AssignReleaseSpill(m) ==
  /\ stage[m] \in {"assigned", "sent_early", "released_early"}
  /\ \E bytes \in {PayloadSize[m]} \cup (IF stage[m] = "assigned" THEN {} ELSE StaleReads) :
       ReleaseSpillMemory(m, bytes)
  /\ stage' = [stage EXCEPT ![m] = CASE @ = "assigned" -> "ready"
                                     [] @ = "sent_early" -> "sent"
                                     [] OTHER -> "done"]
  /\ UNCHANGED <<pool, queue, data>>
-----------------------------------------------------------------------------
MessageStep(m) ==
  \/ AllocSpillMemory(m)
  \/ EnqueueInPlace(m) \/ EnqueueAllocated(m) \/ EnqueuePending(m)
  \/ ReleaseSrcptr(m)
  \/ AssignSrcdataPointer(m) \/ AssignReleaseSpill(m)

Next == (\E m \in Msg : MessageStep(m)) \/ (\E e \in Endpoint : SendHead(e))

Spec == Init /\ [][Next]_vars

(* Every thread that is not waiting on the condvar runs on, and the        *)
(* network delivers.                                                       *)
Fairness ==
  /\ \A m \in Msg : WF_vars(MessageStep(m))
  /\ \A e \in Endpoint : WF_vars(SendHead(e))

FairSpec == Spec /\ Fairness
-----------------------------------------------------------------------------
Stage == {"new", "suspended", "reserved", "pending", "satisfied", "assigned",
          "ready", "sent_early", "released_early", "sent", "done"}

(* The values the pool, the queues and the life of a message can have; the *)
(* message that a span is in use for is past its allocation.               *)
TypeOK ==
  /\ free_list \subseteq [base : 0 .. TotalSize - 1, size : 1 .. TotalSize]
  /\ in_use \subseteq [base : 0 .. TotalSize - 1, size : 1 .. TotalSize, msg : Msg]
  /\ pending_allocations \in Seq(Msg)
  /\ queue \in [Endpoint -> Seq(Msg)]
  /\ stage \in [Msg -> Stage]
  /\ spill \subseteq Msg
  /\ current_spill_bytes \in Int
  /\ misread \in BOOLEAN
  /\ sleeping \subseteq Msg
  /\ payload_src \in [Msg -> {"caller", "copy", Null}]
  /\ payload \in [Msg -> {"enqueued", "reused", Null}]
  /\ owned \in [Msg -> Int]

(* The life of a message.  Spill memory is held from alloc_spill_memory    *)
(* until the payload is in the pool; only a message that spills is ever    *)
(* suspended or gives spill memory back after it was assigned a span.      *)
MessageLife ==
  \A m \in Msg :
    /\ m \in spill <=> Spills(m) /\ stage[m] \in {"reserved", "pending", "satisfied",
                                        "assigned", "sent_early", "released_early"}
    /\ stage[m] \in {"suspended", "reserved", "assigned", "sent_early", "released_early"} =>
         Spills(m)
    /\ stage[m] \in {"pending", "satisfied", "sent"} => UsesPool(m)

(* A message has at most one span, from its allocation to its release.     *)
HolderLife ==
  /\ \A s \in in_use : UsesPool(s.msg) /\ stage[s.msg] \in
       {"satisfied", "assigned", "ready", "sent_early", "sent"}
  /\ \A s, t \in in_use : s.msg = t.msg => s = t

(* What lets a message wait in both queues: pending_allocations holds each *)
(* pending message once; an endpoint's queue holds each of its messages    *)
(* that are not sent once, and, behind a pending one, only pending ones or *)
(* ones that need no span; two pending messages of one endpoint wait in    *)
(* the same order in both.                                                 *)
QueueOrder ==
  /\ \A i, j \in DOMAIN pending_allocations :
       pending_allocations[i] = pending_allocations[j] => i = j
  /\ \A m \in Msg : stage[m] = "pending" <=>
       \E i \in DOMAIN pending_allocations : pending_allocations[i] = m
  /\ \A e \in Endpoint :
       /\ \A i \in DOMAIN queue[e] :
            /\ EpOf[queue[e][i]] = e
            /\ stage[queue[e][i]] \in {"pending", "satisfied", "assigned", "ready"}
       /\ \A i, j \in DOMAIN queue[e] : i < j =>
            /\ queue[e][i] # queue[e][j]
            /\ stage[queue[e][i]] = "pending" /\ UsesPool(queue[e][j]) =>
                 stage[queue[e][j]] = "pending"
            /\ \A a, b \in DOMAIN pending_allocations :
                 /\ pending_allocations[a] = queue[e][i]
                 /\ pending_allocations[b] = queue[e][j]
                 => a < b

(* Spans are whole blocks: round_up_size.                                  *)
WholeBlocks ==
  \A s \in free_list \cup in_use : s.base % BlockSize = 0 /\ s.size % BlockSize = 0

(* The pool is what it should be: the free spans and the spans in use do   *)
(* not overlap and cover the pool, and no two free spans touch, whatever   *)
(* the order of allocations and releases.                                  *)
PoolPartition ==
  /\ \A s, t \in free_list \cup in_use : s # t =>
       (s.base .. s.base + s.size - 1) \cap (t.base .. t.base + t.size - 1) = {}
  /\ Bytes(free_list \cup in_use) = 0 .. TotalSize - 1
  /\ \A s, t \in free_list : s.base + s.size # t.base

(***************************************************************************)
(* "called once we have reserved a space in a given outgoing queue so that *)
(* we can't get put behind somebody who failed a srcptr allocation (and    *)
(* might need us to go out the door to remove the blockage)": whoever      *)
(* holds a span is not stuck behind a pending message of the same queue.   *)
(***************************************************************************)
NoHolderBehindPending ==
  \A e \in Endpoint : \A i, j \in DOMAIN queue[e] :
    i < j /\ stage[queue[e][i]] = "pending" => \A s \in in_use : s.msg # queue[e][j]

(* Where the payload of a message is: its caller's until it is enqueued; a  *)
(* copy, or the caller's, while it waits for a span; then in the span, its *)
(* source deleted, or in place.                                            *)
PayloadLife(m) ==
  /\ stage[m] \in {"new", "suspended", "reserved"} =>
       /\ payload[m] = Null
       /\ payload_src[m] = "caller"
       /\ owned[m] = IF Mode[m] = "FREE" THEN 1 ELSE 0
  /\ stage[m] \in {"pending", "satisfied"} =>
       /\ payload[m] = Null
       /\ payload_src[m] = IF Mode[m] = "COPY" THEN "copy" ELSE "caller"
       /\ owned[m] = IF Mode[m] = "KEEP" THEN 0 ELSE 1
  /\ stage[m] \in {"assigned", "ready", "sent_early", "released_early", "sent", "done"} =>
       /\ payload[m] = "enqueued"
       /\ UsesPool(m) => payload_src[m] = Null
       /\ owned[m] = 0

(***************************************************************************)
(* Whatever the mode and however long the message waits for a span: what   *)
(* is sent are the bytes as they were when enqueue_message was called, a   *)
(* buffer the message owns (PAYLOAD_FREE, "take ownership of payload, free *)
(* when done") is freed once, nothing else is freed, and a message that is *)
(* deleted with a payload source is one that used it in place.             *)
(***************************************************************************)
PayloadKept ==
  \A m \in Msg :
    /\ PayloadLife(m)
    /\ payload[m] # "reused"
    /\ owned[m] \in {0, 1}
    /\ owned[m] = 1 => Spills(m) /\ payload[m] = Null
    /\ stage[m] \in {"ready", "assigned"} =>
         /\ payload[m] = "enqueued"
         /\ payload_src[m] # Null => PayloadMode(m) = "KEEPREG"
    /\ stage[m] = "done" => owned[m] = 0

(***************************************************************************)
(* current_spill_bytes is what the messages have reserved and not given    *)
(* back, and what non-exempt messages have reserved is within the limit,   *)
(* up to the first time that assign_srcdata_pointer reads another size     *)
(* from a message a pusher has deleted: nothing else makes it drift.       *)
(***************************************************************************)
PayloadBytes(msgs) == Cardinality({x \in msgs \X (1 .. TotalSize) : x[2] <= PayloadSize[x[1]]})

SpillExact ==
  ~misread => /\ current_spill_bytes = PayloadBytes(spill)
              /\ MaxSpillBytes # 0 => PayloadBytes(spill \ Exempt) <= MaxSpillBytes

(* Every message handed to enqueue_message is eventually sent and its span *)
(* released: neither the pool's queue nor the spill limit locks up, unless *)
(* there is a limit and the count checked against it has been spoilt.      *)
EveryMessageSent ==
  <>(\/ \A m \in Msg : stage[m] = "done"
     \/ misread /\ MaxSpillBytes # 0)

(***************************************************************************)
(* release_srcptr: "no?  then no other span will either": a free span that *)
(* is large enough for the first pending message does not stay unused.     *)
(* alloc_srcptr's early out breaks this, and no run checks it.             *)
(***************************************************************************)
FrontPendingFitsNowhere ==
  pending_allocations # <<>> =>
    \A s \in free_list : s.size < PayloadSize[Head(pending_allocations)]

(* What alloc_srcptr, release_srcptr and the spill counters maintain under *)
(* every interleaving of senders: types, the partition of the pool into    *)
(* spans of whole blocks, the exact count of spilled bytes, and the order  *)
(* in which messages wait.                                                 *)
PoolInv ==
  /\ TypeOK /\ PoolPartition /\ WholeBlocks /\ SpillExact
  /\ MessageLife /\ HolderLife /\ QueueOrder
=============================================================================
