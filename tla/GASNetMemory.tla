---------------------------- MODULE GASNetMemory ----------------------------
(***************************************************************************)
(* The memory that is spread over the segments of all nodes: GASNetMemory  *)
(* of mem_impl.cc.  Node 0 allocates its bytes (FreeBlocks); a thread of   *)
(* another node asks node 0 with a RemoteMemAllocRequest and waits for the *)
(* response in a HandlerReplyFuture (activemsg.h) on its own stack.        *)
(* The bytes are dealt out to the nodes in blocks of memory_stride.        *)
(***************************************************************************)
EXTENDS FreeBlocks

CONSTANTS
  Callers,     \* threads of nodes other than 0, one allocation each
  NumNodes,    \* num_nodes
  Stride       \* memory_stride; also the alignment of the allocator

ASSUME StrideAssumption ==
  /\ NumNodes \in Nat \ {0}
  /\ Stride \in Nat \ {0}
  /\ Alignment = Stride
  /\ Size % (Stride * NumNodes) = 0   \* size_per_node * num_nodes

VARIABLES
  pc,        \* where each caller is in RemoteMemAllocRequest::send_request
  net,       \* requests and responses under way
  valid,     \* HandlerReplyFuture::valid
  value,     \* HandlerReplyFuture::value
  setter,    \* where the response handler is in HandlerReplyFuture::set
  early,     \* the caller left wait() by the unlocked test
  result,    \* what send_request returned
  answer     \* ghost: what node 0 answered

rpcVars == <<pc, net, valid, value, setter, early, result, answer>>
vars == <<blockVars, rpcVars>>

Offsets == 0..(Size + 1) \cup {Failed}
Unset == -2   \* an uninitialised off_t

Init ==
  /\ BlockInit
  /\ pc = [c \in Callers |-> "idle"]
  /\ net = {}
  /\ valid = [c \in Callers |-> FALSE]
  /\ value = [c \in Callers |-> Unset]
  /\ setter = [c \in Callers |-> "none"]
  /\ early = [c \in Callers |-> FALSE]
  /\ result = [c \in Callers |-> Unset]
  /\ answer = [c \in Callers |-> Unset]

-----------------------------------------------------------------------------
(* A thread of node 0 calls alloc_bytes and free_bytes directly.  A thread *)
(* of another node cannot free: free_bytes_remote is assert(0).            *)

LocalAlloc ==
  /\ \E n \in Requests, r \in Offsets : AllocBytesLocal(n, r)
  /\ UNCHANGED rpcVars

LocalFree ==
  /\ \E n \in Requests, offset \in DOMAIN live \cup {ZeroSizeOffset} :
       FreeBytesLocal(offset, n)
  /\ UNCHANGED rpcVars

(* The remote call.                                                        *)

SendRequest(c) ==
  /\ pc[c] = "idle"
  /\ pc' = [pc EXCEPT ![c] = "check"]
  /\ \E n \in Requests : net' = net \cup {[type |-> "req", from |-> c, n |-> n]}
  /\ UNCHANGED <<blockVars, valid, value, setter, early, result, answer>>

HandleRequest ==
  \E m \in net, r \in Offsets :
    /\ m.type = "req"
    /\ AllocBytesLocal(m.n, r)
    /\ net' = (net \ {m}) \cup {[type |-> "resp", from |-> m.from, n |-> r]}
    /\ answer' = [answer EXCEPT ![m.from] = r]
    /\ UNCHANGED <<pc, valid, value, setter, early, result>>

MutexHeld(c) == setter[c] \in {"locked", "valid", "value"}

\* HandlerReplyFuture::set, one step per statement: the caller reads valid
\* without the mutex.
SetLock(c) ==
  /\ \E m \in net : m.type = "resp" /\ m.from = c
  /\ setter[c] = "none"
  /\ setter' = [setter EXCEPT ![c] = "locked"]
  /\ UNCHANGED <<blockVars, pc, net, valid, value, early, result, answer>>

SetValid(c) ==
  /\ setter[c] = "locked"
  /\ setter' = [setter EXCEPT ![c] = "valid"]
  /\ valid' = [valid EXCEPT ![c] = TRUE]
  /\ UNCHANGED <<blockVars, pc, net, value, early, result, answer>>

SetValue(c) ==
  /\ setter[c] = "valid"
  /\ setter' = [setter EXCEPT ![c] = "value"]
  /\ value' = [value EXCEPT ![c] = answer[c]]
  /\ UNCHANGED <<blockVars, pc, net, valid, early, result, answer>>

Woken(c) == IF pc[c] = "blocked" THEN [pc EXCEPT ![c] = "lock"] ELSE pc

SetUnlockUnheard(c) ==
  /\ setter[c] = "value"
  /\ setter' = [setter EXCEPT ![c] = "done"]
  /\ net' = {m \in net : m.from # c}
  /\ UNCHANGED <<blockVars, pc, valid, value, early, result, answer>>
SetUnlock(c) ==
  /\ setter[c] = "value"
  /\ setter' = [setter EXCEPT ![c] = "done"]
  /\ pc' = Woken(c)
  /\ net' = {m \in net : m.from # c}
  /\ UNCHANGED <<blockVars, valid, value, early, result, answer>>

\* HandlerReplyFuture::wait and get.
WaitCheck(c) ==
  /\ pc[c] = "check"
  /\ pc' = [pc EXCEPT ![c] = IF valid[c] THEN "get" ELSE "lock"]
  /\ early' = [early EXCEPT ![c] = valid[c]]
  /\ UNCHANGED <<blockVars, net, valid, value, setter, result, answer>>

WaitIgnoringMutex(c) ==
  /\ pc[c] = "lock"
  /\ pc' = [pc EXCEPT ![c] = IF valid[c] THEN "get" ELSE "blocked"]
  /\ UNCHANGED <<blockVars, net, valid, value, setter, early, result, answer>>
WaitLocked(c) ==
  /\ pc[c] = "lock"
  /\ ~MutexHeld(c)
  /\ pc' = [pc EXCEPT ![c] = IF valid[c] THEN "get" ELSE "blocked"]
  /\ UNCHANGED <<blockVars, net, valid, value, setter, early, result, answer>>

Get(c) ==
  /\ pc[c] = "get"
  /\ pc' = [pc EXCEPT ![c] = "done"]
  /\ result' = [result EXCEPT ![c] = value[c]]
  /\ UNCHANGED <<blockVars, net, valid, value, setter, early, answer>>

CallerStep(c) == SendRequest(c) \/ WaitCheck(c) \/ WaitLocked(c) \/ Get(c)

SetterStep(c) == SetLock(c) \/ SetValid(c) \/ SetValue(c) \/ SetUnlock(c)

Next ==
  \/ LocalAlloc
  \/ LocalFree
  \/ HandleRequest
  \/ \E c \in Callers : CallerStep(c) \/ SetterStep(c)

Spec == Init /\ [][Next]_vars

\* The handler threads of both nodes keep running, and so does a caller.
FairSpec ==
  /\ Spec
  /\ WF_vars(HandleRequest)
  /\ \A c \in Callers : WF_vars(CallerStep(c)) /\ WF_vars(SetterStep(c))

-----------------------------------------------------------------------------
(* Where a byte lives: the address arithmetic of the four access paths.    *)

\* get_bytes and put_bytes recompute node and block for every chunk; a chunk
\* never crosses a stride.
Place(offset) ==
  [node |-> (offset \div Stride) % NumNodes,
   addr |-> ((offset \div Stride) \div NumNodes) * Stride + (offset % Stride)]

\* get_batch and put_batch compute them once and step from chunk to chunk.
SkippingNext(s) ==
  [node |-> (s.node + 1) % NumNodes, blkid |-> s.blkid, blkoffset |-> 0]
NextChunk(s) ==
  LET node == (s.node + 1) % NumNodes
  IN  [node |-> node,
       blkid |-> IF node = 0 THEN s.blkid + 1 ELSE s.blkid,
       blkoffset |-> 0]

FirstChunk(offset) ==
  [node |-> (offset \div Stride) % NumNodes,
   blkid |-> (offset \div Stride) \div NumNodes,
   blkoffset |-> offset % Stride]

\* Where the batch path puts byte i of a transfer that starts at offset.
BatchPlace(offset, i) ==
  LET chunk[k \in 0..Size] ==
        IF k = 0 THEN FirstChunk(offset) ELSE NextChunk(chunk[k - 1])
      rel == (offset % Stride) + i
      c == chunk[rel \div Stride]
      within == IF rel < Stride THEN c.blkoffset + i
                                ELSE c.blkoffset + (rel % Stride)
  IN  [node |-> c.node, addr |-> c.blkid * Stride + within]

\* -1: the range is not on one node.
HomeNode(offset, n) ==
  LET start == offset \div Stride
      end == (offset + n - 1) \div Stride
  IN  IF start # end THEN -1 ELSE start % NumNodes

-----------------------------------------------------------------------------
(* Properties.                                                             *)

RpcType ==
  /\ pc \in [Callers -> {"idle", "check", "lock", "blocked", "get", "done"}]
  /\ net \subseteq [type : {"req", "resp"}, from : Callers,
                    n : Requests \cup Offsets]
  /\ valid \in [Callers -> BOOLEAN]
  /\ value \in [Callers -> Offsets \cup {Unset}]
  /\ setter \in [Callers -> {"none", "locked", "valid", "value", "done"}]
  /\ early \in [Callers -> BOOLEAN]
  /\ result \in [Callers -> Offsets \cup {Unset}]
  /\ answer \in [Callers -> Offsets \cup {Unset}]

TypeOK == BlockType /\ usage \in Nat /\ RpcType

\* "wait for result to come back" (send_request), on the path that takes the
\* mutex: a caller that waited under the future's mutex returns the offset
\* node 0 answered.
LockedWaitGetsAnswer ==
  \A c \in Callers : pc[c] = "done" /\ ~early[c] => result[c] = answer[c]

\* The same of every call, by whichever path wait() was left.  The unlocked
\* test of valid breaks this, and no run checks it.
CallGetsAnswer ==
  \A c \in Callers : pc[c] = "done" => result[c] = answer[c]

\* A remote allocation returns: the broadcast of the response reaches a caller
\* that waits, and a response that came first is seen.
EveryCallReturns ==
  \A c \in Callers : pc[c] = "check" ~> pc[c] = "done"

\* Every access path of GASNetMemory finds a byte of an allocated block in the
\* same place, wherever in the block the transfer starts.
PathsAgree ==
  \A o \in DOMAIN live : \A i \in 0..(live[o] - 1) : \A k \in 0..i :
    BatchPlace(o + k, i - k) = Place(o + i)

\* No two bytes that callers hold share a place, and every place is inside
\* its node's segment.
PlacesDistinct ==
  /\ \A b \in HeldBytes : Place(b).addr < Size \div NumNodes
  /\ \A b, d \in HeldBytes : b # d => Place(b) # Place(d)

\* An allocation of at most one stride is on one node, so that get_home_node
\* names its owner: the padding keeps every block at a stride boundary.
SmallBlocksHaveHome ==
  \A o \in DOMAIN live :
    live[o] <= Stride => /\ HomeNode(o, live[o]) # -1
                         /\ \A i \in 0..(live[o] - 1) :
                              Place(o + i).node = HomeNode(o, live[o])

\* Every block, held or free, starts at a stride and is a whole number of
\* strides long: the padding of alloc_bytes_local and free_bytes_local.
Aligned(f) == \A o \in DOMAIN f : o % Stride = 0 /\ f[o] % Stride = 0
BlocksAligned == Aligned(free_blocks) /\ Aligned(live)

\* The life of a HandlerReplyFuture.  valid is set before value, and both
\* before the mutex is released; a caller that found valid under the mutex
\* found the response set to the end.
SetterInOrder(c) ==
  /\ pc[c] = "idle" => setter[c] = "none"
  /\ valid[c] <=> setter[c] \in {"valid", "value", "done"}
  /\ setter[c] \in {"value", "done"} => value[c] = answer[c]
  /\ pc[c] \in {"get", "done"} /\ ~early[c] => setter[c] = "done"

\* A call has one message under way, the request before the handler starts
\* set() and the response while it runs.
FutureInv ==
  /\ \A m, w \in net : m.from = w.from => m = w
  /\ \A m \in net : /\ pc[m.from] # "idle"
                    /\ setter[m.from] # "done"
                    /\ m.type = "req" => /\ m.n \in Requests
                                         /\ setter[m.from] = "none"
  /\ \A c \in Callers : SetterInOrder(c)

\* What the allocator's bookkeeping and the future's mutex maintain: types,
\* the usage that alloc_bytes_local and free_bytes_local account for, the
\* alignment of the blocks, and the answer a caller in send_request waited
\* for.
MemoryInv ==
  TypeOK /\ UsageExact /\ BlocksAligned /\ FutureInv /\ LockedWaitGetsAnswer

\* The address arithmetic of get_bytes, put_bytes, get_batch, put_batch and
\* get_home_node is right for every block the allocator can hand out.
AddressingRight == PathsAgree /\ PlacesDistinct /\ SmallBlocksHaveHome
=============================================================================
