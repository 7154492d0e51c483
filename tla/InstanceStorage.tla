--------------------------- MODULE InstanceStorage --------------------------
(***************************************************************************)
(* The instances of one memory (mem_impl.cc): every node that creates      *)
(* instances in it keeps a table of them, local_instances, with a list of  *)
(* free slots; the node that owns the memory hands out the storage, to its *)
(* own threads directly and to others by MemStorageAllocRequest and        *)
(* MemStorageReleaseRequest.                                               *)
(*                                                                         *)
(* RegionInstanceImpl and BasicRangeAllocator are not part of this source: *)
(* of the first only metadata.inst_offset is kept (allocated, failed or    *)
(* unallocated) with the copies of it that other nodes request and that    *)
(* are invalidated when the instance is deallocated; of the second how     *)
(* many instances it has room for.                                         *)
(***************************************************************************)
EXTENDS Integers, Sequences, FiniteSets, SequencesExt

CONSTANTS
  Nodes,       \* nodes that create instances in the memory
  Owner,       \* the node that owns the memory
  Threads,     \* threads that create and destroy instances, one at a time
  NodeOf,      \* the node each thread runs on
  ChunkSize,   \* chunk_size: 8 in the code
  IndexLimit,  \* 1 << ID::INSTANCE_INDEX_WIDTH
  Capacity     \* instances the allocator has room for

ASSUME InstanceAssumption ==
  /\ Owner \in Nodes
  /\ NodeOf \in [Threads -> Nodes]
  /\ ChunkSize \in Nat \ {0}
  /\ IndexLimit \in Nat \ {0}
  /\ IndexLimit % ChunkSize = 0
  /\ Capacity \in Nat

VARIABLES
  slots,       \* local_instances.instances of each node: is there an object?
  free_list,   \* local_instances.free_list of each node
  meta,        \* inst_offset of each instance on the node that created it
  proxy,       \* inst_offset in the owner's proxy of a remotely created one
  allocated,   \* the instances the owner's allocator holds storage for
  net,         \* messages between the nodes
  pc, idx,     \* each thread's place, and the index of its instance
  aborted      \* an assertion failed on the owner

tableVars == <<slots, free_list>>
metaVars == <<meta, proxy>>
vars == <<slots, free_list, meta, proxy, allocated, net, pc, idx, aborted>>

Indices == 0..(IndexLimit - 1)
Instances == Nodes \X Indices
Inst(t) == <<NodeOf[t], idx[t]>>

Init ==
  /\ slots = [n \in Nodes |-> <<>>]
  /\ free_list = [n \in Nodes |-> <<>>]
  /\ meta = [i \in Instances |-> "unallocated"]
  /\ proxy = [i \in Instances |-> "unallocated"]
  /\ allocated = {}
  /\ net = {}
  /\ pc = [t \in Threads |-> "idle"]
  /\ idx = [t \in Threads |-> 0]
  /\ aborted = FALSE

Goto(t, l) == pc' = [pc EXCEPT ![t] = l]

-----------------------------------------------------------------------------
(* MemoryImpl::new_instance: choose a slot under the list's mutex, create  *)
(* the object outside it, take the mutex again to store the object.        *)

GrownSize(n) ==
  LET new_size == Len(slots[n]) + ChunkSize
  IN  IF new_size > IndexLimit THEN IndexLimit ELSE new_size

NewSlots(n) == [i \in 1..(ChunkSize - 1) |-> GrownSize(n) - i]

GrowList(t) ==
  LET n == NodeOf[t]
      old_size == Len(slots[n])
  IN  /\ pc[t] = "idle"
      /\ free_list[n] = <<>>
      /\ GrownSize(n) # old_size
      /\ slots' = [slots EXCEPT ![n] =
                     @ \o [i \in 1..(GrownSize(n) - old_size) |-> FALSE]]
      /\ free_list' = [free_list EXCEPT ![n] = NewSlots(n)]
      /\ idx' = [idx EXCEPT ![t] = old_size]
      /\ Goto(t, "fill")
      /\ UNCHANGED <<metaVars, allocated, net, aborted>>

\* "completely out of slots": new_instance returns 0.
OutOfSlots(t) ==
  LET n == NodeOf[t]
  IN  /\ pc[t] = "idle"
      /\ free_list[n] = <<>>
      /\ GrownSize(n) = Len(slots[n])
      /\ Goto(t, "refused")
      /\ UNCHANGED <<tableVars, metaVars, allocated, net, idx, aborted>>

TakeSlotAsIs(t) ==
  LET n == NodeOf[t]
  IN  /\ pc[t] = "idle"
      /\ free_list[n] # <<>>
      /\ free_list' = [free_list EXCEPT ![n] = Front(@)]
      /\ idx' = [idx EXCEPT ![t] = Last(free_list[n])]
      /\ Goto(t, "allocate")
      /\ UNCHANGED <<slots, metaVars, allocated, net, aborted>>
TakeFreeSlot(t) ==
  LET n == NodeOf[t]
      i == Last(free_list[n])
  IN  /\ pc[t] = "idle"
      /\ free_list[n] # <<>>
      /\ free_list' = [free_list EXCEPT ![n] = Front(@)]
      /\ idx' = [idx EXCEPT ![t] = i]
      /\ Goto(t, IF slots[n][i + 1] THEN "allocate" ELSE "fill")
      /\ UNCHANGED <<slots, metaVars, allocated, net, aborted>>

FillSlot(t) ==
  /\ pc[t] = "fill"
  /\ slots' = [slots EXCEPT ![NodeOf[t]][idx[t] + 1] = TRUE]
  /\ Goto(t, "allocate")
  /\ UNCHANGED <<free_list, metaVars, allocated, net, idx, aborted>>

-----------------------------------------------------------------------------
(* MemoryImpl::allocate_instance_storage.                                  *)

HasRoom == Cardinality(allocated) < Capacity

Outcome == IF HasRoom THEN "allocated" ELSE "failed"

AllocatorTakes(i) == allocated' = IF HasRoom THEN allocated \cup {i} ELSE allocated

AllocateOnOwner(t) ==
  /\ pc[t] = "allocate"
  /\ NodeOf[t] = Owner
  /\ AllocatorTakes(Inst(t))
  /\ meta' = [meta EXCEPT ![Inst(t)] = Outcome]
  /\ Goto(t, "created")
  /\ UNCHANGED <<tableVars, proxy, net, idx, aborted>>

RequestAllocation(t) ==
  /\ pc[t] = "allocate"
  /\ NodeOf[t] # Owner
  /\ net' = net \cup {[type |-> "alloc", inst |-> Inst(t), ok |-> "unallocated"]}
  /\ Goto(t, "waiting")
  /\ UNCHANGED <<tableVars, metaVars, allocated, idx, aborted>>

HandleAllocRequest(m) ==
  /\ m.type = "alloc"
  /\ AllocatorTakes(m.inst)
  /\ net' = (net \ {m}) \cup {[type |-> "result", inst |-> m.inst, ok |-> Outcome]}
  /\ UNCHANGED <<tableVars, metaVars, pc, idx, aborted>>

HandleAllocResponse(m) ==
  /\ m.type = "result"
  /\ meta' = [meta EXCEPT ![m.inst] = m.ok]
  /\ net' = net \ {m}
  /\ UNCHANGED <<tableVars, proxy, allocated, pc, idx, aborted>>

\* The creator learns the outcome (notify_allocation).
Notified(t) ==
  /\ pc[t] = "waiting"
  /\ meta[Inst(t)] # "unallocated"
  /\ Goto(t, "created")
  /\ UNCHANGED <<tableVars, metaVars, allocated, net, idx, aborted>>

-----------------------------------------------------------------------------
(* MemoryImpl::release_instance_storage, then release_instance.            *)

\* "Metadata must be requested explicitly": the owner may at some time ask
\* the creator of an allocated instance for its metadata.
FetchMetadata(i) ==
  /\ i[1] # Owner
  /\ meta[i] # "unallocated"
  /\ proxy' = [proxy EXCEPT ![i] = meta[i]]
  /\ UNCHANGED <<tableVars, meta, allocated, net, pc, idx, aborted>>

\* inst_offset as get_instance finds it on the owner: of an instance created
\* elsewhere it makes a proxy, unallocated until its metadata is requested.
OffsetSeen(i) == IF i[1] = Owner THEN meta[i] ELSE proxy[i]

DeallocateOwn(i) ==
  allocated' = IF OffsetSeen(i) = "failed" \/ i[1] # Owner THEN allocated
                                                          ELSE allocated \ {i}
\* "deallocate unless the allocation had failed"
Deallocate(i) ==
  allocated' = IF OffsetSeen(i) = "failed" THEN allocated ELSE allocated \ {i}

ReleaseOnOwner(t) ==
  /\ pc[t] = "created"
  /\ NodeOf[t] = Owner
  /\ OffsetSeen(Inst(t)) # "unallocated"
  /\ Deallocate(Inst(t))
  /\ meta' = [meta EXCEPT ![Inst(t)] = "unallocated"]
  /\ Goto(t, "releasing")
  /\ UNCHANGED <<tableVars, proxy, net, idx, aborted>>

\* notify_deallocation ends in release_instance: the slot can be reused.
ReleaseInstance(t) ==
  /\ pc[t] = "releasing"
  /\ free_list' = [free_list EXCEPT ![NodeOf[t]] = Append(@, idx[t])]
  /\ idx' = [idx EXCEPT ![t] = 0]
  /\ Goto(t, "idle")
  /\ UNCHANGED <<slots, metaVars, allocated, net, aborted>>

RequestRelease(t) ==
  /\ pc[t] = "created"
  /\ NodeOf[t] # Owner
  /\ net' = net \cup {[type |-> "release", inst |-> Inst(t), ok |-> "unallocated"]}
  /\ Goto(t, "remote")
  /\ UNCHANGED <<tableVars, metaVars, allocated, idx, aborted>>

\* "Better not be in the unallocated state": only the creator was notified of
\* the allocation, so a proxy whose metadata was not requested aborts the owner.
HandleReleaseRequest(m) ==
  /\ m.type = "release"
  /\ IF OffsetSeen(m.inst) = "unallocated"
       THEN /\ aborted' = TRUE
            /\ net' = net \ {m}
            /\ UNCHANGED allocated
       ELSE /\ Deallocate(m.inst)
            /\ net' = (net \ {m}) \cup
                        {[type |-> "released", inst |-> m.inst, ok |-> "unallocated"]}
            /\ UNCHANGED aborted
  /\ UNCHANGED <<tableVars, metaVars, pc, idx>>

\* notify_deallocation on the creator, which invalidates the owner's copy.
HandleReleaseResponse(m) ==
  /\ m.type = "released"
  /\ net' = net \ {m}
  /\ meta' = [meta EXCEPT ![m.inst] = "unallocated"]
  /\ proxy' = [proxy EXCEPT ![m.inst] = "unallocated"]
  /\ pc' = [t \in Threads |-> IF pc[t] = "remote" /\ Inst(t) = m.inst
                                THEN "releasing" ELSE pc[t]]
  /\ UNCHANGED <<tableVars, allocated, idx, aborted>>

-----------------------------------------------------------------------------
ThreadStep(t) ==
  \/ GrowList(t) \/ OutOfSlots(t) \/ TakeFreeSlot(t) \/ FillSlot(t)
  \/ AllocateOnOwner(t) \/ RequestAllocation(t) \/ Notified(t)
  \/ ReleaseOnOwner(t) \/ ReleaseInstance(t) \/ RequestRelease(t)

HandlerStep ==
  \E m \in net : \/ HandleAllocRequest(m)
                 \/ HandleAllocResponse(m)
                 \/ HandleReleaseRequest(m)
                 \/ HandleReleaseResponse(m)

Next ==
  /\ ~aborted
  /\ \/ HandlerStep
     \/ \E i \in Instances : FetchMetadata(i)
     \/ \E t \in Threads : ThreadStep(t)

Spec == Init /\ [][Next]_vars

-----------------------------------------------------------------------------
(* Properties.                                                             *)

TypeOK ==
  /\ slots \in [Nodes -> Seq(BOOLEAN)]
  /\ free_list \in [Nodes -> Seq(Indices)]
  /\ \A n \in Nodes : Len(slots[n]) <= IndexLimit
  /\ meta \in [Instances -> {"unallocated", "allocated", "failed"}]
  /\ proxy \in [Instances -> {"unallocated", "allocated", "failed"}]
  /\ allocated \subseteq Instances
  /\ net \subseteq [type : {"alloc", "result", "release", "released"},
                    inst : Instances,
                    ok : {"unallocated", "allocated", "failed"}]
  /\ pc \in [Threads -> {"idle", "fill", "allocate", "waiting", "created",
                         "releasing", "remote", "refused"}]
  /\ idx \in [Threads -> Indices]
  /\ aborted \in BOOLEAN

Using(n, i) == {t \in Threads : /\ NodeOf[t] = n
                                /\ idx[t] = i
                                /\ pc[t] \notin {"idle", "refused"}}

\* Every slot a node's table has grown to is in one place: in use by one
\* thread, or once on the free list.  Two instances never share an ID, however
\* growth, reuse and the unlocked creation of the object interleave.
SlotInOnePlace ==
  \A n \in Nodes : \A i \in 0..(Len(slots[n]) - 1) :
    Cardinality(Using(n, i))
      + Cardinality({k \in DOMAIN free_list[n] : free_list[n][k] = i}) = 1

\* The assertions of get_instance on a locally created instance: whoever
\* knows an instance finds its object, although the object is stored only
\* after the slot was given out.
InstanceFound ==
  \A t \in Threads :
    pc[t] \in {"allocate", "waiting", "created", "remote"} =>
      idx[t] < Len(slots[NodeOf[t]]) /\ slots[NodeOf[t]][idx[t] + 1]

InFlight(type, i, ok) == [type |-> type, inst |-> i, ok |-> ok] \in net

\* The owner's allocator holds storage for exactly the instances whose creator
\* holds it, or is being told that it does, and is not being told that it is
\* released: nothing leaks and nothing is freed twice on either node, a failed
\* allocation being released without a deallocation.
StorageAccounted ==
  allocated = {i \in Instances :
                 \/ meta[i] = "allocated" /\ ~InFlight("released", i, "unallocated")
                 \/ InFlight("result", i, "allocated")}

(* The table of instances that create_instance, destroy and the remote     *)
(* request share: types, every slot in one place, every instance found.    *)
InstanceInv == TypeOK /\ SlotInOnePlace /\ InstanceFound
=============================================================================
