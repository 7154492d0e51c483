------------------------------ MODULE Startup ------------------------------
(***************************************************************************)
(* RuntimeImpl::configure_from_command_line on every node: attach to the   *)
(* network, lay the segment out, start the active-message threads, build   *)
(* the node's memories and processors, and tell the other nodes about      *)
(* them.  Announcements arrive while the receiver is still building.       *)
(*                                                                         *)
(* An identifier is <<type, owner, index>>.  tables[n][m] is nodes[m] in   *)
(* the memory of node n: its own objects for m = n, proxies otherwise.     *)
(***************************************************************************)
EXTENDS SegmentLayout, Sequences, Functions

CONSTANTS
  Commands,   \* the command lines to start with
  Pads,       \* by how much GASNet may round a segment up
  Unset       \* no value yet

ASSUME CommandAssumption ==
  /\ Pads \subseteq Nat
  /\ \A c \in Commands :
       /\ c.gsize \in Nat /\ c.rsize \in Nat /\ c.ib_rsize \in Nat
       /\ c.sdpsize \in Nat /\ c.lmbsize \in Nat /\ c.numlmbs \in Nat
       /\ c.csize \in Nat /\ c.dsize \in Nat
       /\ c.util \in Nat /\ c.io \in Nat /\ c.cpu \in Nat

VARIABLES
  cmd,        \* the command line, the same on every node
  pc,         \* where each node's main thread is
  size,       \* segment_info[n].size
  pool,       \* srcdatapool: where it starts
  lmb_w_bases, lmb_r_bases,   \* [n][peer][i], addresses
  next_id,    \* num_local_memories, num_local_ib_memories, num_local_processors
  tables,
  global_memory,
  pmas, mmas, \* affinities in the machine object of each node
  net,        \* announcements under way
  aborted     \* assert(incoming_message_manager != 0) failed

layoutVars == <<size, pool, lmb_w_bases, lmb_r_bases>>
machineVars == <<next_id, tables, global_memory, pmas, mmas>>
vars == <<cmd, pc, layoutVars, machineVars, net, aborted>>

Types == {"mem", "ib", "proc"}
NoObjects == [type \in Types |-> <<>>]

(* "create allocators for local node events/locks/index spaces - do this   *)
(* before we start handling active messages": the tables exist, empty.     *)
Init ==
  /\ cmd \in Commands
  /\ pc = [n \in Nodes |-> "attach"]
  /\ size = [n \in Nodes |-> 0]
  /\ pool = [n \in Nodes |-> Unset]
  /\ lmb_w_bases = [n \in Nodes |-> Unset]
  /\ lmb_r_bases = [n \in Nodes |-> Unset]
  /\ next_id = [n \in Nodes |-> [type \in Types |-> 0]]
  /\ tables = [n \in Nodes |-> [m \in Nodes |-> NoObjects]]
  /\ global_memory = [n \in Nodes |-> Unset]
  /\ pmas = [n \in Nodes |-> {}]
  /\ mmas = [n \in Nodes |-> {}]
  /\ net = {}
  /\ aborted = FALSE

Step(n, from, to) == pc[n] = from /\ pc' = [pc EXCEPT ![n] = to]
Others(n) == Nodes \ {n}
-----------------------------------------------------------------------------
(* init_endpoints.                                                         *)

(* gasnet_attach and the barriers behind it: nobody leaves before all came. *)
Attach ==
  /\ \A n \in Nodes : pc[n] = "attach"
  /\ pc' = [n \in Nodes |-> "attached"]
  /\ \E pad \in Pads : size' = [n \in Nodes |-> AttachSize(cmd) + pad]
  /\ UNCHANGED <<cmd, pool, lmb_w_bases, lmb_r_bases, machineVars, net, aborted>>

(* EndpointManager(gasnet_nodes()): an endpoint for every other node, with *)
(* the addresses of its buffers.                                           *)
WriteBases(n) == [p \in Others(n) |-> [i \in Lmbs(cmd) |-> LmbWriteBase(cmd, size, n, p, i)]]
ReadBases(n) == [p \in Others(n) |-> [i \in Lmbs(cmd) |-> LmbReadBase(cmd, size, n, p, i)]]
NewEndpoints(n) ==
  /\ lmb_w_bases' = [lmb_w_bases EXCEPT ![n] = WriteBases(n)]
  /\ lmb_r_bases' = [lmb_r_bases EXCEPT ![n] = ReadBases(n)]

(* The pool at the place my_segment has reached, if it has a size; the     *)
(* assertion that all of it fits; and an endpoint for every other node.    *)
InitEndpoints(n) ==
  /\ Step(n, "attached", "laid_out")
  /\ \E off \in PoolOffsets(cmd) :
       /\ off + EndpointOptions(cmd).sdpsize + TotalLmbSize(cmd) <= size[n]
       /\ pool' = IF EndpointOptions(cmd).sdpsize > 0
                    THEN [pool EXCEPT ![n] = Addr[n] + off] ELSE pool
  /\ NewEndpoints(n)
  /\ UNCHANGED <<cmd, size, machineVars, net, aborted>>

StartPollingThreads(n) ==
  /\ Step(n, "laid_out", "polling")
  /\ UNCHANGED <<cmd, layoutVars, machineVars, net, aborted>>

StartHandlerThreads(n) ==
  /\ Step(n, "polling", "global")
  /\ UNCHANGED <<cmd, layoutVars, machineVars, net, aborted>>
-----------------------------------------------------------------------------
(* The objects of the node.                                                *)

(* Memory index of all ones: "support old encoding for global memory too". *)
GlobalIndex == 4095

(* The GASNetMemory, the same object on every node: owner 0.               *)
NewGASNetMemory == [id |-> <<"mem", 0, GlobalIndex>>, kind |-> "GLOBAL",
                    size |-> cmd.gsize * NumNodes, base |-> 0]
CreateGlobalMemory(n) ==
  /\ Step(n, "global", "sysmem")
  /\ \A m \in Nodes : size[m] >= cmd.gsize          \* asserted
  /\ global_memory' = IF cmd.gsize = 0 THEN global_memory
                      ELSE [global_memory EXCEPT ![n] = NewGASNetMemory]
  /\ UNCHANGED <<cmd, layoutVars, next_id, tables, pmas, mmas, net, aborted>>

(* next_local_memory_id, next_local_ib_memory_id.                          *)
NextLocalId(n, type) == <<type, n, next_id[n][type]>>

(* An intermediate buffer that takes its number from the memories.         *)
AddSharingCounter(n, type, kind, sz, base) ==
  /\ tables' = [tables EXCEPT ![n][n][type] =
       Append(@, [id |-> <<type, n, next_id[n]["mem"]>>, kind |-> kind, size |-> sz, base |-> base])]
  /\ next_id' = [next_id EXCEPT ![n]["mem"] = @ + 1]

(* A new MemoryImpl and add_memory or add_ib_memory.                       *)
AddObject(n, type, kind, sz, base) ==
  /\ tables' = [tables EXCEPT ![n][n][type] =
       Append(@, [id |-> NextLocalId(n, type), kind |-> kind, size |-> sz, base |-> base])]
  /\ next_id' = [next_id EXCEPT ![n][type] = @ + 1]

(* One memory, unless its size is zero.  base is local_reg_base(): 0 for a *)
(* memory that is not in the registered segment.                           *)
CreateMemory(n, from, to, type, kind, sz, base) ==
  /\ Step(n, from, to)
  /\ IF sz > 0 THEN AddObject(n, type, kind, sz, base) ELSE UNCHANGED <<tables, next_id>>
  /\ UNCHANGED <<cmd, layoutVars, global_memory, pmas, mmas, net, aborted>>

CreateSystemMemory(n) == CreateMemory(n, "sysmem", "regmem", "mem", "SYSTEM", cmd.csize, 0)
CreateRegisteredMemory(n) ==
  CreateMemory(n, "regmem", "procs", "mem", "REGDMA", cmd.rsize, Addr[n] + RegMemOffset(cmd))
CreateIbMemory(n) ==
  CreateMemory(n, "ibmem", "disk", "ib", "REGDMA", cmd.ib_rsize, Addr[n] + IbMemOffset(cmd))
CreateDiskMemory(n) == CreateMemory(n, "disk", "file", "mem", "DISK", cmd.dsize, 0)

CreateFileMemory(n) ==
  /\ Step(n, "file", "affinities")
  /\ AddObject(n, "mem", "FILE", 0, 0)
  /\ UNCHANGED <<cmd, layoutVars, global_memory, pmas, mmas, net, aborted>>

ProcKinds == [i \in 1 .. cmd.util |-> "UTIL"] \o [i \in 1 .. cmd.io |-> "IO"]
               \o [i \in 1 .. cmd.cpu |-> "LOC"]

(* CoreModule::create_processors: utility, I/O and CPU processors.         *)
CreateProcessors(n) ==
  /\ Step(n, "procs", "ibmem")
  /\ tables' = [tables EXCEPT ![n][n]["proc"] =
       [i \in 1 .. Len(ProcKinds) |-> [id |-> <<"proc", n, next_id[n]["proc"] + i - 1>>, kind |-> ProcKinds[i]]]]
  /\ next_id' = [next_id EXCEPT ![n]["proc"] = @ + Len(ProcKinds)]
  /\ UNCHANGED <<cmd, layoutVars, global_memory, pmas, mmas, net, aborted>>

Ids(seq) == {o.id : o \in Range(seq)}
LocalMemories(n) == Range(tables[n][n]["mem"])
GlobalMemories(n) == {global_memory[n]} \ {Unset}
OfKind(mems, kinds) == {m.id : m \in {x \in mems : x.kind \in kinds}}

(* add_proc_mem_affinities and add_mem_mem_affinities: every pair, unless  *)
(* the machine has it already.                                             *)
WithMissing(known, from, to) == known \cup (from \X to)

(* Every processor is near every memory of the node and the global memory; *)
(* the system memories are near the global, disk and file memories.        *)
NearProcessors(n) == OfKind(LocalMemories(n) \cup GlobalMemories(n),
                            {"SYSTEM", "REGDMA", "DISK", "FILE", "GLOBAL"})
SystemMemories(n) == OfKind(LocalMemories(n), {"SYSTEM"})
NearSystemMemories(n) == OfKind(LocalMemories(n) \cup GlobalMemories(n),
                                {"GLOBAL", "DISK", "FILE"})
AddAffinities(n) ==
  /\ Step(n, "affinities", "announce")
  /\ pmas' = [pmas EXCEPT ![n] = WithMissing(@, Ids(tables[n][n]["proc"]), NearProcessors(n))]
  /\ mmas' = [mmas EXCEPT ![n] = WithMissing(@, SystemMemories(n), NearSystemMemories(n))]
  /\ UNCHANGED <<cmd, layoutVars, next_id, tables, global_memory, net, aborted>>
-----------------------------------------------------------------------------
(* Announcements.                                                          *)

OwnerOf(id) == id[2]

(* An announcement that leaves the intermediate buffers out.               *)
AnnouncementWithoutIb(n) ==
  [from |-> n, objects |-> [tables[n][n] EXCEPT !["ib"] = <<>>],
   pmas |-> {a \in pmas[n] : a[1] \in Ids(tables[n][n]["proc"])},
   mmas |-> {a \in mmas[n] : a[1] \in Ids(tables[n][n]["mem"]) /\ OwnerOf(a[2]) = n}]

(* The buffer of records: objects, the affinities of the processors, and   *)
(* "only ... intra-node" affinities between memories.                      *)
Announcement(n) ==
  [from |-> n, objects |-> tables[n][n],
   pmas |-> {a \in pmas[n] : a[1] \in Ids(tables[n][n]["proc"])},
   mmas |-> {a \in mmas[n] : a[1] \in Ids(tables[n][n]["mem"]) /\ OwnerOf(a[2]) = n}]

(* A loop that stops before max_node_id.                                   *)
AnnounceBelowMax(n) ==
  /\ Step(n, "announce", "announced")
  /\ net' = net \cup {[to |-> m, what |-> Announcement(n)] : m \in Others(n) \ {NumNodes - 1}}
  /\ UNCHANGED <<cmd, layoutVars, machineVars, aborted>>

Announce(n) ==
  /\ Step(n, "announce", "announced")
  /\ net' = net \cup {[to |-> m, what |-> Announcement(n)] : m \in Others(n)}
  /\ UNCHANGED <<cmd, layoutVars, machineVars, aborted>>

Receiving(n) == pc[n] \notin {"attach", "attached", "laid_out"}

(* The polling thread needs incoming_message_manager, which exists once    *)
(* start_handler_threads has run; the handler then fills nodes[from] with  *)
(* proxies and adds the affinities.                                        *)
HandleAnnouncement(a) ==
  /\ Receiving(a.to)
  /\ net' = net \ {a}
  /\ IF pc[a.to] = "polling"
       THEN aborted' = TRUE /\ UNCHANGED <<tables, pmas, mmas>>
       ELSE /\ tables' = [tables EXCEPT ![a.to][a.what.from] = a.what.objects]
            /\ pmas' = [pmas EXCEPT ![a.to] = @ \cup a.what.pmas]
            /\ mmas' = [mmas EXCEPT ![a.to] = @ \cup a.what.mmas]
            /\ UNCHANGED aborted
  /\ UNCHANGED <<cmd, pc, layoutVars, next_id, global_memory>>

(* A file memory is always announced, so an empty row is one not filled.   *)
Heard(n) == {m \in Others(n) : tables[n][m] # NoObjects}

(* A node that does not wait for the others.                               *)
AwaitNobody(n) ==
  /\ Step(n, "announced", "ready")
  /\ UNCHANGED <<cmd, layoutVars, machineVars, net, aborted>>

AwaitAnnouncements(n) ==
  /\ Heard(n) = Others(n)
  /\ Step(n, "announced", "ready")
  /\ UNCHANGED <<cmd, layoutVars, machineVars, net, aborted>>
-----------------------------------------------------------------------------
MainThread(n) ==
  \/ InitEndpoints(n) \/ StartPollingThreads(n) \/ StartHandlerThreads(n)
  \/ CreateGlobalMemory(n) \/ CreateSystemMemory(n) \/ CreateRegisteredMemory(n)
  \/ CreateProcessors(n) \/ CreateIbMemory(n) \/ CreateDiskMemory(n)
  \/ CreateFileMemory(n) \/ AddAffinities(n)
  \/ Announce(n) \/ AwaitAnnouncements(n)

Next ==
  /\ ~aborted
  /\ \/ Attach
     \/ \E n \in Nodes : MainThread(n)
     \/ \E a \in net : HandleAnnouncement(a)

Spec == Init /\ [][Next]_vars

(* Every main thread runs on, and every announcement is delivered.         *)
Fairness ==
  /\ WF_vars(~aborted /\ Attach)
  /\ \A n \in Nodes : WF_vars(~aborted /\ MainThread(n))
  /\ WF_vars(~aborted /\ \E a \in net : HandleAnnouncement(a))

FairSpec == Spec /\ Fairness
-----------------------------------------------------------------------------
(* Lookups by identifier, as the rest of the runtime does them.            *)

(* get_memory_impl on node n, for memories and intermediate buffers.       *)
GetMemoryImpl(n, id) ==
  LET row == tables[n][OwnerOf(id)][id[1]]
  IN IF id[1] = "mem" /\ id[3] = GlobalIndex THEN global_memory[n]
     ELSE IF id[3] < Len(row) THEN row[id[3] + 1] ELSE Unset

(* get_processor_impl.                                                     *)
GetProcessorImpl(n, id) ==
  LET row == tables[n][OwnerOf(id)]["proc"]
  IN IF id[3] < Len(row) THEN row[id[3] + 1] ELSE Unset
-----------------------------------------------------------------------------
(* Properties.                                                             *)

Labels == {"attach", "attached", "laid_out", "polling", "global", "sysmem", "regmem",
           "procs", "ibmem", "disk", "file", "affinities", "announce", "announced", "ready"}

LaidOut(n) == pc[n] \notin {"attach", "attached"}

(* What a node keeps in its segment: [from, from + len).                   *)
LmbRegions(n) ==
  {[what |-> <<"lmb", p, i>>, from |-> lmb_r_bases[n][p][i], len |-> EndpointOptions(cmd).lmb_size] :
     p \in Others(n), i \in Lmbs(cmd)}
MemoryRegions(n, type) ==
  {[what |-> <<"memory", m.id>>, from |-> m.base, len |-> m.size] :
     m \in {x \in Range(tables[n][n][type]) : x.base # 0}}
GlobalRegions(n) ==
  {[what |-> <<"global">>, from |-> Addr[n], len |-> cmd.gsize] : m \in GlobalMemories(n)}
PoolRegions(n) ==
  {[what |-> <<"pool">>, from |-> b, len |-> EndpointOptions(cmd).sdpsize] : b \in {pool[n]} \ {Unset}}
Regions(n) ==
  LmbRegions(n) \cup MemoryRegions(n, "mem") \cup MemoryRegions(n, "ib")
    \cup GlobalRegions(n) \cup PoolRegions(n)

SizesFitInt == \A x \in {cmd.gsize, cmd.rsize, cmd.ib_rsize} : x < 2048

(* The pieces of code that place regions in the segment agree, without     *)
(* having told each other: on every node the global memory, the registered *)
(* memories, the source data pool and the buffers of all peers lie inside  *)
(* the segment and do not overlap, and a peer writes into a buffer where   *)
(* this node reads it.  It needs sizes that an int can hold in bytes.      *)
LayoutRight ==
  SizesFitInt =>
    \A n \in Nodes : LaidOut(n) =>
      /\ \A r \in Regions(n) : Addr[n] <= r.from /\ r.from + r.len <= Addr[n] + size[n]
      /\ \A r, q \in Regions(n) :
           r # q => r.from + r.len <= q.from \/ q.from + q.len <= r.from
      /\ \A p \in Others(n) : LaidOut(p) =>
           \A i \in Lmbs(cmd) : lmb_w_bases[p][n][i] = lmb_r_bases[n][p][i]

AnnouncedMmas(n) == {a \in mmas[n] : a[2][3] # GlobalIndex}

(* When a node has all announcements every identifier that any node has    *)
(* given out resolves there to the object its owner made, registered base  *)
(* included, and all nodes that are ready hold the same affinities, but    *)
(* for those between a system memory and the global memory, which only     *)
(* node 0 announces.                                                       *)
MachineAgreed ==
  \A n \in Nodes : pc[n] = "ready" =>
    /\ \A m \in Nodes :
         /\ \A o \in Range(tables[m][m]["mem"]) \cup Range(tables[m][m]["ib"]) :
              GetMemoryImpl(n, o.id) = o
         /\ \A o \in Range(tables[m][m]["proc"]) : GetProcessorImpl(n, o.id) = o
         /\ \A a \in pmas[m] :
              /\ GetMemoryImpl(n, a[2]) \in LocalMemories(OwnerOf(a[2])) \cup GlobalMemories(n)
              /\ GetProcessorImpl(n, a[1]) \in Range(tables[OwnerOf(a[1])][OwnerOf(a[1])]["proc"])
    /\ \A m \in Nodes : pc[m] = "ready" =>
         pmas[n] = pmas[m] /\ AnnouncedMmas(n) = AnnouncedMmas(m)

(* Every node becomes ready, unless an announcement arrives between the    *)
(* start of the polling threads and that of the handler threads.           *)
EveryNodeReady == <>(aborted \/ \A n \in Nodes : pc[n] = "ready")

-----------------------------------------------------------------------------
(* Why they hold.                                                          *)

(* Where a main thread is before it makes memories, once it has its        *)
(* affinities, and once it has announced itself.                           *)
Early == {"attach", "attached", "laid_out", "polling", "global", "sysmem"}
Told == {"announced", "ready"}
Made == {"announce"} \cup Told

(* How many memories there can be by then.                                 *)
Memories == [l \in Labels |-> IF l \in Early THEN 0 ELSE IF l = "regmem" THEN 1
                              ELSE IF l \in {"procs", "ibmem", "disk"} THEN 2
                              ELSE IF l = "file" THEN 3 ELSE 4]

TypeOK ==
  /\ cmd \in Commands
  /\ pc \in [Nodes -> Labels]
  /\ size \in [Nodes -> Nat]
  /\ aborted \in BOOLEAN
  /\ DOMAIN pool = Nodes /\ DOMAIN lmb_w_bases = Nodes /\ DOMAIN lmb_r_bases = Nodes
  /\ DOMAIN global_memory = Nodes /\ DOMAIN pmas = Nodes /\ DOMAIN mmas = Nodes
  /\ DOMAIN next_id = Nodes /\ \A n \in Nodes : DOMAIN next_id[n] = Types
  /\ DOMAIN tables = Nodes
  /\ \A n \in Nodes : /\ DOMAIN tables[n] = Nodes
                      /\ \A m \in Nodes : DOMAIN tables[n][m] = Types

(* Where the regions that do not belong to a memory are.                   *)
PlacesInv ==
  \A n \in Nodes :
    /\ pc[n] = "attach" \/ \E pad \in Pads : size = [m \in Nodes |-> AttachSize(cmd) + pad]
    /\ \A m \in Nodes : pc[n] = "attach" => pc[m] = "attach"
    /\ lmb_w_bases[n] = IF LaidOut(n) THEN WriteBases(n) ELSE Unset
    /\ lmb_r_bases[n] = IF LaidOut(n) THEN ReadBases(n) ELSE Unset
    /\ pool[n] = Unset \/ (LaidOut(n) /\ \E off \in PoolOffsets(cmd) : pool[n] = Addr[n] + off)

(* A row of a node's own tables: its objects, numbered from 0 in the order *)
(* in which they were added.                                               *)
NumberedRow(row, type, n) ==
  /\ row \in Seq(Range(row))
  /\ \A i \in DOMAIN row : row[i].id = <<type, n, i - 1>>

Unregistered(row) == \A i \in DOMAIN row : row[i].base = 0

(* At most one object of the row is registered, at the given place.        *)
RegisteredAt(row, from, len) ==
  \A i, j \in DOMAIN row : row[i].base # 0 =>
    /\ row[i].base = from /\ row[i].size = len
    /\ row[j].base # 0 => i = j

(* Which of its objects a node can have when its main thread is at l.      *)
BuiltBy(l, own) ==
  /\ Len(own["mem"]) <= Memories[l]
  /\ l \in {"affinities"} \cup Made => own["mem"] # <<>>
  /\ l \in Early \cup {"regmem"} => Unregistered(own["mem"])
  /\ l \in Early \cup {"regmem", "procs"} => own["proc"] = <<>>
  /\ l \in Early \cup {"regmem", "procs", "ibmem"} => own["ib"] = <<>>

GlobalBuilt(n) ==
  IF cmd.gsize = 0 \/ pc[n] \in Early \ {"sysmem"} THEN Unset ELSE NewGASNetMemory

OwnObjects(n) ==
  /\ \A type \in Types : /\ NumberedRow(tables[n][n][type], type, n)
                         /\ next_id[n][type] = Len(tables[n][n][type])
  /\ BuiltBy(pc[n], tables[n][n])
  /\ RegisteredAt(tables[n][n]["mem"], Addr[n] + RegMemOffset(cmd), cmd.rsize)
  /\ RegisteredAt(tables[n][n]["ib"], Addr[n] + IbMemOffset(cmd), cmd.ib_rsize)
  /\ global_memory[n] = GlobalBuilt(n)

ObjectsInv == \A n \in Nodes : OwnObjects(n)

(* The affinities a node finds, and those it announces; a node holds its   *)
(* own and those of the nodes it has heard from, whose tables it has.      *)
OwnPmas(n) == Ids(tables[n][n]["proc"]) \X NearProcessors(n)
OwnMmas(n) == SystemMemories(n) \X NearSystemMemories(n)
SharedMmas(n) == {a \in OwnMmas(n) : OwnerOf(a[2]) = n}

Said(n) == [from |-> n, objects |-> tables[n][n], pmas |-> OwnPmas(n), mmas |-> SharedMmas(n)]

ProxiesInv ==
  \A n \in Nodes :
    /\ \A m \in Others(n) : \/ tables[n][m] = NoObjects
                            \/ pc[m] \in Told /\ tables[n][m] = tables[m][m]
    /\ pmas[n] = (IF pc[n] \in Made THEN OwnPmas(n) ELSE {})
                   \cup UNION {OwnPmas(m) : m \in Heard(n)}
    /\ mmas[n] = (IF pc[n] \in Made THEN OwnMmas(n) ELSE {})
                   \cup UNION {SharedMmas(m) : m \in Heard(n)}
    /\ pc[n] = "ready" => Heard(n) = Others(n)

(* What is under way was said by its sender, who has nothing to add.       *)
NetInv ==
  \A a \in net :
    /\ a.what.from \in Nodes /\ a.to \in Others(a.what.from) /\ pc[a.what.from] \in Told
    /\ a = [to |-> a.to, what |-> Said(a.what.from)]

(* The inductive invariant: types, where the regions are, which of a       *)
(* node's objects exist when, and what the others know of them.            *)
StartupInv == TypeOK /\ PlacesInv /\ ObjectsInv /\ ProxiesInv /\ NetInv
=============================================================================
