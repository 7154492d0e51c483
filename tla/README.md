# A TLA+ model of the active-message layer, memories and runtime of legion-def

The repository holds the sources of Realm's lowest layers as templates
(`templates/*.cc`, `*.h`) and MyDef macro files (`*.def`), for two transports:
GASNet (`templates/activemsg.cc`) and MPI (`macros_ammpi/am_mpi.def`,
`am_mpi.def`, `use_mpi.def`). This directory models the parts that hold state
and are used by several threads or nodes at once, checks them with TLC on small
instances, and proves the main invariants with TLAPS for all instances.

Line numbers below are those of the files under `src/`. The GASNet code exists
more than once: `activemsg_impl_gasnet_orig.cc`, `activemsg_endpoint.cc`,
`activemsg_srcdatapool.cc`, `macros_impl/push_message.def` and others are the
same text cut into pieces. The modules were written from `activemsg.cc`, and
`PROJECT.json` maps them to that file only, so the share of the source that the
map covers counts each piece of code once and leaves its copies uncovered.

## 1. The system and its parts

A **message** to another node is given to `enqueue_message`. Under GASNet:

1. Its payload gets a place in the **source data pool**, or waits for one
   (`SrcDataPool`, `OutgoingMessage`); payloads that must be copied first are
   counted against the **spill limit**.
2. It is queued at the **endpoint** of its target, and the endpoint is put on
   the todo list of the **endpoint manager**.
3. A **polling thread** takes the endpoint from the list and pushes messages. A
   payload goes into one of the **long message buffers** (LMBs) that the target
   has reserved for this sender. A full buffer is closed with FLIP_REQ, and
   opened again by the target's FLIP_ACK.
4. `send_long` cuts a large payload into **chunks**, which the target counts
   until the message is whole.
5. At the target the message enters the list of its sender in the **incoming
   message manager**; a **handler thread** runs its handler.

Before the first message every node **attaches a segment** and lays out in it
the global memory, its registered memories, the pool and the buffers its peers
write, then builds its memories and processors and **announces** them to the
others. On top of the messages are **remote writes** with fences, the **global
memory** spread over all nodes, the **table of instances** of a memory, the
**tables of events and sparsity maps** that any node may look up, and the **run
and shutdown** of the runtime. Under **MPI** steps 1 to 5 are
replaced by sends with tags, a fixed number of posted receives and a window.

| Part | Source | Module | Proofs |
|---|---|---|---|
| LMB flow control | activemsg.cc 1198-1655 | `ActiveMessageEndpoint`, abstract `LmbHandoff` | `ActiveMessageEndpointProofs` |
| Endpoint manager, polling threads | activemsg.cc 2205-2651 | `EndpointManager` | `EndpointManagerProofs` |
| Chunking and reassembly | activemsg.cc 1560-1601, 1838-2030 | `LongMessage` | `ReceivePathProofs` |
| Source data pool, spill limit, payloads | activemsg.cc 282-735, 2099-2203, 2676-2826 | `SrcDataPool` | `SrcDataPoolProofs` |
| Incoming manager, handler threads | activemsg.cc 1016-1185 | `IncomingMessageManager` | `ReceivePathProofs` |
| The whole receiving side | activemsg.h 491-524 | `ReceivePath` (composes `LongMessage` and `IncomingMessageManager`) | `ReceivePathProofs` |
| Remote writes and fences | mem_impl.cc 1057-1888 | `RemoteWriteFence`, `RemoteWrite` | `RemoteWriteProofs` |
| Block allocator, global memory | mem_impl.cc 134-273, 590-1050 | `FreeBlocks`, `GASNetMemory` | `GASNetMemoryProofs` |
| Instance table and storage | mem_impl.cc 291-477, 903-1005 | `InstanceStorage` | |
| Segment layout | activemsg.cc 1213-1223, 2430-2553 | `SegmentLayout` | `StartupProofs` |
| Startup: machine and announcements | runtime_impl.cc 718-1000, 1370-1853, 2475-2521 | `Startup` (extends `SegmentLayout`), `StartupLifecycle` | `StartupProofs` |
| Object tables and lookups | runtime_impl.h 59-131, runtime_impl.cc 2383-2446 | `ObjectTables` | |
| Runtime lifecycle | runtime_impl.cc 490-530, 833-858, 1370-2368 | `RuntimeLifecycle` | `RuntimeLifecycleProofs` |
| Active messages over MPI | am_mpi.def, use_mpi.def | `ActiveMessagesMPI` | |

`PROJECT.json` lists these and the parts without a module under `components`.

## 2. How state and actions correspond to the code

State variables and actions keep the names of the members and functions they
stand for. A region under a mutex is one step; code that gives a mutex up in
the middle is several. Bytes, names and arguments of handlers are left out; sizes
and addresses are numbers where the code computes with them.

- **ActiveMessageEndpoint.** One record of queues, write cursor
  (`cur_write_lmb`, `cur_write_offset`, `cur_write_count`), `lmb_w_avail` and
  `lmb_r_counts` per endpoint; the network holds FLIP_REQs, FLIP_ACKs and
  payloads and delivers in any order. The iterations of `push_messages` are
  `PushShort`, `PushDirect`, `PushLmb` and `FlipLmb`. `LmbHandoff` is the
  abstract promise: a buffer belongs to its writer or its reader, and returns
  to the writer only when it is empty.
- **EndpointManager.** Enqueuing is two steps (the endpoint's queue, then
  `add_todo_entry`), and pushing is several (`PopTodo`, `PushPop` or
  `PushBreak`, `Send`, `PutBack`). `Poller` threads run the loop, `Helper`
  threads come from `do_some_polling`. A trylock may fail (`LockBusy`). The look
  at the list (`ListEmpty`) and the read of `shutdown_flag` after it
  (`CheckShutdown`) are two steps, and `stop_threads` joins the polling threads
  only. `todo` is a sequence; the ring's assertion is the bound `NeverWraps`.
- **LongMessage.** `ReadId` and `WriteId` are the two halves of
  `next_outgoing_message_id++`; the rest follows `send_long` and
  `adjust_long_msgsize`.
- **SrcDataPool.** `free_list` and `in_use` are sets of spans, `stage` is how
  far a message has come, `data` where its payload lies (the caller's buffer, a
  copy the message owns, a span of the pool). Messages may be sent, and deleted,
  between the two halves of `assign_srcdata_pointer`: the size it then reads is
  the old one or any of `StaleReads`, and `misread` records that it was another.
- **IncomingMessageManager.** The ring is kept as the array it is, with
  `todo_oldest` and `todo_newest`.
- **ReceivePath.** The two modules above are the two ends of the handlers of
  `activemsg.h`: `HandlerShort` adds a message at once, `HandlerMedium` counts
  the chunk and adds the message in the same step when it is the last.
- **RemoteWriteFence / RemoteWrite.** The first counts messages; the second
  extends it with the data: how each `do_remote_*` call is cut and where the
  handlers store the pieces. The loops over spans and serialized elements are
  given by the set of entries at which they begin a message (`Starts`): the
  smallest that has the first entry and, with an entry, the one the loop goes
  on with.
- **FreeBlocks / GASNetMemory.** The first is the allocator on one node. The
  second adds a remote caller, with `HandlerReplyFuture::set` and `wait` one
  step per statement, and the address arithmetic as operators.
- **InstanceStorage.** Threads of the owner and of another node create and
  destroy instances. `proxy` is the owner's copy of the metadata of an instance
  of another node, unset until it is requested (`FetchMetadata`); the handler of
  a release decides by it. An assertion that fails sets `aborted`.
- **SegmentLayout / Startup.** The first is arithmetic: options, sizes, offsets
  and the two bases of every buffer, in megabytes, with the `int` shifts of
  `init_endpoints` as a choice over what a build can give. The second is a node's
  main thread from the attach to the last announcement, one action per block of
  `configure_from_command_line`, beside the handler of announcements. `tables`
  holds the objects a node knows of every other; `pmas` and `mmas` its
  affinities. `ImplementsLifecycle`, in `StartupLifecycle`, maps it to the
  startup of `RuntimeLifecycle`, where the machine is not visible.
- **ObjectTables.** `get_available_sparsity_impl` and the event allocator take
  an entry from a free list, or make a leaf and stitch it (`NewLeaf`, `Stitch`);
  `get_sparsity_impl` installs a missing table with a compare and swap
  (`BeginLookup`, `SwapInTable`, `LookupEntry`, `FixCreator`).
- **RuntimeLifecycle.** A node's main thread is a program counter through
  startup, `run` and `wait_for_shutdown`. Events are the sets of tasks they wait
  for. `aborted` is the failed assertion of `enqueue_incoming`.
- **ActiveMessagesMPI.** Two-sided mediums, handlers run by the polling
  thread. A send of a payload is buffered, or blocks until it is received
  (rendezvous). The main thread's message for `AM_NULL_HANDLER`, sent to its own
  node when it stops, takes a posted receive like any other.

## 3. Runs

| Run | Instance | What it shows |
|---|---|---|
| `endpoint` | two endpoints, one 256-byte buffer each way, five messages of 100 and 200 bytes and without payload | `EndpointInv`, `UnreadDisjoint` (no payload is overwritten before its handler has run), the refinement `ImplementsHandoff`, and `EveryMessageHandled`: both sides out of buffers at once is not a deadlock |
| `manager` | two targets, three messages, two polling threads and a helping one | `ManagerInv`, `NothingStranded` (once the polling threads are joined, what `stop_threads` left to them is sent, see below), `EverySent` |
| `receive` | messages of one to three chunks from one node, a short one from another, two handler threads, a shutdown at any time | `PathInv`, `HandledWhole` (a handler sees a message once and whole, its chunks in any order), `EveryMessageArrives` |
| `long_message_race` | two messages, two senders | expected violation of `DispatchedWhole`, see section 7 |
| `pool` | six messages, two queues, a pool of four blocks, spill limit 3, sizes of deleted messages read as 0, as 7 or as they were | `PoolInv` (the spans partition the pool, the spill counter is exact until a size is misread), `NoHolderBehindPending`, `PayloadKept` (a payload stays readable until it is copied or sent, and is freed once), `EveryMessageSent` |
| `remote_write` | any one of 150 calls beside a transfer of two | `FenceInv`, `AckAfterWrites`, `TransferRight`, `FenceReached` |
| `global_memory` | 12 bytes on two nodes, stride 2, one remote caller | `BlocksTile`, `FailureIsReal`, `MemoryInv` (`usage` is exact, an answer read under the mutex is the right one), `AddressingRight` (all access paths find a byte in one place), `EveryCallReturns` |
| `instances` | five threads on the owner, one elsewhere, four slots, room for two | `InstanceInv`, `StorageAccounted` (the allocator holds what the creators hold, releases by another node included) |
| `startup` | three nodes, three command lines with and without each memory and the pool, sizes below, at and past 2048 MB, segments that gasnet_attach rounds up | `StartupInv`, `LayoutRight` (all regions of a segment are disjoint and a peer writes where this node reads), `MachineAgreed` (every identifier resolves on every node to its owner's object), `EveryNodeReady`, the refinement `ImplementsLifecycle` |
| `tables` | threads of two nodes that create and look up events and sparsity maps | `TablesInv` (no ID twice), `LookupsAgree` (one object per ID, whoever looks first) |
| `runtime` | three nodes with one, two and no processors, four run styles, two callers of shutdown | `RuntimeInv`, `MainAfterInit`, `ShutdownOrderly`, `ResultAgreed`, `EveryNodeExits` |
| `mpi` | two nodes, two posted receives, tags modulo two, two sending threads | `ReceiveInv`, `OwnPayload`, `EveryNodeFinalizes` |

`NothingStranded` is about the messages `settled`: queued when `stop_threads`
sets the flag, at an endpoint that no enqueuer has still to list and no helper
works on or takes later, and only if some polling thread has not yet made its
last look at the list. The code promises no more: an endpoint listed after that
look, or taken by a thread that is not joined, can be left behind (section 7).

Invariants that belong together are conjunctions of named parts, with the
module's `TypeOK` among them. Each property has a mutant in `PROJECT.json`: a
plausible mistake in the code under which TLC finds the property violated. A
mutant of a conjunction breaks one of its parts; the others have none of their own.

**Bounds.** Each is the smallest at which the cases that matter occur: two small
payloads share a buffer and a large one does not fit behind them; the todo
list, the ring of senders, the pool, the spill limit and the instance table all
fill up; a chunked message ends in a full chunk and in a short one; a transfer
crosses the wrap from the last node to the first; a node without processors
takes part in the collectives; one thread sends more messages than there are
receives and tags; an announcement overtakes the construction of the machine;
two threads miss the same table. `endpoint` has one buffer each way: with two,
liveness needs more than fairness (below), and what two add to safety, the
rotation, the theorems cover for every number. `startup` rounds segments up by
1 MB, less than a buffer; the theorems cover every rounding. `instances` and `tables` use the symmetry of a node's threads.

**Deadlock** is checked where the system never stops. `CHECK_DEADLOCK FALSE`
stands in the runs whose finite set of messages, calls or nodes is used up, or
in which an assertion ends the process.

**Fairness.** Threads that can run do run, handlers and the network deliver:
weak fairness of those steps. Strong fairness is used twice. In
`ActiveMessageEndpoint`, the push actions are disabled for a moment by every
short message at the head of the loop. With several buffers that is not enough:
FLIP_ACKs for different buffers can alternate so that the short queue is never
seen empty, and `EveryMessageHandled` then needs the further assumption that it
is empty again and again, which the round trip between two flips justifies (TLC
confirms it for two buffers). In `EndpointManager`, `push_messages` may
break out while an endpoint has no buffer or no source data; that it does not
do so for ever is what `endpoint` and `pool` show of those parts. In `startup`
the handlers of announcements and the main thread of every node go on unless an
assertion has ended the process. No task is obliged to call shutdown, and nobody
is obliged to send. `tables` and `instances` check no liveness.

## 4. What is proved

All theorems hold for every value of the constants that meets the named
assumptions (finite sets of messages or targets, sizes that fit a buffer, a
peer relation that is its own inverse, and the like).

- **EndpointInvariant** (`EndpointInv`), and from it **NoOverwrite**,
  **AcksAreExact** and **NeverWedged**. `UnreadDisjoint` alone is not inductive:
  whether a buffer may be reopened depends on the read count, which goes
  negative when messages are handled before or after the FLIP_REQ. The
  strengthening says that every buffer is in one of four phases (open, flipped,
  draining, drained), each with its own equation between the read count, the
  unread messages and the writer's count (`BufferPhase`), and that the write
  offset is past all unread payloads of the open buffer (`WriterInv`).
- **HandoffImplemented** (`ImplementsHandoff`): every step of the endpoints is a
  step of `LmbHandoff` or leaves its variables alone. A push into a buffer is
  its `Write`, a handled message its `Read`, a flip its `HandOver`; that a
  FLIP_ACK is its `Return`, which needs an empty buffer, is where the phases are
  used.
- **BuffersDisjoint** and **BuffersAbovePool**: the layout of a segment, for any
  number of nodes and buffers and any sizes below 2048 MB. The buffers are
  numbered by writer and index, the numbering is injective, and its range is
  what `init_endpoints` has reserved.
- **StartupInvariant** (`StartupInv`), and from it **SegmentsLaidOut**
  (`LayoutRight`) and **MachinesAgree** (`MachineAgreed`), for any number of
  nodes and any command line. `LayoutRight` speaks of memories that stand in a
  table, of the pool and of the buffers, so the strengthening records where each
  was placed and from what (`PlacesInv`), which objects can exist when the main
  thread is at a given point, that identifiers are positions in a table, and
  that at most one memory and one intermediate buffer are registered
  (`ObjectsInv`). With that the layout theorems apply. `MachineAgreed` speaks of
  two ready nodes, so the strengthening says what any node holds of any other at
  any time: nothing, or exactly what the other has made, which no longer changes
  once it is announced (`ProxiesInv`), and the same of every announcement under
  way (`NetInv`).
- **TodoTokens** (`TokenInv`) and **TodoNeverWraps**. An endpoint with queued
  messages has exactly one token: on the list, with a pusher, or owed by the
  enqueuer that found the queue empty. The ring cannot wrap because tokens are
  distinct endpoints (pigeonhole).
- **ManagerInvariant** (`ManagerInv`) and **StopSendsSettled**
  (`NothingStranded`). To the tokens it adds where a message is from
  `enqueue_message` to its send (`NothingLost`), and where the token of a settled
  message is while the message is queued (`ExitInv`): with a polling thread, or
  on the list with some polling thread that has still to look at it. A thread
  that finds the list empty therefore leaves every such token with another
  polling thread, and one that puts a token back looks again before it reads the
  flag. A failed trylock is no look.
- **RuntimeInvariant** (`RuntimeInv`), and from it **MainTasksWait**
  (`MainAfterInit`), **TeardownWaits** (`ShutdownOrderly`) and **OneResultCode**
  (`ResultAgreed`), for any number of nodes, processors and callers. None of
  the three is inductive: the strengthening follows the set of tasks that each
  gather and broadcast of `run` carries (`CarriedInv`), shows that nothing is
  spawned before the first gather has heard from every node (`SpawnInv`), hence
  that no request for shutdown reaches a node outside `run`, that the request
  is everywhere before a node passes the barrier (`StopInv`), and which code
  travels with it (`CodeInv`).
- **IncomingRing** and **IncomingNeverWraps**, by the same argument
  for the ring of senders, with the indices of the array.
- **PathInvariant** (`PathInv`) and **HandledOnceAndWhole** (`HandledWhole`), for
  messages of any size, their chunks in any order, and any number of handler
  threads. `HandledWhole` speaks of complete messages only. The strengthening
  follows each chunk: it is unsent, on the network or seen (`SenderInv`); an id is
  the name of one message as long as a chunk of it is missing (`IdsName`); the
  map has an entry exactly for the messages that are partly seen, and the entry is
  the number, the size and the lowest address of the chunks seen (`MapInv`). A
  full count then means that all chunks have come, and the size and the address
  are those of the message. Behind the map a message that was added is in
  one list, one batch or handled, once (`PlacesInv`).
- **FenceInvariant** (`FenceInv`) and **FenceWaitsForWrites**
  (`AckAfterWrites`). The entry of a transfer is an exact function of the
  writes counted so far and of whether the fence has come.
- **TransfersAreCounted** (`Spec => FenceSpec`). The transfers with their data
  implement the counting: the number a call returns is the number of its
  messages. The two theorems above therefore hold of `RemoteWrite`.
- **DataArrives** (`TransferRight`), for any transfers, calls, sizes and buffer.
  Each way of chopping cuts the elements of a call: the pieces put them at their
  addresses, do not overlap and leave none out (`Cut`). For the loops over
  entries of different sizes this is an induction along `Starts`.
  `TransferRight` speaks of the time of the acknowledgement and is not
  inductive. `DataInv` says of each transfer that `in_flight` is the number of
  its messages, that an element is in place or in a message, and in one
  only. With `FenceInv`, an acknowledged transfer has no message left, so
  all is in place.
- **MemoryTiled** (`BlocksTile`) and **FailureMeansFull** (`FailureIsReal`).
  Free blocks and callers' blocks tile the memory, and no two free blocks
  touch, for any sequence of allocations and frees and any alignment.
- **MemoryAccounted** (`MemoryInv`). `usage` is the number of bytes that callers
  hold: a block leaves or joins a finite set of bytes disjoint from it, by the
  tiling. That a caller which waited under the mutex returns node 0's answer
  needs the order of the setter's statements against the waiter's.
- **AccessPathsAgree** (`AddressingRight`), for any number of nodes, stride and
  size. The batch functions step from chunk to chunk, the others divide.
  The chunk that stepping reaches has a closed form, and the smallest
  step at which the two differed would contradict the one before it.
- **PoolStaysPartitioned** (`PoolPartition`, `WholeBlocks`),
  **PayloadSentAndFreedOnce** (`PayloadKept`), **HoldersNotBehindPending**
  (`NoHolderBehindPending`) and **PoolInvariant** (`PoolInv`), for any messages,
  endpoints, block size and pool. The inductive invariant `CoreInv` states the
  partition by the bounds of the spans, which a cut and the merge with either
  neighbour transform (`Tiles`). It says for each stage of a message where its
  payload lies and whether it still has to be freed (`MessageLife`,
  `PayloadsAlive`), and which stages hold a span (`HolderLife`).
  `NoHolderBehindPending` needs in addition that an endpoint's queue and the
  pool's list of pending messages agree on their order (`QueueOrder`): the
  pending message that a release serves is the first, so no other is
  ahead of it in its own queue. The spill counter is the size of a set of
  cells, one for each byte counted. All four hold whatever the read at
  activemsg.cc:2201 gives (`StaleReads` is any set of integers); `SpillExact`, in
  `PoolInv`, speaks of the time up to the first misread size, and the proof
  shows that nothing else makes the counter drift.

Only model-checked: all liveness properties; the refinement
`ImplementsLifecycle`; and everything in `InstanceStorage`, `ObjectTables` and
`ActiveMessagesMPI`. Liveness is out of the prover's reach. The library's
induction theorems take an operator and cannot be used; induction over numbers
is done by the least counterexample, as above. For the three modules and the
safety part of `ImplementsLifecycle` no obstacle is known; the proofs have not
been written. `ImplementsLifecycle` is
apart from `Startup` because an instance of `RuntimeLifecycle` in the context
makes every leaf of the proofs several times slower.

## 5. Assumptions of the model

- GASNet and MPI deliver every message once. GASNet may reorder; MPI keeps
  the order per sender and communicator.
- `SpillExact`, and `EveryMessageSent` for waits for spill memory, are claimed
  until the read of a deleted message at activemsg.cc:2201 gives another size
  than it had (section 7).
- Each payload fits into the pool, the pool is a whole number of blocks, and
  a payload that waits for spill memory is not larger than the limit
  (`PoolAssumption`).
- A remote write, serdez copy or reduction is not empty (the contiguous write
  asserts it, mem_impl.cc:1498), and one line, serialized element or value fits a
  message, as the functions assert (`WriteAssumption`).
- `OwnPayload` is stated for threads with distinct ids that send mediums to one
  target. `ResultAgreed` is stated for one initiator of the shutdown.
- A payload given with PAYLOAD_FREE is contiguous, as in every call in the
  repository: the 2D and span sources never free theirs.
- `SrcDataPool` has a pool (`-ll:sdpsize` is not 0, section 6) and a spill limit,
  which the command line cannot set (section 7).
- `LayoutRight` is stated for sizes below 2048 MB and for segments of one size,
  which gasnet_attach gives when all nodes ask for the same.
- All nodes get the same command line. `DynamicTable` and
  `DynamicTableFreeList`, and the handler of announcements, are modelled from
  their use, as they are not in this repository.
- One thread sends the long messages of `ReceivePath` (`PathAssumption`): one
  polls by default. With two, the race of section 7 occurs.
- At least one polling thread is started (`SomePoller`), and the numbers of the
  command line are naturals (`CommandAssumption`).
- Callers of `run` pass the same arguments on every node.
- Under MPI the program's threads have finished before their node stops, and
  handlers reply with short messages only. The main thread has sent nothing
  before it stops the polling thread, so it takes a thread id then.
- A copy of an instance's metadata is made after the allocation, and invalidated
  before the creator reuses the slot: the invalidation messages that
  runtime_impl.cc:1318-1321 registers are acknowledged.
- Preconditions of storage requests have triggered.

## 6. What is not modelled

- `RemoteIDAllocator`: the call that would give it a request size is commented
  out (runtime_impl.cc:1397), so it never sends a request.
- The implementations of events, barriers, reservations and of `DynamicTable`,
  which are not in this repository; lookups of reservations and processor groups,
  which do what those of events do.
- The MPI variants `INCOMING_THREADS`, `put_medium` and `pre_medium`, which the
  macros switch off (macros_ammpi/am_mpi.def:16-17, macros_impl/common.def:5);
  the first is refused beside `AM_MULT_RECV` (macros_ammpi/am_mpi.def:52).
- `do_remote_apply_red_list`, whose handler asserts 0 for every memory
  (mem_impl.cc:1326-1337, 731), and the arithmetic of reductions.
- The branch of `reserve_srcdata` without a pool (activemsg.cc:2164-2181): with
  `-ll:sdpsize 0` a payload to be copied (1479) and the spill report (2673) use
  the missing pool through a null pointer.
- The messages that request and invalidate metadata (`RegionInstanceImpl` is
  not in this repository); `FetchMetadata` and `HandleReleaseResponse` of
  `InstanceStorage` have their effect on the owner's copy.
- Timing, profiling and logging; the stubs for a build without GASNet; code
  under `#if 0`; tutorials, tests and the Legion front end macros.

## 7. What the model says about the code

One disagreement between code and comment has a run, `long_message_race`:
`send_long` executes `next_outgoing_message_id++` (activemsg.cc:1860) after the
endpoint's mutex has been released. Two polling threads inside `send_long` for
one endpoint can draw the same id, and the receiver completes a message from
chunks of both.

The following are not the subject of a run. For the first six a definition in
the module states what one would expect; TLC finds it violated when it is put in
the configuration of the module's run, with the change named
here, if any.

- `EndpointManager!SentInOrder`: with a second thread that pushes, a message is popped under
  the mutex and sent after it, so a later one can overtake it (activemsg.cc:1409).
- `EndpointManager!ExitsAfterPushing`: a polling thread can exit although an
  endpoint was listed between its look at the list (2292) and its read of the
  flag (2618), or while an enqueuer stands between the queue and
  `add_todo_entry`.
- `SrcDataPool!FrontPendingFitsNowhere`: the loop at 635 calls
  `alloc_srcptr`, which refuses while anyone is pending (491), so a pending
  message can wait beside a span that fits it. It is served by a later release.
- `SrcDataPool!SpillExact` without its premise `~misread`: 2201 reads the size
  of a message that may have been deleted.
- `GASNetMemory!CallGetsAnswer`: `wait` looks at `valid` without the mutex
  (activemsg.h:400) and `set` writes `valid` before `value`.
- `ActiveMessagesMPI!IdsDistinct`: `num_threads++` and the read after it are two
  steps (am_mpi.def:57). Payloads are then mixed up. They also are with distinct
  ids when `SlotCount` exceeds `TagRange`, and with three nodes when one thread
  sends to two of them, as `am_seq` is shared between targets (am_mpi.def:41).

From reading, without a definition:

- The polling threads start before the incoming message manager exists
  (runtime_impl.cc:1430); `RuntimeInv` shows the assertion can fail only then.
- Two initiators of shutdown with different codes: nodes may exit with
  different codes.
- The release of an instance created on another node meets the assertion at
  mem_impl.cc:462 if the owner has not requested its metadata
  (`HandleReleaseRequest` of `InstanceStorage`).
- `precondition.wait()` blocks a handler thread (mem_impl.cc:419).
- `-ll:spillstall` sets the spill step (activemsg.cc:2450), so the spill limit
  stays at its default of none, and no sender is ever suspended for it. `pool`
  has a limit to take the code behind it as well.
- The segment is laid out with `int` shifts (2538) while its size uses `size_t`
  (2469): `SegmentLayout!ShiftInt`. From 2048 MB on the pool may be misplaced.
- The reader's bases use the size of the writer's segment with its own address
  (1220): right only while all segments have one size.
- The affinity between a system memory and the global memory is announced by
  node 0 alone, which `MachineAgreed` allows for.
- Under MPI a long message's offset is cut to 32 bits
  (macros_ammpi/am_mpi.def:520).

## 8. What could follow

1. The invariants of `ObjectTables`, `InstanceStorage` and `ActiveMessagesMPI`
   as theorems, and the safety part of `ImplementsLifecycle`.
2. Composition of `SrcDataPool` with `EndpointManager`, which now assume each
   other's progress.
3. The MPI variants, should they be switched on.
