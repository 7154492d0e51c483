--------------------------- MODULE SegmentLayout ---------------------------
(***************************************************************************)
(* The registered segment of each node: init_endpoints asks GASNet for one *)
(* segment and several pieces of code then place regions in it on their    *)
(* own.  RuntimeImpl puts the global memory, the registered memory and the *)
(* intermediate buffers at its start, init_endpoints the source data pool  *)
(* behind them, and every ActiveMessageEndpoint its long message buffers   *)
(* at the end, each node computing where its peers will write.             *)
(*                                                                         *)
(* Sizes and addresses are in megabytes.  init_endpoints takes the sizes   *)
(* as int and shifts them left by 20: from 2048 on that overflows, which   *)
(* is undefined and in practice wraps at 2^32 bytes.                       *)
(***************************************************************************)
EXTENDS Integers

CONSTANTS
  NumNodes,   \* gasnet_nodes()
  Addr        \* Addr[n]: segment_info[n].addr

Nodes == 0 .. NumNodes - 1

ASSUME LayoutAssumption ==
  /\ NumNodes \in Nat \ {0}
  /\ Addr \in [Nodes -> Nat]

(* The options init_endpoints reads, those of the spill limit left out.    *)
EndpointOptions(cmd) ==
  [num_lmbs |-> cmd.numlmbs,
   lmb_size |-> IF cmd.lmbsize # 0 THEN cmd.lmbsize ELSE 1,
   sdpsize  |-> cmd.sdpsize]

TotalLmbSize(cmd) ==
  NumNodes * EndpointOptions(cmd).num_lmbs * EndpointOptions(cmd).lmb_size

(* Here every size is widened before it is shifted.                        *)
AttachSize(cmd) ==
  cmd.gsize + cmd.rsize + cmd.ib_rsize + EndpointOptions(cmd).sdpsize + TotalLmbSize(cmd)

(* The results a build can give for "x << 20" of an int x, in megabytes.   *)
ShiftInt(x) == {x} \cup (IF x < 2048 THEN {} ELSE {((x + 2048) % 4096) - 2048})

(* The offsets my_segment can have when srcdatapool_base is taken.         *)
PoolOffsets(cmd) ==
  {g + r + i : g \in ShiftInt(cmd.gsize), r \in ShiftInt(cmd.rsize), i \in ShiftInt(cmd.ib_rsize)}

(* What runtime_impl.cc computes for itself, with size_t operands.         *)
RegMemOffset(cmd) == cmd.gsize
IbMemOffset(cmd) == cmd.gsize + cmd.rsize

(* Distance of a buffer from the end of the segment that holds it: buffer  *)
(* i of the messages from node w.                                          *)
LmbFromEnd(cmd, w, i) ==
  EndpointOptions(cmd).lmb_size * (w * EndpointOptions(cmd).num_lmbs + i + 1)

Lmbs(cmd) == 0 .. EndpointOptions(cmd).num_lmbs - 1

(* A reader that numbers the buffers by its own rank.                      *)
LmbReadBaseByOwnRank(cmd, size, n, peer, i) == Addr[n] + size[peer] - LmbFromEnd(cmd, n, i)

(* The constructor of node n's endpoint for peer: lmb_w_bases and          *)
(* lmb_r_bases.  Both use the size of the peer's segment.                  *)
LmbWriteBase(cmd, size, n, peer, i) == Addr[peer] + size[peer] - LmbFromEnd(cmd, n, i)
LmbReadBase(cmd, size, n, peer, i) == Addr[n] + size[peer] - LmbFromEnd(cmd, peer, i)
=============================================================================
