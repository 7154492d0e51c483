----------------------------- MODULE MCStartup -----------------------------
(***************************************************************************)
(* Three nodes and three command lines: with and without each memory and   *)
(* the pool, sizes at and past the largest that an int holds in bytes.     *)
(***************************************************************************)
EXTENDS StartupLifecycle

MCAddr == [n \in 0 .. NumNodes - 1 |-> 100000 * (n + 1)]

CommandLine(g, r, ib, sdp, lmb, num, d, io) ==
  [gsize |-> g, rsize |-> r, ib_rsize |-> ib, sdpsize |-> sdp, lmbsize |-> lmb, numlmbs |-> num,
   csize |-> 512, dsize |-> d, util |-> 1, io |-> io, cpu |-> 1]

MCCommands ==
  {CommandLine(256, 128, 256, 64, 0, 2, 1, 0),
   CommandLine(0, 2047, 0, 0, 2, 1, 0, 1),
   CommandLine(4096, 2048, 256, 64, 2, 1, 0, 0)}
=============================================================================
