----------------------------- MODULE FreeBlocks -----------------------------
(***************************************************************************)
(* The byte allocator of a Realm memory: MemoryImpl::alloc_bytes_local and *)
(* MemoryImpl::free_bytes_local (mem_impl.cc), which keep the free ranges  *)
(* of the memory in the map free_blocks, offset -> length.  Both run under *)
(* the memory's mutex, so each is one step.                                *)
(*                                                                         *)
(* live is the ghost of what the callers hold: offset -> padded length.    *)
(***************************************************************************)
EXTENDS Integers, FiniteSets

CONSTANTS
  Size,        \* bytes of the memory (MemoryImpl::size)
  Alignment,   \* allocations are padded to a multiple of it; 0: no padding
  Requests     \* the sizes callers ask for

ASSUME SizeAssumption == Size \in Nat \ {0}
ASSUME AlignmentAssumption == Alignment \in Nat
ASSUME RequestsAssumption == Requests \subseteq Nat

VARIABLES free_blocks, live, usage

blockVars == <<free_blocks, live, usage>>

Failed == -1

\* this->size + ZERO_SIZE_INSTANCE_OFFSET: any offset beyond the memory does.
ZeroSizeOffset == Size + 1

\* A partial map from offsets to lengths.
IsBlockMap(f) ==
  /\ f = [o \in DOMAIN f |-> f[o]]
  /\ DOMAIN f \subseteq 0..(Size - 1)
  /\ \A o \in DOMAIN f : f[o] \in 1..Size

\* The padding both functions apply, so that a free returns what its
\* allocation took.
Pad(n) ==
  LET leftover == IF Alignment > 0 THEN n % Alignment ELSE 0
  IN  IF leftover > 0 THEN n + (Alignment - leftover) ELSE n

Without(f, k) == [x \in DOMAIN f \ {k} |-> f[x]]
With(f, k, v) == [x \in DOMAIN f \cup {k} |-> IF x = k THEN v ELSE f[x]]

BlockInit ==
  /\ free_blocks = [o \in {0} |-> Size]
  /\ live = [o \in {} |-> 0]
  /\ usage = 0

-----------------------------------------------------------------------------
(* Allocation.                                                             *)

LargeEnough(need) == {o \in DOMAIN free_blocks : free_blocks[o] >= need}

\* The scan runs from the highest offset down and stops at the first block
\* that is large enough.
IsHighest(o, need) ==
  /\ o \in LargeEnough(need)
  /\ \A p \in LargeEnough(need) : p <= o

\* The allocation takes the upper end of block o.
TakeWholeBlock(o, need) == /\ free_blocks' = Without(free_blocks, o)
                           /\ live' = With(live, o, need)
                           /\ usage' = usage + need
TakeFrom(o, need) ==
  LET leftover == free_blocks[o] - need
  IN  /\ free_blocks' = IF leftover = 0 THEN Without(free_blocks, o)
                                        ELSE With(free_blocks, o, leftover)
      /\ live' = With(live, o + leftover, need)
      /\ usage' = usage + need

\* What alloc_bytes_local(n) does when it returns r.
AllocBytesLocal(n, r) ==
  \/ /\ n = 0
     /\ r = ZeroSizeOffset
     /\ UNCHANGED blockVars
  \/ /\ n > 0
     /\ \E o \in LargeEnough(Pad(n)) :
          /\ IsHighest(o, Pad(n))
          /\ r = o + free_blocks[o] - Pad(n)
          /\ TakeFrom(o, Pad(n))
  \/ /\ n > 0
     /\ LargeEnough(Pad(n)) = {}
     /\ r = Failed
     /\ UNCHANGED blockVars

-----------------------------------------------------------------------------
(* Freeing.                                                                *)

\* free_blocks after [offset, offset + n) is given back: it absorbs the block
\* that starts where it ends, and is absorbed by the one that ends where it
\* starts.
MergeUpOnly(offset, n) ==
  LET eats == (offset + n) \in DOMAIN free_blocks
  IN  With(Without(free_blocks, offset + n), offset,
           IF eats THEN n + free_blocks[offset + n] ELSE n)
Merged(offset, n) ==
  LET After == {o \in DOMAIN free_blocks : o >= offset}
      Before == {o \in DOMAIN free_blocks : o < offset}
      eats == \E a \in After : (\A p \in After : a <= p) /\ offset + n = a
      grown == IF eats THEN n + free_blocks[offset + n] ELSE n
      rest == IF eats THEN Without(free_blocks, offset + n) ELSE free_blocks
      grows == {b \in Before : /\ \A p \in Before : p <= b
                               /\ b + free_blocks[b] = offset}
  IN  IF grows = {}
      THEN With(rest, offset, grown)
      ELSE [x \in DOMAIN rest |-> IF x \in grows THEN rest[x] + grown
                                                 ELSE rest[x]]

\* free_bytes_local(offset, n), for the n its allocation asked for.
FreeBytesLocal(offset, n) ==
  \/ /\ n = 0
     /\ offset = ZeroSizeOffset
     /\ UNCHANGED blockVars
  \/ /\ n > 0
     /\ offset \in DOMAIN live
     /\ live[offset] = Pad(n)
     /\ free_blocks' = Merged(offset, Pad(n))
     /\ live' = Without(live, offset)
     /\ usage' = usage - Pad(n)

BlockNext ==
  \E n \in Requests :
    \/ \E r \in 0..(Size + 1) \cup {Failed} : AllocBytesLocal(n, r)
    \/ \E offset \in DOMAIN live \cup {ZeroSizeOffset} :
         FreeBytesLocal(offset, n)

BlockSpec == BlockInit /\ [][BlockNext]_blockVars

-----------------------------------------------------------------------------
(* Properties.                                                             *)

BlockType ==
  /\ IsBlockMap(free_blocks)
  /\ IsBlockMap(live)

\* No two callers share a byte, and no caller's byte is on the free list,
\* whatever alloc_bytes_local and free_bytes_local were called in between.
LiveDisjoint ==
  \A o, p \in DOMAIN live : o < p => o + live[o] <= p
FreeApart ==
  \A o \in DOMAIN free_blocks, p \in DOMAIN live :
    \/ o + free_blocks[o] <= p
    \/ p + live[p] <= o
InMemory ==
  /\ \A o \in DOMAIN free_blocks : o + free_blocks[o] <= Size
  /\ \A o \in DOMAIN live : o + live[o] <= Size

\* Free blocks never touch: free_bytes_local merges with both neighbours.
Coalesced ==
  \A o, p \in DOMAIN free_blocks : o < p => o + free_blocks[o] < p

\* Nothing is lost: every byte is held by a caller or on the free list.
Covered ==
  \A b \in 0..(Size - 1) :
    \/ \E o \in DOMAIN free_blocks : o <= b /\ b < o + free_blocks[o]
    \/ \E o \in DOMAIN live : o <= b /\ b < o + live[o]

\* The free list and the callers' blocks tile the memory: the asserts "no
\* overlap!" of free_bytes_local hold on every free, and no byte leaks.
BlocksTile ==
  BlockType /\ LiveDisjoint /\ FreeApart /\ InMemory /\ Coalesced /\ Covered

\* "no blocks large enough" (alloc_bytes_local) is the truth about the memory
\* and not only about the list: a run of n bytes that no caller holds lies in
\* a single block of the list, so an allocation fails only if no such run
\* exists.
IsHeld(b) == \E o \in DOMAIN live : o <= b /\ b < o + live[o]

FailureIsReal ==
  \A b \in 0..(Size - 1), n \in 1..Size :
    (b + n <= Size /\ \A x \in b..(b + n - 1) : ~IsHeld(x))
      => \E o \in DOMAIN free_blocks : /\ o <= b
                                       /\ b + n <= o + free_blocks[o]

\* The usage gauge is the number of bytes the callers hold, padding included:
\* it is applied alike by the allocation and by the free.
HeldBytes == {b \in 0..(Size - 1) : IsHeld(b)}
UsageExact == usage = Cardinality(HeldBytes)

=============================================================================
