------------------------- MODULE GASNetMemoryProofs -------------------------
(***************************************************************************)
(* For every size of the memory, every alignment and every sequence of     *)
(* allocations and frees, local or by message: the free list and the       *)
(* callers' blocks tile the memory, and an allocation that fails fails for *)
(* want of room.  BlocksTile is inductive as it stands: Coalesced needs    *)
(* FreeApart to know that the freed block lies between its neighbours, and *)
(* Covered needs both to follow a byte from one map to the other.  With    *)
(* the tiling, usage counts the bytes held, and a remote caller that       *)
(* waited under the future's mutex gets node 0's answer.  The last part is *)
(* about addresses: all access paths agree on where a byte lives.          *)
(***************************************************************************)
EXTENDS GASNetMemory, FiniteSetTheorems, TLAPS

\* The padding of both functions never shrinks a request.
LEMMA PadGrows ==
  ASSUME NEW n \in Nat, n > 0
  PROVE  Pad(n) \in Nat /\ Pad(n) >= n
  <1>1. CASE Alignment = 0
    BY <1>1 DEF Pad
  <1>2. CASE Alignment > 0
    <2>1. n % Alignment \in 0..(Alignment - 1)
      BY <1>2, AlignmentAssumption
    <2>2. QED
      BY <2>1, <1>2, AlignmentAssumption DEF Pad
  <1>3. QED
    BY <1>1, <1>2, AlignmentAssumption

\* Taking the upper end of a block that is large enough (alloc_bytes_local)
\* keeps the tiling.
LEMMA TakeKeepsTiling ==
  ASSUME BlocksTile, NEW o \in DOMAIN free_blocks, NEW need \in Nat, need > 0,
         free_blocks[o] >= need, TakeFrom(o, need)
  PROVE  BlocksTile'
<1> DEFINE left == free_blocks[o] - need
           p == o + left
<1> USE SizeAssumption
<1>1. /\ \A x \in DOMAIN free_blocks : /\ x \in 0..(Size - 1)
                                       /\ free_blocks[x] \in 1..Size
                                       /\ x + free_blocks[x] <= Size
      /\ \A x \in DOMAIN live : /\ x \in 0..(Size - 1)
                                /\ live[x] \in 1..Size
                                /\ x + live[x] <= Size
  BY DEF BlocksTile, BlockType, IsBlockMap, InMemory
<1>2. /\ left \in Nat
      /\ p \in 0..(Size - 1)
      /\ p + need = o + free_blocks[o]
  BY <1>1
<1>3. p \notin DOMAIN live
  BY <1>1, <1>2 DEF BlocksTile, FreeApart
<1>4. /\ live' = [x \in DOMAIN live \cup {p} |-> IF x = p THEN need ELSE live[x]]
      /\ DOMAIN live' = DOMAIN live \cup {p}
      /\ live'[p] = need
      /\ \A x \in DOMAIN live : live'[x] = live[x]
  BY <1>3 DEF TakeFrom, With
<1>5. /\ DOMAIN free_blocks' \subseteq DOMAIN free_blocks
      /\ \A x \in DOMAIN free_blocks : x # o => x \in DOMAIN free_blocks'
      /\ \A x \in DOMAIN free_blocks' : x # o => free_blocks'[x] = free_blocks[x]
      /\ o \in DOMAIN free_blocks' <=> left > 0
      /\ o \in DOMAIN free_blocks' => free_blocks'[o] = left
      /\ free_blocks' = [x \in DOMAIN free_blocks' |-> free_blocks'[x]]
  <2>1. CASE left = 0
    <3>1. free_blocks' = Without(free_blocks, o)
      BY <2>1 DEF TakeFrom
    <3>2. QED
      BY <3>1, <2>1, <1>2 DEF Without
  <2>2. CASE left # 0
    <3>1. free_blocks' = With(free_blocks, o, left)
      BY <2>2 DEF TakeFrom
    <3>2. QED
      BY <3>1, <2>2, <1>2 DEF With
  <2>3. QED
    BY <2>1, <2>2
<1> HIDE DEF left, p
<1>6. /\ \A x \in DOMAIN free_blocks' :
           free_blocks'[x] \in Nat /\ free_blocks'[x] <= free_blocks[x]
      /\ left = free_blocks[o] - need
      /\ p = o + left
  BY <1>1, <1>2, <1>5 DEF left, p
<1>7. BlockType'
  <2>1. IsBlockMap(free_blocks')
    BY <1>1, <1>2, <1>5, <1>6 DEF IsBlockMap
  <2>2. IsBlockMap(live')
    BY <1>1, <1>2, <1>4, <1>6 DEF IsBlockMap
  <2>3. QED
    BY <2>1, <2>2 DEF BlockType
<1>8. LiveDisjoint'
  BY <1>1, <1>2, <1>3, <1>4, <1>6 DEF BlocksTile, LiveDisjoint, FreeApart
<1>9. FreeApart'
  <2>1. \A x \in DOMAIN free_blocks : x # o =>
          x + free_blocks[x] < o \/ o + free_blocks[o] < x
    BY <1>1 DEF BlocksTile, Coalesced
  <2>2. ASSUME NEW x \in DOMAIN free_blocks', NEW y \in DOMAIN live
        PROVE  x + free_blocks'[x] <= y \/ y + live'[y] <= x
    BY <1>1, <1>4, <1>5, <1>6 DEF BlocksTile, FreeApart
  <2>3. ASSUME NEW x \in DOMAIN free_blocks'
        PROVE  x + free_blocks'[x] <= p \/ p + live'[p] <= x
    <3>1. CASE x = o
      BY <3>1, <1>1, <1>2, <1>5, <1>6
    <3>2. CASE x # o
      BY <3>2, <2>1, <1>1, <1>2, <1>4, <1>5, <1>6
    <3>3. QED
      BY <3>1, <3>2
  <2>4. QED
    BY <2>2, <2>3, <1>4 DEF FreeApart
<1>10. InMemory'
  BY <1>1, <1>2, <1>4, <1>5, <1>6 DEF InMemory
<1>11. Coalesced'
  BY <1>1, <1>5, <1>6 DEF BlocksTile, Coalesced
<1>12. Covered'
  <2> SUFFICES ASSUME NEW b \in 0..(Size - 1)
               PROVE  \/ \E x \in DOMAIN free_blocks' :
                           x <= b /\ b < x + free_blocks'[x]
                      \/ \E x \in DOMAIN live' : x <= b /\ b < x + live'[x]
    BY DEF Covered
  <2>1. CASE \E x \in DOMAIN live : x <= b /\ b < x + live[x]
    BY <2>1, <1>4
  <2>2. CASE \E x \in DOMAIN free_blocks : x # o /\ x <= b /\ b < x + free_blocks[x]
    BY <2>2, <1>5
  <2>3. CASE o <= b /\ b < o + free_blocks[o]
    <3>1. CASE b < p
      <4>1. left > 0
        BY <3>1, <2>3, <1>1, <1>2, <1>6
      <4>2. QED
        BY <4>1, <3>1, <2>3, <1>5, <1>6
    <3>2. CASE p <= b
      BY <3>2, <2>3, <1>2, <1>4
    <3>3. QED
      BY <3>1, <3>2, <1>1, <1>2
  <2>4. QED
    BY <2>1, <2>2, <2>3 DEF BlocksTile, Covered
<1>13. QED
  BY <1>7, <1>8, <1>9, <1>10, <1>11, <1>12 DEF BlocksTile

\* Giving a held block back (free_bytes_local) keeps the tiling: the block is
\* merged with the free block above it, the one below it, both or neither.
LEMMA FreeKeepsTiling ==
  ASSUME BlocksTile, NEW offset \in DOMAIN live,
         free_blocks' = Merged(offset, live[offset]),
         live' = Without(live, offset)
  PROVE  BlocksTile'
<1> DEFINE n == live[offset]
           up == offset + n
           After == {o \in DOMAIN free_blocks : o >= offset}
           Before == {o \in DOMAIN free_blocks : o < offset}
           eats == \E a \in After : (\A q \in After : a <= q) /\ up = a
           grown == IF eats THEN n + free_blocks[up] ELSE n
           rest == IF eats THEN Without(free_blocks, up) ELSE free_blocks
           grows == {b \in Before : /\ \A q \in Before : q <= b
                                    /\ b + free_blocks[b] = offset}
<1> USE SizeAssumption
<1>1. /\ \A x \in DOMAIN free_blocks : /\ x \in 0..(Size - 1)
                                       /\ free_blocks[x] \in 1..Size
                                       /\ x + free_blocks[x] <= Size
      /\ \A x \in DOMAIN live : /\ x \in 0..(Size - 1)
                                /\ live[x] \in 1..Size
                                /\ x + live[x] <= Size
  BY DEF BlocksTile, BlockType, IsBlockMap, InMemory
<1>2. n \in 1..Size /\ offset \in 0..(Size - 1) /\ up = offset + n /\ up <= Size
  BY <1>1
<1>3. \A x \in DOMAIN free_blocks : x + free_blocks[x] <= offset \/ up <= x
  BY <1>1 DEF BlocksTile, FreeApart
<1>4. \A x, y \in DOMAIN free_blocks : x < y => x + free_blocks[x] < y
  BY DEF BlocksTile, Coalesced
\* The neighbours the map lookups find are the touching blocks.
<1>5. eats <=> up \in DOMAIN free_blocks
  BY <1>1, <1>2, <1>3
<1>6. \A b \in DOMAIN free_blocks :
        b \in grows <=> b + free_blocks[b] = offset
  BY <1>1, <1>2, <1>3, <1>4
<1>7. grows \subseteq DOMAIN free_blocks
  OBVIOUS
<1>8. free_blocks' = IF grows = {}
                     THEN With(rest, offset, grown)
                     ELSE [x \in DOMAIN rest |->
                             IF x \in grows THEN rest[x] + grown ELSE rest[x]]
  BY DEF Merged
<1>9. /\ DOMAIN rest = DOMAIN free_blocks \ (IF eats THEN {up} ELSE {})
      /\ \A x \in DOMAIN rest : rest[x] = free_blocks[x]
  BY <1>5 DEF Without
<1>10. offset \notin DOMAIN free_blocks
  BY <1>1, <1>2, <1>3
<1>11. /\ grown \in Nat /\ grown >= n
       /\ eats => grown = n + free_blocks[up]
       /\ ~eats => grown = n
       /\ offset + grown <= Size
  BY <1>1, <1>2, <1>5
<1>12. /\ live' = [x \in DOMAIN live \ {offset} |-> live[x]]
       /\ DOMAIN live' = DOMAIN live \ {offset}
       /\ \A x \in DOMAIN live' : live'[x] = live[x]
  BY DEF Without
<1> HIDE DEF n, up, eats, grown, rest, grows, After, Before
\* One block of the new list, at base, covers the freed one; every other is
\* an old block, and the only old block that is gone is the one at up.
<1> DEFINE Base(base) ==
             /\ base \in DOMAIN free_blocks'
             /\ base \in 0..(Size - 1)
             /\ base <= offset
             /\ free_blocks'[base] \in 1..Size
             /\ base + free_blocks'[base] = offset + grown
             /\ base = offset \/ (/\ base \in DOMAIN free_blocks
                                  /\ base + free_blocks[base] = offset)
             /\ base = offset => \A x \in DOMAIN free_blocks :
                                   x + free_blocks[x] # offset
             /\ \A x \in DOMAIN free_blocks' : x # base =>
                  /\ x \in DOMAIN free_blocks
                  /\ x # up
                  /\ free_blocks'[x] = free_blocks[x]
             /\ \A x \in DOMAIN free_blocks :
                  x # up => x \in DOMAIN free_blocks'
             /\ free_blocks' = [x \in DOMAIN free_blocks' |-> free_blocks'[x]]
<1>13. \E base : Base(base)
  <2>1. CASE grows = {}
    <3>1. /\ free_blocks' = [x \in DOMAIN rest \cup {offset} |->
                               IF x = offset THEN grown ELSE rest[x]]
          /\ DOMAIN free_blocks' = DOMAIN rest \cup {offset}
          /\ free_blocks'[offset] = grown
          /\ \A x \in DOMAIN rest : free_blocks'[x] = rest[x]
      BY <2>1, <1>8, <1>9, <1>10 DEF With
    <3>2. \A x \in DOMAIN free_blocks : x + free_blocks[x] # offset
      BY <2>1, <1>6
    <3>3. Base(offset)
      BY <3>1, <3>2, <1>2, <1>5, <1>9, <1>11
    <3>4. QED
      BY <3>3
  <2>2. CASE grows # {}
    <3>1. PICK base \in grows : TRUE
      BY <2>2
    <3>2. /\ base \in DOMAIN free_blocks
          /\ base + free_blocks[base] = offset
          /\ base # up
      BY <3>1, <1>1, <1>2, <1>6, <1>7
    <3>3. \A x \in DOMAIN free_blocks : x \in grows => x = base
      BY <3>2, <1>1, <1>4, <1>6
    <3>4. /\ free_blocks' = [x \in DOMAIN rest |->
                               IF x \in grows THEN rest[x] + grown ELSE rest[x]]
          /\ DOMAIN free_blocks' = DOMAIN rest
      BY <2>2, <1>8
    <3>5. base \in DOMAIN rest
      BY <3>2, <1>9
    <3>6. /\ free_blocks'[base] = free_blocks[base] + grown
          /\ \A x \in DOMAIN rest : x # base => free_blocks'[x] = free_blocks[x]
      BY <3>1, <3>3, <3>4, <3>5, <1>9
    <3>7. /\ base \in DOMAIN free_blocks'
          /\ base \in 0..(Size - 1)
          /\ base <= offset
          /\ base # offset
          /\ free_blocks'[base] \in 1..Size
          /\ base + free_blocks'[base] = offset + grown
      BY <3>2, <3>4, <3>5, <3>6, <1>1, <1>2, <1>11
    <3>8. /\ \A x \in DOMAIN free_blocks' : x # base =>
               /\ x \in DOMAIN free_blocks
               /\ x # up
               /\ free_blocks'[x] = free_blocks[x]
          /\ \A x \in DOMAIN free_blocks :
               x # up => x \in DOMAIN free_blocks'
      BY <3>4, <3>6, <1>5, <1>9
    <3>9. Base(base)
      BY <3>2, <3>4, <3>7, <3>8
    <3>10. QED
      BY <3>9
  <2>3. QED
    BY <2>1, <2>2
<1>14. PICK base : Base(base)
  BY <1>13
<1>15. /\ up \in DOMAIN free_blocks => grown = n + free_blocks[up]
       /\ up \notin DOMAIN free_blocks => grown = n
  BY <1>5, <1>11
<1>16. BlockType'
  <2>1. IsBlockMap(free_blocks')
    BY <1>1, <1>14 DEF IsBlockMap
  <2>2. IsBlockMap(live')
    BY <1>1, <1>12 DEF IsBlockMap
  <2>3. QED
    BY <2>1, <2>2 DEF BlockType
<1>17. LiveDisjoint'
  BY <1>12 DEF BlocksTile, LiveDisjoint
<1>18. FreeApart'
  <2> SUFFICES ASSUME NEW x \in DOMAIN free_blocks', NEW y \in DOMAIN live,
                      y # offset
               PROVE  x + free_blocks'[x] <= y \/ y + live[y] <= x
    BY <1>12 DEF FreeApart
  <2>1. CASE x # base
    BY <2>1, <1>14 DEF BlocksTile, FreeApart
  <2>2. CASE x = base
    <3>1. y + live[y] <= offset \/ up <= y
      BY <1>1, <1>2 DEF BlocksTile, LiveDisjoint, n
    <3>2. up \in DOMAIN free_blocks =>
            up + free_blocks[up] <= y \/ y + live[y] <= up
      BY DEF BlocksTile, FreeApart
    <3>3. base \in DOMAIN free_blocks =>
            base + free_blocks[base] <= y \/ y + live[y] <= base
      BY DEF BlocksTile, FreeApart
    <3>4. y \in Nat /\ live[y] \in Nat /\ live[y] > 0
      BY <1>1
    <3>5. up \in DOMAIN free_blocks => free_blocks[up] \in Nat
      BY <1>1
    <3>6. base \in DOMAIN free_blocks => free_blocks[base] \in Nat
      BY <1>1
    <3>7. CASE y + live[y] <= offset
      BY <2>2, <3>3, <3>4, <3>6, <3>7, <1>2, <1>14
    <3>8. CASE up <= y
      BY <2>2, <3>2, <3>4, <3>5, <3>8, <1>2, <1>11, <1>14, <1>15
    <3>9. QED
      BY <3>1, <3>7, <3>8
  <2>3. QED
    BY <2>1, <2>2
<1>19. InMemory'
  BY <1>1, <1>2, <1>11, <1>12, <1>14 DEF InMemory
<1>20. Coalesced'
  <2> SUFFICES ASSUME NEW x \in DOMAIN free_blocks', NEW y \in DOMAIN free_blocks',
                      x < y
               PROVE  x + free_blocks'[x] < y
    BY DEF Coalesced
  <2>1. CASE x # base /\ y # base
    BY <2>1, <1>4, <1>14
  <2>2. CASE x = base
    <3>1. y \in DOMAIN free_blocks /\ y # up /\ y \in Nat
      BY <2>2, <1>1, <1>14
    <3>2. up < y
      BY <2>2, <3>1, <1>1, <1>2, <1>3, <1>4, <1>14
    <3>3. up \in DOMAIN free_blocks => up + free_blocks[up] < y
      BY <3>1, <3>2, <1>4
    <3>4. up \in DOMAIN free_blocks => free_blocks[up] \in Nat
      BY <1>1
    <3>5. QED
      BY <2>2, <3>1, <3>2, <3>3, <3>4, <1>2, <1>14, <1>15
  <2>3. CASE x # base /\ y = base
    <3>1. x \in DOMAIN free_blocks /\ free_blocks'[x] = free_blocks[x]
      BY <2>3, <1>14
    <3>2. CASE base = offset
      BY <2>3, <3>1, <3>2, <1>1, <1>2, <1>3, <1>14
    <3>3. CASE base # offset
      BY <2>3, <3>1, <3>3, <1>4, <1>14
    <3>4. QED
      BY <3>2, <3>3
  <2>4. QED
    BY <2>1, <2>2, <2>3
<1>21. Covered'
  <2> SUFFICES ASSUME NEW b \in 0..(Size - 1)
               PROVE  \/ \E x \in DOMAIN free_blocks' :
                           x <= b /\ b < x + free_blocks'[x]
                      \/ \E x \in DOMAIN live' : x <= b /\ b < x + live'[x]
    BY DEF Covered
  <2>1. CASE base <= b /\ b < offset + grown
    BY <2>1, <1>14
  <2>2. CASE \E x \in DOMAIN live : x # offset /\ x <= b /\ b < x + live[x]
    BY <2>2, <1>12
  <2>3. CASE offset <= b /\ b < up
    BY <2>3, <2>1, <1>2, <1>11, <1>14
  <2>4. CASE \E x \in DOMAIN free_blocks : x <= b /\ b < x + free_blocks[x]
    <3>1. PICK x \in DOMAIN free_blocks : x <= b /\ b < x + free_blocks[x]
      BY <2>4
    <3>2. CASE x = up
      BY <2>1, <3>1, <3>2, <1>1, <1>2, <1>14, <1>15
    <3>3. CASE x = base
      <4>1. base + free_blocks[base] = offset
        BY <3>3, <1>10, <1>14
      <4>2. base <= b /\ b < offset
        BY <3>1, <3>3, <4>1
      <4>3. b < offset + grown
        BY <4>2, <1>2, <1>11
      <4>4. QED
        BY <2>1, <4>2, <4>3
    <3>4. CASE x # up /\ x # base
      BY <3>1, <3>4, <1>14
    <3>5. QED
      BY <3>2, <3>3, <3>4
  <2>5. \/ \E x \in DOMAIN free_blocks : x <= b /\ b < x + free_blocks[x]
        \/ \E x \in DOMAIN live : x <= b /\ b < x + live[x]
    BY DEF BlocksTile, Covered
  <2>6. ASSUME NEW x \in DOMAIN live, x <= b, b < x + live[x], x = offset
        PROVE  offset <= b /\ b < up
    BY <2>6 DEF up, n
  <2>7. QED
    BY <2>2, <2>3, <2>4, <2>5, <2>6
<1>22. QED
  BY <1>16, <1>17, <1>18, <1>19, <1>20, <1>21 DEF BlocksTile

-----------------------------------------------------------------------------
LEMMA AllocKeepsTiling ==
  ASSUME BlocksTile, NEW n \in Nat, NEW r, AllocBytesLocal(n, r)
  PROVE  BlocksTile'
  <1>1. CASE UNCHANGED blockVars
    BY <1>1 DEF blockVars, BlocksTile, BlockType, LiveDisjoint, FreeApart,
                InMemory, Coalesced, Covered
  <1>2. CASE n > 0 /\ \E o \in LargeEnough(Pad(n)) : TakeFrom(o, Pad(n))
    <2>1. PICK o \in LargeEnough(Pad(n)) : TakeFrom(o, Pad(n))
      BY <1>2
    <2>2. o \in DOMAIN free_blocks /\ free_blocks[o] >= Pad(n)
      BY <2>1 DEF LargeEnough
    <2>3. Pad(n) \in Nat /\ Pad(n) > 0
      BY <1>2, PadGrows
    <2>4. QED
      BY <2>1, <2>2, <2>3, TakeKeepsTiling
  <1>3. QED
    BY <1>1, <1>2 DEF AllocBytesLocal

LEMMA FreeBytesKeepsTiling ==
  ASSUME BlocksTile, NEW n, NEW offset, FreeBytesLocal(offset, n)
  PROVE  BlocksTile'
  <1>1. CASE UNCHANGED blockVars
    BY <1>1 DEF blockVars, BlocksTile, BlockType, LiveDisjoint, FreeApart,
                InMemory, Coalesced, Covered
  <1>2. CASE /\ offset \in DOMAIN live
             /\ free_blocks' = Merged(offset, live[offset])
             /\ live' = Without(live, offset)
    BY <1>2, FreeKeepsTiling
  <1>3. QED
    BY <1>1, <1>2 DEF FreeBytesLocal

\* Requests under way carry a size some caller asked for.
RequestsSized == \A m \in net : m.type = "req" => m.n \in Requests

\* The free list and the blocks of all callers tile the memory after any
\* sequence of alloc_bytes and free_bytes, local or by RemoteMemAllocRequest.
THEOREM MemoryTiled == Spec => []BlocksTile
<1> DEFINE IInv == BlocksTile /\ RequestsSized
<1>1. Init => IInv
  <2> SUFFICES ASSUME Init PROVE IInv
    OBVIOUS
  <2>1. /\ DOMAIN free_blocks = {0}
        /\ free_blocks[0] = Size
        /\ free_blocks = [o \in DOMAIN free_blocks |-> free_blocks[o]]
        /\ DOMAIN live = {}
        /\ live = [o \in DOMAIN live |-> live[o]]
    BY DEF Init, BlockInit
  <2>2. BlocksTile
    BY <2>1, SizeAssumption DEF BlocksTile, BlockType, IsBlockMap, LiveDisjoint,
       FreeApart, InMemory, Coalesced, Covered
  <2>3. RequestsSized
    BY DEF Init, RequestsSized
  <2>4. QED
    BY <2>2, <2>3
<1>2. IInv /\ [Next]_vars => IInv'
  <2> SUFFICES ASSUME IInv, [Next]_vars PROVE IInv'
    OBVIOUS
  <2>1. ASSUME UNCHANGED blockVars PROVE BlocksTile'
    BY <2>1 DEF blockVars, BlocksTile, BlockType, LiveDisjoint, FreeApart,
                InMemory, Coalesced, Covered
  <2>2. CASE LocalAlloc
    <3>1. BlocksTile'
      BY <2>2, AllocKeepsTiling, RequestsAssumption DEF LocalAlloc
    <3>2. QED
      BY <3>1, <2>2 DEF LocalAlloc, rpcVars, RequestsSized
  <2>3. CASE LocalFree
    <3>1. BlocksTile'
      BY <2>3, FreeBytesKeepsTiling DEF LocalFree
    <3>2. QED
      BY <3>1, <2>3 DEF LocalFree, rpcVars, RequestsSized
  <2>4. CASE HandleRequest
    <3>1. PICK m \in net, r \in Offsets :
            /\ m.type = "req"
            /\ AllocBytesLocal(m.n, r)
            /\ net' = (net \ {m}) \cup {[type |-> "resp", from |-> m.from, n |-> r]}
      BY <2>4 DEF HandleRequest
    <3>2. m.n \in Nat
      BY <3>1, RequestsAssumption DEF RequestsSized
    <3>3. BlocksTile'
      BY <3>1, <3>2, AllocKeepsTiling
    <3>4. RequestsSized'
      BY <3>1 DEF RequestsSized
    <3>5. QED
      BY <3>3, <3>4
  <2>5. ASSUME NEW c \in Callers, SendRequest(c) PROVE IInv'
    BY <2>1, <2>5 DEF SendRequest, RequestsSized
  <2>6. ASSUME NEW c \in Callers, SetUnlock(c) PROVE IInv'
    BY <2>1, <2>6 DEF SetUnlock, RequestsSized
  <2>7. CASE UNCHANGED <<blockVars, net>>
    BY <2>1, <2>7 DEF RequestsSized
  <2>8. ASSUME NEW c \in Callers,
               \/ WaitCheck(c) \/ WaitLocked(c) \/ Get(c)
               \/ SetLock(c) \/ SetValid(c) \/ SetValue(c)
        PROVE  IInv'
    BY <2>7, <2>8 DEF WaitCheck, WaitLocked, Get, SetLock, SetValid, SetValue
  <2>9. QED
    BY <2>2, <2>3, <2>4, <2>5, <2>6, <2>7, <2>8
    DEF Next, CallerStep, SetterStep, vars, rpcVars
<1>3. QED
  BY <1>1, <1>2, PTL DEF Spec

\* A run of bytes that nobody holds lies in one block of the free list, so
\* alloc_bytes_local fails only when the memory has no such run: a free that
\* forgot a neighbour would break this.
THEOREM FailureMeansFull == Spec => []FailureIsReal
<1>1. BlocksTile => FailureIsReal
  <2> SUFFICES ASSUME BlocksTile, NEW b \in 0..(Size - 1), NEW n \in 1..Size,
                      b + n <= Size, \A x \in b..(b + n - 1) : ~IsHeld(x)
               PROVE  \E o \in DOMAIN free_blocks :
                        o <= b /\ b + n <= o + free_blocks[o]
    BY DEF FailureIsReal
  <2> USE SizeAssumption
  <2>1. \A x \in DOMAIN free_blocks : x \in Nat /\ free_blocks[x] \in Nat
    BY DEF BlocksTile, BlockType, IsBlockMap
  <2>2. \A x \in b..(b + n - 1) :
          \E o \in DOMAIN free_blocks : o <= x /\ x < o + free_blocks[o]
    BY DEF BlocksTile, Covered, IsHeld
  <2>3. PICK o \in DOMAIN free_blocks : o <= b /\ b < o + free_blocks[o]
    BY <2>2
  <2>4. CASE o + free_blocks[o] < b + n
    <3> DEFINE e == o + free_blocks[o]
    <3>1. e \in b..(b + n - 1)
      BY <2>1, <2>3, <2>4
    <3>2. PICK q \in DOMAIN free_blocks : q <= e /\ e < q + free_blocks[q]
      BY <2>2, <3>1
    <3>3. q # o
      BY <3>2, <2>1
    <3>4. CASE o < q
      BY <3>2, <3>4, <2>1 DEF BlocksTile, Coalesced
    <3>5. CASE q < o
      BY <3>2, <3>5, <2>1 DEF BlocksTile, Coalesced
    <3>6. QED
      BY <3>3, <3>4, <3>5, <2>1
  <2>5. QED
    BY <2>1, <2>3, <2>4
<1>2. QED
  BY <1>1, MemoryTiled, PTL

-----------------------------------------------------------------------------
(* Division with remainder, for a stride and a number of nodes that are     *)
(* constants of the specification and not numerals.                         *)

LEMMA Times ==
  ASSUME NEW b \in Nat, NEW x \in Nat, NEW y \in Nat, x <= y
  PROVE  b * x <= b * y
OBVIOUS

LEMMA Division ==
  ASSUME NEW a \in Nat, NEW b \in Nat \ {0}
  PROVE  /\ a \div b \in Nat
         /\ a % b \in 0..(b - 1)
         /\ a = b * (a \div b) + (a % b)
OBVIOUS

\* Quotient and remainder are the only numbers with that property.
LEMMA DivisionUnique ==
  ASSUME NEW b \in Nat \ {0}, NEW q \in Nat, NEW r \in 0..(b - 1)
  PROVE  (b * q + r) \div b = q /\ (b * q + r) % b = r
<1> DEFINE a == b * q + r
           p == a \div b
           s == a % b
<1>1. a \in Nat
  OBVIOUS
<1> HIDE DEF a
<1>2. p \in Nat /\ s \in 0..(b - 1) /\ a = b * p + s
  BY <1>1, Division, Zenon
<1> HIDE DEF p, s
<1>6. a = b * q + r
  BY DEF a
<1>3. p = q
  <2>1. CASE p < q
    <3>1. b * (p + 1) <= b * q
      BY <2>1, <1>2, Times
    <3>2. b * (p + 1) = b * p + b
      BY <1>2
    <3>3. QED
      BY <3>1, <3>2, <1>2, <1>6
  <2>2. CASE q < p
    <3>1. b * (q + 1) <= b * p
      BY <2>2, <1>2, Times
    <3>2. b * (q + 1) = b * q + b
      BY <1>2
    <3>3. QED
      BY <3>1, <3>2, <1>2, <1>6
  <2>3. QED
    BY <2>1, <2>2, <1>2
<1>4. s = r
  BY <1>2, <1>3, <1>6
<1>5. QED
  BY <1>3, <1>4, Zenon DEF a, p, s

\* Sums and differences of multiples of the stride are multiples of it.
LEMMA StrideMultiples ==
  ASSUME NEW a \in Nat, NEW b \in Nat, a % Stride = 0, b % Stride = 0
  PROVE  /\ (a + b) % Stride = 0
         /\ b <= a => (a - b) % Stride = 0
<1> USE StrideAssumption
<1> DEFINE x == a \div Stride
           y == b \div Stride
<1>1. x \in Nat /\ y \in Nat /\ a = Stride * x /\ b = Stride * y
  BY Division
<1> HIDE DEF x, y
<1>2. a + b = Stride * (x + y) + 0
  BY <1>1
<1>3. (a + b) % Stride = 0
  BY <1>1, <1>2, DivisionUnique
<1>4. ASSUME b <= a PROVE (a - b) % Stride = 0
  <2>1. y <= x
    <3>1. CASE x < y
      <4>1. Stride * (x + 1) <= Stride * y
        BY <3>1, <1>1, Times
      <4>2. Stride * (x + 1) = Stride * x + Stride
        BY <1>1
      <4>3. QED
        BY <4>1, <4>2, <1>1, <1>4
    <3>2. QED
      BY <3>1, <1>1
  <2>2. a - b = Stride * (x - y) + 0 /\ x - y \in Nat
    BY <1>1, <2>1
  <2>3. QED
    BY <2>2, DivisionUnique
<1>5. QED
  BY <1>3, <1>4

\* A padded request is a whole number of strides.
LEMMA PadAligned ==
  ASSUME NEW n \in Nat
  PROVE  Pad(n) % Stride = 0
<1> USE StrideAssumption
<1> DEFINE q == n \div Stride
           r == n % Stride
<1>1. q \in Nat /\ r \in 0..(Stride - 1) /\ n = Stride * q + r
  BY Division, Zenon
<1> HIDE DEF q
<1>2. CASE r = 0
  BY <1>2 DEF Pad
<1>3. CASE r > 0
  <2>1. Pad(n) = n + (Stride - r)
    BY <1>3 DEF Pad
  <2>2. Pad(n) = Stride * (q + 1) + 0
    BY <2>1, <1>1
  <2>3. 0 \in 0..(Stride - 1) /\ q + 1 \in Nat
    BY <1>1
  <2>4. (Stride * (q + 1) + 0) % Stride = 0
    BY <2>3, DivisionUnique, Zenon
  <2>5. QED
    BY <2>2, <2>4, Zenon
<1>4. QED
  BY <1>1, <1>2, <1>3

\* The memory is a whole number of rounds of strides over the nodes.
LEMMA SizeAligned ==
  \E k \in Nat : /\ Size = Stride * (NumNodes * k)
                 /\ Size % Stride = 0
                 /\ Size \div NumNodes = Stride * k
<1> USE StrideAssumption, SizeAssumption
<1> DEFINE round == Stride * NumNodes
           k == Size \div round
<1>1. round \in Nat \ {0} /\ Size \in Nat /\ Size % round = 0
  OBVIOUS
<1> HIDE DEF round
<1>2. k \in Nat /\ Size = round * k + 0
  BY <1>1, Division, Zenon
<1> HIDE DEF k
<1>3. /\ Size = Stride * (NumNodes * k) + 0
      /\ Size = NumNodes * (Stride * k) + 0
  BY <1>2 DEF round
<1>4. /\ NumNodes * k \in Nat /\ Stride * k \in Nat
      /\ 0 \in 0..(Stride - 1) /\ 0 \in 0..(NumNodes - 1)
  BY <1>2
<1>5. (Stride * (NumNodes * k) + 0) % Stride = 0
  BY <1>4, DivisionUnique, Zenon
<1>6. (NumNodes * (Stride * k) + 0) \div NumNodes = Stride * k
  BY <1>4, DivisionUnique, Zenon
<1>7. Size % Stride = 0 /\ Size \div NumNodes = Stride * k
  BY <1>3, <1>5, <1>6, Zenon
<1>8. QED
  BY <1>2, <1>3, <1>7

-----------------------------------------------------------------------------
(* The usage gauge and the alignment of the blocks.                         *)

LEMMA HeldFinite == IsFiniteSet(HeldBytes) /\ Cardinality(HeldBytes) \in Nat
<1>1. IsFiniteSet(0..(Size - 1))
  BY SizeAssumption, FS_Interval
<1>2. HeldBytes \in SUBSET (0..(Size - 1))
  BY DEF HeldBytes
<1>3. IsFiniteSet(HeldBytes)
  BY <1>1, <1>2, FS_Subset, Zenon
<1>4. QED
  BY <1>3, FS_CardinalityType

\* A set that grows by an interval it does not meet grows by its length.
LEMMA AddInterval ==
  ASSUME NEW S, IsFiniteSet(S), NEW a \in Int, NEW n \in Nat,
         S \cap (a..(a + n - 1)) = {}
  PROVE  Cardinality(S \cup (a..(a + n - 1))) = Cardinality(S) + n
<1> DEFINE T == a..(a + n - 1)
<1>1. a + n - 1 \in Int
  OBVIOUS
<1>2. IsFiniteSet(T) /\ Cardinality(T) = IF a > a + n - 1 THEN 0 ELSE a + n - 1 - a + 1
  BY <1>1, FS_Interval
<1>3. Cardinality(T) = n
  BY <1>2
<1> HIDE DEF T
<1>4. Cardinality(S \cup T) = Cardinality(S) + Cardinality(T) - Cardinality(S \cap T)
  BY <1>2, FS_Union
<1>5. Cardinality(S \cap T) = 0
  <2>1. S \cap T = {}
    BY DEF T
  <2>2. QED
    BY <2>1, FS_EmptySet
<1>6. Cardinality(S) \in Nat
  BY FS_CardinalityType
<1>7. QED
  BY <1>3, <1>4, <1>5, <1>6 DEF T

\* Taking the upper end of a block adds its bytes to usage.
LEMMA TakeKeepsUsage ==
  ASSUME BlocksTile, UsageExact, NEW o \in DOMAIN free_blocks,
         NEW need \in Nat, need > 0, free_blocks[o] >= need, TakeFrom(o, need)
  PROVE  UsageExact'
<1> DEFINE p == o + (free_blocks[o] - need)
           T == p..(p + need - 1)
<1>1. /\ o \in 0..(Size - 1) /\ free_blocks[o] \in 1..Size
      /\ o + free_blocks[o] <= Size
      /\ \A x \in DOMAIN live : x \in Nat /\ live[x] \in Nat
  BY SizeAssumption DEF BlocksTile, BlockType, IsBlockMap, InMemory
<1>2. p \in Nat /\ o <= p /\ p + need = o + free_blocks[o] /\ p + need <= Size
  BY <1>1
<1> HIDE DEF p
<1>3. live' = With(live, p, need) /\ usage' = usage + need
  BY DEF TakeFrom, p
<1>4. \A x \in DOMAIN live : x + live[x] <= o \/ p + need <= x
  BY <1>1, <1>2 DEF BlocksTile, FreeApart
<1>5. p \in DOMAIN live => p + need <= p \/ p + live[p] <= o
  BY <1>4
<1>6. \A x : x \in DOMAIN live' <=> x \in DOMAIN live \/ x = p
  BY <1>3 DEF With
<1>7. /\ live'[p] = need
      /\ \A x \in DOMAIN live : x # p => live'[x] = live[x]
  BY <1>3 DEF With
<1>8. p \notin DOMAIN live
  <2> SUFFICES ASSUME p \in DOMAIN live PROVE FALSE
    OBVIOUS
  <2>1. p + live[p] <= o /\ live[p] \in 1..Size
    BY <1>2, <1>5 DEF BlocksTile, BlockType, IsBlockMap
  <2>2. QED
    BY <2>1, <1>1, <1>2, SizeAssumption
<1>9. HeldBytes' = HeldBytes \cup T
  <2> DEFINE HeldAfter(b) == \E x \in DOMAIN live' : x <= b /\ b < x + live'[x]
  <2>1. ASSUME NEW b \in 0..(Size - 1) PROVE HeldAfter(b) <=> IsHeld(b) \/ b \in T
    BY <1>1, <1>2, <1>6, <1>7, <1>8 DEF IsHeld
  <2>2. T \subseteq 0..(Size - 1)
    BY <1>2, SizeAssumption
  <2>3. HeldBytes' = {b \in 0..(Size - 1) : HeldAfter(b)}
    BY DEF HeldBytes, IsHeld
  <2> HIDE DEF T, HeldAfter
  <2>4. QED
    BY <2>1, <2>2, <2>3, ZenonT(30) DEF HeldBytes
<1>10. HeldBytes \cap T = {}
  <2>1. ASSUME NEW b \in HeldBytes, b \in T PROVE FALSE
    BY <2>1, <1>1, <1>2, <1>4 DEF HeldBytes, IsHeld
  <2>2. QED
    BY <2>1
<1>11. Cardinality(HeldBytes \cup T) = Cardinality(HeldBytes) + need
  BY <1>2, <1>10, HeldFinite, AddInterval
<1>12. QED
  BY <1>3, <1>9, <1>11 DEF UsageExact

\* Giving a block back takes its bytes from usage.
LEMMA FreeKeepsUsage ==
  ASSUME BlocksTile, UsageExact, NEW offset \in DOMAIN live,
         live' = Without(live, offset), usage' = usage - live[offset]
  PROVE  UsageExact'
<1> DEFINE n == live[offset]
           T == offset..(offset + n - 1)
           Rest == {b \in HeldBytes : b \notin T}
           HeldAfter(b) == \E x \in DOMAIN live' : x <= b /\ b < x + live'[x]
<1>1. /\ offset \in 0..(Size - 1) /\ n \in 1..Size /\ offset + n <= Size
      /\ \A x \in DOMAIN live : x \in Nat /\ live[x] \in Nat
  BY SizeAssumption DEF BlocksTile, BlockType, IsBlockMap, InMemory
<1>2. \A x \in DOMAIN live : x # offset =>
        x + live[x] <= offset \/ offset + n <= x
  BY <1>1 DEF BlocksTile, LiveDisjoint
<1>3. /\ \A x : x \in DOMAIN live' <=> x \in DOMAIN live /\ x # offset
      /\ \A x \in DOMAIN live' : live'[x] = live[x]
  BY DEF Without
<1>4. ASSUME NEW b \in 0..(Size - 1)
      PROVE  /\ HeldAfter(b) <=> IsHeld(b) /\ b \notin T
             /\ b \in T => IsHeld(b)
  BY <1>1, <1>2, <1>3 DEF IsHeld
<1>5. T \subseteq 0..(Size - 1)
  BY <1>1, SizeAssumption
<1>6. /\ HeldBytes' = Rest
      /\ HeldBytes = Rest \cup T
      /\ Rest \cap T = {}
  <2>1. HeldBytes' = {b \in 0..(Size - 1) : HeldAfter(b)}
    BY DEF HeldBytes, IsHeld
  <2> HIDE DEF T, HeldAfter
  <2>2. QED
    BY <2>1, <1>4, <1>5, ZenonT(30) DEF HeldBytes
<1> HIDE DEF T
<1>7. IsFiniteSet(Rest) /\ Cardinality(Rest) \in Nat
  BY HeldFinite, FS_Subset, FS_CardinalityType
<1> HIDE DEF Rest, n
<1>8. Cardinality(Rest \cup T) = Cardinality(Rest) + n
  <2>1. offset \in Int /\ n \in Nat
    BY <1>1
  <2>2. QED
    BY <2>1, <1>6, <1>7, AddInterval, Zenon DEF T
<1>9. QED
  BY <1>1, <1>6, <1>7, <1>8 DEF UsageExact, n

\* A block that is split leaves whole strides on both sides.
LEMMA TakeKeepsAligned ==
  ASSUME BlocksTile, BlocksAligned, NEW o \in DOMAIN free_blocks,
         NEW need \in Nat, need % Stride = 0, free_blocks[o] >= need,
         TakeFrom(o, need)
  PROVE  BlocksAligned'
<1> DEFINE left == free_blocks[o] - need
<1>1. /\ o \in Nat /\ free_blocks[o] \in Nat
      /\ o % Stride = 0 /\ free_blocks[o] % Stride = 0
  BY SizeAssumption DEF BlocksTile, BlockType, IsBlockMap, BlocksAligned, Aligned
<1>2. left \in Nat /\ left % Stride = 0
  BY <1>1, StrideMultiples, SMTT(30)
<1>3. (o + left) % Stride = 0
  BY <1>1, <1>2, StrideMultiples
<1>4. /\ free_blocks' = Without(free_blocks, o) \/ free_blocks' = With(free_blocks, o, left)
      /\ live' = With(live, o + left, need)
  BY DEF TakeFrom
<1> HIDE DEF left
<1>5. Aligned(free_blocks')
  BY <1>1, <1>2, <1>4 DEF BlocksAligned, Aligned, With, Without
<1>6. Aligned(live')
  BY <1>3, <1>4 DEF BlocksAligned, Aligned, With
<1>7. QED
  BY <1>5, <1>6 DEF BlocksAligned, Aligned

\* Merged blocks are whole strides.
LEMMA FreeKeepsAligned ==
  ASSUME BlocksTile, BlocksAligned, NEW offset \in DOMAIN live,
         free_blocks' = Merged(offset, live[offset]),
         live' = Without(live, offset)
  PROVE  BlocksAligned'
<1> DEFINE n == live[offset]
           After == {o \in DOMAIN free_blocks : o >= offset}
           Before == {o \in DOMAIN free_blocks : o < offset}
           eats == \E a \in After : (\A q \in After : a <= q) /\ offset + n = a
           grown == IF eats THEN n + free_blocks[offset + n] ELSE n
           rest == IF eats THEN Without(free_blocks, offset + n) ELSE free_blocks
           grows == {b \in Before : /\ \A q \in Before : q <= b
                                    /\ b + free_blocks[b] = offset}
<1>1. /\ \A x \in DOMAIN free_blocks : /\ free_blocks[x] \in Nat
                                       /\ x % Stride = 0
                                       /\ free_blocks[x] % Stride = 0
      /\ n \in Nat /\ n % Stride = 0 /\ offset % Stride = 0
  BY SizeAssumption DEF BlocksTile, BlockType, IsBlockMap, BlocksAligned, Aligned
<1>2. eats => offset + n \in DOMAIN free_blocks
  OBVIOUS
<1>3. grown \in Nat /\ grown % Stride = 0
  BY <1>1, <1>2, StrideMultiples
<1>4. \A x \in DOMAIN rest : x \in DOMAIN free_blocks /\ rest[x] = free_blocks[x]
  BY DEF Without
<1>5. free_blocks' = IF grows = {}
                     THEN With(rest, offset, grown)
                     ELSE [x \in DOMAIN rest |->
                             IF x \in grows THEN rest[x] + grown ELSE rest[x]]
  BY Zenon DEF Merged
<1> HIDE DEF n, After, Before, eats, grown, rest, grows
<1>6. \A x \in DOMAIN rest : (rest[x] + grown) % Stride = 0
  BY <1>1, <1>3, <1>4, StrideMultiples
<1>7. Aligned(free_blocks')
  <2>1. CASE grows = {}
    BY <2>1, <1>1, <1>3, <1>4, <1>5 DEF Aligned, With
  <2>2. CASE grows # {}
    BY <2>2, <1>1, <1>4, <1>5, <1>6 DEF Aligned
  <2>3. QED
    BY <2>1, <2>2
<1>8. Aligned(live')
  BY DEF BlocksAligned, Aligned, Without
<1>9. QED
  BY <1>7, <1>8 DEF BlocksAligned, Aligned

-----------------------------------------------------------------------------
(* The remote call.                                                         *)

\* Allocations and frees keep usage and alignment.
LEMMA BlockStep ==
  ASSUME BlocksTile, UsageExact, BlocksAligned,
         \/ \E n \in Requests : \E r : AllocBytesLocal(n, r)
         \/ \E n \in Requests : \E offset : FreeBytesLocal(offset, n)
         \/ UNCHANGED blockVars
  PROVE  UsageExact' /\ BlocksAligned'
<1>1. CASE UNCHANGED blockVars
  BY <1>1 DEF blockVars, UsageExact, HeldBytes, IsHeld, BlocksAligned, Aligned
<1>2. ASSUME NEW n \in Requests, n > 0, NEW o \in LargeEnough(Pad(n)),
             TakeFrom(o, Pad(n))
      PROVE  UsageExact' /\ BlocksAligned'
  <2>1. o \in DOMAIN free_blocks /\ free_blocks[o] >= Pad(n)
    BY DEF LargeEnough
  <2>2. n \in Nat /\ Pad(n) \in Nat /\ Pad(n) > 0 /\ Pad(n) % Stride = 0
    BY <1>2, RequestsAssumption, PadGrows, PadAligned
  <2>3. QED
    BY <1>2, <2>1, <2>2, TakeKeepsUsage, TakeKeepsAligned
<1>3. ASSUME NEW n \in Requests, NEW offset \in DOMAIN live,
             live[offset] = Pad(n), free_blocks' = Merged(offset, Pad(n)),
             live' = Without(live, offset), usage' = usage - Pad(n)
      PROVE  UsageExact' /\ BlocksAligned'
  BY <1>3, FreeKeepsUsage, FreeKeepsAligned
<1>4. ASSUME NEW n \in Requests, NEW r, AllocBytesLocal(n, r)
      PROVE  UsageExact' /\ BlocksAligned'
  BY <1>1, <1>2, <1>4 DEF AllocBytesLocal
<1>5. ASSUME NEW n \in Requests, NEW offset, FreeBytesLocal(offset, n)
      PROVE  UsageExact' /\ BlocksAligned'
  BY <1>1, <1>3, <1>5 DEF FreeBytesLocal
<1>6. QED
  BY <1>1, <1>4, <1>5

\* What the remote call maintains, apart from the allocator.
RpcInv == RpcType /\ FutureInv /\ LockedWaitGetsAnswer

\* A request handler answers the call it found, whose future no handler has
\* begun to set.
LEMMA HandleRequestStep == RpcInv /\ HandleRequest => RpcInv'
<1> SUFFICES ASSUME RpcInv, HandleRequest
             PROVE  RpcInv'
  OBVIOUS
<1> USE DEF RpcInv
<1>1. PICK m \in net, r \in Offsets :
        /\ m.type = "req"
        /\ net' = (net \ {m}) \cup {[type |-> "resp", from |-> m.from, n |-> r]}
        /\ answer' = [answer EXCEPT ![m.from] = r]
        /\ UNCHANGED <<pc, valid, value, setter, early, result>>
  BY Zenon DEF HandleRequest
<1>2. m.from \in Callers /\ setter[m.from] = "none" /\ pc[m.from] # "idle"
  BY <1>1 DEF RpcType, FutureInv
<1>3. /\ answer'[m.from] = r
      /\ \A d \in Callers : d # m.from => answer'[d] = answer[d]
  BY <1>1, <1>2 DEF RpcType
<1>4. RpcType'
  BY <1>1, <1>2 DEF RpcType
<1>5. \A d \in Callers : SetterInOrder(d)'
  BY <1>1, <1>2, <1>3 DEF FutureInv, SetterInOrder
<1>6. \A a, w \in net' : a.from = w.from => a = w
  BY <1>1 DEF FutureInv
<1>7. FutureInv'
  BY <1>1, <1>2, <1>5, <1>6 DEF FutureInv
<1>8. LockedWaitGetsAnswer'
  <2>1. ASSUME NEW d \in Callers, pc[d] = "done", ~early[d]
        PROVE  d # m.from
    BY <2>1, <1>2, Zenon DEF FutureInv, SetterInOrder
  <2>2. QED
    BY <2>1, <1>1, <1>3 DEF LockedWaitGetsAnswer
<1>9. QED
  BY <1>4, <1>7, <1>8

\* A caller's step: the request goes out once, and wait() is left early only
\* by the test outside the mutex.
LEMMA CallerKeepsFuture ==
  ASSUME RpcInv, NEW c \in Callers, CallerStep(c)
  PROVE  RpcInv'
<1> USE DEF RpcInv
<1>1. CASE SendRequest(c)
  <2>1. PICK n \in Requests :
          net' = net \cup {[type |-> "req", from |-> c, n |-> n]}
    BY <1>1 DEF SendRequest
  <2>2. /\ pc[c] = "idle" /\ setter[c] = "none"
        /\ pc'[c] = "check"
        /\ \A d \in Callers : d # c => pc'[d] = pc[d]
        /\ UNCHANGED <<valid, value, setter, early, result, answer>>
    BY <1>1 DEF SendRequest, RpcType, FutureInv, SetterInOrder
  <2>3. RpcType'
    BY <1>1, <2>1, <2>2 DEF SendRequest, RpcType
  <2>4. \A d \in Callers : SetterInOrder(d)'
    BY <2>2, Zenon DEF FutureInv, SetterInOrder
  <2>5. \A m \in net : m.from # c /\ m.from \in Callers
    BY <2>2 DEF FutureInv, RpcType
  <2>6. FutureInv'
    BY <2>1, <2>2, <2>4, <2>5 DEF FutureInv
  <2>7. LockedWaitGetsAnswer'
    BY <2>2 DEF LockedWaitGetsAnswer
  <2>8. QED
    BY <2>3, <2>6, <2>7
<1>2. CASE WaitCheck(c)
  <2>1. /\ pc[c] = "check"
        /\ pc'[c] = IF valid[c] THEN "get" ELSE "lock"
        /\ early'[c] = valid[c]
        /\ \A d \in Callers : d # c => pc'[d] = pc[d] /\ early'[d] = early[d]
        /\ UNCHANGED <<net, valid, value, setter, result, answer>>
    BY <1>2 DEF WaitCheck, RpcType
  <2>2. RpcType'
    BY <1>2, <2>1 DEF WaitCheck, RpcType
  <2>3. \A d \in Callers : SetterInOrder(d)'
    BY <2>1 DEF FutureInv, SetterInOrder
  <2>4. FutureInv'
    BY <2>1, <2>3, Zenon DEF FutureInv, RpcType
  <2>5. LockedWaitGetsAnswer'
    BY <2>1 DEF LockedWaitGetsAnswer
  <2>6. QED
    BY <2>2, <2>4, <2>5
<1>3. CASE WaitLocked(c)
  <2>1. /\ pc[c] = "lock" /\ setter[c] \notin {"locked", "valid", "value"}
        /\ pc'[c] = IF valid[c] THEN "get" ELSE "blocked"
        /\ \A d \in Callers : d # c => pc'[d] = pc[d]
        /\ UNCHANGED <<net, valid, value, setter, early, result, answer>>
    BY <1>3, Zenon DEF WaitLocked, RpcType, MutexHeld
  <2>2. RpcType'
    BY <1>3, <2>1, Zenon DEF WaitLocked, RpcType
  <2>3. \A d \in Callers : SetterInOrder(d)'
    <3>1. setter[c] \in {"none", "done"} /\ valid[c] \in BOOLEAN
      BY <2>1 DEF RpcType
    <3>2. SetterInOrder(c)'
      BY <2>1, <3>1, Zenon DEF FutureInv, SetterInOrder
    <3>3. QED
      BY <2>1, <3>2, Zenon DEF FutureInv, SetterInOrder
  <2>4. FutureInv'
    BY <2>1, <2>3 DEF FutureInv, RpcType
  <2>5. LockedWaitGetsAnswer'
    BY <2>1 DEF LockedWaitGetsAnswer
  <2>6. QED
    BY <2>2, <2>4, <2>5
<1>4. CASE Get(c)
  <2>1. /\ pc[c] = "get" /\ pc'[c] = "done" /\ result'[c] = value[c]
        /\ \A d \in Callers : d # c => pc'[d] = pc[d] /\ result'[d] = result[d]
        /\ UNCHANGED <<net, valid, value, setter, early, answer>>
    BY <1>4 DEF Get, RpcType
  <2>2. RpcType'
    BY <1>4, <2>1 DEF Get, RpcType
  <2>3. \A d \in Callers : SetterInOrder(d)'
    BY <2>1, Zenon DEF FutureInv, SetterInOrder
  <2>4. FutureInv'
    BY <2>1, <2>3, Zenon DEF FutureInv, RpcType
  <2>5. ~early[c] => value[c] = answer[c]
    BY <2>1, Zenon DEF FutureInv, SetterInOrder
  <2>6. LockedWaitGetsAnswer'
    BY <2>1, <2>5 DEF LockedWaitGetsAnswer
  <2>7. QED
    BY <2>2, <2>4, <2>6
<1>5. QED
  BY <1>1, <1>2, <1>3, <1>4 DEF CallerStep

\* The response handler runs HandlerReplyFuture::set once, to its end.
LEMMA SetterKeepsFuture ==
  ASSUME RpcInv, NEW c \in Callers, SetterStep(c)
  PROVE  RpcInv'
<1> USE DEF RpcInv
<1>1. CASE SetLock(c)
  <2>1. PICK m \in net : m.type = "resp" /\ m.from = c
    BY <1>1 DEF SetLock
  <2>2. /\ setter[c] = "none" /\ setter'[c] = "locked"
        /\ \A d \in Callers : d # c => setter'[d] = setter[d]
        /\ UNCHANGED <<pc, net, valid, value, early, result, answer>>
    BY <1>1 DEF SetLock, RpcType
  <2>3. pc[c] # "idle" /\ \A w \in net : w.from = c => w.type = "resp"
    BY <2>1 DEF FutureInv
  <2>4. RpcType'
    BY <1>1, <2>2, Zenon DEF SetLock, RpcType
  <2>5. \A d \in Callers : SetterInOrder(d)'
    BY <2>2, <2>3, Zenon DEF FutureInv, SetterInOrder
  <2>6. FutureInv'
    BY <2>2, <2>3, <2>5 DEF FutureInv, RpcType
  <2>7. LockedWaitGetsAnswer'
    BY <2>2, Zenon DEF LockedWaitGetsAnswer
  <2>8. QED
    BY <2>4, <2>6, <2>7
<1>2. CASE SetValid(c)
  <2>1. /\ setter[c] = "locked" /\ setter'[c] = "valid" /\ valid'[c] = TRUE
        /\ \A d \in Callers : d # c => setter'[d] = setter[d] /\ valid'[d] = valid[d]
        /\ UNCHANGED <<pc, net, value, early, result, answer>>
    BY <1>2 DEF SetValid, RpcType
  <2>2. RpcType'
    BY <1>2, <2>1 DEF SetValid, RpcType
  <2>3. \A d \in Callers : SetterInOrder(d)'
    <3>1. SetterInOrder(c)'
      BY <2>1, Zenon DEF FutureInv, SetterInOrder
    <3>2. QED
      BY <2>1, <3>1, Zenon DEF FutureInv, SetterInOrder
  <2>4. FutureInv'
    BY <2>1, <2>3 DEF FutureInv, RpcType
  <2>5. LockedWaitGetsAnswer'
    BY <2>1, Zenon DEF LockedWaitGetsAnswer
  <2>6. QED
    BY <2>2, <2>4, <2>5
<1>3. CASE SetValue(c)
  <2>1. /\ setter[c] = "valid" /\ setter'[c] = "value" /\ value'[c] = answer[c]
        /\ \A d \in Callers : d # c => setter'[d] = setter[d] /\ value'[d] = value[d]
        /\ UNCHANGED <<pc, net, valid, early, result, answer>>
    BY <1>3, Zenon DEF SetValue, RpcType
  <2>2. RpcType'
    BY <1>3, <2>1, Zenon DEF SetValue, RpcType
  <2>3. \A d \in Callers : SetterInOrder(d)'
    BY <2>1, Zenon DEF FutureInv, SetterInOrder
  <2>4. FutureInv'
    BY <2>1, <2>3 DEF FutureInv, RpcType
  <2>5. LockedWaitGetsAnswer'
    BY <2>1, Zenon DEF LockedWaitGetsAnswer
  <2>6. QED
    BY <2>2, <2>4, <2>5
<1>4. CASE SetUnlock(c)
  <2>1. /\ setter[c] = "value" /\ setter'[c] = "done"
        /\ \A d \in Callers : d # c => setter'[d] = setter[d]
        /\ net' = {m \in net : m.from # c}
        /\ pc'[c] = IF pc[c] = "blocked" THEN "lock" ELSE pc[c]
        /\ \A d \in Callers : d # c => pc'[d] = pc[d]
        /\ UNCHANGED <<valid, value, early, result, answer>>
    BY <1>4, Zenon DEF SetUnlock, Woken, RpcType
  <2>2. RpcType'
    BY <1>4, <2>1, Zenon DEF SetUnlock, Woken, RpcType
  <2>3. \A d \in Callers : SetterInOrder(d)'
    BY <2>1 DEF FutureInv, SetterInOrder
  <2>4. FutureInv'
    BY <2>1, <2>3 DEF FutureInv, RpcType
  <2>5. LockedWaitGetsAnswer'
    BY <2>1, Zenon DEF LockedWaitGetsAnswer
  <2>6. QED
    BY <2>2, <2>4, <2>5
<1>5. QED
  BY <1>1, <1>2, <1>3, <1>4 DEF SetterStep

\* What alloc_bytes_local, free_bytes_local and RemoteMemAllocRequest keep
\* exact for every size, alignment and number of callers: usage is the number
\* of bytes held, every block is whole strides, and a caller that waited under
\* the future's mutex returns what node 0 answered.
THEOREM MemoryAccounted == Spec => []MemoryInv
<1> DEFINE IInv == RpcInv /\ UsageExact /\ BlocksAligned
<1>1. Init => IInv
  <2> SUFFICES ASSUME Init PROVE IInv
    OBVIOUS
  <2>1. RpcType
    BY DEF Init, RpcType
  <2>2. FutureInv /\ LockedWaitGetsAnswer
    <3>1. ASSUME NEW c \in Callers PROVE SetterInOrder(c)
      <4>1. pc[c] = "idle" /\ setter[c] = "none" /\ valid[c] = FALSE
        BY DEF Init
      <4>2. /\ setter[c] \notin {"valid", "value", "done"}
            /\ setter[c] \notin {"value", "done"}
            /\ pc[c] \notin {"get", "done"}
        BY <4>1
      <4>3. QED
        BY <4>1, <4>2, Zenon DEF SetterInOrder
    <3>2. QED
      BY <3>1 DEF Init, FutureInv, LockedWaitGetsAnswer
  <2>3. HeldBytes = {} /\ usage = 0
    BY DEF Init, BlockInit, HeldBytes, IsHeld
  <2>4. UsageExact
    BY <2>3, FS_EmptySet DEF UsageExact
  <2>5. 0 % Stride = 0 /\ Size % Stride = 0
    BY SizeAligned, StrideAssumption
  <2>6. BlocksAligned
    BY <2>5 DEF Init, BlockInit, BlocksAligned, Aligned
  <2>7. QED
    BY <2>1, <2>2, <2>4, <2>6 DEF RpcInv
<1>2. IInv /\ BlocksTile /\ [Next]_vars => IInv'
  <2> SUFFICES ASSUME IInv, BlocksTile, [Next]_vars
               PROVE  RpcInv' /\ UsageExact' /\ BlocksAligned'
    OBVIOUS
  <2>1. ASSUME UNCHANGED rpcVars PROVE RpcInv'
    <3>1. /\ pc' = pc /\ net' = net /\ valid' = valid /\ value' = value
          /\ setter' = setter /\ early' = early /\ result' = result
          /\ answer' = answer
      BY <2>1 DEF rpcVars
    <3>2. RpcType'
      BY <3>1 DEF RpcInv, RpcType
    <3>3. FutureInv'
      BY <3>1, Zenon DEF RpcInv, FutureInv, SetterInOrder
    <3>4. LockedWaitGetsAnswer'
      BY <3>1 DEF RpcInv, LockedWaitGetsAnswer
    <3>5. QED
      BY <3>2, <3>3, <3>4 DEF RpcInv
  <2>2. CASE LocalAlloc
    BY <2>1, <2>2, BlockStep DEF LocalAlloc
  <2>3. CASE LocalFree
    BY <2>1, <2>3, BlockStep DEF LocalFree
  <2>4. CASE HandleRequest
    <3>1. \E n \in Requests : \E r : AllocBytesLocal(n, r)
      BY <2>4 DEF HandleRequest, RpcInv, FutureInv
    <3>2. UsageExact' /\ BlocksAligned'
      BY <3>1, BlockStep
    <3>3. QED
      BY <3>2, <2>4, HandleRequestStep
  <2>5. ASSUME NEW c \in Callers, CallerStep(c) \/ SetterStep(c)
        PROVE  RpcInv' /\ UsageExact' /\ BlocksAligned'
    <3>1. UNCHANGED blockVars
      BY <2>5, Zenon DEF CallerStep, SetterStep, SendRequest, WaitCheck, WaitLocked, Get,
                  SetLock, SetValid, SetValue, SetUnlock
    <3>2. UsageExact' /\ BlocksAligned'
      BY <3>1, BlockStep
    <3>3. QED
      BY <3>2, <2>5, CallerKeepsFuture, SetterKeepsFuture
  <2>6. CASE UNCHANGED vars
    <3>1. UNCHANGED blockVars /\ UNCHANGED rpcVars
      BY <2>6 DEF vars
    <3>2. QED
      BY <2>1, <3>1, BlockStep
  <2>7. QED
    BY <2>2, <2>3, <2>4, <2>5, <2>6 DEF Next
<1>3. IInv /\ BlocksTile => MemoryInv
  BY HeldFinite DEF MemoryInv, TypeOK, UsageExact, BlocksTile, RpcInv
<1>4. QED
  BY <1>1, <1>2, <1>3, MemoryTiled, PTL DEF Spec

-----------------------------------------------------------------------------
(* Where a byte lives.                                                      *)

\* Every set of natural numbers has a least element: induction over the chunks
\* of a batch is done by the least chunk that would be wrong.
LEMMA LeastNat ==
  ASSUME NEW T, T \subseteq Nat, T # {}
  PROVE  \E x \in T : \A y \in T : x <= y
<1> DEFINE R == {ss \in Nat \X Nat : ss[1] < ss[2]}
<1>1. IsWellFoundedOn(R, Nat)
  BY NatLessThanWellFounded, Zenon DEF OpToRel
<1> HIDE DEF R
<1>2. PICK x \in T : \A y \in T : ~(<<y, x>> \in R)
  BY <1>1, WFMin, Zenon
<1>3. x \in Nat /\ \A y \in T : y \in Nat /\ <<y, x>> \notin R
  BY <1>2
<1>4. ASSUME NEW y \in T PROVE ~(y < x)
  <2>1. /\ <<y, x>> \in Nat \X Nat
        /\ <<y, x>>[1] = y /\ <<y, x>>[2] = x
    BY <1>3
  <2>2. QED
    BY <2>1, <1>3, Zenon DEF R
<1>5. QED
  BY <1>3, <1>4

\* The chunk the batch path is at after k steps from offset: stride number
\* offset \div Stride + k.
ChunkAt(offset, k) ==
  IF k = 0 THEN FirstChunk(offset)
           ELSE [node |-> ((offset \div Stride) + k) % NumNodes,
                 blkid |-> ((offset \div Stride) + k) \div NumNodes,
                 blkoffset |-> 0]

\* Stepping a node on, and a block when the nodes wrap, is counting strides.
LEMMA ChunkSteps ==
  ASSUME NEW offset \in Nat, NEW k \in Nat, k # 0
  PROVE  ChunkAt(offset, k) = NextChunk(ChunkAt(offset, k - 1))
<1> USE StrideAssumption
<1> DEFINE n == (offset \div Stride) + (k - 1)
           q == n \div NumNodes
           r == n % NumNodes
           before == ChunkAt(offset, k - 1)
<1>1. offset \div Stride \in Nat
  BY Division, Zenon
<1>2. n \in Nat /\ (offset \div Stride) + k = n + 1
  <2> DEFINE d == offset \div Stride
  <2>1. d \in Nat
    BY <1>1
  <2> HIDE DEF d
  <2>2. d + (k - 1) \in Nat /\ d + k = d + (k - 1) + 1
    BY <2>1
  <2>3. QED
    BY <2>2, Zenon DEF d
<1>3. before.node = r /\ before.blkid = q
  <2>1. CASE k - 1 = 0
    <3>1. n = offset \div Stride
      BY <2>1, <1>1
    <3>2. QED
      BY <2>1, <3>1 DEF ChunkAt, FirstChunk
  <2>2. CASE k - 1 # 0
    BY <2>2 DEF ChunkAt
  <2>3. QED
    BY <2>1, <2>2
<1>4. ChunkAt(offset, k) = [node |-> (n + 1) % NumNodes,
                            blkid |-> (n + 1) \div NumNodes,
                            blkoffset |-> 0]
  BY <1>2 DEF ChunkAt
<1> HIDE DEF n, before
<1>5. q \in Nat /\ r \in 0..(NumNodes - 1) /\ n = NumNodes * q + r
  BY <1>2, Division, Zenon
<1> HIDE DEF q, r
<1>6. CASE r + 1 < NumNodes
  <2>1. n + 1 = NumNodes * q + (r + 1) /\ r + 1 \in 0..(NumNodes - 1)
    BY <1>5, <1>6
  <2>2. (NumNodes * q + (r + 1)) \div NumNodes = q
    BY <2>1, <1>5, DivisionUnique, Zenon
  <2>3. (NumNodes * q + (r + 1)) % NumNodes = r + 1
    BY <2>1, <1>5, DivisionUnique, Zenon
  <2>4. (NumNodes * 0 + (r + 1)) % NumNodes = r + 1
    BY <2>1, DivisionUnique
  <2>5. (r + 1) % NumNodes = r + 1 /\ r + 1 # 0
    BY <2>4, <1>5
  <2>6. /\ (n + 1) \div NumNodes = q /\ (n + 1) % NumNodes = r + 1
    BY <2>1, <2>2, <2>3, Zenon
  <2>7. NextChunk(before) = [node |-> r + 1, blkid |-> q, blkoffset |-> 0]
    BY <2>5, <1>3, Zenon DEF NextChunk
  <2>8. QED
    BY <2>6, <2>7, <1>4, Zenon DEF before
<1>7. CASE r + 1 = NumNodes
  <2>1. n + 1 = NumNodes * (q + 1) + 0 /\ q + 1 \in Nat /\ 0 \in 0..(NumNodes - 1)
    BY <1>5, <1>7
  <2>2. (NumNodes * (q + 1) + 0) \div NumNodes = q + 1
    BY <2>1, DivisionUnique, Zenon
  <2>3. (NumNodes * (q + 1) + 0) % NumNodes = 0
    BY <2>1, DivisionUnique, Zenon
  <2>4. (NumNodes * 1 + 0) % NumNodes = 0
    BY <2>1, DivisionUnique
  <2>5. (r + 1) % NumNodes = 0
    BY <2>4, <1>7
  <2>6. /\ (n + 1) \div NumNodes = q + 1 /\ (n + 1) % NumNodes = 0
    BY <2>1, <2>2, <2>3, Zenon
  <2>7. NextChunk(before) = [node |-> 0, blkid |-> q + 1, blkoffset |-> 0]
    BY <2>5, <1>3, Zenon DEF NextChunk
  <2>8. QED
    BY <2>6, <2>7, <1>4, Zenon DEF before
<1>8. QED
  BY <1>5, <1>6, <1>7

\* The loop of get_batch and put_batch is at ChunkAt after so many chunks.
LEMMA BatchIsChunkAt ==
  ASSUME NEW offset \in Nat, NEW i \in Nat,
         ((offset % Stride) + i) \div Stride \in 0..Size
  PROVE  LET rel == (offset % Stride) + i
             c == ChunkAt(offset, rel \div Stride)
             within == IF rel < Stride THEN c.blkoffset + i
                                       ELSE c.blkoffset + (rel % Stride)
         IN  BatchPlace(offset, i)
               = [node |-> c.node, addr |-> c.blkid * Stride + within]
<1> DEFINE Loop(f) == f = [k \in 0..Size |-> IF k = 0 THEN FirstChunk(offset)
                                              ELSE NextChunk(f[k - 1])]
           chunk == CHOOSE f : Loop(f)
           closed == [k \in 0..Size |-> ChunkAt(offset, k)]
<1>1. \A k \in 0..Size : k # 0 => k - 1 \in 0..Size /\ k \in Nat
  BY SizeAssumption
<1>2. \A k \in 0..Size : k # 0 => ChunkAt(offset, k) = NextChunk(ChunkAt(offset, k - 1))
  BY <1>1, ChunkSteps
<1>3. Loop(closed)
  BY <1>1, <1>2, Zenon DEF ChunkAt
<1>4. Loop(chunk)
  <2> HIDE DEF closed, Loop
  <2> QED
    BY <1>3
<1>5. BatchPlace(offset, i) =
        LET rel == (offset % Stride) + i
            c == chunk[rel \div Stride]
            within == IF rel < Stride THEN c.blkoffset + i
                                      ELSE c.blkoffset + (rel % Stride)
        IN  [node |-> c.node, addr |-> c.blkid * Stride + within]
  BY Zenon DEF BatchPlace
<1> HIDE DEF chunk
<1>6. \A k \in 0..Size : chunk[k] = ChunkAt(offset, k)
  <2> DEFINE Wrong == {k \in 0..Size : chunk[k] # ChunkAt(offset, k)}
  <2> SUFFICES ASSUME Wrong # {} PROVE FALSE
    OBVIOUS
  <2>0. Wrong \subseteq Nat
    BY SizeAssumption
  <2>1. PICK x \in Wrong : \A y \in Wrong : x <= y
    BY <2>0, LeastNat, Zenon
  <2>2. x # 0
    BY <1>4, SizeAssumption, Zenon DEF ChunkAt
  <2>3. x \in 0..Size /\ x - 1 \in 0..Size /\ x - 1 \notin Wrong
    BY <2>1, <2>2, <1>1
  <2>4. chunk[x] = NextChunk(chunk[x - 1])
    BY <2>2, <2>3, <1>4, Zenon
  <2>5. QED
    BY <2>1, <2>2, <2>3, <2>4, <1>2
<1>7. QED
  BY <1>5, <1>6, Zenon

\* Byte i of a batch that starts at offset goes where put_bytes puts the byte
\* at offset + i.
LEMMA BatchAgrees ==
  ASSUME NEW offset \in Nat, NEW i \in Nat, offset + i < Size
  PROVE  BatchPlace(offset, i) = Place(offset + i)
<1> USE StrideAssumption, SizeAssumption
<1> DEFINE d == offset \div Stride
           rel == (offset % Stride) + i
           k == rel \div Stride
           w == rel % Stride
<1>1. d \in Nat /\ offset % Stride \in 0..(Stride - 1) /\ offset = Stride * d + (offset % Stride)
  BY Division, Zenon
<1>2. rel \in Nat /\ offset + i = Stride * d + rel
  BY <1>1
<1> HIDE DEF d
<1>3. rel <= offset + i
  <2>1. Stride * d \in Nat
    BY <1>1
  <2>2. QED
    BY <2>1, <1>2
<1> DEFINE at == ChunkAt(offset, k)
           within == IF rel < Stride THEN at.blkoffset + i ELSE at.blkoffset + w
<1> HIDE DEF rel
<1>4. k \in Nat /\ w \in 0..(Stride - 1) /\ rel = Stride * k + w
  BY <1>2, Division, Zenon
<1>5. k \in 0..Size
  <2> HIDE DEF k, w
  <2>1. 1 * k <= Stride * k
    BY <1>4
  <2>2. QED
    BY <2>1, <1>2, <1>3, <1>4
<1>6. BatchPlace(offset, i) = [node |-> at.node, addr |-> at.blkid * Stride + within]
  BY <1>5, BatchIsChunkAt, Zenon DEF rel
<1> HIDE DEF k, w, at
<1>7. offset + i = Stride * (d + k) + w /\ d + k \in Nat
  BY <1>1, <1>2, <1>4
<1>8. (Stride * (d + k) + w) \div Stride = d + k
  BY <1>4, <1>7, DivisionUnique, Zenon
<1>9. (Stride * (d + k) + w) % Stride = w
  BY <1>4, <1>7, DivisionUnique, Zenon
<1>10. Place(offset + i) = [node |-> (d + k) % NumNodes,
                            addr |-> ((d + k) \div NumNodes) * Stride + w]
  BY <1>7, <1>8, <1>9, Zenon DEF Place
<1>11. at.node = (d + k) % NumNodes /\ at.blkid = (d + k) \div NumNodes /\ within = w
  <2>1. CASE k = 0
    <3>1. d + k = d /\ rel < Stride /\ rel = w
      BY <2>1, <1>1, <1>2, <1>4
    <3>2. at = FirstChunk(offset)
      BY <2>1, Zenon DEF at, ChunkAt
    <3>3. at.node = d % NumNodes /\ at.blkid = d \div NumNodes /\ at.blkoffset + i = rel
      BY <3>2 DEF FirstChunk, d, rel
    <3>4. QED
      BY <3>1, <3>3, Zenon
  <2>2. CASE k # 0
    <3>1. at.node = (d + k) % NumNodes /\ at.blkid = (d + k) \div NumNodes /\ at.blkoffset = 0
      BY <2>2, Zenon DEF at, ChunkAt, d
    <3>2. Stride <= Stride * k
      BY <2>2, <1>4
    <3>3. ~(rel < Stride) /\ 0 + w = w
      BY <3>2, <1>2, <1>4
    <3>4. QED
      BY <3>1, <3>3, Zenon
  <2>3. QED
    BY <2>1, <2>2
<1>12. QED
  BY <1>6, <1>10, <1>11, Zenon

\* Two offsets with the same node and the same address are the same offset.
LEMMA PlaceInjective ==
  ASSUME NEW b \in Nat, NEW c \in Nat, Place(b) = Place(c)
  PROVE  b = c
<1> USE StrideAssumption
<1> DEFINE x == b \div Stride
           y == c \div Stride
           v == b % Stride
           w == c % Stride
           p == x \div NumNodes
           q == y \div NumNodes
<1>1. /\ x \in Nat /\ v \in 0..(Stride - 1) /\ b = Stride * x + v
      /\ y \in Nat /\ w \in 0..(Stride - 1) /\ c = Stride * y + w
  BY Division, Zenon
<1>2. x % NumNodes = y % NumNodes /\ p * Stride + v = q * Stride + w
  BY DEF Place
<1> HIDE DEF x, y, v, w
<1>3. /\ p \in Nat /\ x = NumNodes * p + (x % NumNodes)
      /\ q \in Nat /\ y = NumNodes * q + (y % NumNodes)
  BY <1>1, Division, Zenon
<1> HIDE DEF p, q
<1>4. Stride * p + v = Stride * q + w
  BY <1>1, <1>2, <1>3
<1>5. /\ (Stride * p + v) \div Stride = p /\ (Stride * p + v) % Stride = v
      /\ (Stride * q + w) \div Stride = q /\ (Stride * q + w) % Stride = w
  BY <1>1, <1>3, DivisionUnique, Zenon
<1>6. p = q /\ v = w
  BY <1>4, <1>5, Zenon
<1>7. x = y
  BY <1>2, <1>3, <1>6, Zenon
<1>8. QED
  BY <1>1, <1>6, <1>7, Zenon

\* Every offset of the memory is inside its node's segment.
LEMMA PlaceInSegment ==
  ASSUME NEW b \in 0..(Size - 1)
  PROVE  Place(b).addr < Size \div NumNodes
<1> USE StrideAssumption, SizeAssumption
<1> DEFINE x == b \div Stride
           v == b % Stride
           p == x \div NumNodes
<1>1. PICK k \in Nat : /\ Size = Stride * (NumNodes * k)
                       /\ Size \div NumNodes = Stride * k
  BY SizeAligned, Zenon
<1>2. b \in Nat /\ b < Size
  OBVIOUS
<1>3. x \in Nat /\ v \in 0..(Stride - 1) /\ b = Stride * x + v
  BY <1>2, Division, Zenon
<1>4. Place(b).addr = p * Stride + v
  BY Zenon DEF Place
<1> HIDE DEF x, v
<1>5. p \in Nat /\ x % NumNodes \in 0..(NumNodes - 1) /\ x = NumNodes * p + (x % NumNodes)
  BY <1>3, Division, Zenon
<1> HIDE DEF p
<1>6. p < k
  <2> SUFFICES ASSUME k <= p PROVE FALSE
    BY <1>5
  <2>1. NumNodes * k <= NumNodes * p
    BY <1>5, Times
  <2>2. NumNodes * k \in Nat /\ NumNodes * p \in Nat /\ NumNodes * k <= x
    BY <2>1, <1>5
  <2>3. Stride * (NumNodes * k) <= Stride * x
    BY <2>2, <1>3, Times
  <2>4. QED
    BY <2>3, <1>1, <1>2, <1>3
<1>7. Stride * (p + 1) <= Stride * k
  BY <1>5, <1>6, Times
<1>8. Stride * (p + 1) = p * Stride + Stride
  BY <1>5
<1>9. QED
  BY <1>1, <1>3, <1>4, <1>5, <1>7, <1>8

\* A block of one stride at a stride boundary is on one node.
LEMMA StrideHome ==
  ASSUME NEW o \in Nat, o % Stride = 0, NEW i \in 0..(Stride - 1)
  PROVE  (o + i) \div Stride = o \div Stride
<1> USE StrideAssumption
<1> DEFINE d == o \div Stride
<1>1. d \in Nat /\ o = Stride * d + (o % Stride)
  BY Division, Zenon
<1> HIDE DEF d
<1>2. o + i = Stride * d + i
  BY <1>1
<1>3. (Stride * d + i) \div Stride = d
  BY <1>1, DivisionUnique, Zenon
<1>4. QED
  BY <1>2, <1>3, Zenon DEF d

\* A positive multiple of the stride that is no longer than a stride is one.
LEMMA OneStride ==
  ASSUME NEW n \in Nat, n > 0, n <= Stride, n % Stride = 0
  PROVE  n = Stride
<1> USE StrideAssumption
<1> DEFINE q == n \div Stride
<1>1. q \in Nat /\ n = Stride * q + (n % Stride)
  BY Division, Zenon
<1> HIDE DEF q
<1>2. n = Stride * q
  BY <1>1
<1>3. q # 0
  BY <1>2
<1>4. Stride * 1 <= Stride * q
  BY <1>1, <1>3, Times
<1>5. QED
  BY <1>2, <1>4

\* get_bytes, put_bytes, get_batch, put_batch and get_home_node agree about
\* where the bytes of every block live, in every memory of any size spread over
\* any number of nodes: what one path writes another reads, no two bytes share
\* a place, and a block of one stride has one home.
THEOREM AccessPathsAgree == Spec => []AddressingRight
<1> USE SizeAssumption, StrideAssumption
<1>1. BlocksTile /\ MemoryInv => AddressingRight
  <2> SUFFICES ASSUME BlocksTile, MemoryInv PROVE AddressingRight
    OBVIOUS
  <2>1. \A o \in DOMAIN live : /\ o \in Nat /\ live[o] \in Nat /\ live[o] > 0
                               /\ o + live[o] <= Size
                               /\ o % Stride = 0 /\ live[o] % Stride = 0
    BY DEF BlocksTile, BlockType, IsBlockMap, InMemory, MemoryInv, BlocksAligned, Aligned
  <2>2. PathsAgree
    <3> SUFFICES ASSUME NEW o \in DOMAIN live, NEW i \in 0..(live[o] - 1), NEW k \in 0..i
                 PROVE  BatchPlace(o + k, i - k) = Place(o + i)
      BY DEF PathsAgree
    <3>1. /\ o + k \in Nat /\ i - k \in Nat /\ (o + k) + (i - k) = o + i
          /\ o + i < Size
      BY <2>1
    <3>2. BatchPlace(o + k, i - k) = Place((o + k) + (i - k))
      BY <3>1, BatchAgrees
    <3>3. QED
      BY <3>1, <3>2, Zenon
  <2>3. PlacesDistinct
    <3>1. HeldBytes \subseteq 0..(Size - 1) /\ \A b \in HeldBytes : b \in Nat
      BY DEF HeldBytes
    <3>2. QED
      BY <3>1, PlaceInSegment, PlaceInjective, Zenon DEF PlacesDistinct
  <2>4. SmallBlocksHaveHome
    <3> SUFFICES ASSUME NEW o \in DOMAIN live, live[o] <= Stride
                 PROVE  /\ HomeNode(o, live[o]) # -1
                        /\ \A i \in 0..(live[o] - 1) :
                             Place(o + i).node = HomeNode(o, live[o])
      BY Zenon DEF SmallBlocksHaveHome
    <3>1. o \in Nat /\ o % Stride = 0 /\ live[o] = Stride
      BY <2>1, OneStride
    <3> DEFINE d == o \div Stride
               home == d % NumNodes
    <3>2. d \in Nat
      BY <3>1, Division, Zenon
    <3>3. \A i \in 0..(Stride - 1) : (o + i) \div Stride = d
      BY <3>1, StrideHome
    <3>4. Stride - 1 \in 0..(Stride - 1) /\ o + Stride - 1 = o + (Stride - 1)
      BY <3>1
    <3>5. (o + live[o] - 1) \div Stride = d
      BY <3>1, <3>3, <3>4, Zenon
    <3> HIDE DEF d
    <3>6. home \in Nat
      BY <3>2, Division
    <3>7. HomeNode(o, live[o]) = home
      BY <3>5, Zenon DEF HomeNode, d
    <3>8. \A i \in 0..(live[o] - 1) : Place(o + i).node = home
      <4>1. \A i \in 0..(live[o] - 1) : (o + i) \div Stride = d
        BY <3>1, <3>3
      <4>2. QED
        BY <4>1 DEF Place
    <3>9. QED
      BY <3>6, <3>7, <3>8
  <2>5. QED
    BY <2>2, <2>3, <2>4 DEF AddressingRight
<1>2. QED
  BY <1>1, MemoryTiled, MemoryAccounted, PTL
=============================================================================
