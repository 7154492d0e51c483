------------------------- MODULE SrcDataPoolProofs -------------------------
(***************************************************************************)
(* For any number of messages and endpoints and a pool of any size: the    *)
(* pool stays partitioned into spans, payloads reach the pool unchanged    *)
(* and their buffers are freed once, nobody who holds a span waits behind  *)
(* somebody who waits for one, and the spill counter is exact until a      *)
(* deleted message's size is misread.                                      *)
(***************************************************************************)
EXTENDS SrcDataPool, FiniteSetTheorems, TLAPS

-----------------------------------------------------------------------------
(* Whole blocks.                                                           *)

LEMMA Times ==
  ASSUME NEW b \in Nat, NEW x \in Nat, NEW y \in Nat, x <= y
  PROVE  b * x <= b * y
OBVIOUS

LEMMA Division ==
  ASSUME NEW a \in Nat, NEW b \in Nat \ {0}
  PROVE  /\ a \div b \in Nat
         /\ a % b \in 0 .. b - 1
         /\ a = b * (a \div b) + (a % b)
OBVIOUS

\* A multiple of a number leaves no remainder.
LEMMA NoRemainder ==
  ASSUME NEW b \in Nat \ {0}, NEW q \in Nat
  PROVE  (b * q) % b = 0
<1> DEFINE a == b * q
           p == a \div b
           r == a % b
<1>1. a \in Nat
  OBVIOUS
<1> HIDE DEF a
<1>2. p \in Nat /\ r \in 0 .. b - 1 /\ a = b * p + r
  BY <1>1, Division, Zenon
<1> HIDE DEF p, r
<1>3. a = b * q
  BY DEF a
<1>4. CASE p < q
  <2>1. b * (p + 1) <= b * q /\ b * (p + 1) = b * p + b
    BY <1>2, <1>4, Times
  <2>2. QED
    BY <2>1, <1>2, <1>3
<1>5. CASE q <= p
  <2>1. b * q <= b * p
    BY <1>2, <1>5, Times
  <2>2. r = 0
    BY <2>1, <1>2, <1>3
  <2>3. QED
    BY <2>2, Zenon DEF r, a
<1>6. QED
  BY <1>2, <1>4, <1>5

\* Sums and differences of whole blocks are whole blocks.
LEMMA BlockMultiples ==
  ASSUME NEW a \in Nat, NEW b \in Nat, a % BlockSize = 0, b % BlockSize = 0
  PROVE  /\ (a + b) % BlockSize = 0
         /\ b <= a => (a - b) % BlockSize = 0
<1> DEFINE x == a \div BlockSize
           y == b \div BlockSize
<1>1. BlockSize \in Nat \ {0}
  BY PoolAssumption
<1>2. /\ x \in Nat /\ a = BlockSize * x + (a % BlockSize)
      /\ y \in Nat /\ b = BlockSize * y + (b % BlockSize)
  BY <1>1, Division, Zenon
<1> HIDE DEF x, y
<1>3. a = BlockSize * x /\ b = BlockSize * y
  BY <1>1, <1>2
<1>4. a + b = BlockSize * (x + y) /\ x + y \in Nat
  BY <1>1, <1>2, <1>3
<1>5. (a + b) % BlockSize = 0
  BY <1>1, <1>4, NoRemainder, Zenon
<1>6. ASSUME b <= a PROVE (a - b) % BlockSize = 0
  <2>1. ~(x < y)
    <3> SUFFICES ASSUME x < y PROVE FALSE
      BY Zenon
    <3>1. BlockSize * (x + 1) <= BlockSize * y /\ BlockSize * (x + 1) = BlockSize * x + BlockSize
      BY <1>1, <1>2, Times
    <3>2. QED
      BY <3>1, <1>1, <1>3, <1>6
  <2>2. a - b = BlockSize * (x - y) /\ x - y \in Nat
    BY <2>1, <1>1, <1>2, <1>3
  <2>3. QED
    BY <2>2, <1>1, NoRemainder, Zenon
<1>7. QED
  BY <1>5, <1>6

\* round_up_size returns whole blocks, the fewest that are enough.
LEMMA RoundUpFacts ==
  ASSUME NEW n \in Nat
  PROVE  /\ RoundUp(n) \in Nat /\ RoundUp(n) >= n
         /\ RoundUp(n) % BlockSize = 0
         /\ \A h \in Nat : h % BlockSize = 0 /\ h >= n => h >= RoundUp(n)
<1> DEFINE q == n \div BlockSize
           r == n % BlockSize
<1>1. BlockSize \in Nat \ {0}
  BY PoolAssumption
<1>2. q \in Nat /\ r \in 0 .. BlockSize - 1 /\ n = BlockSize * q + r
  BY <1>1, Division, Zenon
<1>3. RoundUp(n) = IF r = 0 THEN n ELSE n + (BlockSize - r)
  BY Zenon DEF RoundUp
<1> HIDE DEF q, r
<1>4. CASE r = 0
  BY <1>1, <1>2, <1>3, <1>4 DEF r
<1>5. CASE r # 0
  <2>1. RoundUp(n) = BlockSize * (q + 1) /\ q + 1 \in Nat
    BY <1>1, <1>2, <1>3, <1>5
  <2>2. RoundUp(n) \in Nat /\ RoundUp(n) >= n
    BY <1>1, <1>2, <1>3, <1>5
  <2>3. RoundUp(n) % BlockSize = 0
    BY <2>1, <1>1, NoRemainder, Zenon
  <2>4. ASSUME NEW h \in Nat, h % BlockSize = 0, h >= n PROVE h >= RoundUp(n)
    <3> DEFINE k == h \div BlockSize
    <3>1. k \in Nat /\ h = BlockSize * k + (h % BlockSize)
      BY <1>1, Division, Zenon
    <3> HIDE DEF k
    <3>2. h = BlockSize * k
      BY <3>1, <2>4, <1>1
    <3>3. CASE k <= q
      <4>1. BlockSize * k <= BlockSize * q
        BY <3>1, <3>3, <1>1, <1>2, Times, Zenon
      <4>2. QED
        BY <4>1, <3>2, <2>4, <1>1, <1>2, <1>5
    <3>4. CASE q + 1 <= k
      <4>1. BlockSize * (q + 1) <= BlockSize * k
        BY <3>1, <3>4, <1>1, <1>2, Times
      <4>2. QED
        BY <4>1, <3>2, <2>1
    <3>5. QED
      BY <3>1, <3>3, <3>4, <1>2
  <2>5. QED
    BY <2>2, <2>3, <2>4
<1>6. QED
  BY <1>4, <1>5

-----------------------------------------------------------------------------
(* The pool, by bounds rather than by sets of bytes.                       *)

FreeSpans == [base : 0 .. TotalSize - 1, size : 1 .. TotalSize]
UsedSpans == [base : 0 .. TotalSize - 1, size : 1 .. TotalSize, msg : Msg]

\* The spans of S do not overlap.
Apart(S) ==
  \A s, t \in S : s # t => s.base + s.size <= t.base \/ t.base + t.size <= s.base

Covering(S) ==
  \A b \in 0 .. TotalSize - 1 : \E s \in S : s.base <= b /\ b < s.base + s.size

InPool(S) == \A s \in S : /\ s.base \in Nat /\ s.size \in Nat /\ s.size > 0
                          /\ s.base + s.size <= TotalSize

Untouching(F) == \A s, t \in F : s.base + s.size # t.base

Whole(S) == \A s \in S : s.base % BlockSize = 0 /\ s.size % BlockSize = 0

Tiles(F, U) ==
  /\ F \subseteq FreeSpans /\ U \subseteq UsedSpans
  /\ InPool(F \cup U) /\ Apart(F \cup U) /\ Covering(F \cup U)
  /\ Untouching(F) /\ Whole(F \cup U)

\* A free span is not a span in use: the latter names its message.
LEMMA SpanKinds ==
  ASSUME NEW f \in FreeSpans, NEW u \in UsedSpans
  PROVE  f # u
<1>1. DOMAIN f = {"base", "size"} /\ DOMAIN u = {"base", "size", "msg"}
  BY DEF FreeSpans, UsedSpans
<1>2. QED
  BY <1>1

\* The partition of the pool, stated with sets of bytes, is the tiling.
LEMMA PartitionIsTiling ==
  ASSUME NEW F, NEW U, F \subseteq FreeSpans, U \subseteq UsedSpans
  PROVE  (/\ \A s, t \in F \cup U : s # t =>
               (s.base .. s.base + s.size - 1) \cap (t.base .. t.base + t.size - 1) = {}
          /\ Bytes(F \cup U) = 0 .. TotalSize - 1
          /\ \A s, t \in F : s.base + s.size # t.base)
         <=> InPool(F \cup U) /\ Apart(F \cup U) /\ Covering(F \cup U) /\ Untouching(F)
<1> DEFINE S == F \cup U
<1>1. \A s \in S : /\ s.base \in 0 .. TotalSize - 1 /\ s.size \in 1 .. TotalSize
  BY DEF FreeSpans, UsedSpans
<1>2. TotalSize \in Nat
  BY PoolAssumption
<1>3. \A b : b \in Bytes(S) <=> \E s \in S : b \in s.base .. s.base + s.size - 1
  BY DEF Bytes
<1> HIDE DEF S
<1>4. (\A s, t \in S : s # t =>
         (s.base .. s.base + s.size - 1) \cap (t.base .. t.base + t.size - 1) = {})
      <=> Apart(S)
  <2>1. ASSUME NEW s \in S, NEW t \in S
        PROVE  ((s.base .. s.base + s.size - 1) \cap (t.base .. t.base + t.size - 1) = {})
               <=> (s.base + s.size <= t.base \/ t.base + t.size <= s.base)
    <3> DEFINE a == s.base
               m == s.size
               b == t.base
               n == t.size
    <3>1. a \in Nat /\ m \in Nat /\ m > 0 /\ b \in Nat /\ n \in Nat /\ n > 0
      BY <1>1, <1>2
    <3> HIDE DEF a, m, b, n
    <3>2. CASE a + m <= b \/ b + n <= a
      <4>1. (a .. a + m - 1) \cap (b .. b + n - 1) = {}
        BY <3>1, <3>2
      <4>2. QED
        BY <3>2, <4>1, Zenon DEF a, m, b, n
    <3>3. CASE ~(a + m <= b \/ b + n <= a)
      <4>1. IF a <= b THEN b \in a .. a + m - 1 /\ b \in b .. b + n - 1
                      ELSE a \in a .. a + m - 1 /\ a \in b .. b + n - 1
        BY <3>1, <3>3
      <4>2. (a .. a + m - 1) \cap (b .. b + n - 1) # {}
        BY <4>1
      <4>3. QED
        BY <3>3, <4>2, Zenon DEF a, m, b, n
    <3>4. QED
      BY <3>2, <3>3
  <2>2. QED
    BY <2>1, Zenon DEF Apart
<1>5. Bytes(S) = 0 .. TotalSize - 1 <=> InPool(S) /\ Covering(S)
  <2>1. ASSUME Bytes(S) = 0 .. TotalSize - 1 PROVE InPool(S)
    <3> SUFFICES ASSUME NEW s \in S
                 PROVE  /\ s.base \in Nat /\ s.size \in Nat /\ s.size > 0
                        /\ s.base + s.size <= TotalSize
      BY DEF InPool
    <3>1. s.base + s.size - 1 \in s.base .. s.base + s.size - 1
      BY <1>1, <1>2
    <3>2. s.base + s.size - 1 \in 0 .. TotalSize - 1
      BY <3>1, <2>1, <1>3
    <3>3. QED
      BY <3>2, <1>1, <1>2
  <2>2. ASSUME Bytes(S) = 0 .. TotalSize - 1 PROVE Covering(S)
    <3> SUFFICES ASSUME NEW b \in 0 .. TotalSize - 1
                 PROVE  \E s \in S : s.base <= b /\ b < s.base + s.size
      BY DEF Covering
    <3>1. PICK s \in S : b \in s.base .. s.base + s.size - 1
      BY <2>2, <1>3
    <3>2. QED
      BY <3>1, <1>1, <1>2
  <2>3. ASSUME InPool(S), Covering(S) PROVE Bytes(S) = 0 .. TotalSize - 1
    <3>1. ASSUME NEW b \in Bytes(S) PROVE b \in 0 .. TotalSize - 1
      <4>1. PICK s \in S : b \in s.base .. s.base + s.size - 1
        BY <1>3
      <4>2. QED
        BY <4>1, <2>3, <1>1, <1>2 DEF InPool
    <3>2. ASSUME NEW b \in 0 .. TotalSize - 1 PROVE b \in Bytes(S)
      <4>1. PICK s \in S : s.base <= b /\ b < s.base + s.size
        BY <2>3 DEF Covering
      <4>2. b \in s.base .. s.base + s.size - 1
        BY <4>1, <1>1, <1>2
      <4>3. QED
        BY <4>2, <1>3
    <3>3. QED
      BY <3>1, <3>2, Zenon
  <2>4. QED
    BY <2>1, <2>2, <2>3
<1>6. QED
  BY <1>4, <1>5 DEF S, Untouching

\* Every set of natural numbers has a least element.
LEMMA LeastNat ==
  ASSUME NEW T, T \subseteq Nat, T # {}
  PROVE  \E x \in T : \A y \in T : x <= y
<1> DEFINE R == {ss \in Nat \X Nat : ss[1] < ss[2]}
<1>1. IsWellFoundedOn(R, Nat)
  BY NatLessThanWellFounded, Zenon DEF OpToRel
<1> HIDE DEF R
<1>2. PICK x \in T : \A y \in T : ~(<<y, x>> \in R)
  BY <1>1, WFMin, Zenon
<1>3. x \in Nat /\ \A y \in T : y \in Nat /\ <<y, x>> \notin R
  BY <1>2
<1>4. ASSUME NEW y \in T PROVE ~(y < x)
  <2>1. /\ <<y, x>> \in Nat \X Nat
        /\ <<y, x>>[1] = y /\ <<y, x>>[2] = x
    BY <1>3
  <2>2. QED
    BY <2>1, <1>3, Zenon DEF R
<1>5. QED
  BY <1>3, <1>4

\* alloc_srcptr finds a span whenever one is large enough.
LEMMA BestFits ==
  ASSUME NEW n \in Nat, free_list \subseteq FreeSpans, Candidates(n) # {}
  PROVE  Best(n) \in Candidates(n)
<1> DEFINE C == Candidates(n)
<1>1. \A s \in C : s.size \in Nat /\ s.base \in Nat
  BY PoolAssumption DEF Candidates, FreeSpans
<1> HIDE DEF C
<1>2. PICK least \in {s.size : s \in C} : \A x \in {s.size : s \in C} : least <= x
  <2>1. {s.size : s \in C} \subseteq Nat /\ {s.size : s \in C} # {}
    BY <1>1 DEF C
  <2>2. QED
    BY <2>1, LeastNat, Zenon
<1>3. (\E s \in C : s.size = least) /\ \A s \in C : least <= s.size
  BY <1>2
<1> DEFINE L == {s \in C : s.size = least}
<1>4. PICK low \in {s.base : s \in L} : \A x \in {s.base : s \in L} : low <= x
  <2>1. {s.base : s \in L} \subseteq Nat /\ {s.base : s \in L} # {}
    BY <1>1, <1>3
  <2>2. QED
    BY <2>1, LeastNat, Zenon
<1>5. PICK s \in C : s.size = least /\ s.base = low
  BY <1>4
<1>6. \A o \in C : s.size < o.size \/ (s.size = o.size /\ s.base <= o.base)
  BY <1>1, <1>3, <1>4, <1>5
<1>7. QED
  BY <1>5, <1>6 DEF Best, C

\* Cutting n bytes from one end of a free span, from the last byte down as
\* alloc_srcptr does or from the first one up as release_srcptr does, keeps the
\* tiling.
LEMMA CutKeepsTiling ==
  ASSUME NEW F, NEW U, Tiles(F, U), NEW s \in F, NEW m \in Msg,
         NEW n \in Nat, n > 0, n <= s.size, n % BlockSize = 0,
         NEW c, NEW l,
         \/ c = s.base + s.size - n /\ l = s.base
         \/ c = s.base /\ l = s.base + n
  PROVE  Tiles((F \ {s}) \cup (IF s.size = n THEN {} ELSE {[base |-> l, size |-> s.size - n]}),
               U \cup {[base |-> c, size |-> n, msg |-> m]})
<1> DEFINE cut == [base |-> c, size |-> n, msg |-> m]
           left == [base |-> l, size |-> s.size - n]
           F1 == (F \ {s}) \cup (IF s.size = n THEN {} ELSE {left})
           U1 == U \cup {cut}
           Old == (F \ {s}) \cup U
<1>1. TotalSize \in Nat
  BY PoolAssumption
<1>2. /\ \A x \in F \cup U : /\ x.base \in Nat /\ x.size \in Nat /\ x.size > 0
                             /\ x.base + x.size <= TotalSize
      /\ \A x, y \in F \cup U : x # y =>
           x.base + x.size <= y.base \/ y.base + y.size <= x.base
      /\ \A x, y \in F : x.base + x.size # y.base
      /\ F \subseteq FreeSpans /\ U \subseteq UsedSpans
  BY Zenon DEF Tiles, InPool, Apart, Untouching
<1>3. s \notin U
  BY <1>2, SpanKinds, Zenon
<1>4. /\ s.base \in Nat /\ s.size \in Nat /\ s.size - n \in Nat
      /\ s.base + s.size <= TotalSize
      /\ c \in Nat /\ l \in Nat
      /\ s.base <= c /\ c + n <= s.base + s.size
      /\ s.base <= l /\ l + (s.size - n) <= s.base + s.size
      /\ c + n <= l \/ l + (s.size - n) <= c
  BY <1>1, <1>2
<1>5. \A x \in Old : /\ x \in F \cup U
                     /\ x.base + x.size <= s.base \/ s.base + s.size <= x.base
  BY <1>2, <1>3
<1>6. F1 \cup U1 = Old \cup {cut} \cup (IF s.size = n THEN {} ELSE {left})
  OBVIOUS
<1>7. cut.base = c /\ cut.size = n /\ left.base = l /\ left.size = s.size - n
  OBVIOUS
<1>8. cut \in UsedSpans
  BY <1>1, <1>4 DEF UsedSpans
<1>9. s.size # n => left \in FreeSpans
  BY <1>1, <1>4 DEF FreeSpans
<1>10. F1 \subseteq FreeSpans /\ U1 \subseteq UsedSpans
  BY <1>2, <1>8, <1>9
<1>11. c % BlockSize = 0 /\ l % BlockSize = 0 /\ (s.size - n) % BlockSize = 0
  <2>0. s.base % BlockSize = 0 /\ s.size % BlockSize = 0
    BY DEF Tiles, Whole
  <2>1. (s.size - n) % BlockSize = 0
    BY <2>0, <1>4, BlockMultiples
  <2>2. (s.base + (s.size - n)) % BlockSize = 0 /\ (s.base + n) % BlockSize = 0
    BY <2>0, <2>1, <1>4, BlockMultiples, Zenon
  <2>3. s.base + (s.size - n) = s.base + s.size - n
    BY <1>4
  <2>4. QED
    BY <2>0, <2>1, <2>2, <2>3, Zenon
<1> HIDE DEF cut, left, Old, F1, U1
<1>12. InPool(F1 \cup U1)
  <2>1. \A x \in F1 \cup U1 : x \in F \cup U \/ x = cut \/ (x = left /\ s.size # n)
    BY <1>5, <1>6
  <2>2. QED
    BY <2>1, <1>1, <1>2, <1>4, <1>7 DEF InPool
<1>13. Whole(F1 \cup U1)
  BY <1>5, <1>6, <1>7, <1>11, Zenon DEF Tiles, Whole
<1>14. Apart(F1 \cup U1)
  BY <1>2, <1>4, <1>5, <1>6, <1>7 DEF Apart
<1>15. Untouching(F1)
  <2>1. \A x \in F1 : (x \in F /\ x # s) \/ (x = left /\ s.size # n)
    BY DEF F1
  <2>2. \A x \in F : x # s => /\ x.base + x.size # s.base
                              /\ x.base + x.size <= s.base \/ s.base + s.size <= x.base
                              /\ s.base + s.size # x.base
    BY <1>2
  <2>3. ASSUME NEW x \in F1, NEW y \in F1 PROVE x.base + x.size # y.base
    <3>1. CASE x = left /\ y = left
      BY <3>1, <2>1, <2>2, <1>2, <1>4, <1>7
    <3>2. CASE x = left /\ y # left
      BY <3>2, <2>1, <2>2, <1>2, <1>4, <1>7
    <3>3. CASE x # left /\ y = left
      BY <3>3, <2>1, <2>2, <1>2, <1>4, <1>7
    <3>4. CASE x # left /\ y # left
      BY <3>4, <2>1, <1>2, Zenon
    <3>5. QED
      BY <3>1, <3>2, <3>3, <3>4
  <2>4. QED
    BY <2>3, Zenon DEF Untouching
<1>16. Covering(F1 \cup U1)
  <2> SUFFICES ASSUME NEW b \in 0 .. TotalSize - 1
               PROVE  \E x \in F1 \cup U1 : x.base <= b /\ b < x.base + x.size
    BY DEF Covering
  <2>1. PICK x \in F \cup U : x.base <= b /\ b < x.base + x.size
    BY DEF Tiles, Covering
  <2>2. CASE x # s
    BY <2>1, <2>2, <1>6 DEF Old
  <2>3. CASE x = s /\ c <= b /\ b < c + n
    BY <2>3, <1>6, <1>7
  <2>4. CASE x = s /\ ~(c <= b /\ b < c + n)
    <3>1. l <= b /\ b < l + (s.size - n) /\ s.size # n
      BY <2>1, <2>4, <1>1, <1>4
    <3>2. QED
      BY <3>1, <1>6, <1>7
  <2>5. QED
    BY <2>2, <2>3, <2>4
<1>17. Tiles(F1, U1)
  BY <1>10, <1>12, <1>13, <1>14, <1>15, <1>16, Zenon DEF Tiles
<1>18. QED
  BY <1>17 DEF F1, U1, cut, left

\* The run of free bytes that ends where the span s begins, and the one that
\* begins where it ends, are each one free span or nothing.
LEMMA MergedLowFacts ==
  ASSUME Tiles(free_list, in_use), NEW s \in in_use
  PROVE  /\ MergedLow(s) \in 0 .. s.base
         /\ MergedLow(s) % BlockSize = 0
         /\ \A f \in free_list : \/ f.base + f.size < MergedLow(s)
                                 \/ f.base = MergedLow(s) /\ f.base + f.size = s.base
                                 \/ s.base + s.size <= f.base
         /\ \A u \in in_use : u # s => u.base + u.size <= MergedLow(s) \/ s.base + s.size <= u.base
<1> DEFINE F == free_list
           Ok(b) == b .. s.base - 1 \subseteq Bytes(F) /\ b - 1 \notin Bytes(F)
<1>1. TotalSize \in Nat
  BY PoolAssumption, Zenon
<1>2. /\ \A x \in F \cup in_use : /\ x.base \in Nat /\ x.size \in Nat /\ x.size > 0
                                  /\ x.base + x.size <= TotalSize
      /\ \A x, y \in F \cup in_use : x # y =>
           x.base + x.size <= y.base \/ y.base + y.size <= x.base
      /\ \A x, y \in F : x.base + x.size # y.base
      /\ F \subseteq FreeSpans /\ in_use \subseteq UsedSpans
  BY Zenon DEF Tiles, InPool, Apart, Untouching
<1>3. s \notin F
  BY <1>2, SpanKinds, Zenon
<1>4. \A x \in (F \cup in_use) : x # s => x.base + x.size <= s.base \/ s.base + s.size <= x.base
  BY <1>2
<1>5. \A b : b \in Bytes(F) <=> \E f \in F : b \in f.base .. f.base + f.size - 1
  BY DEF Bytes
<1>6. s.base \in Nat /\ s.size \in Nat /\ s.size > 0
  BY <1>2
<1>7. \E b \in 0 .. s.base : Ok(b)
  <2>1. CASE \E f \in F : f.base + f.size = s.base
    <3>1. PICK f \in F : f.base + f.size = s.base
      BY <2>1
    <3>2. f.base .. s.base - 1 \subseteq Bytes(F)
      <4>1. ASSUME NEW b \in f.base .. s.base - 1 PROVE b \in Bytes(F)
        <5>1. b \in f.base .. f.base + f.size - 1
          BY <3>1, <1>2, <1>6
        <5>2. QED
          BY <5>1, <1>5, Zenon
      <4>2. QED
        BY <4>1, Zenon
    <3>3. ASSUME NEW g \in F PROVE f.base - 1 \notin g.base .. g.base + g.size - 1
      BY <3>1, <1>2
    <3>4. f.base - 1 \notin Bytes(F)
      BY <3>3, <1>5, Zenon
    <3>5. f.base \in 0 .. s.base
      BY <3>1, <1>2, <1>6
    <3>6. QED
      BY <3>2, <3>4, <3>5
  <2>2. CASE \A f \in F : f.base + f.size # s.base
    <3>1. s.base .. s.base - 1 = {}
      BY <1>6
    <3>2. ASSUME NEW g \in F PROVE s.base - 1 \notin g.base .. g.base + g.size - 1
      BY <2>2, <1>2, <1>3, <1>4, <1>6
    <3>3. s.base - 1 \notin Bytes(F)
      BY <3>2, <1>5, Zenon
    <3>4. s.base \in 0 .. s.base
      BY <1>6
    <3>5. QED
      BY <3>1, <3>3, <3>4
  <2>3. QED
    BY <2>1, <2>2
<1> DEFINE low == MergedLow(s)
<1>8. low \in 0 .. s.base /\ Ok(low)
  <2>1. low = CHOOSE b \in 0 .. s.base : Ok(b)
    BY DEF MergedLow
  <2> HIDE DEF Ok, low
  <2>2. QED
    BY <2>1, <1>7, Zenon
<1>9. low \in Nat /\ low <= s.base
  BY <1>6, <1>8
<1>10. \A b \in low .. s.base - 1 : \E f \in F : b \in f.base .. f.base + f.size - 1
  BY <1>5, <1>8, Zenon
<1>11. \A f \in F : low - 1 \notin f.base .. f.base + f.size - 1
  BY <1>5, <1>8, Zenon
<1> HIDE DEF low, Ok, F
\* If the run is not empty, the span that holds its last byte is all of it.
<1>12. low < s.base => \E f \in F : f.base = low /\ f.base + f.size = s.base
  <2> SUFFICES ASSUME low < s.base PROVE \E f \in F : f.base = low /\ f.base + f.size = s.base
    OBVIOUS
  <2>1. PICK f \in F : s.base - 1 \in f.base .. f.base + f.size - 1
    BY <1>6, <1>9, <1>10
  <2>2. f.base + f.size = s.base
    BY <2>1, <1>2, <1>3, <1>4, <1>6
  <2>3. low <= f.base
    BY <2>2, <1>2, <1>9, <1>11
  <2>4. CASE low < f.base
    <3>1. f.base - 1 \in low .. s.base - 1
      BY <2>2, <2>4, <1>2, <1>9
    <3>2. PICK g \in F : f.base - 1 \in g.base .. g.base + g.size - 1
      BY <3>1, <1>10
    <3>3. g # f
      BY <3>2, <1>2
    <3>4. QED
      BY <3>2, <3>3, <1>2
  <2>5. QED
    BY <2>2, <2>3, <2>4, <1>2, <1>9
<1>13. ASSUME NEW f \in F
       PROVE  \/ f.base + f.size < low
              \/ f.base = low /\ f.base + f.size = s.base
              \/ s.base + s.size <= f.base
  <2>1. f.base + f.size <= s.base \/ s.base + s.size <= f.base
    BY <1>3, <1>4, Zenon
  <2>2. CASE low = s.base /\ f.base + f.size <= s.base
    BY <2>2, <1>2, <1>9, <1>11
  <2>3. CASE low < s.base /\ f.base + f.size <= s.base
    <3>1. PICK g \in F : g.base = low /\ g.base + g.size = s.base
      BY <2>3, <1>12
    <3>2. f = g \/ f.base + f.size < g.base
      BY <2>3, <3>1, <1>2
    <3>3. QED
      BY <3>1, <3>2
  <2>4. QED
    BY <2>1, <2>2, <2>3, <1>6, <1>9
<1>14. ASSUME NEW u \in in_use, u # s PROVE u.base + u.size <= low \/ s.base + s.size <= u.base
  <2>1. u.base + u.size <= s.base \/ s.base + s.size <= u.base
    BY <1>4, <1>14, Zenon
  <2>2. CASE low = s.base
    BY <2>1, <2>2
  <2>3. CASE low < s.base /\ u.base + u.size <= s.base
    <3>1. PICK g \in F : g.base = low /\ g.base + g.size = s.base
      BY <2>3, <1>12
    <3>2. u # g
      BY <1>2, SpanKinds, Zenon
    <3>3. QED
      BY <2>3, <3>1, <3>2, <1>2
  <2>4. QED
    BY <2>1, <2>2, <2>3, <1>6, <1>9
<1>15. low % BlockSize = 0
  <2>1. CASE low = s.base
    BY <2>1 DEF Tiles, Whole
  <2>2. CASE low < s.base
    BY <2>2, <1>12 DEF F, Tiles, Whole
  <2>3. QED
    BY <2>1, <2>2, <1>6, <1>9
<1>16. QED
  BY <1>8, <1>13, <1>14, <1>15, Zenon DEF low, F

LEMMA MergedHighFacts ==
  ASSUME Tiles(free_list, in_use), NEW s \in in_use
  PROVE  /\ MergedHigh(s) \in s.base + s.size .. TotalSize
         /\ MergedHigh(s) % BlockSize = 0
         /\ \A f \in free_list : \/ MergedHigh(s) < f.base
                                 \/ f.base = s.base + s.size /\ f.base + f.size = MergedHigh(s)
                                 \/ f.base + f.size <= s.base
         /\ \A u \in in_use : u # s => MergedHigh(s) <= u.base \/ u.base + u.size <= s.base
<1> DEFINE F == free_list
           end == s.base + s.size
           Ok(b) == end .. b - 1 \subseteq Bytes(F) /\ b \notin Bytes(F)
<1>1. TotalSize \in Nat
  BY PoolAssumption
<1>2. /\ \A x \in F \cup in_use : /\ x.base \in Nat /\ x.size \in Nat /\ x.size > 0
                                  /\ x.base + x.size <= TotalSize
      /\ \A x, y \in F \cup in_use : x # y =>
           x.base + x.size <= y.base \/ y.base + y.size <= x.base
      /\ \A x, y \in F : x.base + x.size # y.base
      /\ F \subseteq FreeSpans /\ in_use \subseteq UsedSpans
  BY Zenon DEF Tiles, InPool, Apart, Untouching
<1>3. s \notin F
  BY <1>2, SpanKinds, Zenon
<1>4. \A x \in (F \cup in_use) : x # s => x.base + x.size <= s.base \/ end <= x.base
  BY <1>2, Zenon
<1>5. \A b : b \in Bytes(F) <=> \E f \in F : b \in f.base .. f.base + f.size - 1
  BY DEF Bytes
<1>6. s.base \in Nat /\ s.size \in Nat /\ s.size > 0 /\ end \in Nat /\ end <= TotalSize /\ s.base < end
  BY <1>2
<1>7. \E b \in end .. TotalSize : Ok(b)
  <2>1. CASE \E f \in F : f.base = end
    <3>1. PICK f \in F : f.base = end
      BY <2>1
    <3> DEFINE b == f.base + f.size
    <3>2. ASSUME NEW c \in end .. b - 1 PROVE c \in Bytes(F)
      <4>1. c \in f.base .. f.base + f.size - 1
        BY <3>1, <1>2, <1>6
      <4>2. QED
        BY <4>1, <1>5, Zenon
    <3>3. ASSUME NEW g \in F PROVE b \notin g.base .. g.base + g.size - 1
      BY <3>1, <1>2
    <3>4. b \notin Bytes(F)
      BY <3>3, <1>5, Zenon
    <3>5. b \in end .. TotalSize
      BY <3>1, <1>1, <1>2, <1>6
    <3>6. QED
      BY <3>2, <3>4, <3>5
  <2>2. CASE \A f \in F : f.base # end
    <3>1. end .. end - 1 = {}
      BY <1>6
    <3>2. ASSUME NEW g \in F PROVE end \notin g.base .. g.base + g.size - 1
      BY <2>2, <1>2, <1>3, <1>4, <1>6
    <3>3. end \notin Bytes(F)
      BY <3>2, <1>5, Zenon
    <3>4. end \in end .. TotalSize
      BY <1>1, <1>6
    <3>5. QED
      BY <3>1, <3>3, <3>4, Zenon
  <2>3. QED
    BY <2>1, <2>2
<1> DEFINE high == MergedHigh(s)
<1>8. high \in end .. TotalSize /\ Ok(high)
  <2>1. high = CHOOSE b \in end .. TotalSize : Ok(b)
    BY DEF MergedHigh
  <2> HIDE DEF Ok, high
  <2>2. QED
    BY <2>1, <1>7, Zenon
<1>9. high \in Nat /\ end <= high
  BY <1>1, <1>6, <1>8
<1>10. \A b \in end .. high - 1 : \E f \in F : b \in f.base .. f.base + f.size - 1
  BY <1>5, <1>8, Zenon
<1>11. \A f \in F : high \notin f.base .. f.base + f.size - 1
  BY <1>5, <1>8, Zenon
<1>12. end = s.base + s.size
  OBVIOUS
<1> HIDE DEF high, Ok, F, end
\* If the run is not empty, the span that holds its first byte is all of it.
<1>13. end < high => \E f \in F : f.base = end /\ f.base + f.size = high
  <2> SUFFICES ASSUME end < high PROVE \E f \in F : f.base = end /\ f.base + f.size = high
    BY Zenon
  <2>1. PICK f \in F : end \in f.base .. f.base + f.size - 1
    BY <1>6, <1>9, <1>10
  <2>2. f.base = end
    BY <2>1, <1>2, <1>3, <1>4, <1>6
  <2>3. f.base + f.size <= high
    BY <2>2, <1>2, <1>9, <1>11
  <2>4. CASE f.base + f.size < high
    <3>1. f.base + f.size \in end .. high - 1
      BY <2>2, <2>4, <1>2, <1>6, <1>9
    <3>2. PICK g \in F : f.base + f.size \in g.base .. g.base + g.size - 1
      BY <3>1, <1>10
    <3>3. g # f
      BY <3>2, <1>2
    <3>4. QED
      BY <3>2, <3>3, <1>2
  <2>5. QED
    BY <2>2, <2>3, <2>4, <1>2, <1>9
<1>14. ASSUME NEW f \in F
       PROVE  \/ high < f.base
              \/ f.base = end /\ f.base + f.size = high
              \/ f.base + f.size <= s.base
  <2>1. f.base + f.size <= s.base \/ end <= f.base
    BY <1>3, <1>4, Zenon
  <2>2. CASE high = end /\ end <= f.base
    BY <2>2, <1>2, <1>9, <1>11
  <2>3. CASE end < high /\ end <= f.base
    <3>1. PICK g \in F : g.base = end /\ g.base + g.size = high
      BY <2>3, <1>13
    <3>2. f = g \/ g.base + g.size < f.base
      BY <2>3, <3>1, <1>2, <1>6
    <3>3. QED
      BY <3>1, <3>2, Zenon
  <2>4. QED
    BY <2>1, <2>2, <2>3, <1>6, <1>9
<1>15. ASSUME NEW u \in in_use, u # s PROVE high <= u.base \/ u.base + u.size <= s.base
  <2>1. u.base + u.size <= s.base \/ end <= u.base
    BY <1>4, <1>15, Zenon
  <2>2. CASE high = end
    BY <2>1, <2>2
  <2>3. CASE end < high /\ end <= u.base
    <3>1. PICK g \in F : g.base = end /\ g.base + g.size = high
      BY <2>3, <1>13, Zenon
    <3>2. u # g
      BY <1>2, SpanKinds, Zenon
    <3>3. QED
      BY <2>3, <3>1, <3>2, <1>2, <1>6
  <2>4. QED
    BY <2>1, <2>2, <2>3, <1>6, <1>9
<1>16. high % BlockSize = 0
  <2>1. \A x \in F \cup in_use : (x.base + x.size) % BlockSize = 0
    <3> SUFFICES ASSUME NEW x \in F \cup in_use PROVE (x.base + x.size) % BlockSize = 0
      OBVIOUS
    <3>1. /\ x.base \in Nat /\ x.size \in Nat
          /\ x.base % BlockSize = 0 /\ x.size % BlockSize = 0
      BY <1>2, Zenon DEF F, Tiles, Whole
    <3>2. QED
      BY <3>1, BlockMultiples, Zenon
  <2>2. CASE high = end
    BY <2>1, <2>2, <1>12
  <2>3. CASE end < high
    BY <2>1, <2>3, <1>13, Zenon
  <2>4. QED
    BY <2>2, <2>3, <1>6, <1>9
<1>17. QED
  BY <1>8, <1>12, <1>14, <1>15, <1>16, Zenon DEF high, F

\* release_srcptr: a released span and its free neighbours become one span.
LEMMA MergeKeepsTiling ==
  ASSUME NEW F, NEW U, Tiles(F, U), NEW s \in U, NEW low \in Nat, NEW high \in Nat,
         low <= s.base, s.base + s.size <= high, high <= TotalSize,
         low % BlockSize = 0, high % BlockSize = 0,
         \A f \in F : \/ f.base + f.size < low
                      \/ high < f.base
                      \/ f.base = low /\ f.base + f.size = s.base
                      \/ f.base = s.base + s.size /\ f.base + f.size = high,
         \A u \in U : u # s => u.base + u.size <= low \/ high <= u.base
  PROVE  Tiles({f \in F : f.base < low \/ f.base > high} \cup {[base |-> low, size |-> high - low]},
               U \ {s})
<1> DEFINE rest == {f \in F : f.base < low \/ f.base > high}
           g == [base |-> low, size |-> high - low]
           F1 == rest \cup {g}
           U1 == U \ {s}
<1>1. TotalSize \in Nat
  BY PoolAssumption, Zenon
<1>2. /\ \A x \in F \cup U : /\ x.base \in Nat /\ x.size \in Nat /\ x.size > 0
                             /\ x.base + x.size <= TotalSize
      /\ \A x, y \in F \cup U : x # y =>
           x.base + x.size <= y.base \/ y.base + y.size <= x.base
      /\ \A x, y \in F : x.base + x.size # y.base
      /\ F \subseteq FreeSpans /\ U \subseteq UsedSpans
  BY Zenon DEF Tiles, InPool, Apart, Untouching
<1>3. s.base \in Nat /\ s.size \in Nat /\ s.size > 0 /\ low < high
  BY <1>2
<1>4. g.base = low /\ g.size = high - low /\ high - low \in Nat /\ high - low > 0
  BY <1>3
<1>5. g \in FreeSpans
  BY <1>1, <1>3 DEF FreeSpans
<1>6. \A f \in rest : f \in F /\ (f.base + f.size < low \/ high < f.base)
  BY <1>2, <1>3
<1>7. \A u \in U1 : u \in U /\ (u.base + u.size <= low \/ high <= u.base)
  OBVIOUS
<1>8. (high - low) % BlockSize = 0
  BY <1>3, BlockMultiples
<1>9. \A f \in F : f \in rest \/ (low <= f.base /\ f.base + f.size <= high)
  BY <1>2, <1>3
<1>10. \A u \in U : u \in U1 \/ u = s
  OBVIOUS
<1>11. F1 = rest \cup {g}
  OBVIOUS
<1> HIDE DEF rest, g, F1, U1
<1>12. F1 \subseteq FreeSpans /\ U1 \subseteq UsedSpans
  BY <1>2, <1>5, <1>6, <1>7, <1>11
<1>13. \A x \in F1 \cup U1 : x = g \/ (x \in F \cup U /\ (x.base + x.size <= low \/ high <= x.base))
  BY <1>2, <1>6, <1>7, <1>11
<1>14. InPool(F1 \cup U1)
  BY <1>1, <1>2, <1>4, <1>13 DEF InPool
<1>15. Whole(F1 \cup U1)
  BY <1>4, <1>8, <1>13, Zenon DEF Tiles, Whole
<1>16. Apart(F1 \cup U1)
  BY <1>2, <1>4, <1>13 DEF Apart
<1>17. Untouching(F1)
  BY <1>2, <1>4, <1>6, <1>11 DEF Untouching
<1>18. Covering(F1 \cup U1)
  <2> SUFFICES ASSUME NEW b \in 0 .. TotalSize - 1
               PROVE  \E x \in F1 \cup U1 : x.base <= b /\ b < x.base + x.size
    BY Zenon DEF Covering
  <2>1. PICK x \in F \cup U : x.base <= b /\ b < x.base + x.size
    BY DEF Tiles, Covering
  <2>2. CASE x \in rest \cup U1
    BY <2>1, <2>2, <1>11
  <2>3. CASE low <= x.base /\ x.base + x.size <= high
    BY <2>1, <2>3, <1>1, <1>2, <1>4, <1>11
  <2>4. QED
    BY <2>2, <2>3, <1>9, <1>10, Zenon
<1>19. QED
  BY <1>12, <1>14, <1>15, <1>16, <1>17, <1>18, Zenon DEF Tiles, F1, U1, rest, g

-----------------------------------------------------------------------------
(* The steps of the pool.                                                  *)

\* alloc_srcptr, for a message that a free span is large enough for.
LEMMA TakeKeepsTiling ==
  ASSUME Tiles(free_list, in_use), NEW m \in Msg, Candidates(RoundUp(PayloadSize[m])) # {},
         Take(m)
  PROVE  Tiles(free_list', in_use')
<1> DEFINE n == RoundUp(PayloadSize[m])
           s == Best(n)
<1>1. PayloadSize[m] \in Nat /\ PayloadSize[m] > 0
  BY PoolAssumption
<1>2. n \in Nat /\ n > 0 /\ n % BlockSize = 0
  BY <1>1, RoundUpFacts
<1>3. s \in free_list /\ n <= s.size
  <2>1. free_list \subseteq FreeSpans
    BY DEF Tiles
  <2> HIDE DEF n
  <2>2. s \in Candidates(n)
    BY <2>1, <1>2, BestFits DEF n
  <2>3. s.size \in Int
    BY <2>1, <2>2, PoolAssumption DEF Candidates, FreeSpans
  <2>4. QED
    BY <2>2, <2>3, <1>2 DEF Candidates
<1>4. /\ in_use' = in_use \cup {[base |-> s.base + s.size - n, size |-> n, msg |-> m]}
      /\ free_list' = (free_list \ {s}) \cup
           (IF s.size = n THEN {} ELSE {[base |-> s.base, size |-> s.size - n]})
  BY Zenon DEF Take, CutFromEnd
<1> HIDE DEF n, s
<1>5. QED
  BY <1>2, <1>3, <1>4, CutKeepsTiling, Zenon

\* release_srcptr: the span it merges, and what becomes of it.
Rest(s) == {f \in free_list : f.base < MergedLow(s) \/ f.base > MergedHigh(s)}

Merged(s) == [base |-> MergedLow(s), size |-> MergedHigh(s) - MergedLow(s)]

LEMMA MergedTiling ==
  ASSUME Tiles(free_list, in_use), NEW s \in in_use
  PROVE  /\ Tiles(Rest(s) \cup {Merged(s)}, in_use \ {s})
         /\ MergedLow(s) \in Nat /\ MergedHigh(s) \in Nat
         /\ MergedLow(s) < MergedHigh(s)
         /\ (MergedHigh(s) - MergedLow(s)) % BlockSize = 0
<1> DEFINE low == MergedLow(s)
           high == MergedHigh(s)
<1>1. /\ low \in 0 .. s.base /\ low % BlockSize = 0
      /\ \A f \in free_list : \/ f.base + f.size < low
                              \/ f.base = low /\ f.base + f.size = s.base
                              \/ s.base + s.size <= f.base
      /\ \A u \in in_use : u # s => u.base + u.size <= low \/ s.base + s.size <= u.base
  BY MergedLowFacts, Zenon
<1>2. /\ high \in s.base + s.size .. TotalSize /\ high % BlockSize = 0
      /\ \A f \in free_list : \/ high < f.base
                              \/ f.base = s.base + s.size /\ f.base + f.size = high
                              \/ f.base + f.size <= s.base
      /\ \A u \in in_use : u # s => high <= u.base \/ u.base + u.size <= s.base
  BY MergedHighFacts, Zenon
<1> HIDE DEF low, high
<1>3. \A x \in free_list \cup in_use : x.base \in Nat /\ x.size \in Nat /\ x.size > 0
  BY DEF Tiles, InPool
<1>4. TotalSize \in Nat
  BY PoolAssumption
<1>5. /\ low \in Nat /\ high \in Nat /\ low <= s.base /\ s.base + s.size <= high
      /\ high <= TotalSize /\ low < high
  BY <1>1, <1>2, <1>3, <1>4
<1>6. \A f \in free_list : \/ f.base + f.size < low
                           \/ high < f.base
                           \/ f.base = low /\ f.base + f.size = s.base
                           \/ f.base = s.base + s.size /\ f.base + f.size = high
  BY <1>1, <1>2, <1>3
<1>7. \A u \in in_use : u # s => u.base + u.size <= low \/ high <= u.base
  BY <1>1, <1>2, <1>3
<1>8. (high - low) % BlockSize = 0
  BY <1>1, <1>2, <1>5, BlockMultiples
<1>9. Tiles({f \in free_list : f.base < low \/ f.base > high} \cup
              {[base |-> low, size |-> high - low]}, in_use \ {s})
  BY <1>1, <1>2, <1>5, <1>6, <1>7, MergeKeepsTiling, Zenon
<1>10. QED
  BY <1>5, <1>8, <1>9, Zenon DEF low, high, Rest, Merged

\* What release_srcptr does with the merged span: gives its first bytes to the
\* first pending message, or leaves it free.
Satisfies(m, s) ==
  LET p == Head(pending_allocations)
      n == RoundUp(PayloadSize[p])
  IN /\ pending_allocations # <<>> /\ Merged(s).size >= PayloadSize[p]
     /\ in_use' = (in_use \ {s}) \cup {[base |-> Merged(s).base, size |-> n, msg |-> p]}
     /\ free_list' = Rest(s) \cup
          IF Merged(s).size > n THEN {[base |-> Merged(s).base + n, size |-> Merged(s).size - n]} ELSE {}
     /\ pending_allocations' = Tail(pending_allocations)
     /\ stage' = [[stage EXCEPT ![m] = IF @ = "sent" THEN "done" ELSE "released_early"]
                    EXCEPT ![p] = "satisfied"]

LeavesFree(m, s) ==
  /\ in_use' = in_use \ {s}
  /\ free_list' = Rest(s) \cup {Merged(s)}
  /\ stage' = [stage EXCEPT ![m] = IF @ = "sent" THEN "done" ELSE "released_early"]
  /\ UNCHANGED pending_allocations

LEMMA ReleaseCases ==
  ASSUME NEW m \in Msg, ReleaseSrcptr(m)
  PROVE  /\ stage[m] \in {"sent", "sent_early"}
         /\ UNCHANGED <<queue, spilling, data>>
         /\ \E s \in in_use : s.msg = m /\ (Satisfies(m, s) \/ LeavesFree(m, s))
<1>1. PICK s \in in_use :
        /\ s.msg = m
        /\ IF pending_allocations # <<>> /\
              MergedHigh(s) - MergedLow(s) >= PayloadSize[Head(pending_allocations)]
             THEN /\ in_use' = (in_use \ {s}) \cup {[base |-> MergedLow(s),
                         size |-> RoundUp(PayloadSize[Head(pending_allocations)]),
                         msg |-> Head(pending_allocations)]}
                  /\ free_list' = Rest(s) \cup
                       IF MergedHigh(s) - MergedLow(s) > RoundUp(PayloadSize[Head(pending_allocations)])
                         THEN {[base |-> MergedLow(s) + RoundUp(PayloadSize[Head(pending_allocations)]),
                                size |-> MergedHigh(s) - MergedLow(s)
                                           - RoundUp(PayloadSize[Head(pending_allocations)])]}
                         ELSE {}
                  /\ pending_allocations' = Tail(pending_allocations)
                  /\ stage' = [[stage EXCEPT ![m] = IF @ = "sent" THEN "done" ELSE "released_early"]
                                 EXCEPT ![Head(pending_allocations)] = "satisfied"]
             ELSE LeavesFree(m, s)
  BY Zenon DEF ReleaseSrcptr, LeavesFree, Rest, Merged
<1>2. Merged(s).base = MergedLow(s) /\ Merged(s).size = MergedHigh(s) - MergedLow(s)
  BY DEF Merged
<1>3. Satisfies(m, s) \/ LeavesFree(m, s)
  BY <1>1, <1>2, Zenon DEF Satisfies
<1>4. QED
  BY <1>1, <1>3, Zenon DEF ReleaseSrcptr

LEMMA ReleaseKeepsTiling ==
  ASSUME TypeOK, Tiles(free_list, in_use), NEW m \in Msg, NEW s \in in_use,
         Satisfies(m, s) \/ LeavesFree(m, s)
  PROVE  Tiles(free_list', in_use')
<1> DEFINE g == Merged(s)
<1>1. /\ Tiles(Rest(s) \cup {g}, in_use \ {s})
      /\ g.base = MergedLow(s) /\ g.size = MergedHigh(s) - MergedLow(s)
      /\ g.base \in Nat /\ g.size \in Nat /\ g.size > 0 /\ g.size % BlockSize = 0
  <2>1. g.base = MergedLow(s) /\ g.size = MergedHigh(s) - MergedLow(s)
    BY Zenon DEF Merged
  <2>2. /\ Tiles(Rest(s) \cup {g}, in_use \ {s})
        /\ MergedLow(s) \in Nat /\ MergedHigh(s) \in Nat
        /\ MergedLow(s) < MergedHigh(s)
        /\ (MergedHigh(s) - MergedLow(s)) % BlockSize = 0
    BY MergedTiling, Zenon
  <2> HIDE DEF g
  <2>3. g.base \in Nat /\ g.size \in Nat /\ g.size > 0
    BY <2>1, <2>2
  <2>4. QED
    BY <2>1, <2>2, <2>3, Zenon
<1>2. g \notin Rest(s)
  BY <1>1, MergedTiling DEF Rest
<1>3. CASE LeavesFree(m, s)
  BY <1>1, <1>3, Zenon DEF LeavesFree
<1>4. CASE Satisfies(m, s)
  <2> DEFINE p == Head(pending_allocations)
             n == RoundUp(PayloadSize[p])
  <2>1. p \in Msg
    <3>1. pending_allocations # <<>> /\ pending_allocations \in Seq(Msg)
      BY <1>4, Zenon DEF Satisfies, TypeOK
    <3>2. QED
      BY <3>1
  <2>2. PayloadSize[p] \in Nat /\ PayloadSize[p] > 0
    BY <2>1, PoolAssumption
  <2>3. n \in Nat /\ n > 0 /\ n % BlockSize = 0 /\ n <= g.size
    <3>1. g.size >= PayloadSize[p]
      BY <1>4, Zenon DEF Satisfies
    <3> HIDE DEF g, p
    <3>2. QED
      BY <3>1, <2>2, <1>1, RoundUpFacts
  <2>4. /\ in_use' = (in_use \ {s}) \cup {[base |-> g.base, size |-> n, msg |-> p]}
        /\ free_list' = Rest(s) \cup
             IF g.size > n THEN {[base |-> g.base + n, size |-> g.size - n]} ELSE {}
    BY <1>4, Zenon DEF Satisfies
  <2> HIDE DEF g, n, p
  <2>5. /\ g.size > n <=> g.size # n
        /\ (Rest(s) \cup {g}) \ {g} = Rest(s)
    BY <2>3, <1>1, <1>2
  <2>6. free_list' = ((Rest(s) \cup {g}) \ {g}) \cup
             (IF g.size = n THEN {} ELSE {[base |-> g.base + n, size |-> g.size - n]})
    BY <2>4, <2>5, Zenon
  <2>7. g \in Rest(s) \cup {g}
    OBVIOUS
  <2>8. Tiles(((Rest(s) \cup {g}) \ {g}) \cup
                (IF g.size = n THEN {} ELSE {[base |-> g.base + n, size |-> g.size - n]}),
              (in_use \ {s}) \cup {[base |-> g.base, size |-> n, msg |-> p]})
    <3> DEFINE F == Rest(s) \cup {g}
               U == in_use \ {s}
               l == g.base + n
    <3>1. Tiles(F, U) /\ g \in F /\ l = g.base + n
      BY <2>7, <1>1
    <3> HIDE DEF F, U, l
    <3>2. Tiles((F \ {g}) \cup (IF g.size = n THEN {} ELSE {[base |-> l, size |-> g.size - n]}),
                U \cup {[base |-> g.base, size |-> n, msg |-> p]})
      BY <3>1, <2>1, <2>3, CutKeepsTiling, Zenon
    <3>3. QED
      BY <3>2, Zenon DEF F, U, l
  <2>9. QED
    BY <2>4, <2>6, <2>8, Zenon
<1>5. QED
  BY <1>3, <1>4

\* What TypeOK says beside the kinds of the spans.
LifeType ==
  /\ pending_allocations \in Seq(Msg)
  /\ queue \in [Endpoint -> Seq(Msg)]
  /\ stage \in [Msg -> Stage]
  /\ spill \subseteq Msg
  /\ current_spill_bytes \in Int
  /\ misread \in BOOLEAN
  /\ sleeping \subseteq Msg
  /\ payload_src \in [Msg -> {"caller", "copy", Null}]
  /\ payload \in [Msg -> {"enqueued", "reused", Null}]
  /\ owned \in [Msg -> Int]

LEMMA TypeParts ==
  /\ TypeOK <=> free_list \subseteq FreeSpans /\ in_use \subseteq UsedSpans /\ LifeType
  /\ TypeOK' <=> free_list' \subseteq FreeSpans /\ in_use' \subseteq UsedSpans /\ LifeType'
BY Zenon DEF TypeOK, LifeType, FreeSpans, UsedSpans

\* A message's span, queues and data keep their types, whatever step is taken.
LEMMA LifeTypeStep ==
  ASSUME LifeType, Next
  PROVE  LifeType'
<1>1. /\ \A m \in Msg : EpOf[m] \in Endpoint /\ PayloadSize[m] \in Int
      /\ StaleReads \subseteq Int
  BY PoolAssumption
<1>2. ASSUME NEW m \in Msg, AllocSpillMemory(m) PROVE LifeType'
  <2>1. stage' \in [Msg -> Stage]
    <3>1. stage' = [stage EXCEPT ![m] = "reserved"] \/ stage' = [stage EXCEPT ![m] = "suspended"]
      BY <1>2, Zenon DEF AllocSpillMemory
    <3>2. "reserved" \in Stage /\ "suspended" \in Stage /\ stage \in [Msg -> Stage]
      BY Zenon DEF LifeType, Stage
    <3>3. QED
      BY <3>1, <3>2, Zenon
  <2>2. spill' \subseteq Msg /\ current_spill_bytes' \in Int /\ sleeping' \subseteq Msg
    BY <1>1, <1>2 DEF AllocSpillMemory, LifeType
  <2>3. misread' \in BOOLEAN
    BY <1>2, Zenon DEF AllocSpillMemory, LifeType
  <2>4. QED
    BY <2>1, <2>2, <2>3, <1>2, Zenon DEF AllocSpillMemory, LifeType, pool, data
<1>3. ASSUME NEW m \in Msg, EnqueueInPlace(m) PROVE LifeType'
  BY <1>1, <1>3 DEF EnqueueInPlace, LifeType, Stage, pool, spilling
<1>4. ASSUME NEW m \in Msg, EnqueueAllocated(m) PROVE LifeType'
  <2>1. spill' \subseteq Msg /\ current_spill_bytes' \in Int /\ sleeping' \subseteq Msg
    BY <1>1, <1>4 DEF EnqueueAllocated, ReleaseSpillMemory, spilling, LifeType
  <2>2. misread' \in BOOLEAN
    BY <1>4, Zenon DEF EnqueueAllocated, ReleaseSpillMemory, spilling, LifeType
  <2>3. QED
    BY <2>1, <2>2, <1>1, <1>4 DEF EnqueueAllocated, CopyAndDelete, LifeType, Stage
<1>5. ASSUME NEW m \in Msg, EnqueuePending(m) PROVE LifeType'
  <2>1. stage' \in [Msg -> Stage] /\ pending_allocations' \in Seq(Msg)
    BY <1>5 DEF EnqueuePending, JoinPending, LifeType, Stage
  <2>2. queue' \in [Endpoint -> Seq(Msg)]
    BY <1>1, <1>5 DEF EnqueuePending, JoinPending, LifeType
  <2>3. /\ payload_src' \in [Msg -> {"caller", "copy", Null}] /\ owned' \in [Msg -> Int]
        /\ UNCHANGED payload
    <3>1. payload_src \in [Msg -> {"caller", "copy", Null}] /\ owned \in [Msg -> Int]
      BY Zenon DEF LifeType
    <3>2. QED
      BY <3>1, <1>5 DEF EnqueuePending, data
  <2>4. QED
    BY <2>1, <2>2, <2>3, <1>5, Zenon DEF EnqueuePending, JoinPending, LifeType, spilling
<1>6. ASSUME NEW m \in Msg, ReleaseSrcptr(m) PROVE LifeType'
  <2>1. UNCHANGED <<queue, spilling, data>>
    BY <1>6, ReleaseCases, Zenon
  <2>2. PICK s \in in_use : Satisfies(m, s) \/ LeavesFree(m, s)
    BY <1>6, ReleaseCases, Zenon
  <2>3. stage' \in [Msg -> Stage] /\ pending_allocations' \in Seq(Msg)
    <3>1. CASE LeavesFree(m, s)
      BY <3>1, Zenon DEF LeavesFree, LifeType, Stage
    <3>2. CASE Satisfies(m, s)
      <4> DEFINE p == Head(pending_allocations)
      <4>1. /\ pending_allocations # <<>>
            /\ pending_allocations' = Tail(pending_allocations)
            /\ stage' = [[stage EXCEPT ![m] = IF @ = "sent" THEN "done" ELSE "released_early"]
                           EXCEPT ![p] = "satisfied"]
        BY <3>2, Zenon DEF Satisfies
      <4>2. p \in Msg /\ pending_allocations' \in Seq(Msg)
        BY <4>1 DEF LifeType
      <4> HIDE DEF p
      <4>3. QED
        BY <4>1, <4>2 DEF LifeType, Stage
    <3>3. QED
      BY <2>2, <3>1, <3>2
  <2>4. QED
    BY <2>1, <2>3 DEF LifeType, spilling, data
<1>7. ASSUME NEW m \in Msg, AssignSrcdataPointer(m) PROVE LifeType'
  BY <1>1, <1>7 DEF AssignSrcdataPointer, CopyAndDelete, LifeType, Stage, pool, spilling
<1>8. ASSUME NEW m \in Msg, AssignReleaseSpill(m) PROVE LifeType'
  <2>1. spill' \subseteq Msg /\ current_spill_bytes' \in Int /\ sleeping' \subseteq Msg
    BY <1>1, <1>8 DEF AssignReleaseSpill, ReleaseSpillMemory, LifeType
  <2>2. stage' \in [Msg -> Stage]
    BY <1>8 DEF AssignReleaseSpill, LifeType, Stage
  <2>3. misread' \in BOOLEAN
    BY <1>8, Zenon DEF AssignReleaseSpill, ReleaseSpillMemory, LifeType
  <2>4. QED
    BY <2>1, <2>2, <2>3, <1>8 DEF AssignReleaseSpill, LifeType, pool, data
<1>9. ASSUME NEW e \in Endpoint, SendHead(e) PROVE LifeType'
  BY <1>9 DEF SendHead, LifeType, Stage, pool, spilling
<1>10. QED
  BY <1>2, <1>3, <1>4, <1>5, <1>6, <1>7, <1>8, <1>9, Zenon DEF Next, MessageStep

\* The pool changes in alloc_srcptr and release_srcptr only.
LEMMA TilingStep ==
  ASSUME TypeOK, Tiles(free_list, in_use), Next
  PROVE  Tiles(free_list', in_use')
<1>1. ASSUME NEW m \in Msg, AllocSpillMemory(m) PROVE Tiles(free_list', in_use')
  BY <1>1, Zenon DEF AllocSpillMemory, pool
<1>2. ASSUME NEW m \in Msg, EnqueueInPlace(m) PROVE Tiles(free_list', in_use')
  BY <1>2, Zenon DEF EnqueueInPlace, pool
<1>3. ASSUME NEW m \in Msg, EnqueueAllocated(m) PROVE Tiles(free_list', in_use')
  BY <1>3, TakeKeepsTiling, Zenon DEF EnqueueAllocated, Allocates
<1>4. ASSUME NEW m \in Msg, EnqueuePending(m) PROVE Tiles(free_list', in_use')
  BY <1>4, Zenon DEF EnqueuePending, JoinPending
<1>5. ASSUME NEW m \in Msg, ReleaseSrcptr(m) PROVE Tiles(free_list', in_use')
  BY <1>5, ReleaseCases, ReleaseKeepsTiling, Zenon
<1>6. ASSUME NEW m \in Msg, AssignSrcdataPointer(m) PROVE Tiles(free_list', in_use')
  BY <1>6, Zenon DEF AssignSrcdataPointer, pool
<1>7. ASSUME NEW m \in Msg, AssignReleaseSpill(m) PROVE Tiles(free_list', in_use')
  BY <1>7, Zenon DEF AssignReleaseSpill, pool
<1>8. ASSUME NEW e \in Endpoint, SendHead(e) PROVE Tiles(free_list', in_use')
  BY <1>8, Zenon DEF SendHead, pool
<1>9. QED
  BY <1>1, <1>2, <1>3, <1>4, <1>5, <1>6, <1>7, <1>8, Zenon DEF Next, MessageStep
-----------------------------------------------------------------------------
(* The life of a message.                                                  *)

\* What the caller's payload mode decides.
LEMMA Modes ==
  ASSUME NEW m \in Msg
  PROVE  /\ Spills(m) <=> Mode[m] \in {"COPY", "FREE"}
         /\ Spills(m) => UsesPool(m)
         /\ ~UsesPool(m) => Mode[m] = "KEEP"
         /\ Mode[m] \in {"KEEP", "COPY", "FREE"}
         /\ ~UsesPool(m) <=> PayloadMode(m) = "KEEPREG"
BY PoolAssumption DEF Spills, UsesPool, PayloadMode

\* How far a message is: who has its payload.
ByCaller == {"new", "suspended", "reserved"}
Waiting  == {"pending", "satisfied"}
Placed   == {"assigned", "ready", "sent_early", "released_early", "sent", "done"}

\* PayloadLife of m if it is at stage st, its payload pl, its source src and the
\* buffers it owns own.
PayloadAs(m, st, pl, src, own) ==
  /\ st \in ByCaller => /\ pl = Null /\ src = "caller"
                        /\ own = IF Mode[m] = "FREE" THEN 1 ELSE 0
  /\ st \in Waiting => /\ pl = Null
                       /\ src = IF Mode[m] = "COPY" THEN "copy" ELSE "caller"
                       /\ own = IF Mode[m] = "KEEP" THEN 0 ELSE 1
  /\ st \in Placed => /\ pl = "enqueued"
                      /\ UsesPool(m) => src = Null
                      /\ own = 0

PayloadsAlive == \A m \in Msg : PayloadLife(m)

LEMMA PayloadParts ==
  /\ PayloadsAlive <=> \A m \in Msg : PayloadAs(m, stage[m], payload[m], payload_src[m], owned[m])
  /\ PayloadsAlive' <=>
       \A m \in Msg : PayloadAs(m, stage'[m], payload'[m], payload_src'[m], owned'[m])
BY Zenon DEF PayloadsAlive, PayloadLife, PayloadAs, ByCaller, Waiting, Placed, UsesPool, PayloadMode

\* The first pending message is one.
LEMMA FirstPending ==
  ASSUME TypeOK, QueueOrder, pending_allocations # <<>>
  PROVE  /\ Head(pending_allocations) \in Msg
         /\ stage[Head(pending_allocations)] = "pending"
<1>1. /\ 1 \in DOMAIN pending_allocations
      /\ Head(pending_allocations) = pending_allocations[1]
      /\ pending_allocations[1] \in Msg
  BY DEF TypeOK
<1>2. \A m \in Msg : (\E i \in DOMAIN pending_allocations : pending_allocations[i] = m) =>
        stage[m] = "pending"
  BY Zenon DEF QueueOrder
<1>3. QED
  BY <1>1, <1>2, Zenon

\* A step changes the payload of one message, and maybe the stage of another
\* between two stages at which the same is said of the payload.
LEMMA PayloadStep ==
  ASSUME TypeOK, PayloadsAlive, QueueOrder, Next
  PROVE  PayloadsAlive'
<1> DEFINE P(x) == PayloadAs(x, stage[x], payload[x], payload_src[x], owned[x])
           Q(x) == PayloadAs(x, stage'[x], payload'[x], payload_src'[x], owned'[x])
<1> USE DEF TypeOK
<1>1. \A x \in Msg : P(x)
  BY PayloadParts, Zenon
<1>2. SUFFICES \A x \in Msg : Q(x)
  BY PayloadParts, Zenon
<1>3. ASSUME NEW x \in Msg, stage'[x] = stage[x], payload'[x] = payload[x],
             payload_src'[x] = payload_src[x], owned'[x] = owned[x]
      PROVE  Q(x)
  BY <1>1, <1>3, Zenon
<1>4. ASSUME NEW x \in Msg, payload'[x] = payload[x],
             payload_src'[x] = payload_src[x], owned'[x] = owned[x],
             \/ stage[x] \in ByCaller /\ stage'[x] \in ByCaller
             \/ stage[x] \in Waiting /\ stage'[x] \in Waiting
             \/ stage[x] \in Placed /\ stage'[x] \in Placed
      PROVE  Q(x)
  BY <1>1, <1>4, Zenon DEF PayloadAs, ByCaller, Waiting, Placed
<1>5. ASSUME NEW m \in Msg, AllocSpillMemory(m) PROVE \A x \in Msg : Q(x)
  <2>1. /\ stage[m] \in ByCaller /\ UNCHANGED <<payload, payload_src, owned>>
        /\ stage' = [stage EXCEPT ![m] = "reserved"] \/ stage' = [stage EXCEPT ![m] = "suspended"]
    BY <1>5, Zenon DEF AllocSpillMemory, data, ByCaller
  <2>2. stage'[m] \in ByCaller /\ \A x \in Msg : x # m => stage'[x] = stage[x]
    BY <2>1, Zenon DEF ByCaller
  <2>3. QED
    BY <2>1, <2>2, <1>3, <1>4, Zenon
<1>6. ASSUME NEW m \in Msg, EnqueueInPlace(m) PROVE \A x \in Msg : Q(x)
  <2>1. /\ stage'[m] = "ready" /\ payload'[m] = "enqueued"
        /\ payload_src' = payload_src /\ owned' = owned
        /\ \A x \in Msg : x # m => stage'[x] = stage[x] /\ payload'[x] = payload[x]
    BY <1>6, Zenon DEF EnqueueInPlace
  <2>2. stage[m] = "new" /\ Mode[m] = "KEEP" /\ ~UsesPool(m)
    BY <1>6, Modes, Zenon DEF EnqueueInPlace
  <2>3. Q(m)
    BY <2>1, <2>2, <1>1, Zenon DEF PayloadAs, ByCaller, Waiting, Placed
  <2>4. QED
    BY <2>1, <2>3, <1>3, Zenon
<1>7. ASSUME NEW m \in Msg, EnqueueAllocated(m) PROVE \A x \in Msg : Q(x)
  <2>1. /\ stage'[m] = "ready" /\ payload'[m] = "enqueued" /\ payload_src'[m] = Null
        /\ owned'[m] = IF SourceIsFreed(m) THEN owned[m] - 1 ELSE owned[m]
        /\ \A x \in Msg : x # m => /\ stage'[x] = stage[x] /\ payload'[x] = payload[x]
                                   /\ payload_src'[x] = payload_src[x] /\ owned'[x] = owned[x]
    BY <1>7, Zenon DEF EnqueueAllocated, CopyAndDelete
  <2>2. stage[m] \in ByCaller
    BY <1>7, Zenon DEF EnqueueAllocated, MayEnqueue, ByCaller
  <2>3. payload_src[m] = "caller" /\ owned[m] = IF Mode[m] = "FREE" THEN 1 ELSE 0
    BY <2>2, <1>1, Zenon DEF PayloadAs
  <2>4. owned'[m] = 0
    BY <2>1, <2>3, PoolAssumption DEF SourceIsFreed
  <2>5. Q(m)
    BY <2>1, <2>4, Zenon DEF PayloadAs, ByCaller, Waiting, Placed
  <2>6. QED
    BY <2>1, <2>5, <1>3, Zenon
<1>8. ASSUME NEW m \in Msg, EnqueuePending(m) PROVE \A x \in Msg : Q(x)
  <2>1. stage[m] \in ByCaller
    BY <1>8, Zenon DEF EnqueuePending, JoinPending, MayEnqueue, ByCaller
  <2>2. payload[m] = Null /\ payload_src[m] = "caller" /\ owned[m] = IF Mode[m] = "FREE" THEN 1 ELSE 0
    BY <2>1, <1>1, Zenon DEF PayloadAs
  <2>3. stage' = [stage EXCEPT ![m] = "pending"] /\ payload' = payload
    BY <1>8, Zenon DEF EnqueuePending, JoinPending, data
  <2>4. CASE Mode[m] = "COPY"
    <3>1. /\ payload_src' = [payload_src EXCEPT ![m] = "copy"]
          /\ owned' = [owned EXCEPT ![m] = @ + 1]
      BY <2>4, <1>8, Zenon DEF EnqueuePending
    <3>2. /\ stage'[m] = "pending" /\ payload_src'[m] = "copy" /\ owned'[m] = 1
          /\ \A x \in Msg : x # m => /\ stage'[x] = stage[x] /\ payload_src'[x] = payload_src[x]
                                     /\ owned'[x] = owned[x]
      BY <3>1, <2>2, <2>3, <2>4
    <3>3. Q(m)
      BY <3>2, <2>2, <2>3, <2>4, Zenon DEF PayloadAs, ByCaller, Waiting, Placed
    <3>4. QED
      BY <3>2, <3>3, <2>3, <1>3, Zenon
  <2>5. CASE Mode[m] # "COPY"
    <3>1. payload_src' = payload_src /\ owned' = owned
      BY <2>5, <1>8, Zenon DEF EnqueuePending, data
    <3>2. stage'[m] = "pending" /\ \A x \in Msg : x # m => stage'[x] = stage[x]
      BY <2>3, Zenon
    <3>3. Q(m)
      BY <3>1, <3>2, <2>2, <2>3, <2>5, Modes, Zenon DEF PayloadAs, ByCaller, Waiting, Placed
    <3>4. QED
      BY <3>1, <3>2, <3>3, <2>3, <1>3, Zenon
  <2>6. QED
    BY <2>4, <2>5, Zenon
<1>9. ASSUME NEW m \in Msg, ReleaseSrcptr(m) PROVE \A x \in Msg : Q(x)
  <2>1. /\ stage[m] \in Placed /\ stage[m] # "pending" /\ payload' = payload
        /\ payload_src' = payload_src /\ owned' = owned
    BY <1>9, ReleaseCases, Zenon DEF data, Placed
  <2>2. PICK s \in in_use : Satisfies(m, s) \/ LeavesFree(m, s)
    BY <1>9, ReleaseCases, Zenon
  <2>3. CASE LeavesFree(m, s)
    <3>1. stage'[m] \in Placed /\ \A x \in Msg : x # m => stage'[x] = stage[x]
      BY <2>3, Zenon DEF LeavesFree, Placed
    <3>2. QED
      BY <3>1, <2>1, <1>3, <1>4, Zenon
  <2>4. CASE Satisfies(m, s)
    <3> DEFINE p == Head(pending_allocations)
    <3>1. /\ pending_allocations # <<>>
          /\ stage' = [[stage EXCEPT ![m] = IF @ = "sent" THEN "done" ELSE "released_early"]
                         EXCEPT ![p] = "satisfied"]
      BY <2>4, Zenon DEF Satisfies
    <3>2. p \in Msg /\ stage[p] = "pending"
      BY <3>1, FirstPending, Zenon
    <3> HIDE DEF p
    <3>3. /\ stage'[m] \in Placed /\ stage'[p] = "satisfied"
          /\ \A x \in Msg : x # m /\ x # p => stage'[x] = stage[x]
      BY <3>1, <3>2, <2>1, Zenon DEF Placed
    <3>4. stage[p] \in Waiting /\ stage'[p] \in Waiting
      BY <3>2, <3>3, Zenon DEF Waiting
    <3>5. QED
      BY <3>2, <3>3, <3>4, <2>1, <1>3, <1>4, Zenon
  <2>5. QED
    BY <2>2, <2>3, <2>4, Zenon
<1>10. ASSUME NEW m \in Msg, AssignSrcdataPointer(m) PROVE \A x \in Msg : Q(x)
  <2>1. stage[m] \in Waiting
    BY <1>10, Zenon DEF AssignSrcdataPointer, Waiting
  <2>2. /\ payload_src[m] = IF Mode[m] = "COPY" THEN "copy" ELSE "caller"
        /\ owned[m] = IF Mode[m] = "KEEP" THEN 0 ELSE 1
    BY <2>1, <1>1, Zenon DEF PayloadAs
  <2>3. /\ payload'[m] = IF payload_src[m] = "caller" /\ Mode[m] = "COPY" THEN "reused" ELSE "enqueued"
        /\ payload_src'[m] = Null
        /\ owned'[m] = IF SourceIsFreed(m) THEN owned[m] - 1 ELSE owned[m]
        /\ stage'[m] \in {"assigned", "ready"}
        /\ \A x \in Msg : x # m => /\ stage'[x] = stage[x] /\ payload'[x] = payload[x]
                                   /\ payload_src'[x] = payload_src[x] /\ owned'[x] = owned[x]
    BY <1>10, Zenon DEF AssignSrcdataPointer, CopyAndDelete
  <2>4. owned'[m] = 0 /\ payload'[m] = "enqueued"
    BY <2>2, <2>3, PoolAssumption DEF SourceIsFreed
  <2>5. Q(m)
    BY <2>3, <2>4, Zenon DEF PayloadAs, ByCaller, Waiting, Placed
  <2>6. QED
    BY <2>3, <2>5, <1>3, Zenon
<1>11. ASSUME NEW m \in Msg, AssignReleaseSpill(m) PROVE \A x \in Msg : Q(x)
  <2>1. /\ stage[m] \in Placed /\ stage'[m] \in Placed
        /\ \A x \in Msg : x # m => stage'[x] = stage[x]
        /\ UNCHANGED <<payload, payload_src, owned>>
    BY <1>11, Zenon DEF AssignReleaseSpill, Placed, data
  <2>2. QED
    BY <2>1, <1>3, <1>4, Zenon
<1>12. ASSUME NEW e \in Endpoint, SendHead(e) PROVE \A x \in Msg : Q(x)
  <2> DEFINE m == Head(queue[e])
  <2>1. m \in Msg
    BY <1>12 DEF SendHead
  <2>2. /\ stage[m] \in {"ready", "assigned"} /\ payload' = payload /\ owned' = owned
        /\ payload_src' = [payload_src EXCEPT ![m] = Null]
        /\ stage' = [stage EXCEPT ![m] =
             IF m \in spill THEN "sent_early" ELSE IF UsesPool(m) THEN "sent" ELSE "done"]
    BY <1>12, Zenon DEF SendHead
  <2> HIDE DEF m
  <2>3. /\ stage[m] \in Placed /\ stage'[m] \in Placed /\ payload_src'[m] = Null
        /\ \A x \in Msg : x # m => stage'[x] = stage[x] /\ payload_src'[x] = payload_src[x]
    BY <2>1, <2>2, Zenon DEF Placed
  <2>4. Q(m)
    BY <2>1, <2>2, <2>3, <1>1, Zenon DEF PayloadAs, ByCaller, Waiting, Placed
  <2>5. QED
    BY <2>2, <2>3, <2>4, <1>3, Zenon
<1>13. QED
  BY <1>5, <1>6, <1>7, <1>8, <1>9, <1>10, <1>11, <1>12, Zenon DEF Next, MessageStep

\* MessageLife of m if it is at stage st and held says that it holds spill memory.
LifeAs(m, st, held) ==
  /\ held <=> Spills(m) /\ st \in {"reserved", "pending", "satisfied",
                                   "assigned", "sent_early", "released_early"}
  /\ st \in {"suspended", "reserved", "assigned", "sent_early", "released_early"} => Spills(m)
  /\ st \in {"pending", "satisfied", "sent"} => UsesPool(m)

LEMMA LifeParts ==
  /\ MessageLife <=> \A m \in Msg : LifeAs(m, stage[m], m \in spill)
  /\ MessageLife' <=> \A m \in Msg : LifeAs(m, stage'[m], m \in spill')
BY Zenon DEF MessageLife, LifeAs, Spills, UsesPool, PayloadMode

LEMMA MessageLifeStep ==
  ASSUME TypeOK, MessageLife, PayloadsAlive, QueueOrder, Next
  PROVE  MessageLife'
<1> DEFINE P(x) == LifeAs(x, stage[x], x \in spill)
           Q(x) == LifeAs(x, stage'[x], x \in spill')
<1> USE DEF TypeOK
<1>1. \A x \in Msg : P(x)
  BY LifeParts, Zenon
<1>2. SUFFICES \A x \in Msg : Q(x)
  BY LifeParts, Zenon
<1>3. ASSUME NEW x \in Msg, stage'[x] = stage[x], x \in spill' <=> x \in spill
      PROVE  Q(x)
  BY <1>1, <1>3, Zenon DEF LifeAs
<1>4. ASSUME NEW m \in Msg, AllocSpillMemory(m) PROVE \A x \in Msg : Q(x)
  <2>1. Spills(m) /\ stage[m] \in {"new", "suspended"}
    BY <1>4, Zenon DEF AllocSpillMemory
  <2>2. m \notin spill
    <3>1. P(m)
      BY <1>1, Zenon
    <3>2. CASE stage[m] = "new"
      BY <3>1, <3>2, Zenon DEF LifeAs
    <3>3. CASE stage[m] = "suspended"
      BY <3>1, <3>3, Zenon DEF LifeAs
    <3>4. QED
      BY <2>1, <3>2, <3>3, Zenon
  <2>3. CASE SpillFits(m)
    <3>1. spill' = spill \cup {m} /\ stage' = [stage EXCEPT ![m] = "reserved"]
      BY <2>3, <1>4, Zenon DEF AllocSpillMemory
    <3>2. /\ stage'[m] = "reserved" /\ m \in spill'
          /\ \A x \in Msg : x # m => stage'[x] = stage[x] /\ (x \in spill' <=> x \in spill)
      BY <3>1, Zenon
    <3>3. Q(m)
      BY <3>2, <2>1, Zenon DEF LifeAs
    <3>4. QED
      BY <3>2, <3>3, <1>3, Zenon
  <2>4. CASE ~SpillFits(m)
    <3>1. spill' = spill /\ stage' = [stage EXCEPT ![m] = "suspended"]
      BY <2>4, <1>4, Zenon DEF AllocSpillMemory
    <3>2. stage'[m] = "suspended" /\ \A x \in Msg : x # m => stage'[x] = stage[x]
      BY <3>1, Zenon
    <3>3. Q(m)
      BY <3>1, <3>2, <2>1, <2>2, Zenon DEF LifeAs
    <3>4. QED
      BY <3>1, <3>2, <3>3, <1>3, Zenon
  <2>5. QED
    BY <2>3, <2>4, Zenon
<1>5. ASSUME NEW m \in Msg, EnqueueInPlace(m) PROVE \A x \in Msg : Q(x)
  <2>1. /\ ~UsesPool(m) /\ stage[m] = "new" /\ spill' = spill
        /\ stage' = [stage EXCEPT ![m] = "ready"]
    BY <1>5, Zenon DEF EnqueueInPlace, spilling
  <2>2. stage'[m] = "ready" /\ \A x \in Msg : x # m => stage'[x] = stage[x]
    BY <2>1, Zenon
  <2>3. ~Spills(m)
    BY <2>1, Modes, Zenon
  <2>4. Q(m)
    BY <2>1, <2>2, <2>3, <1>1, Zenon DEF LifeAs
  <2>5. QED
    BY <2>1, <2>2, <2>4, <1>3, Zenon
<1>6. ASSUME NEW m \in Msg, EnqueueAllocated(m) PROVE \A x \in Msg : Q(x)
  <2>1. /\ UsesPool(m) /\ stage[m] = (IF Spills(m) THEN "reserved" ELSE "new")
        /\ stage' = [stage EXCEPT ![m] = "ready"]
        /\ IF Spills(m) THEN spill' = spill \ {m} ELSE spill' = spill
    BY <1>6, Zenon DEF EnqueueAllocated, MayEnqueue, ReleaseSpillMemory, spilling
  <2>2. m \notin spill'
    BY <2>1, <1>1, Zenon DEF LifeAs
  <2>3. /\ stage'[m] = "ready"
        /\ \A x \in Msg : x # m => stage'[x] = stage[x] /\ (x \in spill' <=> x \in spill)
    BY <2>1, Zenon
  <2>4. Q(m)
    BY <2>2, <2>3, Zenon DEF LifeAs
  <2>5. QED
    BY <2>3, <2>4, <1>3, Zenon
<1>7. ASSUME NEW m \in Msg, EnqueuePending(m) PROVE \A x \in Msg : Q(x)
  <2>1. /\ UsesPool(m) /\ stage[m] = (IF Spills(m) THEN "reserved" ELSE "new")
        /\ stage' = [stage EXCEPT ![m] = "pending"]
        /\ spill' = spill
    BY <1>7, Zenon DEF EnqueuePending, JoinPending, MayEnqueue, spilling
  <2>2. stage'[m] = "pending" /\ \A x \in Msg : x # m => stage'[x] = stage[x]
    BY <2>1, Zenon
  <2>3. Q(m)
    BY <2>1, <2>2, <1>1, Zenon DEF LifeAs
  <2>4. QED
    BY <2>1, <2>2, <2>3, <1>3, Zenon
<1>8. ASSUME NEW m \in Msg, ReleaseSrcptr(m) PROVE \A x \in Msg : Q(x)
  <2>1. stage[m] \in {"sent", "sent_early"} /\ spill' = spill
    BY <1>8, ReleaseCases, Zenon DEF spilling
  <2>2. PICK s \in in_use : Satisfies(m, s) \/ LeavesFree(m, s)
    BY <1>8, ReleaseCases, Zenon
  <2>3. ASSUME stage'[m] = IF stage[m] = "sent" THEN "done" ELSE "released_early" PROVE Q(m)
    <3>1. P(m)
      BY <1>1, Zenon
    <3>2. CASE stage[m] = "sent"
      BY <3>1, <3>2, <2>1, <2>3, Zenon DEF LifeAs
    <3>3. CASE stage[m] = "sent_early"
      BY <3>1, <3>3, <2>1, <2>3, Zenon DEF LifeAs
    <3>4. QED
      BY <2>1, <3>2, <3>3, Zenon
  <2>4. CASE LeavesFree(m, s)
    <3>1. /\ stage'[m] = IF stage[m] = "sent" THEN "done" ELSE "released_early"
          /\ \A x \in Msg : x # m => stage'[x] = stage[x]
      BY <2>4, Zenon DEF LeavesFree
    <3>2. QED
      BY <3>1, <2>1, <2>3, <1>3, Zenon
  <2>5. CASE Satisfies(m, s)
    <3> DEFINE p == Head(pending_allocations)
    <3>1. /\ pending_allocations # <<>>
          /\ stage' = [[stage EXCEPT ![m] = IF @ = "sent" THEN "done" ELSE "released_early"]
                         EXCEPT ![p] = "satisfied"]
      BY <2>5, Zenon DEF Satisfies
    <3>2. p \in Msg /\ stage[p] = "pending"
      BY <3>1, FirstPending, Zenon
    <3> HIDE DEF p
    <3>3. /\ stage'[m] = IF stage[m] = "sent" THEN "done" ELSE "released_early"
          /\ stage'[p] = "satisfied"
          /\ \A x \in Msg : x # m /\ x # p => stage'[x] = stage[x]
      BY <3>1, <3>2, <2>1, Zenon
    <3>4. Q(p)
      BY <3>2, <3>3, <2>1, <1>1, Zenon DEF LifeAs
    <3>5. QED
      BY <3>2, <3>3, <3>4, <2>1, <2>3, <1>3, Zenon
  <2>6. QED
    BY <2>2, <2>4, <2>5, Zenon
<1>9. ASSUME NEW m \in Msg, AssignSrcdataPointer(m) PROVE \A x \in Msg : Q(x)
  <2>1. /\ stage[m] = "satisfied" /\ spill' = spill
        /\ stage' = [stage EXCEPT ![m] = IF SourceIsFreed(m) THEN "assigned" ELSE "ready"]
    BY <1>9, Zenon DEF AssignSrcdataPointer, spilling
  <2>2. SourceIsFreed(m) <=> Spills(m)
    <3>1. PayloadAs(m, stage[m], payload[m], payload_src[m], owned[m])
      BY PayloadParts, Zenon
    <3>2. payload_src[m] = IF Mode[m] = "COPY" THEN "copy" ELSE "caller"
      BY <3>1, <2>1, Zenon DEF PayloadAs, Waiting
    <3>3. QED
      BY <3>2, Modes, PoolAssumption, Zenon DEF SourceIsFreed
  <2>3. /\ stage'[m] = IF Spills(m) THEN "assigned" ELSE "ready"
        /\ \A x \in Msg : x # m => stage'[x] = stage[x]
    BY <2>1, <2>2, Zenon
  <2>4. Q(m)
    BY <2>1, <2>3, <1>1, Zenon DEF LifeAs
  <2>5. QED
    BY <2>1, <2>3, <2>4, <1>3, Zenon
<1>10. ASSUME NEW m \in Msg, AssignReleaseSpill(m) PROVE \A x \in Msg : Q(x)
  <2>1. /\ stage[m] \in {"assigned", "sent_early", "released_early"}
        /\ spill' = spill \ {m}
        /\ stage'[m] \in {"ready", "sent", "done"}
        /\ \A x \in Msg : x # m => stage'[x] = stage[x]
    <3>1. /\ stage[m] \in {"assigned", "sent_early", "released_early"}
          /\ stage' = [stage EXCEPT ![m] = CASE @ = "assigned" -> "ready"
                                             [] @ = "sent_early" -> "sent"
                                             [] OTHER -> "done"]
          /\ spill' = spill \ {m}
      BY <1>10, Zenon DEF AssignReleaseSpill, ReleaseSpillMemory
    <3>2. QED
      BY <3>1
  <2>2. Spills(m) /\ UsesPool(m)
    BY <2>1, <1>1, Modes, Zenon DEF LifeAs
  <2>3. Q(m)
    BY <2>1, <2>2, Zenon DEF LifeAs
  <2>4. QED
    BY <2>1, <2>3, <1>3, Zenon
<1>11. ASSUME NEW e \in Endpoint, SendHead(e) PROVE \A x \in Msg : Q(x)
  <2> DEFINE m == Head(queue[e])
  <2>1. m \in Msg
    BY <1>11 DEF SendHead
  <2>2. /\ stage[m] \in {"ready", "assigned"} /\ spill' = spill
        /\ stage' = [stage EXCEPT ![m] =
             IF m \in spill THEN "sent_early" ELSE IF UsesPool(m) THEN "sent" ELSE "done"]
    BY <1>11, Zenon DEF SendHead, spilling
  <2> HIDE DEF m
  <2>3. /\ stage'[m] = IF m \in spill THEN "sent_early" ELSE IF UsesPool(m) THEN "sent" ELSE "done"
        /\ \A x \in Msg : x # m => stage'[x] = stage[x]
    BY <2>1, <2>2, Zenon
  <2>4. Q(m)
    BY <2>1, <2>2, <2>3, <1>1, Zenon DEF LifeAs
  <2>5. QED
    BY <2>2, <2>3, <2>4, <1>3, Zenon
<1>12. QED
  BY <1>4, <1>5, <1>6, <1>7, <1>8, <1>9, <1>10, <1>11, Zenon DEF Next, MessageStep

Holding == {"satisfied", "assigned", "ready", "sent_early", "sent"}

\* HolderLife if the spans of U are in use and the messages at the stages of st.
HolderAs(U, st) ==
  /\ \A s \in U : UsesPool(s.msg) /\ st[s.msg] \in Holding
  /\ \A s, t \in U : s.msg = t.msg => s = t

LEMMA HolderParts ==
  /\ HolderLife <=> HolderAs(in_use, stage)
  /\ HolderLife' <=> HolderAs(in_use', stage')
BY Zenon DEF HolderLife, HolderAs, Holding, UsesPool, PayloadMode

LEMMA HolderLifeStep ==
  ASSUME TypeOK, MessageLife, HolderLife, QueueOrder, Next
  PROVE  HolderLife'
<1> USE DEF TypeOK
<1>1. /\ \A s \in in_use : s.msg \in Msg /\ UsesPool(s.msg) /\ stage[s.msg] \in Holding
      /\ \A s, t \in in_use : s.msg = t.msg => s = t
  <2>1. \A s \in in_use : s.msg \in Msg
    BY Zenon
  <2>2. QED
    BY <2>1, HolderParts, Zenon DEF HolderAs
<1>2. SUFFICES HolderAs(in_use', stage')
  BY HolderParts, Zenon
<1>3. ASSUME in_use' = in_use,
             \A x \in Msg : UsesPool(x) /\ stage[x] \in Holding => stage'[x] \in Holding
      PROVE  HolderAs(in_use', stage')
  BY <1>1, <1>3, Zenon DEF HolderAs
<1>0. ASSUME NEW V, V \subseteq in_use, NEW u, in_use' = V \cup {u},
             UsesPool(u.msg), stage'[u.msg] \in Holding,
             \A t \in V : t.msg # u.msg /\ stage'[t.msg] = stage[t.msg]
      PROVE  HolderAs(in_use', stage')
  <2>1. \A t \in in_use' : t = u \/ (t \in V /\ t \in in_use)
    BY <1>0, Zenon
  <2>2. \A t \in in_use' : UsesPool(t.msg) /\ stage'[t.msg] \in Holding
    BY <2>1, <1>0, <1>1, Zenon
  <2>3. ASSUME NEW t \in in_use', NEW w \in in_use', t.msg = w.msg PROVE t = w
    BY <2>1, <2>3, <1>0, <1>1, Zenon
  <2>4. QED
    BY <2>2, <2>3, Zenon DEF HolderAs
<1>4. ASSUME NEW m \in Msg, AllocSpillMemory(m) PROVE HolderAs(in_use', stage')
  <2>1. /\ stage[m] \notin Holding /\ in_use' = in_use
        /\ stage' = [stage EXCEPT ![m] = "reserved"] \/ stage' = [stage EXCEPT ![m] = "suspended"]
    BY <1>4, Zenon DEF AllocSpillMemory, Holding, pool
  <2>2. \A x \in Msg : x # m => stage'[x] = stage[x]
    BY <2>1, Zenon
  <2>3. QED
    BY <2>1, <2>2, <1>3, Zenon
<1>5. ASSUME NEW m \in Msg, EnqueueInPlace(m) PROVE HolderAs(in_use', stage')
  <2>1. ~UsesPool(m) /\ in_use' = in_use /\ \A x \in Msg : x # m => stage'[x] = stage[x]
    BY <1>5, Zenon DEF EnqueueInPlace, pool
  <2>2. QED
    BY <2>1, <1>3, Zenon
<1>6. ASSUME NEW m \in Msg, EnqueueAllocated(m) PROVE HolderAs(in_use', stage')
  <2> DEFINE n == RoundUp(PayloadSize[m])
             u == [base |-> CutFromEnd(Best(n), n).base, size |-> n, msg |-> m]
  <2>1. u.msg = m /\ in_use' = in_use \cup {u} /\ in_use \subseteq in_use
    BY <1>6, Zenon DEF EnqueueAllocated, Take
  <2> HIDE DEF u
  <2>2. UsesPool(m) /\ stage[m] \notin Holding /\ stage'[m] \in Holding
    BY <1>6, Zenon DEF EnqueueAllocated, MayEnqueue, Holding
  <2>3. \A x \in Msg : x # m => stage'[x] = stage[x]
    BY <1>6, Zenon DEF EnqueueAllocated
  <2>4. \A s \in in_use : s.msg # m
    BY <2>2, <1>1, Zenon
  <2>5. \A t \in in_use : t.msg # u.msg /\ stage'[t.msg] = stage[t.msg]
    BY <2>1, <2>3, <2>4, <1>1, Zenon
  <2>6. QED
    BY <2>1, <2>2, <2>5, <1>0, Zenon
<1>7. ASSUME NEW m \in Msg, EnqueuePending(m) PROVE HolderAs(in_use', stage')
  <2>1. stage[m] \notin Holding /\ in_use' = in_use /\ \A x \in Msg : x # m => stage'[x] = stage[x]
    BY <1>7, Zenon DEF EnqueuePending, JoinPending, MayEnqueue, Holding
  <2>2. QED
    BY <2>1, <1>3, Zenon
<1>8. ASSUME NEW m \in Msg, ReleaseSrcptr(m) PROVE HolderAs(in_use', stage')
  <2>1. PICK s \in in_use : s.msg = m /\ (Satisfies(m, s) \/ LeavesFree(m, s))
    BY <1>8, ReleaseCases, Zenon
  <2>2. \A t \in in_use \ {s} : t.msg # m
    BY <2>1, <1>1, Zenon
  <2>3. CASE LeavesFree(m, s)
    <3>1. in_use' = in_use \ {s} /\ \A x \in Msg : x # m => stage'[x] = stage[x]
      BY <2>3 DEF LeavesFree
    <3>2. QED
      BY <3>1, <2>2, <1>1, Zenon DEF HolderAs
  <2>4. CASE Satisfies(m, s)
    <3> DEFINE p == Head(pending_allocations)
    <3>1. /\ pending_allocations # <<>>
          /\ stage' = [[stage EXCEPT ![m] = IF @ = "sent" THEN "done" ELSE "released_early"]
                         EXCEPT ![p] = "satisfied"]
          /\ in_use' = (in_use \ {s}) \cup
               {[base |-> Merged(s).base, size |-> RoundUp(PayloadSize[p]), msg |-> p]}
      BY <2>4, Zenon DEF Satisfies
    <3>2. p \in Msg /\ stage[p] = "pending"
      BY <3>1, FirstPending, Zenon
    <3>3. UsesPool(p)
      BY <3>2 DEF MessageLife
    <3> DEFINE u == [base |-> Merged(s).base, size |-> RoundUp(PayloadSize[p]), msg |-> p]
               V == in_use \ {s}
    <3>4. u.msg = p /\ in_use' = V \cup {u} /\ V \subseteq in_use
      BY <3>1, Zenon
    <3> HIDE DEF p, u
    <3>5. stage'[p] = "satisfied" /\ \A x \in Msg : x # m /\ x # p => stage'[x] = stage[x]
      BY <3>1, <3>2, Zenon
    <3>6. stage[p] \notin Holding /\ stage'[p] \in Holding
      BY <3>2, <3>5, Zenon DEF Holding
    <3>7. \A t \in in_use : t.msg # p
      BY <3>6, <1>1, Zenon
    <3>8. \A t \in V : t.msg # u.msg /\ stage'[t.msg] = stage[t.msg]
      BY <3>4, <3>5, <3>7, <2>2, <1>1, Zenon
    <3> HIDE DEF V
    <3>9. QED
      BY <3>3, <3>4, <3>6, <3>8, <1>0, Zenon
  <2>5. QED
    BY <2>1, <2>3, <2>4, Zenon
<1>9. ASSUME NEW m \in Msg, AssignSrcdataPointer(m) PROVE HolderAs(in_use', stage')
  <2>1. in_use' = in_use /\ stage'[m] \in Holding /\ \A x \in Msg : x # m => stage'[x] = stage[x]
    BY <1>9, Zenon DEF AssignSrcdataPointer, Holding, pool
  <2>2. QED
    BY <2>1, <1>3, Zenon
<1>10. ASSUME NEW m \in Msg, AssignReleaseSpill(m) PROVE HolderAs(in_use', stage')
  <2>1. /\ in_use' = in_use /\ stage[m] \in {"assigned", "sent_early", "released_early"}
        /\ stage' = [stage EXCEPT ![m] = CASE @ = "assigned" -> "ready"
                                           [] @ = "sent_early" -> "sent"
                                           [] OTHER -> "done"]
    BY <1>10, Zenon DEF AssignReleaseSpill, pool
  <2>2. /\ stage[m] \in Holding => stage'[m] \in Holding
        /\ \A x \in Msg : x # m => stage'[x] = stage[x]
    BY <2>1, Zenon DEF Holding
  <2>3. QED
    BY <2>1, <2>2, <1>3, Zenon
<1>11. ASSUME NEW e \in Endpoint, SendHead(e) PROVE HolderAs(in_use', stage')
  <2> DEFINE m == Head(queue[e])
  <2>1. m \in Msg
    BY <1>11 DEF SendHead
  <2>2. /\ in_use' = in_use
        /\ stage' = [stage EXCEPT ![m] =
             IF m \in spill THEN "sent_early" ELSE IF UsesPool(m) THEN "sent" ELSE "done"]
    BY <1>11, Zenon DEF SendHead, pool
  <2> HIDE DEF m
  <2>3. UsesPool(m) => stage'[m] \in Holding
    BY <2>1, <2>2, Zenon DEF Holding
  <2>4. \A x \in Msg : x # m => stage'[x] = stage[x]
    BY <2>1, <2>2, Zenon
  <2>5. QED
    BY <2>2, <2>3, <2>4, <1>3, Zenon
<1>12. QED
  BY <1>4, <1>5, <1>6, <1>7, <1>8, <1>9, <1>10, <1>11, Zenon DEF Next, MessageStep
-----------------------------------------------------------------------------
(* The queues.                                                             *)

Queued == {"pending", "satisfied", "assigned", "ready"}

\* In the queue P of the pool x, if there, comes before y.
Before(P, x, y) == \A a, b \in DOMAIN P : P[a] = x /\ P[b] = y => a < b

\* What QueueOrder says of a message x and one y behind it in a queue.
PairOk(P, st, x, y) ==
  /\ x # y
  /\ st[x] = "pending" /\ UsesPool(y) => st[y] = "pending"
  /\ Before(P, x, y)

\* What it says of the queue q of the endpoint e, and of the pool's own.
LineOk(P, st, e, q) ==
  /\ \A i \in DOMAIN q : EpOf[q[i]] = e /\ st[q[i]] \in Queued
  /\ \A i, j \in DOMAIN q : i < j => PairOk(P, st, q[i], q[j])

PendingOk(P, st) ==
  /\ \A i, j \in DOMAIN P : P[i] = P[j] => i = j
  /\ \A m \in Msg : st[m] = "pending" <=> \E i \in DOMAIN P : P[i] = m

OrderAs(P, Q, st) == PendingOk(P, st) /\ \A e \in Endpoint : LineOk(P, st, e, Q[e])

LEMMA OrderParts ==
  /\ QueueOrder <=> OrderAs(pending_allocations, queue, stage)
  /\ QueueOrder' <=> OrderAs(pending_allocations', queue', stage')
<1>1. QueueOrder <=> OrderAs(pending_allocations, queue, stage)
  BY Zenon DEF QueueOrder, OrderAs, PendingOk, LineOk, PairOk, Before, Queued
<1>2. QueueOrder' <=> OrderAs(pending_allocations', queue', stage')
  BY Zenon DEF QueueOrder, OrderAs, PendingOk, LineOk, PairOk, Before, Queued, UsesPool, PayloadMode
<1>3. QED
  BY <1>1, <1>2, Zenon

LEMMA AppendFacts ==
  ASSUME NEW S, NEW s \in Seq(S), NEW x \in S
  PROVE  /\ Append(s, x) \in Seq(S)
         /\ Len(s) \in Nat /\ Len(s) + 1 \in DOMAIN Append(s, x)
         /\ Append(s, x)[Len(s) + 1] = x
         /\ DOMAIN s = 1 .. Len(s) /\ DOMAIN Append(s, x) = 1 .. Len(s) + 1
         /\ \A i \in DOMAIN s : i \in DOMAIN Append(s, x) /\ Append(s, x)[i] = s[i]
         /\ \A i \in DOMAIN Append(s, x) : i \in DOMAIN s \/ i = Len(s) + 1
OBVIOUS

LEMMA TailFacts ==
  ASSUME NEW S, NEW s \in Seq(S), s # <<>>
  PROVE  /\ Tail(s) \in Seq(S) /\ Head(s) = s[1] /\ 1 \in DOMAIN s /\ s[1] \in S
         /\ DOMAIN s \subseteq Nat
         /\ \A i \in DOMAIN Tail(s) : /\ i \in Nat /\ i >= 1
                                      /\ i + 1 \in DOMAIN s /\ Tail(s)[i] = s[i + 1]
         /\ \A i \in DOMAIN s : i # 1 => i - 1 \in DOMAIN Tail(s) /\ i >= 1
OBVIOUS

\* A queue stays in order when the pool's queue and the stages change as follows.
LEMMA LineKept ==
  ASSUME NEW P, NEW st, NEW P2, NEW st2, NEW e \in Endpoint, NEW q \in Seq(Msg),
         LineOk(P, st, e, q),
         \A i \in DOMAIN q : st2[q[i]] \in Queued,
         \A i, j \in DOMAIN q : PairOk(P, st, q[i], q[j]) => PairOk(P2, st2, q[i], q[j])
  PROVE  LineOk(P2, st2, e, q)
BY Zenon DEF LineOk

LEMMA LineAppended ==
  ASSUME NEW P, NEW st, NEW q \in Seq(Msg), NEW m \in Msg,
         LineOk(P, st, EpOf[m], q), st[m] \in Queued,
         \A i \in DOMAIN q : PairOk(P, st, q[i], m)
  PROVE  LineOk(P, st, EpOf[m], Append(q, m))
<1> DEFINE r == Append(q, m)
           n == Len(q)
<1>1. /\ n \in Nat /\ r[n + 1] = m /\ DOMAIN q = 1 .. n
      /\ \A i \in DOMAIN q : r[i] = q[i]
      /\ \A i \in DOMAIN r : i \in DOMAIN q \/ i = n + 1
  BY AppendFacts
<1> HIDE DEF r, n
<1>2. \A i \in DOMAIN r : EpOf[r[i]] = EpOf[m] /\ st[r[i]] \in Queued
  BY <1>1, Zenon DEF LineOk
<1>3. ASSUME NEW i \in DOMAIN r, NEW j \in DOMAIN r, i < j PROVE PairOk(P, st, r[i], r[j])
  <2>1. i \in DOMAIN q
    BY <1>1, <1>3
  <2>2. CASE j \in DOMAIN q
    BY <2>1, <2>2, <1>1, <1>3, Zenon DEF LineOk
  <2>3. CASE j = n + 1
    BY <2>1, <2>3, <1>1, Zenon
  <2>4. QED
    BY <2>2, <2>3, <1>1, Zenon
<1>4. QED
  BY <1>2, <1>3, Zenon DEF LineOk, r

LEMMA LineTail ==
  ASSUME NEW P, NEW st, NEW e \in Endpoint, NEW q \in Seq(Msg), q # <<>>, LineOk(P, st, e, q)
  PROVE  /\ LineOk(P, st, e, Tail(q))
         /\ \A i \in DOMAIN Tail(q) : Tail(q)[i] # Head(q)
<1> DEFINE r == Tail(q)
<1>1. /\ Head(q) = q[1] /\ 1 \in DOMAIN q
      /\ \A i \in DOMAIN r : i \in Nat /\ i >= 1 /\ i + 1 \in DOMAIN q /\ r[i] = q[i + 1]
  BY TailFacts, Zenon
<1> HIDE DEF r
<1>2. \A i \in DOMAIN r : EpOf[r[i]] = e /\ st[r[i]] \in Queued
  BY <1>1, Zenon DEF LineOk
<1>3. ASSUME NEW i \in DOMAIN r, NEW j \in DOMAIN r, i < j PROVE PairOk(P, st, r[i], r[j])
  <2>1. i + 1 < j + 1
    BY <1>1, <1>3
  <2>2. QED
    BY <2>1, <1>1, Zenon DEF LineOk
<1>4. ASSUME NEW i \in DOMAIN r PROVE r[i] # Head(q)
  <2>1. 1 < i + 1
    BY <1>1
  <2>2. PairOk(P, st, q[1], q[i + 1])
    BY <2>1, <1>1, Zenon DEF LineOk
  <2>3. QED
    BY <2>2, <1>1, Zenon DEF PairOk
<1>5. QED
  BY <1>2, <1>3, <1>4, Zenon DEF LineOk, r

\* A step that leaves the queues alone and lets nobody start or stop pending.
LEMMA OrderSameQueues ==
  ASSUME NEW P, NEW Q \in [Endpoint -> Seq(Msg)], NEW st, NEW st2, OrderAs(P, Q, st),
         \A x \in Msg : /\ st2[x] = "pending" <=> st[x] = "pending"
                        /\ st[x] \in Queued => st2[x] \in Queued
  PROVE  OrderAs(P, Q, st2)
<1>1. PendingOk(P, st2)
  BY Zenon DEF OrderAs, PendingOk
<1>2. ASSUME NEW e \in Endpoint PROVE LineOk(P, st2, e, Q[e])
  <2> DEFINE q == Q[e]
  <2>1. q \in Seq(Msg) /\ LineOk(P, st, e, q) /\ \A i \in DOMAIN q : q[i] \in Msg
    BY DEF OrderAs
  <2> HIDE DEF q
  <2>2. \A i \in DOMAIN q : st2[q[i]] \in Queued
    BY <2>1, Zenon DEF LineOk
  <2>3. \A i, j \in DOMAIN q : PairOk(P, st, q[i], q[j]) => PairOk(P, st2, q[i], q[j])
    BY <2>1, Zenon DEF PairOk
  <2>4. LineOk(P, st2, e, q)
    BY <2>1, <2>2, <2>3, LineKept, Zenon
  <2>5. QED
    BY <2>4, Zenon DEF q
<1>3. QED
  BY <1>1, <1>2, Zenon DEF OrderAs

\* A message that needs no span, or gets one while nobody waits, joins a queue.
LEMMA OrderAppendReady ==
  ASSUME NEW P \in Seq(Msg), NEW Q \in [Endpoint -> Seq(Msg)], NEW st \in [Msg -> Stage],
         OrderAs(P, Q, st), NEW m \in Msg, st[m] \notin Queued, P = <<>> \/ ~UsesPool(m)
  PROVE  OrderAs(P, [Q EXCEPT ![EpOf[m]] = Append(@, m)], [st EXCEPT ![m] = "ready"])
<1> DEFINE st2 == [st EXCEPT ![m] = "ready"]
           Q2 == [Q EXCEPT ![EpOf[m]] = Append(@, m)]
           q == Q[EpOf[m]]
<1>1. /\ EpOf[m] \in Endpoint /\ q \in Seq(Msg) /\ \A i \in DOMAIN q : q[i] \in Msg
      /\ Q2[EpOf[m]] = Append(q, m) /\ \A e \in Endpoint : e # EpOf[m] => Q2[e] = Q[e]
  BY PoolAssumption
<1>2. st2[m] = "ready" /\ \A x \in Msg : x # m => st2[x] = st[x]
  OBVIOUS
<1> HIDE DEF st2, Q2, q
<1>3. st[m] # "pending" /\ st2[m] \in Queued
  BY <1>2, Zenon DEF Queued
<1>4. OrderAs(P, Q, st2)
  <2>1. \A x \in Msg : /\ st2[x] = "pending" <=> st[x] = "pending"
                       /\ st[x] \in Queued => st2[x] \in Queued
    BY <1>2, <1>3, Zenon
  <2>2. QED
    BY <2>1, OrderSameQueues, Zenon
<1>5. ASSUME NEW i \in DOMAIN q PROVE PairOk(P, st2, q[i], m)
  <2>1. q[i] # m
    BY <1>1, Zenon DEF OrderAs, LineOk, q
  <2>2. ~(st2[q[i]] = "pending" /\ UsesPool(m))
    <3>1. P = <<>> => st2[q[i]] # "pending"
      <4>1. P = <<>> => DOMAIN P = {}
        OBVIOUS
      <4>2. QED
        BY <4>1, <1>1, <1>4, Zenon DEF OrderAs, PendingOk
    <3>2. QED
      BY <3>1, Zenon
  <2>3. \A b \in DOMAIN P : P[b] # m
    BY <1>3, Zenon DEF OrderAs, PendingOk
  <2>4. QED
    BY <2>1, <2>2, <2>3, Zenon DEF PairOk, Before
<1>6. LineOk(P, st2, EpOf[m], Append(q, m))
  <2>1. LineOk(P, st2, EpOf[m], q)
    BY <1>1, <1>4, Zenon DEF OrderAs, q
  <2>2. QED
    BY <2>1, <1>1, <1>3, <1>5, LineAppended, Zenon
<1>7. OrderAs(P, Q2, st2)
  BY <1>1, <1>4, <1>6, Zenon DEF OrderAs
<1>8. QED
  BY <1>7, Zenon DEF Q2, st2

\* A message that has to wait joins both queues.
LEMMA OrderAppendPending ==
  ASSUME NEW P \in Seq(Msg), NEW Q \in [Endpoint -> Seq(Msg)], NEW st \in [Msg -> Stage],
         OrderAs(P, Q, st), NEW m \in Msg, st[m] \notin Queued
  PROVE  OrderAs(Append(P, m), [Q EXCEPT ![EpOf[m]] = Append(@, m)], [st EXCEPT ![m] = "pending"])
<1> DEFINE st2 == [st EXCEPT ![m] = "pending"]
           Q2 == [Q EXCEPT ![EpOf[m]] = Append(@, m)]
           P2 == Append(P, m)
           n == Len(P)
           q == Q[EpOf[m]]
<1>1. /\ EpOf[m] \in Endpoint /\ q \in Seq(Msg)
      /\ \A e \in Endpoint : Q[e] \in Seq(Msg) /\ \A i \in DOMAIN Q[e] : Q[e][i] \in Msg
      /\ Q2[EpOf[m]] = Append(q, m) /\ \A e \in Endpoint : e # EpOf[m] => Q2[e] = Q[e]
  BY PoolAssumption
<1>2. st2[m] = "pending" /\ \A x \in Msg : x # m => st2[x] = st[x]
  BY Zenon
<1>3. /\ n \in Nat /\ n + 1 \in DOMAIN P2 /\ P2[n + 1] = m /\ DOMAIN P = 1 .. n
      /\ \A i \in DOMAIN P : i \in DOMAIN P2 /\ P2[i] = P[i]
      /\ \A i \in DOMAIN P2 : i \in DOMAIN P \/ i = n + 1
  BY AppendFacts
<1> HIDE DEF st2, Q2, P2, n, q
<1>4. st[m] # "pending" /\ st2[m] \in Queued
  BY <1>2, Zenon DEF Queued
<1>5. \A b \in DOMAIN P : P[b] # m
  BY <1>4, Zenon DEF OrderAs, PendingOk
<1>6. PendingOk(P2, st2)
  <2>1. ASSUME NEW i \in DOMAIN P2, NEW j \in DOMAIN P2, P2[i] = P2[j] PROVE i = j
    BY <2>1, <1>3, <1>5, Zenon DEF OrderAs, PendingOk
  <2>2. ASSUME NEW x \in Msg PROVE st2[x] = "pending" <=> \E i \in DOMAIN P2 : P2[i] = x
    <3>1. CASE x = m
      BY <3>1, <1>2, <1>3, Zenon
    <3>2. CASE x # m
      <4>1. st[x] = "pending" <=> \E i \in DOMAIN P : P[i] = x
        BY Zenon DEF OrderAs, PendingOk
      <4>2. (\E i \in DOMAIN P : P[i] = x) <=> \E i \in DOMAIN P2 : P2[i] = x
        BY <3>2, <1>3, Zenon
      <4>3. QED
        BY <3>2, <4>1, <4>2, <1>2, Zenon
    <3>3. QED
      BY <3>1, <3>2, Zenon
  <2>3. QED
    BY <2>1, <2>2, Zenon DEF PendingOk
<1>7. ASSUME NEW e \in Endpoint PROVE LineOk(P2, st2, e, Q[e]) /\ \A i \in DOMAIN Q[e] : Q[e][i] # m
  <2> DEFINE r == Q[e]
  <2>1. r \in Seq(Msg) /\ LineOk(P, st, e, r) /\ \A i \in DOMAIN r : r[i] \in Msg
    BY <1>1, Zenon DEF OrderAs
  <2> HIDE DEF r
  <2>2. \A i \in DOMAIN r : r[i] # m /\ st2[r[i]] = st[r[i]] /\ st[r[i]] \in Queued
    BY <2>1, <1>2, Zenon DEF LineOk
  <2>3. ASSUME NEW i \in DOMAIN r, NEW j \in DOMAIN r, PairOk(P, st, r[i], r[j])
        PROVE  PairOk(P2, st2, r[i], r[j])
    <3>1. Before(P2, r[i], r[j])
      BY <2>2, <2>3, <1>3, Zenon DEF PairOk, Before
    <3>2. QED
      BY <3>1, <2>2, <2>3, Zenon DEF PairOk
  <2>4. LineOk(P2, st2, e, r)
    BY <2>1, <2>2, <2>3, LineKept, Zenon
  <2>5. QED
    BY <2>2, <2>4, Zenon DEF r
<1>8. ASSUME NEW i \in DOMAIN q PROVE PairOk(P2, st2, q[i], m)
  <2>1. q[i] # m
    BY <1>1, <1>7, Zenon DEF q
  <2>2. ASSUME NEW a \in DOMAIN P2, NEW b \in DOMAIN P2, P2[a] = q[i], P2[b] = m PROVE a < b
    <3>1. a \in DOMAIN P /\ b = n + 1
      BY <2>1, <2>2, <1>3, <1>5, Zenon
    <3>2. QED
      BY <3>1, <1>3
  <2>3. QED
    BY <2>1, <2>2, <1>2, Zenon DEF PairOk, Before
<1>9. LineOk(P2, st2, EpOf[m], Append(q, m))
  <2>1. LineOk(P2, st2, EpOf[m], q)
    BY <1>1, <1>7, Zenon DEF q
  <2>2. QED
    BY <2>1, <1>1, <1>4, <1>8, LineAppended, Zenon
<1>10. OrderAs(P2, Q2, st2)
  <2>1. ASSUME NEW e \in Endpoint PROVE LineOk(P2, st2, e, Q2[e])
    <3>1. CASE e = EpOf[m]
      BY <3>1, <1>1, <1>9, Zenon
    <3>2. CASE e # EpOf[m]
      BY <3>2, <1>1, <1>7, Zenon
    <3>3. QED
      BY <3>1, <3>2, Zenon
  <2>2. QED
    BY <2>1, <1>6, Zenon DEF OrderAs
<1>11. QED
  BY <1>10, Zenon DEF P2, Q2, st2

\* The head of a queue, which is not pending, leaves it.
LEMMA OrderSend ==
  ASSUME NEW P, NEW Q \in [Endpoint -> Seq(Msg)], NEW st \in [Msg -> Stage], OrderAs(P, Q, st),
         NEW e \in Endpoint, Q[e] # <<>>, st[Head(Q[e])] # "pending", NEW new, new # "pending"
  PROVE  OrderAs(P, [Q EXCEPT ![e] = Tail(@)], [st EXCEPT ![Head(Q[e])] = new])
<1> DEFINE m == Head(Q[e])
           st2 == [st EXCEPT ![m] = new]
           Q2 == [Q EXCEPT ![e] = Tail(@)]
<1>1. /\ m \in Msg /\ m = Q[e][1] /\ 1 \in DOMAIN Q[e]
      /\ Q2[e] = Tail(Q[e]) /\ \A d \in Endpoint : d # e => Q2[d] = Q[d]
      /\ \A d \in Endpoint : Q2[d] \in Seq(Msg) /\ \A i \in DOMAIN Q2[d] : Q2[d][i] \in Msg
      /\ \A d \in Endpoint : Q[d] \in Seq(Msg)
  OBVIOUS
<1>2. st2[m] # "pending" /\ \A x \in Msg : x # m => st2[x] = st[x]
  BY <1>1, Zenon
<1>3. st[m] # "pending"
  BY Zenon
<1> HIDE DEF m, st2, Q2
<1>4. PendingOk(P, st2)
  <2>1. \A x \in Msg : st2[x] = "pending" <=> st[x] = "pending"
    BY <1>2, <1>3, Zenon
  <2>2. QED
    BY <2>1, Zenon DEF OrderAs, PendingOk
<1>5. ASSUME NEW d \in Endpoint PROVE LineOk(P, st2, d, Q2[d])
  <2> DEFINE q == Q2[d]
  <2>1. q \in Seq(Msg) /\ \A i \in DOMAIN q : q[i] \in Msg
    BY <1>1, Zenon
  <2>2. LineOk(P, st, d, q) /\ \A i \in DOMAIN q : q[i] # m
    <3>1. CASE d = e
      <4>1. LineOk(P, st, e, Q[e]) /\ Q[e] \in Seq(Msg)
        BY <1>1, Zenon DEF OrderAs
      <4>2. QED
        BY <3>1, <4>1, <1>1, LineTail, Zenon DEF m
    <3>2. CASE d # e
      <4>1. EpOf[m] = e
        BY <1>1, Zenon DEF OrderAs, LineOk
      <4>2. q = Q[d] /\ LineOk(P, st, d, q)
        BY <3>2, <1>1, Zenon DEF OrderAs
      <4> HIDE DEF q
      <4>3. QED
        BY <3>2, <4>1, <4>2, Zenon DEF LineOk
    <3>3. QED
      BY <3>1, <3>2, Zenon
  <2> HIDE DEF q
  <2>3. \A i \in DOMAIN q : st2[q[i]] = st[q[i]]
    BY <2>1, <2>2, <1>2, Zenon
  <2>4. \A i \in DOMAIN q : st2[q[i]] \in Queued
    BY <2>2, <2>3, Zenon DEF LineOk
  <2>5. \A i, j \in DOMAIN q : PairOk(P, st, q[i], q[j]) => PairOk(P, st2, q[i], q[j])
    BY <2>3, Zenon DEF PairOk
  <2>6. LineOk(P, st2, d, q)
    BY <2>1, <2>2, <2>4, <2>5, LineKept, Zenon
  <2>7. QED
    BY <2>6, Zenon DEF q
<1>6. OrderAs(P, Q2, st2)
  BY <1>4, <1>5, Zenon DEF OrderAs
<1>7. QED
  BY <1>6, Zenon DEF Q2, st2, m

\* The first pending message gets a span: nobody pending is before it.
LEMMA OrderSatisfy ==
  ASSUME NEW P \in Seq(Msg), P # <<>>, NEW Q \in [Endpoint -> Seq(Msg)],
         NEW st \in [Msg -> Stage], OrderAs(P, Q, st), NEW st2,
         st2[Head(P)] = "satisfied", \A x \in Msg : x # Head(P) => st2[x] = st[x]
  PROVE  OrderAs(Tail(P), Q, st2)
<1> DEFINE p == Head(P)
           T == Tail(P)
<1>1. /\ p = P[1] /\ 1 \in DOMAIN P /\ p \in Msg /\ DOMAIN P \subseteq Nat
      /\ \A i \in DOMAIN T : i \in Nat /\ i >= 1 /\ i + 1 \in DOMAIN P /\ T[i] = P[i + 1]
      /\ \A i \in DOMAIN P : i # 1 => i - 1 \in DOMAIN T /\ i >= 1
  BY TailFacts
<1>2. st2[p] = "satisfied" /\ \A x \in Msg : x # p => st2[x] = st[x]
  BY Zenon
<1> HIDE DEF p, T
<1>3. /\ \A i, j \in DOMAIN P : P[i] = P[j] => i = j
      /\ \A m \in Msg : st[m] = "pending" <=> \E i \in DOMAIN P : P[i] = m
  BY Zenon DEF OrderAs, PendingOk
<1>4. PendingOk(T, st2)
  <2>1. ASSUME NEW i \in DOMAIN T, NEW j \in DOMAIN T, T[i] = T[j] PROVE i = j
    <3>1. /\ i \in Nat /\ i + 1 \in DOMAIN P /\ T[i] = P[i + 1]
          /\ j \in Nat /\ j + 1 \in DOMAIN P /\ T[j] = P[j + 1]
      BY <1>1, Zenon
    <3>2. P[i + 1] = P[j + 1] => i + 1 = j + 1
      BY <3>1, <1>3, Zenon
    <3>3. QED
      BY <3>1, <3>2, <2>1
  <2>2. ASSUME NEW x \in Msg PROVE st2[x] = "pending" <=> \E i \in DOMAIN T : T[i] = x
    <3>1. CASE x = p
      <4>1. ASSUME NEW i \in DOMAIN T PROVE T[i] # p
        <5>1. i \in Nat /\ i >= 1 /\ i + 1 \in DOMAIN P /\ T[i] = P[i + 1]
          BY <1>1, Zenon
        <5>2. i + 1 # 1
          BY <5>1
        <5>3. P[i + 1] # P[1]
          BY <5>1, <5>2, <1>1, <1>3, Zenon
        <5>4. QED
          BY <5>1, <5>3, <1>1, Zenon
      <4>2. st2[x] # "pending"
        BY <3>1, <1>2, Zenon
      <4>3. QED
        BY <3>1, <4>1, <4>2, Zenon
    <3>2. CASE x # p
      <4>1. (\E i \in DOMAIN P : P[i] = x) => \E i \in DOMAIN T : T[i] = x
        <5> SUFFICES ASSUME NEW i \in DOMAIN P, P[i] = x PROVE \E k \in DOMAIN T : T[k] = x
          BY Zenon
        <5>1. i # 1 /\ i \in Nat
          BY <3>2, <1>1, Zenon
        <5>2. i - 1 \in DOMAIN T /\ (i - 1) + 1 = i
          BY <5>1, <1>1
        <5>3. T[i - 1] = x
          BY <5>2, <1>1, Zenon
        <5>4. QED
          BY <5>2, <5>3, Zenon
      <4>2. (\E i \in DOMAIN T : T[i] = x) => \E i \in DOMAIN P : P[i] = x
        BY <1>1, Zenon
      <4>3. QED
        BY <3>2, <4>1, <4>2, <1>2, <1>3, Zenon
    <3>3. QED
      BY <3>1, <3>2, Zenon
  <2>3. QED
    BY <2>1, <2>2, Zenon DEF PendingOk
<1>5. ASSUME NEW e \in Endpoint PROVE LineOk(T, st2, e, Q[e])
  <2> DEFINE q == Q[e]
  <2>1. q \in Seq(Msg) /\ \A i \in DOMAIN q : q[i] \in Msg
    OBVIOUS
  <2>2. LineOk(P, st, e, q)
    BY Zenon DEF OrderAs
  <2> HIDE DEF q
  <2>3. \A i \in DOMAIN q : st2[q[i]] \in Queued
    <3>1. st2[p] \in Queued
      BY <1>2, Zenon DEF Queued
    <3>2. QED
      BY <3>1, <2>1, <2>2, <1>2, Zenon DEF LineOk
  <2>4. ASSUME NEW i \in DOMAIN q, NEW j \in DOMAIN q, PairOk(P, st, q[i], q[j])
        PROVE  PairOk(T, st2, q[i], q[j])
    <3> DEFINE x == q[i]
               y == q[j]
    <3>1. x \in Msg /\ y \in Msg /\ x # y /\ Before(P, x, y)
          /\ (st[x] = "pending" /\ UsesPool(y) => st[y] = "pending")
      BY <2>1, <2>4, Zenon DEF PairOk
    <3> HIDE DEF x, y
    <3>2. Before(T, x, y)
      <4> SUFFICES ASSUME NEW a \in DOMAIN T, NEW b \in DOMAIN T, T[a] = x, T[b] = y PROVE a < b
        BY Zenon DEF Before
      <4>1. a + 1 < b + 1
        BY <3>1, <1>1, Zenon DEF Before
      <4>2. QED
        BY <4>1, <1>1
    <3>3. ASSUME st2[x] = "pending", UsesPool(y) PROVE st2[y] = "pending"
      <4>1. x # p /\ st[x] = "pending"
        <5>1. st2[p] # "pending"
          BY <1>2, Zenon
        <5>2. QED
          BY <5>1, <3>1, <3>3, <1>2, Zenon
      <4>2. PICK a \in DOMAIN P : P[a] = x
        BY <4>1, <3>1, <1>3, Zenon
      <4>3. y # p
        <5> SUFFICES ASSUME y = p PROVE FALSE
          BY Zenon
        <5>1. a < 1
          BY <4>2, <3>1, <1>1, Zenon DEF Before
        <5>2. a - 1 \in DOMAIN T /\ a >= 1 /\ a \in Nat
          BY <5>1, <4>2, <1>1
        <5>3. QED
          BY <5>1, <5>2
      <4>4. QED
        BY <4>1, <4>3, <3>1, <3>3, <1>2, Zenon
    <3>4. QED
      BY <3>1, <3>2, <3>3, Zenon DEF PairOk, x, y
  <2>5. LineOk(T, st2, e, q)
    BY <2>1, <2>2, <2>3, <2>4, LineKept, Zenon
  <2>6. QED
    BY <2>5, Zenon DEF q
<1>6. QED
  BY <1>4, <1>5, Zenon DEF OrderAs, T

LEMMA QueueStep ==
  ASSUME TypeOK, QueueOrder, Next
  PROVE  QueueOrder'
<1> DEFINE P == pending_allocations
           Goal == OrderAs(pending_allocations', queue', stage')
<1>1. /\ OrderAs(P, queue, stage) /\ P \in Seq(Msg)
      /\ queue \in [Endpoint -> Seq(Msg)] /\ stage \in [Msg -> Stage]
  BY OrderParts, Zenon DEF TypeOK
<1>2. SUFFICES Goal
  BY OrderParts, Zenon
<1>3. ASSUME UNCHANGED <<pending_allocations, queue>>, NEW m \in Msg,
             \A x \in Msg : x # m => stage'[x] = stage[x],
             stage[m] # "pending" /\ stage'[m] # "pending",
             stage[m] \in Queued => stage'[m] \in Queued
      PROVE  Goal
  <2>1. \A x \in Msg : /\ stage'[x] = "pending" <=> stage[x] = "pending"
                       /\ stage[x] \in Queued => stage'[x] \in Queued
    BY <1>3, Zenon
  <2>2. OrderAs(P, queue, stage')
    BY <2>1, <1>1, OrderSameQueues, Zenon
  <2>3. QED
    BY <2>2, <1>3, Zenon
<1>4. ASSUME NEW m \in Msg, AllocSpillMemory(m) PROVE Goal
  <2>1. /\ stage[m] \in {"new", "suspended"} /\ UNCHANGED <<pending_allocations, queue>>
        /\ stage' = [stage EXCEPT ![m] = "reserved"] \/ stage' = [stage EXCEPT ![m] = "suspended"]
    BY <1>4, Zenon DEF AllocSpillMemory, pool
  <2>2. stage[m] # "pending" /\ stage[m] \notin Queued
    BY <2>1, Zenon DEF Queued
  <2>3. stage'[m] # "pending" /\ \A x \in Msg : x # m => stage'[x] = stage[x]
    BY <2>1, <1>1, Zenon
  <2>4. QED
    BY <2>1, <2>2, <2>3, <1>3, Zenon
<1>5. ASSUME NEW m \in Msg, EnqueueInPlace(m) PROVE Goal
  <2>1. /\ stage[m] = "new" /\ ~UsesPool(m) /\ UNCHANGED pending_allocations
        /\ queue' = [queue EXCEPT ![EpOf[m]] = Append(@, m)]
        /\ stage' = [stage EXCEPT ![m] = "ready"]
    BY <1>5, Zenon DEF EnqueueInPlace, pool
  <2>2. stage[m] \notin Queued
    BY <2>1, Zenon DEF Queued
  <2>3. QED
    BY <2>1, <2>2, <1>1, OrderAppendReady, Zenon
<1>6. ASSUME NEW m \in Msg, EnqueueAllocated(m) PROVE Goal
  <2>1. /\ MayEnqueue(m) /\ P = <<>> /\ UNCHANGED pending_allocations
        /\ queue' = [queue EXCEPT ![EpOf[m]] = Append(@, m)]
        /\ stage' = [stage EXCEPT ![m] = "ready"]
    BY <1>6, Zenon DEF EnqueueAllocated, Allocates
  <2>2. stage[m] \notin Queued
    BY <2>1, Zenon DEF MayEnqueue, Queued
  <2>3. QED
    BY <2>1, <2>2, <1>1, OrderAppendReady, Zenon
<1>7. ASSUME NEW m \in Msg, EnqueuePending(m) PROVE Goal
  <2>1. /\ MayEnqueue(m) /\ pending_allocations' = Append(P, m)
        /\ queue' = [queue EXCEPT ![EpOf[m]] = Append(@, m)]
        /\ stage' = [stage EXCEPT ![m] = "pending"]
    BY <1>7, Zenon DEF EnqueuePending, JoinPending
  <2>2. stage[m] \notin Queued
    BY <2>1, Zenon DEF MayEnqueue, Queued
  <2>3. QED
    BY <2>1, <2>2, <1>1, OrderAppendPending, Zenon
<1>8. ASSUME NEW m \in Msg, ReleaseSrcptr(m) PROVE Goal
  <2>1. stage[m] \in {"sent", "sent_early"} /\ UNCHANGED queue
    BY <1>8, ReleaseCases, Zenon
  <2>2. stage[m] # "pending" /\ stage[m] \notin Queued
    BY <2>1, Zenon DEF Queued
  <2>3. PICK s \in in_use : Satisfies(m, s) \/ LeavesFree(m, s)
    BY <1>8, ReleaseCases, Zenon
  <2> DEFINE after == [stage EXCEPT ![m] = IF @ = "sent" THEN "done" ELSE "released_early"]
  <2>4. /\ after \in [Msg -> Stage] /\ after[m] # "pending"
        /\ \A x \in Msg : x # m => after[x] = stage[x]
    BY <1>1, Zenon DEF Stage
  <2>5. CASE LeavesFree(m, s)
    BY <2>1, <2>2, <2>4, <2>5, <1>3, Zenon DEF LeavesFree
  <2>6. CASE Satisfies(m, s)
    <3>1. /\ P # <<>> /\ pending_allocations' = Tail(P)
          /\ stage' = [after EXCEPT ![Head(P)] = "satisfied"]
      BY <2>6, Zenon DEF Satisfies
    <3> HIDE DEF after
    <3>2. OrderAs(P, queue, after)
      <4>1. \A x \in Msg : /\ after[x] = "pending" <=> stage[x] = "pending"
                           /\ stage[x] \in Queued => after[x] \in Queued
        BY <2>2, <2>4, Zenon
      <4>2. QED
        BY <4>1, <1>1, OrderSameQueues, Zenon
    <3>3. Head(P) \in Msg
      BY <3>1, <1>1
    <3>4. stage'[Head(P)] = "satisfied" /\ \A x \in Msg : x # Head(P) => stage'[x] = after[x]
      BY <3>1, <3>3, <2>4, Zenon
    <3>5. OrderAs(Tail(P), queue, stage')
      BY <3>1, <3>2, <3>4, <2>4, <1>1, OrderSatisfy, Zenon
    <3>6. QED
      BY <3>1, <3>5, <2>1, Zenon
  <2>7. QED
    BY <2>3, <2>5, <2>6, Zenon
<1>9. ASSUME NEW m \in Msg, AssignSrcdataPointer(m) PROVE Goal
  <2>1. /\ stage[m] = "satisfied" /\ UNCHANGED <<pending_allocations, queue>>
        /\ stage' = [stage EXCEPT ![m] = IF SourceIsFreed(m) THEN "assigned" ELSE "ready"]
    BY <1>9, Zenon DEF AssignSrcdataPointer, pool
  <2>2. /\ stage'[m] \in Queued /\ stage'[m] # "pending" /\ stage[m] # "pending"
        /\ \A x \in Msg : x # m => stage'[x] = stage[x]
    BY <2>1, <1>1, Zenon DEF Queued
  <2>3. QED
    BY <2>1, <2>2, <1>3, Zenon
<1>10. ASSUME NEW m \in Msg, AssignReleaseSpill(m) PROVE Goal
  <2>1. /\ stage[m] \in {"assigned", "sent_early", "released_early"}
        /\ UNCHANGED <<pending_allocations, queue>>
        /\ stage' = [stage EXCEPT ![m] = CASE @ = "assigned" -> "ready"
                                           [] @ = "sent_early" -> "sent"
                                           [] OTHER -> "done"]
    BY <1>10, Zenon DEF AssignReleaseSpill, pool
  <2>2. /\ stage[m] # "pending" /\ stage'[m] # "pending"
        /\ stage[m] \in Queued => stage'[m] \in Queued
        /\ \A x \in Msg : x # m => stage'[x] = stage[x]
    BY <2>1, <1>1, Zenon DEF Queued
  <2>3. QED
    BY <2>1, <2>2, <1>3, Zenon
<1>11. ASSUME NEW e \in Endpoint, SendHead(e) PROVE Goal
  <2> DEFINE m == Head(queue[e])
             new == IF m \in spill THEN "sent_early" ELSE IF UsesPool(m) THEN "sent" ELSE "done"
  <2>1. /\ queue[e] # <<>> /\ stage[m] \in {"ready", "assigned"}
        /\ stage' = [stage EXCEPT ![m] = new]
        /\ queue' = [queue EXCEPT ![e] = Tail(@)] /\ UNCHANGED pending_allocations
    BY <1>11, Zenon DEF SendHead, pool
  <2>2. stage[m] # "pending" /\ new # "pending"
    BY <2>1, Zenon
  <2> HIDE DEF new
  <2>3. QED
    BY <2>1, <2>2, <1>1, OrderSend, Zenon
<1>12. QED
  BY <1>4, <1>5, <1>6, <1>7, <1>8, <1>9, <1>10, <1>11, Zenon DEF Next, MessageStep
-----------------------------------------------------------------------------
(* The spill counter: one cell for each byte of each message.              *)

Cells(S) == {x \in S \X (1 .. TotalSize) : x[2] <= PayloadSize[x[1]]}

LEMMA CellsAdded ==
  ASSUME NEW S \in SUBSET Msg, NEW m \in Msg, m \notin S, IsFiniteSet(Cells(S))
  PROVE  /\ IsFiniteSet(Cells(S \cup {m}))
         /\ Cardinality(Cells(S \cup {m})) = Cardinality(Cells(S)) + PayloadSize[m]
<1> DEFINE k == PayloadSize[m]
           C == {m} \X (1 .. k)
<1>1. k \in Nat /\ k >= 1 /\ k <= TotalSize /\ TotalSize \in Nat
  BY PoolAssumption
<1> HIDE DEF k
<1>2. Cells(S \cup {m}) = Cells(S) \cup C
  <2>1. ASSUME NEW x \in Cells(S \cup {m}) PROVE x \in Cells(S) \cup C
    BY <1>1 DEF Cells, k
  <2>2. ASSUME NEW x \in Cells(S) \cup C PROVE x \in Cells(S \cup {m})
    BY <1>1 DEF Cells, k
  <2>3. QED
    BY <2>1, <2>2, Zenon
<1>3. Cells(S) \cap C = {}
  BY Zenon DEF Cells
<1>4. IsFiniteSet(C) /\ Cardinality(C) = k
  <2>1. IsFiniteSet({m}) /\ Cardinality({m}) = 1
    BY FS_Singleton, Zenon
  <2>2. IsFiniteSet(1 .. k) /\ Cardinality(1 .. k) = k
    BY <1>1, FS_Interval
  <2>3. IsFiniteSet(C) /\ Cardinality(C) = Cardinality({m}) * Cardinality(1 .. k)
    BY <2>1, <2>2, FS_Product, Zenon
  <2>4. Cardinality(C) = 1 * k
    BY <2>1, <2>2, <2>3, Zenon
  <2>5. 1 * k = k
    BY <1>1
  <2>6. QED
    BY <2>3, <2>4, <2>5, Zenon
<1> HIDE DEF C
<1>5. /\ IsFiniteSet(Cells(S) \cup C)
      /\ Cardinality(Cells(S) \cup C) =
           Cardinality(Cells(S)) + Cardinality(C) - Cardinality(Cells(S) \cap C)
  BY <1>4, FS_Union, Zenon
<1>6. Cardinality(Cells(S) \cap C) = 0
  BY <1>3, FS_EmptySet, Zenon
<1>7. Cardinality(Cells(S)) \in Nat
  BY FS_CardinalityType, Zenon
<1>8. Cardinality(Cells(S)) + k - 0 = Cardinality(Cells(S)) + k
  BY <1>1, <1>7
<1>9. QED
  BY <1>2, <1>4, <1>5, <1>6, <1>8, Zenon DEF k

LEMMA CellsRemoved ==
  ASSUME NEW S \in SUBSET Msg, NEW m \in S, IsFiniteSet(Cells(S))
  PROVE  /\ IsFiniteSet(Cells(S \ {m}))
         /\ Cardinality(Cells(S \ {m})) = Cardinality(Cells(S)) - PayloadSize[m]
<1>1. Cells(S \ {m}) \subseteq Cells(S)
  BY Zenon DEF Cells
<1>2. IsFiniteSet(Cells(S \ {m}))
  BY <1>1, FS_Subset, Zenon
<1>3. (S \ {m}) \cup {m} = S /\ (S \ {m}) \in SUBSET Msg /\ m \in Msg /\ m \notin S \ {m}
  BY Zenon
<1>4. Cardinality(Cells(S)) = Cardinality(Cells(S \ {m})) + PayloadSize[m]
  <2> DEFINE T == S \ {m}
  <2>1. IsFiniteSet(Cells(T)) /\ T \in SUBSET Msg /\ m \notin T /\ S = T \cup {m} /\ m \in Msg
    BY <1>2, <1>3, Zenon
  <2> HIDE DEF T
  <2>2. Cardinality(Cells(T \cup {m})) = Cardinality(Cells(T)) + PayloadSize[m]
    BY <2>1, CellsAdded, Zenon
  <2>3. QED
    BY <2>1, <2>2, Zenon DEF T
<1>5. Cardinality(Cells(S \ {m})) \in Nat /\ PayloadSize[m] \in Nat
  BY <1>2, <1>3, FS_CardinalityType, PoolAssumption
<1>6. QED
  BY <1>2, <1>4, <1>5

\* SpillExact, with what it needs: that the bytes can be counted.
SpillCounted(S, current) ==
  /\ IsFiniteSet(Cells(S))
  /\ current = Cardinality(Cells(S))
  /\ MaxSpillBytes # 0 => Cardinality(Cells(S \ Exempt)) <= MaxSpillBytes

LEMMA SpillParts == misread \/ SpillCounted(spill, current_spill_bytes) => SpillExact
BY Zenon DEF SpillCounted, SpillExact, PayloadBytes, Cells

\* alloc_spill_memory adds the bytes it lets pass ...
LEMMA SpillAdded ==
  ASSUME NEW S \in SUBSET Msg, NEW current, SpillCounted(S, current), NEW m \in Msg, m \notin S,
         MaxSpillBytes = 0 \/ m \in Exempt \/ current + PayloadSize[m] \in 0 .. MaxSpillBytes
  PROVE  SpillCounted(S \cup {m}, current + PayloadSize[m])
<1>1. /\ IsFiniteSet(Cells(S \cup {m}))
      /\ Cardinality(Cells(S \cup {m})) = current + PayloadSize[m]
  BY CellsAdded, Zenon DEF SpillCounted
<1>2. ASSUME MaxSpillBytes # 0 PROVE Cardinality(Cells((S \cup {m}) \ Exempt)) <= MaxSpillBytes
  <2>1. CASE m \in Exempt
    <3>1. (S \cup {m}) \ Exempt = S \ Exempt
      BY <2>1, Zenon
    <3>2. QED
      BY <3>1, <1>2, Zenon DEF SpillCounted
  <2>2. CASE m \notin Exempt
    <3>1. Cells((S \cup {m}) \ Exempt) \subseteq Cells(S \cup {m})
      BY Zenon DEF Cells
    <3>2. /\ IsFiniteSet(Cells((S \cup {m}) \ Exempt))
          /\ Cardinality(Cells((S \cup {m}) \ Exempt)) <= Cardinality(Cells(S \cup {m}))
      BY <3>1, <1>1, FS_Subset, Zenon
    <3>3. /\ Cardinality(Cells((S \cup {m}) \ Exempt)) \in Nat
          /\ Cardinality(Cells(S \cup {m})) \in Nat
      BY <3>2, <1>1, FS_CardinalityType, Zenon
    <3>4. current + PayloadSize[m] \in 0 .. MaxSpillBytes /\ MaxSpillBytes \in Nat
      BY <2>2, <1>2, PoolAssumption, Zenon
    <3>5. QED
      BY <3>2, <3>3, <3>4, <1>1
  <2>3. QED
    BY <2>1, <2>2, Zenon
<1>3. QED
  BY <1>1, <1>2, Zenon DEF SpillCounted

\* ... and release_spill_memory takes them off again.
LEMMA SpillRemoved ==
  ASSUME NEW S \in SUBSET Msg, NEW current, SpillCounted(S, current), NEW m \in S
  PROVE  SpillCounted(S \ {m}, current - PayloadSize[m])
<1>1. /\ IsFiniteSet(Cells(S \ {m}))
      /\ Cardinality(Cells(S \ {m})) = current - PayloadSize[m]
  BY CellsRemoved, Zenon DEF SpillCounted
<1>2. ASSUME MaxSpillBytes # 0 PROVE Cardinality(Cells((S \ {m}) \ Exempt)) <= MaxSpillBytes
  <2>1. /\ Cells((S \ {m}) \ Exempt) \subseteq Cells(S \ Exempt)
        /\ Cells(S \ Exempt) \subseteq Cells(S)
    BY Zenon DEF Cells
  <2>2. IsFiniteSet(Cells(S \ Exempt))
    BY <2>1, FS_Subset, Zenon DEF SpillCounted
  <2>3. /\ IsFiniteSet(Cells((S \ {m}) \ Exempt))
        /\ Cardinality(Cells((S \ {m}) \ Exempt)) <= Cardinality(Cells(S \ Exempt))
    BY <2>1, <2>2, FS_Subset, Zenon
  <2>4. /\ Cardinality(Cells((S \ {m}) \ Exempt)) \in Nat
        /\ Cardinality(Cells(S \ Exempt)) \in Nat
    BY <2>2, <2>3, FS_CardinalityType, Zenon
  <2>5. Cardinality(Cells(S \ Exempt)) <= MaxSpillBytes /\ MaxSpillBytes \in Nat
    BY <1>2, PoolAssumption, Zenon DEF SpillCounted
  <2>6. QED
    BY <2>3, <2>4, <2>5
<1>3. QED
  BY <1>1, <1>2, Zenon DEF SpillCounted

\* The count stays exact as long as no step misreads a size.
LEMMA SpillStep ==
  ASSUME TypeOK, MessageLife, misread \/ SpillCounted(spill, current_spill_bytes), Next
  PROVE  misread' \/ SpillCounted(spill', current_spill_bytes')
<1> DEFINE Goal == SpillCounted(spill', current_spill_bytes')
<1> SUFFICES ASSUME ~misread' PROVE Goal
  BY Zenon
<1>0. misread => misread'
  <2>1. ASSUME NEW m \in Msg, MessageStep(m) PROVE misread => misread'
    <3>1. CASE \/ EnqueueInPlace(m) \/ EnqueuePending(m) \/ ReleaseSrcptr(m)
               \/ AssignSrcdataPointer(m)
      <4>1. UNCHANGED spilling
        BY <3>1, Zenon DEF EnqueueInPlace, EnqueuePending, JoinPending, ReleaseSrcptr,
           AssignSrcdataPointer
      <4>2. QED
        BY <4>1, Zenon DEF spilling
    <3>2. CASE AllocSpillMemory(m)
      BY <3>2, Zenon DEF AllocSpillMemory
    <3>3. CASE EnqueueAllocated(m)
      BY <3>3, Zenon DEF EnqueueAllocated, ReleaseSpillMemory, spilling
    <3>4. CASE AssignReleaseSpill(m)
      BY <3>4, Zenon DEF AssignReleaseSpill, ReleaseSpillMemory
    <3>5. QED
      BY <2>1, <3>1, <3>2, <3>3, <3>4, Zenon DEF MessageStep
  <2>2. ASSUME NEW e \in Endpoint, SendHead(e) PROVE misread => misread'
    BY <2>2, Zenon DEF SendHead, spilling
  <2>3. QED
    BY <2>1, <2>2, Zenon DEF Next
<1>1. spill \in SUBSET Msg /\ SpillCounted(spill, current_spill_bytes)
  BY <1>0, Zenon DEF TypeOK
<1>2. ASSUME UNCHANGED <<spill, current_spill_bytes>> PROVE Goal
  BY <1>1, <1>2, Zenon
<1>3. ASSUME NEW m \in spill, spill' = spill \ {m},
             current_spill_bytes' = current_spill_bytes - PayloadSize[m]
      PROVE  Goal
  BY <1>1, <1>3, SpillRemoved, Zenon
<1>4. ASSUME NEW m \in Msg, AllocSpillMemory(m) PROVE Goal
  <2>1. CASE SpillFits(m)
    <3>1. /\ spill' = spill \cup {m}
          /\ current_spill_bytes' = current_spill_bytes + PayloadSize[m]
          /\ stage[m] = "new" \/ stage[m] = "suspended"
      BY <2>1, <1>4, Zenon DEF AllocSpillMemory
    <3>2. m \notin spill
      BY <3>1, Zenon DEF MessageLife
    <3>3. QED
      BY <2>1, <3>1, <3>2, <1>1, SpillAdded, Zenon DEF SpillFits
  <2>2. CASE ~SpillFits(m)
    BY <2>2, <1>2, <1>4, Zenon DEF AllocSpillMemory
  <2>3. QED
    BY <2>1, <2>2, Zenon
<1>5. ASSUME NEW m \in Msg, EnqueueInPlace(m) PROVE Goal
  BY <1>2, <1>5, Zenon DEF EnqueueInPlace, spilling
<1>6. ASSUME NEW m \in Msg, EnqueueAllocated(m) PROVE Goal
  <2>1. CASE Spills(m)
    <3>1. /\ stage[m] = "reserved" /\ spill' = spill \ {m}
          /\ current_spill_bytes' = current_spill_bytes - PayloadSize[m]
      BY <2>1, <1>6, Zenon DEF EnqueueAllocated, MayEnqueue, ReleaseSpillMemory
    <3>2. m \in spill
      BY <2>1, <3>1, Zenon DEF MessageLife
    <3>3. QED
      BY <3>1, <3>2, <1>3, Zenon
  <2>2. CASE ~Spills(m)
    BY <2>2, <1>2, <1>6, Zenon DEF EnqueueAllocated, spilling
  <2>3. QED
    BY <2>1, <2>2, Zenon
<1>7. ASSUME NEW m \in Msg, EnqueuePending(m) PROVE Goal
  BY <1>2, <1>7, Zenon DEF EnqueuePending, JoinPending, spilling
<1>8. ASSUME NEW m \in Msg, ReleaseSrcptr(m) PROVE Goal
  BY <1>2, <1>8, Zenon DEF ReleaseSrcptr, spilling
<1>9. ASSUME NEW m \in Msg, AssignSrcdataPointer(m) PROVE Goal
  BY <1>2, <1>9, Zenon DEF AssignSrcdataPointer, spilling
<1>10. ASSUME NEW m \in Msg, AssignReleaseSpill(m) PROVE Goal
  <2>1. PICK bytes : ReleaseSpillMemory(m, bytes)
    BY <1>10, Zenon DEF AssignReleaseSpill
  <2>2. bytes = PayloadSize[m]
    BY <2>1, Zenon DEF ReleaseSpillMemory
  <2>3. /\ stage[m] \in {"assigned", "sent_early", "released_early"}
        /\ spill' = spill \ {m}
        /\ current_spill_bytes' = current_spill_bytes - PayloadSize[m]
    BY <2>1, <2>2, <1>10, Zenon DEF AssignReleaseSpill, ReleaseSpillMemory
  <2>4. m \in spill
    BY <2>3, Zenon DEF MessageLife
  <2>5. QED
    BY <2>3, <2>4, <1>3, Zenon
<1>11. ASSUME NEW e \in Endpoint, SendHead(e) PROVE Goal
  BY <1>2, <1>11, Zenon DEF SendHead, spilling
<1>12. QED
  BY <1>4, <1>5, <1>6, <1>7, <1>8, <1>9, <1>10, <1>11, Zenon DEF Next, MessageStep

-----------------------------------------------------------------------------
(* The invariants.                                                         *)

\* Everything but the spill counter: each part needs some of the others.
CoreInv ==
  /\ TypeOK /\ Tiles(free_list, in_use)
  /\ MessageLife /\ HolderLife /\ QueueOrder /\ PayloadsAlive

LEMMA CoreInit ==
  ASSUME Init
  PROVE  CoreInv
<1>1. TypeOK
  <2>1. /\ free_list \subseteq [base : 0 .. TotalSize - 1, size : 1 .. TotalSize]
        /\ pending_allocations \in Seq(Msg) /\ queue \in [Endpoint -> Seq(Msg)]
        /\ current_spill_bytes \in Int /\ owned \in [Msg -> Int]
    BY PoolAssumption DEF Init
  <2>2. /\ stage \in [Msg -> Stage]
        /\ payload_src \in [Msg -> {"caller", "copy", Null}]
        /\ payload \in [Msg -> {"enqueued", "reused", Null}]
    BY DEF Init, Stage
  <2>3. in_use = {} /\ spill = {} /\ sleeping = {} /\ misread \in BOOLEAN
    BY Zenon DEF Init
  <2>4. QED
    BY <2>1, <2>2, <2>3, Zenon DEF TypeOK
<1>2. Tiles(free_list, in_use)
  <2> DEFINE f == [base |-> 0, size |-> TotalSize]
  <2>1. free_list = {f} /\ in_use = {} /\ f.base = 0 /\ f.size = TotalSize
    BY Zenon DEF Init
  <2>2. TotalSize \in Nat /\ TotalSize > 0 /\ TotalSize % BlockSize = 0 /\ f \in FreeSpans
    BY PoolAssumption DEF FreeSpans
  <2>3. 0 % BlockSize = 0
    <3>1. BlockSize \in Nat \ {0} /\ BlockSize * 0 = 0
      BY PoolAssumption
    <3>2. (BlockSize * 0) % BlockSize = 0
      BY <3>1, NoRemainder, Zenon
    <3>3. QED
      BY <3>1, <3>2, Zenon
  <2> HIDE DEF f
  <2>4. free_list \cup in_use = {f}
    BY <2>1, Zenon
  <2>5. Whole({f})
    BY <2>1, <2>2, <2>3, Zenon DEF Whole
  <2>6. InPool({f}) /\ Apart({f}) /\ Covering({f}) /\ Untouching({f})
    BY <2>1, <2>2 DEF InPool, Apart, Covering, Untouching
  <2>7. QED
    BY <2>1, <2>2, <2>4, <2>5, <2>6, Zenon DEF Tiles
<1>3. MessageLife /\ HolderLife /\ QueueOrder
  BY DEF Init, MessageLife, HolderLife, QueueOrder
<1>4. PayloadsAlive
  BY Zenon DEF Init, PayloadsAlive, PayloadLife
<1>5. QED
  BY <1>1, <1>2, <1>3, <1>4, Zenon DEF CoreInv

LEMMA CoreStep ==
  ASSUME CoreInv, [Next]_vars
  PROVE  CoreInv'
<1>1. CASE Next
  <2>1. /\ TypeOK /\ Tiles(free_list, in_use) /\ MessageLife /\ HolderLife
        /\ QueueOrder /\ PayloadsAlive
    BY Zenon DEF CoreInv
  <2>2. Tiles(free_list', in_use')
    BY <2>1, <1>1, TilingStep
  <2>3. LifeType'
    BY <2>1, <1>1, TypeParts, LifeTypeStep, Zenon
  <2>4. TypeOK'
    BY <2>2, <2>3, TypeParts, Zenon DEF Tiles
  <2>5. MessageLife' /\ HolderLife' /\ QueueOrder' /\ PayloadsAlive'
    BY <2>1, <1>1, MessageLifeStep, HolderLifeStep, QueueStep, PayloadStep, Zenon
  <2>6. Tiles(free_list, in_use)'
    BY <2>2, Zenon
  <2>7. QED
    BY <2>4, <2>5, <2>6, Zenon DEF CoreInv
<1>2. CASE UNCHANGED vars
  <2>1. UNCHANGED <<free_list, in_use, pending_allocations, queue, stage, spill,
                    current_spill_bytes, misread, sleeping, payload_src, payload, owned>>
    BY <1>2, Zenon DEF vars, pool, spilling, data
  <2>2. TypeOK' /\ MessageLife' /\ HolderLife'
    BY <2>1, LifeParts, HolderParts, Zenon DEF CoreInv, TypeOK
  <2>3. QueueOrder' /\ PayloadsAlive'
    BY <2>1, OrderParts, PayloadParts, Zenon DEF CoreInv
  <2>4. QED
    BY <2>1, <2>2, <2>3, Zenon DEF CoreInv
<1>3. QED
  BY <1>1, <1>2, Zenon

LEMMA CoreInvariant == Spec => []CoreInv
<1>1. Init => CoreInv
  BY CoreInit
<1>2. CoreInv /\ [Next]_vars => CoreInv'
  BY CoreStep
<1>3. QED
  BY <1>1, <1>2, PTL DEF Spec

LEMMA TilingMeansPartition ==
  ASSUME TypeOK, Tiles(free_list, in_use)
  PROVE  PoolPartition /\ WholeBlocks
<1>1. free_list \subseteq FreeSpans /\ in_use \subseteq UsedSpans
  BY TypeParts, Zenon
<1>2. /\ InPool(free_list \cup in_use) /\ Apart(free_list \cup in_use)
      /\ Covering(free_list \cup in_use) /\ Untouching(free_list)
  BY Zenon DEF Tiles
<1>3. PoolPartition
  BY <1>1, <1>2, PartitionIsTiling, Zenon DEF PoolPartition
<1>4. WholeBlocks
  BY Zenon DEF Tiles, Whole, WholeBlocks
<1>5. QED
  BY <1>3, <1>4

(***************************************************************************)
(* alloc_srcptr and release_srcptr keep the pool partitioned: whatever the *)
(* order of allocations and releases, the free spans and the spans in use  *)
(* do not overlap, cover the pool, are whole blocks, and no two free spans *)
(* touch.                                                                  *)
(***************************************************************************)
THEOREM PoolStaysPartitioned == Spec => [](PoolPartition /\ WholeBlocks)
<1>1. CoreInv => PoolPartition /\ WholeBlocks
  BY TilingMeansPartition DEF CoreInv
<1>2. QED
  BY <1>1, CoreInvariant, PTL

(***************************************************************************)
(* What is sent are the bytes that were enqueued, and a heap buffer that a *)
(* message owns is freed once: enqueue_message, assign_srcdata_pointer and *)
(* push_messages, in any payload mode and however long the message waits.  *)
(***************************************************************************)
THEOREM PayloadSentAndFreedOnce == Spec => []PayloadKept
<1>1. CoreInv => PayloadKept
  <2> SUFFICES ASSUME CoreInv, NEW m \in Msg
               PROVE  /\ PayloadLife(m)
                      /\ payload[m] # "reused"
                      /\ owned[m] \in {0, 1}
                      /\ owned[m] = 1 => Spills(m) /\ payload[m] = Null
                      /\ stage[m] \in {"ready", "assigned"} =>
                           /\ payload[m] = "enqueued"
                           /\ payload_src[m] # Null => PayloadMode(m) = "KEEPREG"
                      /\ stage[m] = "done" => owned[m] = 0
    BY Zenon DEF PayloadKept
  <2>1. stage[m] \in Stage /\ PayloadLife(m) /\ Null # "reused"
    BY PoolAssumption DEF CoreInv, TypeOK, PayloadsAlive
  <2>2. PayloadAs(m, stage[m], payload[m], payload_src[m], owned[m])
    BY PayloadParts, Zenon DEF CoreInv
  <2>3. CASE stage[m] \in ByCaller
    <3>1. payload[m] = Null /\ owned[m] = IF Mode[m] = "FREE" THEN 1 ELSE 0
      BY <2>2, <2>3, Zenon DEF PayloadAs
    <3>2. stage[m] \notin {"ready", "assigned", "done"}
      BY <2>3 DEF ByCaller
    <3>3. owned[m] \in {0, 1} /\ (owned[m] = 1 => Spills(m))
      BY <3>1, Modes
    <3>4. QED
      BY <3>1, <3>2, <3>3, <2>1, Zenon
  <2>4. CASE stage[m] \in Waiting
    <3>1. payload[m] = Null /\ owned[m] = IF Mode[m] = "KEEP" THEN 0 ELSE 1
      BY <2>2, <2>4, Zenon DEF PayloadAs
    <3>2. stage[m] \notin {"ready", "assigned", "done"}
      BY <2>4 DEF Waiting
    <3>3. owned[m] \in {0, 1} /\ (owned[m] = 1 => Spills(m))
      BY <3>1, Modes
    <3>4. QED
      BY <3>1, <3>2, <3>3, <2>1, Zenon
  <2>5. CASE stage[m] \in Placed
    <3>1. payload[m] = "enqueued" /\ owned[m] = 0 /\ (UsesPool(m) => payload_src[m] = Null)
      BY <2>2, <2>5, Zenon DEF PayloadAs
    <3>2. owned[m] \in {0, 1} /\ owned[m] # 1 /\ payload[m] # "reused"
      BY <3>1
    <3>3. QED
      BY <3>1, <3>2, <2>1, Modes, Zenon
  <2>6. QED
    BY <2>1, <2>3, <2>4, <2>5 DEF Stage, ByCaller, Waiting, Placed
<1>2. QED
  BY <1>1, CoreInvariant, PTL

(***************************************************************************)
(* reserve_srcdata's promise, "called once we have reserved a space in a   *)
(* given outgoing queue so that we can't get put behind somebody who       *)
(* failed a srcptr allocation": a message that holds a span is never       *)
(* behind a pending one, so that what the pending one waits for can go out *)
(* the door.                                                               *)
(***************************************************************************)
THEOREM HoldersNotBehindPending == Spec => []NoHolderBehindPending
<1>1. CoreInv => NoHolderBehindPending
  <2> SUFFICES ASSUME CoreInv, NEW e \in Endpoint, NEW i \in DOMAIN queue[e],
                      NEW j \in DOMAIN queue[e], i < j, stage[queue[e][i]] = "pending",
                      NEW s \in in_use, s.msg = queue[e][j]
               PROVE  FALSE
    BY Zenon DEF NoHolderBehindPending
  <2>1. UsesPool(s.msg) /\ stage[s.msg] \in Holding
    BY HolderParts, Zenon DEF CoreInv, HolderAs
  <2>2. PairOk(pending_allocations, stage, queue[e][i], queue[e][j])
    BY OrderParts, Zenon DEF CoreInv, OrderAs, LineOk
  <2>3. stage[s.msg] = "pending"
    BY <2>1, <2>2, Zenon DEF PairOk
  <2>4. QED
    BY <2>1, <2>3 DEF Holding
<1>2. QED
  BY <1>1, CoreInvariant, PTL

(***************************************************************************)
(* All of what the pool, its queues and the spill counter maintain,        *)
(* whatever assign_srcdata_pointer reads as the payload_size of a message  *)
(* that was deleted: a wrong value makes current_spill_bytes drift, and    *)
(* nothing but that does, nor does it touch the pool and the queues.       *)
(***************************************************************************)
THEOREM PoolInvariant == Spec => []PoolInv
<1> DEFINE Counted == misread \/ SpillCounted(spill, current_spill_bytes)
<1>1. Init => Counted
  <2> SUFFICES ASSUME Init PROVE Counted
    OBVIOUS
  <2>1. spill = {} /\ current_spill_bytes = 0 /\ {} \ Exempt = {} /\ Cells({}) = {}
    BY DEF Init, Cells
  <2>2. IsFiniteSet({}) /\ Cardinality({}) = 0
    BY FS_EmptySet, Zenon
  <2>3. MaxSpillBytes # 0 => Cardinality({}) <= MaxSpillBytes
    BY <2>2, PoolAssumption
  <2>4. QED
    BY <2>1, <2>2, <2>3, Zenon DEF SpillCounted
<1>2. CoreInv /\ Counted /\ [Next]_vars => Counted'
  <2> SUFFICES ASSUME CoreInv, Counted, [Next]_vars PROVE Counted'
    OBVIOUS
  <2>1. CASE Next
    <3>1. misread' \/ SpillCounted(spill', current_spill_bytes')
      BY <2>1, SpillStep, Zenon DEF CoreInv
    <3>2. QED
      BY <3>1, Zenon
  <2>2. CASE UNCHANGED vars
    BY <2>2, Zenon DEF vars, spilling
  <2>3. QED
    BY <2>1, <2>2
<1>3. CoreInv /\ Counted => PoolInv
  BY TilingMeansPartition, SpillParts, Zenon DEF CoreInv, PoolInv
<1> HIDE DEF Counted
<1>4. Spec => []Counted
  BY <1>1, <1>2, CoreInvariant, PTL DEF Spec
<1>5. QED
  BY <1>3, <1>4, CoreInvariant, PTL
=============================================================================
