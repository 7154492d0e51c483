-------------------------- MODULE RemoteWriteProofs --------------------------
(***************************************************************************)
(* Remote writes for any number of transfers, calls and messages, handled  *)
(* in any order.  First the counting: fences are acknowledged only after   *)
(* all the writes.  Then the calls: each way of chopping a call cuts its   *)
(* elements into pieces that fit a message.  Last the two together: at the *)
(* acknowledgement the data is in place.                                   *)
(***************************************************************************)
EXTENDS RemoteWrite, FiniteSetTheorems, TLAPS

(* What a step on transfer x leaves alone: the other transfers.            *)
LEMMA Elsewhere ==
  ASSUME FenceInv, NEW x \in Transfer,
         \A y \in Transfer \ {x} :
           /\ num_writes'[y] = num_writes[y] /\ in_flight'[y] = in_flight[y]
           /\ applied'[y] = applied[y] /\ fence'[y] = fence[y]
           /\ partial_remote_writes'[y] = partial_remote_writes[y],
         FenceTypeOK', EntryExact(x)'
  PROVE  FenceInv'
<1>1. ASSUME NEW y \in Transfer \ {x} PROVE EntryExact(y)'
  <2>1. EntryExact(y)
    BY <1>1 DEF FenceInv
  <2> QED
    BY <1>1, <2>1, Zenon DEF EntryExact, Tracked
<1> QED
  BY <1>1, Zenon DEF FenceInv

LEMMA SendWritesStep ==
  ASSUME FenceInv, NEW x \in Transfer, NEW n \in Nat, SendWrites(x, n)
  PROVE  FenceInv'
<1>1. FenceTypeOK'
  BY DEF FenceInv, FenceTypeOK, SendWrites
<1>2. EntryExact(x)'
  BY DEF FenceInv, FenceTypeOK, SendWrites, EntryExact, Tracked
<1> QED
  BY <1>1, <1>2, Elsewhere DEF FenceInv, FenceTypeOK, SendWrites

LEMMA SendFenceStep ==
  ASSUME FenceInv, NEW x \in Transfer, SendFence(x)
  PROVE  FenceInv'
<1>1. FenceTypeOK'
  BY DEF FenceInv, FenceTypeOK, SendFence
<1>2. EntryExact(x)'
  BY DEF FenceInv, FenceTypeOK, SendFence, EntryExact, Tracked
<1> QED
  BY <1>1, <1>2, Elsewhere DEF FenceInv, FenceTypeOK, SendFence

LEMMA ApplyWriteStep ==
  ASSUME FenceInv, NEW x \in Transfer, ApplyWrite(x)
  PROVE  FenceInv'
<1>1. FenceTypeOK'
  BY DEF FenceInv, FenceTypeOK, ApplyWrite
<1>2. EntryExact(x)'
  BY DEF FenceInv, FenceTypeOK, ApplyWrite, EntryExact, Tracked
<1> QED
  BY <1>1, <1>2, Elsewhere DEF FenceInv, FenceTypeOK, ApplyWrite

(* The case that matters: a write is counted.  Not after the ack, for then *)
(* nothing is left to be counted; and to zero only if the fence is known.  *)
LEMMA TrackWriteStep ==
  ASSUME FenceInv, NEW x \in Transfer, TrackWrite(x)
  PROVE  FenceInv'
<1>0. /\ applied[x] \in Nat /\ in_flight[x] \in Nat /\ num_writes[x] \in Nat
      /\ partial_remote_writes[x] \in Entry
      /\ applied[x] > 0
      /\ EntryExact(x)
  BY DEF FenceInv, FenceTypeOK, TrackWrite
<1>1. /\ Counted(x) \in Entry
      /\ Counted(x).remaining_count = partial_remote_writes[x].remaining_count - 1
      /\ Counted(x) = [fence |-> partial_remote_writes[x].fence,
                       remaining_count |-> partial_remote_writes[x].remaining_count - 1]
  BY <1>0 DEF Counted, Entry
<1>2. fence[x] \notin {"acked", "finished"}
  BY <1>0 DEF EntryExact, Tracked
<1>3. FenceTypeOK'
  BY <1>0, <1>1 DEF FenceInv, FenceTypeOK, TrackWrite, NoEntry, Entry
<1>4. Tracked(x)' = Tracked(x) + 1
  BY <1>0 DEF Tracked, TrackWrite, FenceInv, FenceTypeOK
<1>5. EntryExact(x)'
  <2>0. /\ Tracked(x) \in Int
        /\ num_writes'[x] = num_writes[x]
        /\ partial_remote_writes'[x] = IF Counted(x).remaining_count = 0 THEN NoEntry ELSE Counted(x)
        /\ fence'[x] = IF Counted(x).remaining_count = 0 THEN "acked" ELSE fence[x]
    BY <1>0 DEF TrackWrite, FenceInv, FenceTypeOK, Tracked
  <2>1. CASE fence[x] \in {"open", "sent"}
    <3>1. Counted(x) = [fence |-> FALSE, remaining_count |-> 0 - (Tracked(x) + 1)]
      <4>1. partial_remote_writes[x] = [fence |-> FALSE, remaining_count |-> 0 - Tracked(x)]
        BY <1>0, <2>1 DEF EntryExact
      <4>3. /\ partial_remote_writes[x].fence = FALSE
            /\ partial_remote_writes[x].remaining_count = 0 - Tracked(x)
        BY <4>1
      <4>2. 0 - Tracked(x) - 1 = 0 - (Tracked(x) + 1)
        BY <2>0
      <4> QED
        BY <1>1, <4>2, <4>3, Zenon
    <3>2. Counted(x).remaining_count # 0
      BY <1>0, <2>0, <3>1 DEF EntryExact
    <3> QED
      BY <1>0, <1>4, <2>0, <2>1, <3>1, <3>2 DEF EntryExact
  <2>2. CASE fence[x] = "known"
    <3>1. Counted(x) = [fence |-> TRUE, remaining_count |-> num_writes[x] - (Tracked(x) + 1)]
      <4>1. partial_remote_writes[x] = [fence |-> TRUE, remaining_count |-> num_writes[x] - Tracked(x)]
        BY <1>0, <2>2 DEF EntryExact
      <4>3. /\ partial_remote_writes[x].fence = TRUE
            /\ partial_remote_writes[x].remaining_count = num_writes[x] - Tracked(x)
        BY <4>1
      <4>2. num_writes[x] - Tracked(x) - 1 = num_writes[x] - (Tracked(x) + 1)
        BY <1>0, <2>0
      <4> QED
        BY <1>1, <4>2, <4>3, Zenon
    <3> QED
      BY <1>0, <1>4, <2>0, <2>2, <3>1 DEF EntryExact
  <2> QED
    BY <1>2, <2>1, <2>2 DEF FenceInv, FenceTypeOK
<1> QED
  BY <1>3, <1>5, Elsewhere DEF FenceInv, FenceTypeOK, TrackWrite

LEMMA HandleFenceStep ==
  ASSUME FenceInv, NEW x \in Transfer, HandleFence(x)
  PROVE  FenceInv'
<1>0. /\ applied[x] \in Nat /\ in_flight[x] \in Nat /\ num_writes[x] \in Nat
      /\ partial_remote_writes[x] \in Entry
      /\ EntryExact(x) /\ fence[x] = "sent"
      /\ Tracked(x) \in Int
  BY DEF FenceInv, FenceTypeOK, HandleFence, Tracked
<1>1. Fenced(x) = [fence |-> TRUE, remaining_count |-> num_writes[x] - Tracked(x)]
  <2>1. partial_remote_writes[x] = [fence |-> FALSE, remaining_count |-> 0 - Tracked(x)]
    BY <1>0 DEF EntryExact
  <2>2. partial_remote_writes[x].remaining_count + num_writes[x] = num_writes[x] - Tracked(x)
    BY <1>0, <2>1
  <2> QED
    BY <2>2, Zenon DEF Fenced
<1>2. FenceTypeOK'
  BY <1>0, <1>1 DEF FenceInv, FenceTypeOK, HandleFence, NoEntry, Entry
<1>3. /\ num_writes'[x] = num_writes[x] /\ Tracked(x)' = Tracked(x)
      /\ partial_remote_writes'[x] = IF Fenced(x).remaining_count = 0 THEN NoEntry ELSE Fenced(x)
      /\ fence'[x] = IF Fenced(x).remaining_count = 0 THEN "acked" ELSE "known"
  BY DEF FenceInv, FenceTypeOK, HandleFence, Tracked
<1>4. Tracked(x) <= num_writes[x]
  BY <1>0 DEF Tracked
<1>5. EntryExact(x)'
  BY <1>0, <1>1, <1>3, <1>4 DEF EntryExact
<1> QED
  BY <1>2, <1>5, Elsewhere DEF FenceInv, FenceTypeOK, HandleFence

LEMMA HandleFenceAckStep ==
  ASSUME FenceInv, NEW x \in Transfer, HandleFenceAck(x)
  PROVE  FenceInv'
<1>1. FenceTypeOK'
  BY DEF FenceInv, FenceTypeOK, HandleFenceAck
<1>2. EntryExact(x)'
  BY DEF FenceInv, FenceTypeOK, HandleFenceAck, EntryExact, Tracked
<1> QED
  BY <1>1, <1>2, Elsewhere DEF FenceInv, FenceTypeOK, HandleFenceAck
-----------------------------------------------------------------------------
(***************************************************************************)
(* The entries of partial_remote_writes are exact: in particular none of   *)
(* the handlers' assertions on remaining_count can fail.                   *)
(***************************************************************************)
THEOREM FenceInvariant == FenceSpec => []FenceInv
<1>1. FenceInit => FenceInv
  <2> SUFFICES ASSUME FenceInit PROVE FenceInv
    OBVIOUS
  <2>1. FenceTypeOK
    BY DEF FenceInit, FenceTypeOK, NoEntry, Entry
  <2>2. ASSUME NEW x \in Transfer PROVE EntryExact(x)
    <3>1. Tracked(x) = 0 /\ 0 - Tracked(x) = 0 /\ fence[x] = "open" /\ partial_remote_writes[x] = NoEntry
      <4>1. num_writes[x] = 0 /\ in_flight[x] = 0 /\ applied[x] = 0
        BY DEF FenceInit
      <4>2. fence[x] = "open" /\ partial_remote_writes[x] = NoEntry
        BY Zenon DEF FenceInit
      <4>3. Tracked(x) = 0
        BY <4>1 DEF Tracked
      <4>4. 0 - Tracked(x) = 0
        BY <4>3
      <4> QED
        BY <4>2, <4>3, <4>4, Zenon
    <3> QED
      <4>1. partial_remote_writes[x] = [fence |-> FALSE, remaining_count |-> 0 - Tracked(x)]
        BY <3>1, Zenon DEF NoEntry
      <4> QED
        BY <3>1, <4>1 DEF EntryExact
  <2> QED
    BY <2>1, <2>2 DEF FenceInv
<1>2. FenceInv /\ [FenceNext]_fence_vars => FenceInv'
  <2>1. ASSUME FenceInv, FenceNext PROVE FenceInv'
    BY <2>1, SendWritesStep, SendFenceStep, ApplyWriteStep, TrackWriteStep, HandleFenceStep,
       HandleFenceAckStep DEF FenceNext
  <2>2. ASSUME FenceInv, UNCHANGED fence_vars PROVE FenceInv'
    BY <2>2 DEF FenceInv, FenceTypeOK, EntryExact, Tracked, fence_vars
  <2> QED
    BY <2>1, <2>2
<1> QED
  BY <1>1, <1>2, PTL DEF FenceSpec

\* A fence that is acknowledged has nothing left to wait for.
LEMMA FenceAcked == FenceInv => AckAfterWrites
<1> SUFFICES ASSUME FenceInv, NEW x \in Transfer, fence[x] \in {"acked", "finished"}
             PROVE  in_flight[x] = 0 /\ applied[x] = 0 /\ partial_remote_writes[x] = NoEntry
  BY DEF AckAfterWrites
<1>1. /\ in_flight[x] \in Nat /\ applied[x] \in Nat /\ num_writes[x] \in Nat
      /\ EntryExact(x)
  BY DEF FenceInv, FenceTypeOK
<1>2. Tracked(x) = num_writes[x] /\ partial_remote_writes[x] = NoEntry
  BY <1>1 DEF EntryExact
<1>3. QED
  BY <1>1, <1>2 DEF Tracked

(* No fence is acknowledged while a write of its transfer is outstanding.  *)
THEOREM FenceWaitsForWrites == FenceSpec => []AckAfterWrites
BY FenceAcked, FenceInvariant, PTL
-----------------------------------------------------------------------------
(* Sums of sizes: one cell for each byte of each entry.                    *)

Cells(s, n) == UNION {{i} \X (1 .. s[i]) : i \in 1 .. n}

LEMMA CellsFinite ==
  ASSUME NEW s \in Seq(Nat), NEW n \in 0 .. Len(s)
  PROVE  IsFiniteSet(Cells(s, n))
<1> DEFINE F == [i \in 1 .. n |-> {i} \X (1 .. s[i])]
           R == {{i} \X (1 .. s[i]) : i \in 1 .. n}
<1>1. F \in Surjection(1 .. n, R)
  BY Zenon DEF Surjection
<1>2. IsFiniteSet(1 .. n)
  BY FS_Interval
<1>3. ASSUME NEW i \in 1 .. n PROVE IsFiniteSet({i} \X (1 .. s[i]))
  <2>1. s[i] \in Int
    OBVIOUS
  <2>2. IsFiniteSet(1 .. s[i])
    BY <2>1, FS_Interval
  <2>3. IsFiniteSet({i})
    BY FS_Singleton, Zenon
  <2>4. QED
    BY <2>2, <2>3, FS_Product, Zenon
<1>4. \A C \in R : IsFiniteSet(C)
  BY <1>3, Zenon
<1> HIDE DEF F, R
<1>5. IsFiniteSet(R)
  BY <1>1, <1>2, FS_Surjection, Zenon
<1>6. IsFiniteSet(UNION R)
  BY <1>4, <1>5, FS_UNION, Zenon
<1>7. QED
  BY <1>6, Zenon DEF Cells, R

LEMMA SumZero == ASSUME NEW s PROVE SumTo(s, 0) = 0
<1>1. 1 .. 0 = {}
  OBVIOUS
<1>2. UNION {{i} \X (1 .. s[i]) : i \in 1 .. 0} = {}
  BY <1>1, Zenon
<1>3. QED
  BY <1>2, FS_EmptySet, Zenon DEF SumTo

LEMMA SumStep ==
  ASSUME NEW s \in Seq(Nat), NEW n \in 1 .. Len(s)
  PROVE  /\ SumTo(s, n) \in Nat /\ SumTo(s, n - 1) \in Nat
         /\ SumTo(s, n) = SumTo(s, n - 1) + s[n]
<1> DEFINE k == s[n]
           C == {n} \X (1 .. k)
<1>1. k \in Nat /\ n - 1 \in 0 .. Len(s) /\ n \in 0 .. Len(s)
  OBVIOUS
<1>0. k = s[n]
  OBVIOUS
<1> HIDE DEF k
<1>2. Cells(s, n) = Cells(s, n - 1) \cup C
  <2>1. 1 .. n = (1 .. (n - 1)) \cup {n}
    OBVIOUS
  <2>2. QED
    BY <1>0, <2>1, Zenon DEF Cells
<1>3. Cells(s, n - 1) \cap C = {}
  <2>1. n \notin 1 .. (n - 1)
    OBVIOUS
  <2>2. ASSUME NEW e \in Cells(s, n - 1), e \in C PROVE FALSE
    <3>1. PICK i \in 1 .. (n - 1) : e \in {i} \X (1 .. s[i])
      BY <2>2, Zenon DEF Cells
    <3>2. e[1] = i /\ e[1] = n
      BY <2>2, <3>1
    <3>3. QED
      BY <3>1, <3>2, <2>1, Zenon
  <2>3. QED
    BY <2>2, Zenon
<1>4. IsFiniteSet(C) /\ Cardinality(C) = k
  <2>1. IsFiniteSet({n}) /\ Cardinality({n}) = 1
    BY FS_Singleton, Zenon
  <2>2. IsFiniteSet(1 .. k) /\ Cardinality(1 .. k) = k
    <3>1. 1 \in Int /\ k \in Int /\ k \in Nat
      BY <1>1
    <3>2. IsFiniteSet(1 .. k) /\ Cardinality(1 .. k) = IF 1 > k THEN 0 ELSE k - 1 + 1
      BY <3>1, FS_Interval, Zenon
    <3> DEFINE size == Cardinality(1 .. k)
    <3> HIDE DEF size
    <3>3. size = IF 1 > k THEN 0 ELSE k - 1 + 1
      BY <3>2, Zenon DEF size
    <3>4. size = k
      BY <3>1, <3>3
    <3>5. QED
      BY <3>2, <3>4, Zenon DEF size
  <2>3. IsFiniteSet(C) /\ Cardinality(C) = Cardinality({n}) * Cardinality(1 .. k)
    BY <2>1, <2>2, FS_Product, Zenon
  <2>4. 1 * k = k
    BY <1>1
  <2>5. QED
    BY <2>1, <2>2, <2>3, <2>4, Zenon
<1>5. IsFiniteSet(Cells(s, n - 1)) /\ IsFiniteSet(Cells(s, n))
  BY <1>1, CellsFinite, Zenon
<1> HIDE DEF C
<1>6. Cardinality(Cells(s, n - 1) \cup C) =
        Cardinality(Cells(s, n - 1)) + Cardinality(C) - Cardinality(Cells(s, n - 1) \cap C)
  BY <1>4, <1>5, FS_Union, Zenon
<1>7. Cardinality(Cells(s, n - 1) \cap C) = 0
  BY <1>3, FS_EmptySet, Zenon
<1>8. /\ SumTo(s, n) = Cardinality(Cells(s, n))
      /\ SumTo(s, n - 1) = Cardinality(Cells(s, n - 1))
  BY Zenon DEF SumTo, Cells
<1>9. /\ Cardinality(Cells(s, n)) \in Nat
      /\ Cardinality(Cells(s, n - 1)) \in Nat
  BY <1>5, FS_CardinalityType, Zenon
<1>10. Cardinality(Cells(s, n - 1)) + k - 0 = Cardinality(Cells(s, n - 1)) + k
  BY <1>1, <1>9
<1>11. QED
  BY <1>0, <1>2, <1>4, <1>6, <1>7, <1>8, <1>9, <1>10, Zenon

LEMMA SumType ==
  ASSUME NEW s \in Seq(Nat), NEW n \in 0 .. Len(s)
  PROVE  SumTo(s, n) \in Nat
<1>1. CASE n = 0
  BY <1>1, SumZero
<1>2. CASE n # 0
  <2>1. n \in 1 .. Len(s)
    BY <1>2
  <2>2. QED
    BY <2>1, SumStep, Zenon
<1>3. QED
  BY <1>1, <1>2

LEMMA SumGrows ==
  ASSUME NEW s \in Seq(Nat \ {0}), NEW i \in 0 .. Len(s), NEW j \in 0 .. Len(s), i < j
  PROVE  SumTo(s, i) < SumTo(s, j)
<1>0. s \in Seq(Nat)
  OBVIOUS
<1>1. i + 1 \in 1 .. Len(s) /\ i + 1 \in 0 .. Len(s) /\ (i + 1) - 1 = i /\ s[i + 1] \in Nat /\ s[i + 1] > 0
  OBVIOUS
<1>2. SumTo(s, i + 1) = SumTo(s, i) + s[i + 1]
  BY <1>0, <1>1, SumStep, Zenon
<1>3. Cells(s, i + 1) \subseteq Cells(s, j)
  <2>1. 1 .. (i + 1) \subseteq 1 .. j
    OBVIOUS
  <2>2. QED
    BY <2>1, Zenon DEF Cells
<1>4. IsFiniteSet(Cells(s, j))
  BY <1>0, CellsFinite, Zenon
<1>5. Cardinality(Cells(s, i + 1)) <= Cardinality(Cells(s, j))
  BY <1>3, <1>4, FS_Subset, Zenon
<1>6. SumTo(s, i + 1) <= SumTo(s, j)
  BY <1>5, Zenon DEF SumTo, Cells
<1>7. SumTo(s, i) \in Nat /\ SumTo(s, i + 1) \in Nat /\ SumTo(s, j) \in Nat
  BY <1>0, <1>1, SumType, Zenon
<1>8. QED
  BY <1>1, <1>2, <1>6, <1>7
-----------------------------------------------------------------------------
(* Where the messages of a list start.                                     *)

\* Every set of natural numbers has a least element.
LEMMA LeastNat ==
  ASSUME NEW T, T \subseteq Nat, T # {}
  PROVE  \E x \in T : \A y \in T : x <= y
<1> DEFINE R == {ss \in Nat \X Nat : ss[1] < ss[2]}
<1>1. IsWellFoundedOn(R, Nat)
  BY NatLessThanWellFounded, Zenon DEF OpToRel
<1> HIDE DEF R
<1>2. PICK x \in T : \A y \in T : ~(<<y, x>> \in R)
  BY <1>1, WFMin, Zenon
<1>3. x \in Nat /\ \A y \in T : y \in Nat /\ <<y, x>> \notin R
  BY <1>2
<1>4. ASSUME NEW y \in T PROVE ~(y < x)
  <2>1. /\ <<y, x>> \in Nat \X Nat
        /\ <<y, x>>[1] = y /\ <<y, x>>[2] = x
    BY <1>3
  <2>2. QED
    BY <2>1, <1>3, Zenon DEF R
<1>5. QED
  BY <1>3, <1>4

\* An entry that fits a message alone is the first of some that fit together.
LEMMA LastFits ==
  ASSUME NEW s \in Seq(Nat \ {0}), NEW i \in 1 .. Len(s), s[i] <= MaxXferSize
  PROVE  LastFit(s, i) \in i .. Len(s) /\ Fits(s, i, LastFit(s, i))
<1> DEFINE T == {j \in i .. Len(s) : j = Len(s) \/ ~Fits(s, i, j + 1)}
<1>1. T \subseteq Nat /\ Len(s) \in T
  OBVIOUS
<1>2. PICK k \in T : \A y \in T : k <= y
  BY <1>1, LeastNat, Zenon
<1>3. Fits(s, i, k)
  <2>1. CASE k = i
    <3>1. s \in Seq(Nat)
      OBVIOUS
    <3>2. SumTo(s, i) \in Nat /\ SumTo(s, i - 1) \in Nat /\ SumTo(s, i) = SumTo(s, i - 1) + s[i]
      BY <3>1, SumStep, Zenon
    <3>3. s[i] \in Nat
      OBVIOUS
    <3>4. SumTo(s, i) - SumTo(s, i - 1) <= MaxXferSize
      BY <3>2, <3>3
    <3>5. QED
      BY <2>1, <3>4, Zenon DEF Fits
  <2>2. CASE k # i
    <3>1. k - 1 \in i .. Len(s) /\ k - 1 # Len(s) /\ (k - 1) + 1 = k /\ ~(k <= k - 1)
      BY <2>2
    <3>2. k - 1 \notin T
      BY <1>2, <3>1, Zenon
    <3>3. QED
      BY <3>1, <3>2, Zenon
  <2>3. QED
    BY <2>1, <2>2
<1>4. k \in i .. Len(s) /\ Fits(s, i, k) /\ (k = Len(s) \/ ~Fits(s, i, k + 1))
  BY <1>2, <1>3, Zenon
<1>5. QED
  BY <1>4, Zenon DEF LastFit

\* The loop goes forward, to the end of the list.
LEMMA AfterRange ==
  ASSUME NEW s \in Seq(Nat \ {0}), NEW i \in 1 .. Len(s)
  PROVE  After(s)[i] \in (i + 1) .. (Len(s) + 1)
<1>1. After(s)[i] = IF s[i] > MaxXferSize THEN i + 1 ELSE LastFit(s, i) + 1
  BY Zenon DEF After
<1>2. CASE s[i] > MaxXferSize
  BY <1>1, <1>2
<1>3. CASE ~(s[i] > MaxXferSize)
  <2>1. s[i] <= MaxXferSize
    BY <1>3, WriteAssumption
  <2>2. LastFit(s, i) \in i .. Len(s)
    BY <2>1, LastFits, Zenon
  <2>3. QED
    BY <1>1, <1>3, <2>2
<1>4. QED
  BY <1>2, <1>3

LEMMA StartsFirst ==
  ASSUME NEW s \in Seq(Nat \ {0}), Len(s) # 0
  PROVE  1 \in Starts(s)
<1>1. 1 \in 1 .. Len(s)
  OBVIOUS
<1>2. QED
  BY <1>1, Zenon DEF Starts

LEMMA StartsNext ==
  ASSUME NEW s \in Seq(Nat \ {0}), NEW i \in Starts(s), After(s)[i] <= Len(s)
  PROVE  After(s)[i] \in Starts(s)
<1>1. i \in 1 .. Len(s)
  BY Zenon DEF Starts
<1>2. After(s)[i] \in 1 .. Len(s)
  <2>1. After(s)[i] \in (i + 1) .. (Len(s) + 1)
    BY <1>1, AfterRange, Zenon
  <2>2. QED
    BY <1>1, <2>1
<1>3. QED
  BY <1>2, Zenon DEF Starts

\* Induction along the loop.
LEMMA StartsLeast ==
  ASSUME NEW s, NEW T \in SUBSET (1 .. Len(s)), 1 \in T,
         \A j \in T : After(s)[j] <= Len(s) => After(s)[j] \in T
  PROVE  Starts(s) \subseteq T
BY Zenon DEF Starts

\* A message starts behind the entries of the one before it.
LEMMA StartsApart ==
  ASSUME NEW s \in Seq(Nat \ {0}), NEW i \in Starts(s), NEW j \in Starts(s), i < j
  PROVE  After(s)[i] <= j
<1> DEFINE T == {b \in Starts(s) : \A a \in Starts(s) : a < b => After(s)[a] <= b}
<1>1. Starts(s) \subseteq 1 .. Len(s)
  BY Zenon DEF Starts
<1>2. \A a \in Starts(s) : a \in Int /\ a >= 1 /\ After(s)[a] \in Int /\ After(s)[a] > a
  <2>1. ASSUME NEW a \in Starts(s) PROVE a \in Int /\ a >= 1 /\ After(s)[a] \in Int /\ After(s)[a] > a
    <3>1. a \in 1 .. Len(s)
      BY <1>1, Zenon
    <3>2. After(s)[a] \in (a + 1) .. (Len(s) + 1)
      BY <3>1, AfterRange, Zenon
    <3>3. QED
      BY <3>1, <3>2
  <2>2. QED
    BY <2>1, Zenon
<1>3. 1 \in Starts(s)
  <2>1. i \in 1 .. Len(s)
    BY <1>1, Zenon
  <2>2. Len(s) # 0
    BY <2>1
  <2>3. QED
    BY <2>2, StartsFirst, Zenon
<1>4. 1 \in T
  BY <1>2, <1>3
<1>5. ASSUME NEW b \in T, After(s)[b] <= Len(s) PROVE After(s)[b] \in T
  <2> DEFINE next == After(s)[b]
             U == {a \in Starts(s) : a <= b \/ a >= next}
  <2>1. b \in Starts(s) /\ next \in Starts(s) /\ \A a \in Starts(s) : a < b => After(s)[a] <= b
    BY <1>5, StartsNext, Zenon
  <2>2. ASSUME NEW a \in U, After(s)[a] <= Len(s) PROVE After(s)[a] \in U
    <3>1. a \in Starts(s) /\ After(s)[a] \in Starts(s)
      BY <2>2, StartsNext, Zenon
    <3>2. CASE a < b
      BY <1>2, <2>1, <3>1, <3>2, Zenon
    <3>3. CASE a = b
      BY <1>2, <2>1, <3>1, <3>3
    <3>4. CASE a >= next
      BY <1>2, <2>1, <3>1, <3>4
    <3>5. QED
      BY <1>2, <2>1, <3>1, <3>2, <3>3, <3>4
  <2>3. 1 \in U
    BY <1>2, <1>3, <2>1
  <2>4. U \in SUBSET (1 .. Len(s))
    BY <1>1, Zenon
  <2> HIDE DEF U
  <2>5. Starts(s) \subseteq U
    BY <2>2, <2>3, <2>4, StartsLeast, Zenon
  <2>6. ASSUME NEW a \in Starts(s), a < next PROVE After(s)[a] <= next
    <3>1. a <= b
      BY <1>2, <2>1, <2>5, <2>6 DEF U
    <3>2. CASE a < b
      BY <1>2, <2>1, <3>2
    <3>3. CASE a = b
      BY <1>2, <2>1, <3>3
    <3>4. QED
      BY <1>2, <2>1, <3>1, <3>2, <3>3
  <2>7. QED
    BY <2>1, <2>6, Zenon
<1>6. T \in SUBSET (1 .. Len(s))
  BY <1>1, Zenon
<1> HIDE DEF T
<1>7. Starts(s) \subseteq T
  BY <1>4, <1>5, <1>6, StartsLeast, Zenon
<1>8. QED
  BY <1>7, Zenon DEF T

\* Positions that grow along the list: each lies in the entries of one message.
LEMMA StartsCover ==
  ASSUME NEW s \in Seq(Nat \ {0}), NEW Pos \in [1 .. Len(s) + 1 -> Nat], Pos[1] = 0,
         NEW e \in Nat, e < Pos[Len(s) + 1]
  PROVE  \E i \in Starts(s) : Pos[i] <= e /\ e < Pos[After(s)[i]]
<1> DEFINE n == Len(s)
           T == {d \in 0 .. n : n - d \in Starts(s) /\ Pos[n - d] <= e}
<1>0. n \in Nat
  OBVIOUS
<1>1. n # 0 /\ n - 1 \in 0 .. n /\ n - (n - 1) = 1
  OBVIOUS
<1>2. 1 \in Starts(s) /\ Pos[1] <= e
  BY <1>1, StartsFirst
<1>3. T \subseteq Nat /\ n - 1 \in T
  BY <1>1, <1>2
<1>4. PICK d \in T : \A y \in T : d <= y
  BY <1>3, LeastNat, Zenon
<1> DEFINE i == n - d
<1>5. i \in Starts(s) /\ Pos[i] <= e /\ i \in 1 .. n /\ d \in 0 .. n
  BY <1>4, Zenon DEF Starts
<1>6. After(s)[i] \in (i + 1) .. (n + 1)
  BY <1>5, AfterRange, Zenon
<1> DEFINE j == After(s)[i]
<1>7. Pos[j] \in Nat
  BY <1>0, <1>5, <1>6
<1>8. ASSUME Pos[j] <= e PROVE FALSE
  <2>1. j # n + 1
    BY <1>8, <1>7
  <2>2. j <= n /\ n - j \in 0 .. n /\ n - (n - j) = j /\ ~(d <= n - j)
    <3>1. i = n - d /\ i \in 1 .. n /\ j \in (i + 1) .. (n + 1) /\ j # n + 1 /\ n \in Nat /\ d \in 0 .. n
      BY <1>0, <1>5, <1>6, <2>1, Zenon
    <3> HIDE DEF i, j, n
    <3>2. QED
      BY <3>1
  <2>3. j \in Starts(s)
    BY <1>5, <2>2, StartsNext, Zenon
  <2>4. n - j \in 0 .. n /\ n - (n - j) = j /\ ~(d <= n - j)
    BY <2>2, Zenon
  <2>5. n - j \in T
    BY <1>8, <2>3, <2>4, Zenon
  <2>6. QED
    BY <1>4, <2>4, <2>5, Zenon
<1>9. e < Pos[j]
  BY <1>7, <1>8
<1>10. QED
  BY <1>5, <1>9, Zenon
-----------------------------------------------------------------------------
(* What the pieces of a call are: they cut its elements 0 .. n - 1.        *)

PieceType == [offset : Int, first : Nat, count : Nat \ {0}]

Placing(P, base, step, n) ==
  \A p \in P : p \in PieceType /\ p.first + p.count <= n /\ p.offset = base + p.first * step

Apart(P) == \A p, q \in P : p # q => p.first + p.count <= q.first \/ q.first + q.count <= p.first

Covering(P, n) == \A e \in 0 .. n - 1 : \E p \in P : p.first <= e /\ e < p.first + p.count

Cut(P, base, step, n) == Placing(P, base, step, n) /\ Apart(P) /\ Covering(P, n)

LEMMA Times ==
  ASSUME NEW b \in Nat, NEW x \in Nat, NEW y \in Nat, x <= y
  PROVE  x * b <= y * b
OBVIOUS

LEMMA Division ==
  ASSUME NEW a \in Nat, NEW b \in Nat \ {0}
  PROVE  /\ a \div b \in Nat
         /\ (a \div b) * b <= a
         /\ a < ((a \div b) + 1) * b
OBVIOUS

\* The largest multiple of len that fits.
LEMMA Portion ==
  ASSUME NEW max \in Nat \ {0}, NEW len \in 1 .. max
  PROVE  /\ max \div len \in Nat \ {0}
         /\ (max \div len) * len \in Nat \ {0}
         /\ (max \div len) * len \in Nat
         /\ (max \div len) * len <= max
<1> DEFINE q == max \div len
<1>1. q \in Nat /\ q * len <= max /\ max < (q + 1) * len
  BY Division
<1> HIDE DEF q
<1>2. q # 0
  BY <1>1
<1>3. q * len \in Nat \ {0}
  BY <1>1, <1>2
<1>4. QED
  BY <1>1, <1>2, <1>3 DEF q

\* The count of a piece of Chop.
ChopCount(i, count, max) == IF (i + 1) * max < count THEN max ELSE count - i * max

LEMMA ChopCountRight ==
  ASSUME NEW i \in Nat, NEW count \in Nat, NEW max \in Nat \ {0}, i * max < count
  PROVE  /\ ChopCount(i, count, max) \in Nat \ {0}
         /\ ChopCount(i, count, max) <= max
         /\ i * max + ChopCount(i, count, max) <= count
         /\ i * max + ChopCount(i, count, max) <= (i + 1) * max
         /\ \/ i * max + ChopCount(i, count, max) = count
            \/ i * max + ChopCount(i, count, max) = (i + 1) * max
<1> DEFINE a == i * max
           b == (i + 1) * max
<1>1. a \in Nat /\ b \in Nat /\ b = a + max
  OBVIOUS
<1> HIDE DEF a, b
<1>2. a < count /\ ChopCount(i, count, max) = IF b < count THEN max ELSE count - a
  BY DEF ChopCount, a, b
<1>3. /\ ChopCount(i, count, max) \in Nat \ {0}
      /\ ChopCount(i, count, max) <= max
      /\ a + ChopCount(i, count, max) <= count
      /\ a + ChopCount(i, count, max) <= b
      /\ a + ChopCount(i, count, max) = count \/ a + ChopCount(i, count, max) = b
  BY <1>1, <1>2
<1>4. QED
  BY <1>3, Zenon DEF a, b

\* The loops with pieces of constant size cut a call.
LEMMA ChopCuts ==
  ASSUME NEW base \in Int, NEW step \in Int, NEW count \in Nat, NEW max \in Nat \ {0}
  PROVE  /\ Cut(Chop(base, step, count, max), base, step, count)
         /\ \A p \in Chop(base, step, count, max) : p.count <= max
<1> DEFINE P == Chop(base, step, count, max)
           I == {j \in 0 .. count : j * max < count}
           At(i) == Piece(base + (i * max) * step, i * max, ChopCount(i, count, max))
<1>1. P = {At(i) : i \in I}
  BY Zenon DEF Chop, ChopCount
<1>2. ASSUME NEW i \in I
      PROVE  /\ i \in Nat /\ i * max \in Nat /\ (i + 1) * max \in Nat
             /\ At(i).offset = base + (i * max) * step
             /\ At(i).first = i * max
             /\ At(i).count = ChopCount(i, count, max)
             /\ At(i).count \in Nat \ {0} /\ At(i).count <= max
             /\ At(i).first + At(i).count <= count
             /\ At(i).first + At(i).count <= (i + 1) * max
             /\ \/ At(i).first + At(i).count = count
                \/ At(i).first + At(i).count = (i + 1) * max
  <2>1. i \in Nat /\ i * max < count
    OBVIOUS
  <2>2. i * max \in Nat /\ (i + 1) * max \in Nat
    BY <2>1
  <2>3. /\ At(i).offset = base + (i * max) * step
        /\ At(i).first = i * max
        /\ At(i).count = ChopCount(i, count, max)
    BY DEF Piece
  <2> DEFINE k == ChopCount(i, count, max)
             a == i * max
             b == (i + 1) * max
  <2>4. /\ k \in Nat \ {0} /\ k <= max /\ a + k <= count /\ a + k <= b
        /\ a + k = count \/ a + k = b
    BY <2>1, ChopCountRight, Zenon
  <2>5. At(i).first = a /\ At(i).count = k
    BY <2>3, Zenon
  <2> HIDE DEF At, k, a, b
  <2>6. /\ At(i).count \in Nat \ {0} /\ At(i).count <= max
        /\ At(i).first + At(i).count <= count
        /\ At(i).first + At(i).count <= b
        /\ At(i).first + At(i).count = count \/ At(i).first + At(i).count = b
    BY <2>4, <2>5, Zenon
  <2>7. QED
    BY <2>1, <2>2, <2>3, <2>6, Zenon DEF b
<1>3. ASSUME NEW i \in I PROVE At(i) \in PieceType
  <2>1. i * max \in Nat /\ ChopCount(i, count, max) \in Nat \ {0}
    BY <1>2, Zenon
  <2>2. base + (i * max) * step \in Int
    BY <2>1
  <2>3. QED
    BY <2>1, <2>2, Zenon DEF PieceType, Piece
<1> HIDE DEF At, I, P
<1>4. Placing(P, base, step, count)
  <2>1. ASSUME NEW p \in P
        PROVE  p \in PieceType /\ p.first + p.count <= count /\ p.offset = base + p.first * step
    <3>1. PICK i \in I : p = At(i)
      BY <1>1, Zenon
    <3>2. /\ p.offset = base + (i * max) * step /\ p.first = i * max
          /\ p.first + p.count <= count
      BY <1>2, <3>1, Zenon
    <3>3. p.offset = base + p.first * step
      BY <3>2, Zenon
    <3>4. QED
      BY <1>3, <3>1, <3>2, <3>3, Zenon
  <2>2. QED
    BY <2>1, Zenon DEF Placing
<1>5. Apart(P)
  <2>1. ASSUME NEW i \in I, NEW j \in I, i < j PROVE At(i).first + At(i).count <= At(j).first
    <3>1. (i + 1) * max <= j * max
      <4>1. i + 1 \in Nat /\ j \in Nat /\ i + 1 <= j
        BY <1>2, <2>1
      <4>2. QED
        BY <4>1, Times
    <3>2. /\ (i + 1) * max \in Nat /\ j * max \in Nat /\ At(i).first \in Nat /\ At(i).count \in Nat
          /\ At(j).first = j * max /\ At(i).first + At(i).count <= (i + 1) * max
      BY <1>2, Zenon
    <3> DEFINE u == (i + 1) * max
               v == j * max
               w == At(i).first + At(i).count
    <3>3. w \in Nat
      BY <3>2
    <3>4. u \in Nat /\ v \in Nat /\ w <= u /\ u <= v
      BY <3>1, <3>2, Zenon
    <3> HIDE DEF u, v, w
    <3>5. w <= v
      BY <3>3, <3>4
    <3>6. QED
      BY <3>2, <3>5, Zenon DEF v, w
  <2>2. ASSUME NEW p \in P, NEW q \in P, p # q
        PROVE  p.first + p.count <= q.first \/ q.first + q.count <= p.first
    <3>1. PICK i \in I : p = At(i)
      BY <1>1, Zenon
    <3>2. PICK j \in I : q = At(j)
      BY <1>1, Zenon
    <3>3. i # j /\ i \in Nat /\ j \in Nat
      BY <2>2, <3>1, <3>2, <1>2, Zenon
    <3>4. i < j \/ j < i
      BY <3>3
    <3>5. QED
      BY <2>1, <3>1, <3>2, <3>4, Zenon
  <2>3. QED
    BY <2>2, Zenon DEF Apart
<1>6. Covering(P, count)
  <2> SUFFICES ASSUME NEW e \in 0 .. count - 1
               PROVE  \E p \in P : p.first <= e /\ e < p.first + p.count
    BY Zenon DEF Covering
  <2> DEFINE i == e \div max
  <2>1. i \in Nat /\ i * max <= e /\ e < (i + 1) * max
    BY Division
  <2> HIDE DEF i
  <2>2. i * max \in Nat /\ i <= i * max
    BY <2>1
  <2>3. i * max < count
    <3> DEFINE w == i * max
    <3>1. w \in Nat /\ w <= e
      BY <2>1, <2>2, Zenon
    <3> HIDE DEF w
    <3>2. w < count
      BY <3>1
    <3>3. QED
      BY <3>2, Zenon DEF w
  <2>4. i \in 0 .. count
    <3> DEFINE w == i * max
    <3>1. w \in Nat /\ w < count /\ i <= w
      BY <2>2, <2>3, Zenon
    <3> HIDE DEF w
    <3>2. QED
      BY <2>1, <3>1
  <2>5. i \in I
    BY <2>3, <2>4, Zenon DEF I
  <2>6. At(i).first <= e /\ e < At(i).first + At(i).count
    <3>1. At(i).first = i * max
      BY <1>2, <2>5, Zenon
    <3>2. At(i).first + At(i).count = count \/ At(i).first + At(i).count = (i + 1) * max
      BY <1>2, <2>5, Zenon
    <3>3. e < count
      OBVIOUS
    <3>4. e < At(i).first + At(i).count
      BY <2>1, <3>2, <3>3, Zenon
    <3>5. QED
      BY <2>1, <3>1, <3>4, Zenon
  <2>7. At(i) \in P
    BY <1>1, <2>5, Zenon
  <2>8. QED
    BY <2>6, <2>7, Zenon
<1>7. \A p \in P : p.count <= max
  BY <1>1, <1>2, Zenon
<1>8. QED
  BY <1>4, <1>5, <1>6, <1>7, Zenon DEF Cut, P

\* So does do_remote_serdez: elements of any sizes that fit a message.
LEMMA SerdezCuts ==
  ASSUME NEW c, c.sizes \in Seq(1 .. MaxXferSize), c.offset \in Int, c.step \in Int
  PROVE  /\ Cut(SerdezPieces(c), c.offset, c.step, Len(c.sizes))
         /\ \A p \in SerdezPieces(c) :
              SumTo(c.sizes, p.first + p.count) - SumTo(c.sizes, p.first) <= MaxXferSize
<1> DEFINE s == c.sizes
           n == Len(s)
           P == SerdezPieces(c)
           At(i) == Piece(c.offset + (i - 1) * c.step, i - 1, After(s)[i] - i)
<1>0. s \in Seq(Nat \ {0}) /\ n \in Nat /\ \A i \in 1 .. n : s[i] \in Nat /\ s[i] <= MaxXferSize
  BY WriteAssumption
<1>1. P = {At(i) : i \in Starts(s)}
  BY Zenon DEF SerdezPieces
<1> HIDE DEF P, s
<1>2. ASSUME NEW i \in Starts(s)
      PROVE  /\ i \in 1 .. n /\ After(s)[i] \in (i + 1) .. (n + 1)
             /\ At(i).offset = c.offset + (i - 1) * c.step
             /\ At(i).first = i - 1 /\ At(i).count = After(s)[i] - i
             /\ At(i) \in PieceType
             /\ At(i).first + At(i).count = After(s)[i] - 1
  <2>1. i \in 1 .. n
    BY Zenon DEF Starts
  <2>2. After(s)[i] \in (i + 1) .. (n + 1)
    BY <1>0, <2>1, AfterRange, Zenon
  <2>3. /\ At(i).offset = c.offset + (i - 1) * c.step
        /\ At(i).first = i - 1 /\ At(i).count = After(s)[i] - i
    BY DEF Piece
  <2>4. c.offset + (i - 1) * c.step \in Int
    BY <2>1
  <2>5. i - 1 \in Nat /\ After(s)[i] - i \in Nat \ {0}
    BY <1>0, <2>1, <2>2
  <2>6. At(i) \in PieceType
    BY <2>4, <2>5, Zenon DEF Piece, PieceType
  <2>7. (i - 1) + (After(s)[i] - i) = After(s)[i] - 1
    BY <2>1, <2>2
  <2>8. QED
    BY <2>1, <2>2, <2>3, <2>6, <2>7, Zenon
<1> HIDE DEF At
<1>3. Placing(P, c.offset, c.step, n)
  <2>1. ASSUME NEW i \in Starts(s) PROVE At(i).first + At(i).count <= n
    <3>1. At(i).first + At(i).count = After(s)[i] - 1 /\ After(s)[i] \in (i + 1) .. (n + 1) /\ i \in 1 .. n
      BY <1>2, Zenon
    <3>2. After(s)[i] - 1 <= n
      BY <1>0, <3>1
    <3>3. QED
      BY <3>1, <3>2, Zenon
  <2>2. ASSUME NEW p \in P
        PROVE  p \in PieceType /\ p.first + p.count <= n /\ p.offset = c.offset + p.first * c.step
    <3>1. PICK i \in Starts(s) : p = At(i)
      BY <1>1, Zenon
    <3>2. /\ p.offset = c.offset + (i - 1) * c.step /\ p.first = i - 1
          /\ p \in PieceType /\ p.first + p.count <= n
      BY <1>2, <2>1, <3>1, Zenon
    <3>3. p.offset = c.offset + p.first * c.step
      BY <3>2, Zenon
    <3>4. QED
      BY <3>2, <3>3, Zenon
  <2>3. QED
    BY <2>2, Zenon DEF Placing
<1>4. Apart(P)
  <2>1. ASSUME NEW i \in Starts(s), NEW j \in Starts(s), i < j PROVE At(i).first + At(i).count <= At(j).first
    <3>1. After(s)[i] <= j
      BY <1>0, <2>1, StartsApart, Zenon
    <3>2. /\ i \in 1 .. n /\ j \in 1 .. n /\ After(s)[i] \in (i + 1) .. (n + 1)
          /\ At(i).first + At(i).count = After(s)[i] - 1 /\ At(j).first = j - 1
      BY <1>2, Zenon
    <3>3. After(s)[i] - 1 <= j - 1
      BY <1>0, <3>1, <3>2
    <3>4. QED
      BY <3>2, <3>3, Zenon
  <2>2. ASSUME NEW p \in P, NEW q \in P, p # q
        PROVE  p.first + p.count <= q.first \/ q.first + q.count <= p.first
    <3>1. PICK i \in Starts(s) : p = At(i)
      BY <1>1, Zenon
    <3>2. PICK j \in Starts(s) : q = At(j)
      BY <1>1, Zenon
    <3>3. i # j /\ i \in 1 .. n /\ j \in 1 .. n
      BY <2>2, <3>1, <3>2, <1>2, Zenon
    <3>4. i < j \/ j < i
      BY <1>0, <3>3
    <3>5. QED
      BY <2>1, <3>1, <3>2, <3>4, Zenon
  <2>3. QED
    BY <2>2, Zenon DEF Apart
<1>5. Covering(P, n)
  <2> SUFFICES ASSUME NEW e \in 0 .. n - 1
               PROVE  \E p \in P : p.first <= e /\ e < p.first + p.count
    BY Zenon DEF Covering
  <2> DEFINE Pos == [i \in 1 .. n + 1 |-> i - 1]
  <2>1. Pos \in [1 .. n + 1 -> Nat] /\ Pos[1] = 0 /\ e \in Nat /\ e < Pos[n + 1]
    BY <1>0
  <2>2. \E i \in Starts(s) : Pos[i] <= e /\ e < Pos[After(s)[i]]
    <3> HIDE DEF Pos
    <3>1. QED
      BY <1>0, <2>1, StartsCover, Zenon
  <2>3. PICK i \in Starts(s) : Pos[i] <= e /\ e < Pos[After(s)[i]]
    BY <2>2
  <2>4. /\ i \in 1 .. n /\ After(s)[i] \in (i + 1) .. (n + 1)
        /\ At(i).first = i - 1 /\ At(i).first + At(i).count = After(s)[i] - 1
    BY <1>2, Zenon
  <2>5. Pos[i] = i - 1 /\ Pos[After(s)[i]] = After(s)[i] - 1
    BY <1>0, <2>4
  <2>6. At(i) \in P
    BY <1>1, Zenon
  <2>7. QED
    BY <2>3, <2>4, <2>5, <2>6, Zenon
<1>6. ASSUME NEW p \in P PROVE SumTo(s, p.first + p.count) - SumTo(s, p.first) <= MaxXferSize
  <2>1. PICK i \in Starts(s) : p = At(i)
    BY <1>1, Zenon
  <2>2. i \in 1 .. n /\ p.first + p.count = After(s)[i] - 1 /\ p.first = i - 1
    BY <1>2, <2>1, Zenon
  <2>3. s[i] <= MaxXferSize /\ ~(s[i] > MaxXferSize)
    BY <1>0, <2>2, WriteAssumption
  <2>4. After(s)[i] = LastFit(s, i) + 1
    BY <2>2, <2>3, Zenon DEF After
  <2>5. LastFit(s, i) \in i .. n /\ Fits(s, i, LastFit(s, i))
    BY <1>0, <2>2, <2>3, LastFits, Zenon
  <2>6. (LastFit(s, i) + 1) - 1 = LastFit(s, i)
    BY <2>2, <2>5
  <2>7. QED
    BY <2>2, <2>4, <2>5, <2>6, Zenon DEF Fits
<1>7. QED
  BY <1>3, <1>4, <1>5, <1>6, Zenon DEF Cut, P, s

\* And do_remote_write of a span list.  First the messages from one start on.
PiecesAt(c, i) ==
  IF c.sizes[i] > MaxXferSize
  THEN {[p EXCEPT !.first = @ + SumTo(c.sizes, i - 1)]
          : p \in Chop(c.offset + SumTo(c.sizes, i - 1), 1, c.sizes[i], MaxXferSize)}
  ELSE {Piece(c.offset + SumTo(c.sizes, i - 1), SumTo(c.sizes, i - 1),
              SumTo(c.sizes, After(c.sizes)[i] - 1) - SumTo(c.sizes, i - 1))}

Between(P, base, a, b) ==
  /\ \A p \in P : /\ p \in PieceType /\ a <= p.first /\ p.first + p.count <= b
                  /\ p.offset = base + p.first * 1 /\ p.count <= MaxXferSize
  /\ Apart(P)
  /\ \A e \in a .. b - 1 : \E p \in P : p.first <= e /\ e < p.first + p.count

\* A span of its own: the pieces of Chop, moved to where the span begins.
LEMMA MovedChop ==
  ASSUME NEW base \in Nat, NEW a \in Nat, NEW size \in Nat
  PROVE  Between({[p EXCEPT !.first = @ + a] : p \in Chop(base + a, 1, size, MaxXferSize)},
                 base, a, a + size)
<1> DEFINE P == Chop(base + a, 1, size, MaxXferSize)
           Moved(p) == [p EXCEPT !.first = @ + a]
           Q == {Moved(p) : p \in P}
<1>1. Cut(P, base + a, 1, size) /\ \A p \in P : p.count <= MaxXferSize
  <2>1. base + a \in Int /\ 1 \in Int /\ MaxXferSize \in Nat \ {0}
    BY WriteAssumption
  <2>2. QED
    BY <2>1, ChopCuts, Zenon
<1> HIDE DEF P
<1>2. \A p \in P : /\ p \in PieceType /\ p.first + p.count <= size
                   /\ p.offset = (base + a) + p.first * 1 /\ p.count <= MaxXferSize
  BY <1>1, Zenon DEF Cut, Placing
<1>3. ASSUME NEW p \in P
      PROVE  /\ Moved(p) \in PieceType /\ Moved(p).first = p.first + a
             /\ Moved(p).count = p.count /\ Moved(p).offset = p.offset
             /\ p.first \in Nat /\ p.count \in Nat
  BY <1>2 DEF PieceType
<1> HIDE DEF Moved
<1>4. ASSUME NEW p \in P
      PROVE  /\ Moved(p) \in PieceType /\ a <= Moved(p).first
             /\ Moved(p).first + Moved(p).count <= a + size
             /\ Moved(p).offset = base + Moved(p).first * 1 /\ Moved(p).count <= MaxXferSize
  BY <1>2, <1>3
<1>5. Apart(Q)
  <2>1. ASSUME NEW p \in P, NEW q \in P, Moved(p) # Moved(q)
        PROVE  \/ Moved(p).first + Moved(p).count <= Moved(q).first
               \/ Moved(q).first + Moved(q).count <= Moved(p).first
    <3>1. p.first + p.count <= q.first \/ q.first + q.count <= p.first
      BY <1>1, <2>1, Zenon DEF Cut, Apart
    <3>2. QED
      BY <1>3, <3>1
  <2>2. QED
    BY <2>1, Zenon DEF Apart
<1>6. ASSUME NEW e \in a .. (a + size) - 1 PROVE \E q \in Q : q.first <= e /\ e < q.first + q.count
  <2>1. e - a \in 0 .. size - 1
    OBVIOUS
  <2>2. PICK p \in P : p.first <= e - a /\ e - a < p.first + p.count
    BY <1>1, <2>1, Zenon DEF Cut, Covering
  <2>3. Moved(p).first <= e /\ e < Moved(p).first + Moved(p).count
    BY <1>3, <2>2
  <2>4. Moved(p) \in Q
    BY Zenon
  <2>5. QED
    BY <2>3, <2>4, Zenon
<1>7. Between(Q, base, a, a + size)
  BY <1>4, <1>5, <1>6, Zenon DEF Between
<1>8. QED
  BY <1>7, Zenon DEF Moved, P

LEMMA PiecesAtCut ==
  ASSUME NEW c, c.sizes \in Seq(Nat \ {0}), c.offset \in Nat, NEW i \in 1 .. Len(c.sizes)
  PROVE  /\ SumTo(c.sizes, i - 1) \in Nat
         /\ SumTo(c.sizes, After(c.sizes)[i] - 1) \in Nat
         /\ Between(PiecesAt(c, i), c.offset, SumTo(c.sizes, i - 1), SumTo(c.sizes, After(c.sizes)[i] - 1))
<1> DEFINE s == c.sizes
           a == SumTo(s, i - 1)
           j == After(s)[i]
           b == SumTo(s, j - 1)
<1>1. s \in Seq(Nat \ {0}) /\ s \in Seq(Nat) /\ i \in 1 .. Len(s) /\ Len(s) \in Nat
  OBVIOUS
<1>2. j \in (i + 1) .. (Len(s) + 1)
  BY <1>1, AfterRange, Zenon
<1>3. i - 1 \in 0 .. Len(s) /\ j - 1 \in 0 .. Len(s) /\ i - 1 < j - 1 /\ s[i] \in Nat
  <2>1. s[i] \in Nat
    BY <1>1
  <2> DEFINE n == Len(s)
  <2>2. n \in Nat /\ i \in 1 .. n /\ j \in (i + 1) .. (n + 1)
    BY <1>1, <1>2, Zenon
  <2> HIDE DEF n, j, s
  <2>3. i - 1 \in 0 .. n /\ j - 1 \in 0 .. n /\ i - 1 < j - 1
    BY <2>2
  <2>4. QED
    BY <2>1, <2>3, Zenon DEF n
<1>4. a \in Nat /\ b \in Nat
  BY <1>1, <1>3, SumType, Zenon
<1>5. a < b
  BY <1>1, <1>3, SumGrows, Zenon
<1>6. CASE s[i] > MaxXferSize
  <2>1. j = i + 1 /\ j - 1 = i
    <3>1. j = i + 1
      BY <1>1, <1>6, Zenon DEF After
    <3>2. QED
      BY <1>1, <3>1
  <2>2. b = a + s[i]
    BY <1>1, <2>1, SumStep, Zenon
  <2>3. PiecesAt(c, i) = {[p EXCEPT !.first = @ + a] : p \in Chop(c.offset + a, 1, s[i], MaxXferSize)}
    BY <1>6, Zenon DEF PiecesAt
  <2>4. QED
    BY <1>3, <1>4, <2>2, <2>3, MovedChop, Zenon
<1>7. CASE ~(s[i] > MaxXferSize)
  <2>1. s[i] <= MaxXferSize
    BY <1>3, <1>7, WriteAssumption
  <2>2. LastFit(s, i) \in i .. Len(s) /\ Fits(s, i, LastFit(s, i))
    BY <1>1, <2>1, LastFits, Zenon
  <2>3. j = LastFit(s, i) + 1
    BY <1>1, <1>7, Zenon DEF After
  <2>4. j - 1 = LastFit(s, i)
    BY <1>1, <2>2, <2>3
  <2>5. b - a <= MaxXferSize
    BY <2>2, <2>4, Zenon DEF Fits
  <2> DEFINE p == Piece(c.offset + a, a, b - a)
  <2>6. PiecesAt(c, i) = {p}
    BY <1>7, Zenon DEF PiecesAt
  <2>7. p.offset = c.offset + a /\ p.first = a /\ p.count = b - a
    BY DEF Piece
  <2>8. p \in PieceType
    <3>1. c.offset + a \in Int /\ b - a \in Nat \ {0}
      BY <1>4, <1>5
    <3>2. QED
      BY <1>4, <3>1, Zenon DEF Piece, PieceType
  <2> HIDE DEF p, a, b, j, s
  <2>9. /\ a <= p.first /\ p.first + p.count <= b
        /\ p.offset = c.offset + p.first * 1 /\ p.count <= MaxXferSize
    BY <1>4, <1>5, <2>5, <2>7
  <2>10. \A e \in a .. b - 1 : p.first <= e /\ e < p.first + p.count
    BY <1>4, <1>5, <2>7
  <2>11. Apart({p})
    BY Zenon DEF Apart
  <2>12. Between({p}, c.offset, a, b)
    BY <2>8, <2>9, <2>10, <2>11, Zenon DEF Between
  <2>13. QED
    BY <1>4, <2>6, <2>12, Zenon DEF a, b, j, s
<1>8. QED
  BY <1>6, <1>7, Zenon

LEMMA SpansCut ==
  ASSUME NEW c, c.sizes \in Seq(Nat \ {0}), c.offset \in Nat
  PROVE  /\ Cut(SpanPieces(c), c.offset, 1, SumTo(c.sizes, Len(c.sizes)))
         /\ \A p \in SpanPieces(c) : p.count <= MaxXferSize
<1> DEFINE s == c.sizes
           n == Len(s)
           P == SpanPieces(c)
           Pos == [i \in 1 .. n + 1 |-> SumTo(s, i - 1)]
           total == SumTo(s, n)
<1>0. s \in Seq(Nat \ {0}) /\ s \in Seq(Nat) /\ n \in Nat
  OBVIOUS
<1>1. P = UNION {PiecesAt(c, i) : i \in Starts(s)}
  BY Zenon DEF SpanPieces, PiecesAt
<1> HIDE DEF P, s
<1>2. /\ Pos \in [1 .. n + 1 -> Nat] /\ Pos[1] = 0 /\ Pos[n + 1] = total
  <2>1. ASSUME NEW i \in 1 .. n + 1 PROVE SumTo(s, i - 1) \in Nat
    <3>1. i - 1 \in 0 .. n
      BY <1>0
    <3>2. QED
      BY <1>0, <3>1, SumType, Zenon
  <2>2. 1 \in 1 .. n + 1 /\ n + 1 \in 1 .. n + 1 /\ 1 - 1 = 0 /\ (n + 1) - 1 = n
    BY <1>0
  <2>3. QED
    BY <2>1, <2>2, SumZero, Zenon
<1>3. \A i, j \in 1 .. n + 1 : i <= j => Pos[i] <= Pos[j]
  <2> SUFFICES ASSUME NEW i \in 1 .. n + 1, NEW j \in 1 .. n + 1, i <= j PROVE Pos[i] <= Pos[j]
    BY Zenon
  <2>1. CASE i = j
    BY <1>2, <2>1
  <2>2. CASE i # j
    <3>1. i - 1 \in 0 .. n /\ j - 1 \in 0 .. n /\ i - 1 < j - 1
      BY <1>0, <2>2
    <3>2. SumTo(s, i - 1) < SumTo(s, j - 1)
      BY <1>0, <3>1, SumGrows, Zenon
    <3>3. Pos[i] = SumTo(s, i - 1) /\ Pos[j] = SumTo(s, j - 1)
      BY Zenon
    <3>4. Pos[i] \in Nat /\ Pos[j] \in Nat /\ Pos[i] < Pos[j]
      BY <1>2, <3>2, <3>3, Zenon
    <3> HIDE DEF Pos
    <3>5. QED
      BY <3>4
  <2>3. QED
    BY <2>1, <2>2
<1>4. ASSUME NEW i \in Starts(s)
      PROVE  /\ i \in 1 .. n /\ After(s)[i] \in (i + 1) .. (n + 1)
             /\ i \in 1 .. n + 1 /\ After(s)[i] \in 1 .. n + 1
             /\ Between(PiecesAt(c, i), c.offset, Pos[i], Pos[After(s)[i]])
  <2>1. i \in 1 .. n
    BY Zenon DEF Starts
  <2>2. After(s)[i] \in (i + 1) .. (n + 1)
    BY <1>0, <2>1, AfterRange, Zenon
  <2>3. i \in 1 .. n + 1 /\ After(s)[i] \in 1 .. n + 1
    BY <1>0, <2>1, <2>2
  <2>4. Between(PiecesAt(c, i), c.offset, SumTo(s, i - 1), SumTo(s, After(s)[i] - 1))
    BY <2>1, PiecesAtCut, Zenon DEF s
  <2>5. QED
    BY <2>1, <2>2, <2>3, <2>4, Zenon
<1>5. n + 1 \in 1 .. n + 1
  BY <1>0
<1> HIDE DEF Pos, total, n
<1>6. \A i \in 1 .. n + 1 : Pos[i] \in Nat
  BY <1>2, Zenon
<1>7. ASSUME NEW i \in Starts(s), NEW p \in PiecesAt(c, i)
      PROVE  /\ p \in PieceType /\ p.first \in Nat /\ p.count \in Nat
             /\ Pos[i] <= p.first /\ p.first + p.count <= Pos[After(s)[i]]
             /\ p.offset = c.offset + p.first * 1 /\ p.count <= MaxXferSize
  <2>1. p \in PieceType
    BY <1>4, <1>7, Zenon DEF Between
  <2>2. p.first \in Nat /\ p.count \in Nat
    BY <2>1 DEF PieceType
  <2>3. QED
    BY <1>4, <1>7, <2>1, <2>2, Zenon DEF Between
<1>8. Placing(P, c.offset, 1, total)
  <2>1. ASSUME NEW i \in Starts(s), NEW p \in PiecesAt(c, i) PROVE p.first + p.count <= total
    <3>1. p.first + p.count <= Pos[After(s)[i]] /\ p.first \in Nat /\ p.count \in Nat
      BY <1>7, Zenon
    <3>2. After(s)[i] \in 1 .. n + 1 /\ After(s)[i] <= n + 1
      BY <1>0, <1>4
    <3>3. Pos[After(s)[i]] <= Pos[n + 1] /\ Pos[After(s)[i]] \in Nat /\ Pos[n + 1] \in Nat
      BY <1>3, <1>5, <1>6, <3>2, Zenon
    <3>4. p.first + p.count <= Pos[n + 1]
      BY <3>1, <3>3
    <3>5. QED
      BY <3>4, <1>2, Zenon
  <2>2. QED
    BY <1>1, <1>7, <2>1, Zenon DEF Placing
<1>9. Apart(P)
  <2>1. ASSUME NEW i \in Starts(s), NEW j \in Starts(s), i < j,
               NEW p \in PiecesAt(c, i), NEW q \in PiecesAt(c, j)
        PROVE  p.first + p.count <= q.first
    <3>1. After(s)[i] <= j
      BY <1>0, <2>1, StartsApart, Zenon
    <3>2. Pos[After(s)[i]] <= Pos[j] /\ Pos[After(s)[i]] \in Nat /\ Pos[j] \in Nat
      BY <1>3, <1>4, <1>6, <3>1, Zenon
    <3>3. /\ p.first \in Nat /\ p.count \in Nat /\ q.first \in Nat
          /\ p.first + p.count <= Pos[After(s)[i]] /\ Pos[j] <= q.first
      BY <1>7, Zenon
    <3>4. QED
      BY <3>2, <3>3
  <2>2. ASSUME NEW p \in P, NEW q \in P, p # q
        PROVE  p.first + p.count <= q.first \/ q.first + q.count <= p.first
    <3>1. PICK i \in Starts(s) : p \in PiecesAt(c, i)
      BY <1>1, Zenon
    <3>2. PICK j \in Starts(s) : q \in PiecesAt(c, j)
      BY <1>1, Zenon
    <3>3. i \in 1 .. n /\ j \in 1 .. n
      BY <1>4, Zenon
    <3>4. i < j \/ j < i \/ i = j
      BY <1>0, <3>3
    <3>5. CASE i = j
      BY <1>4, <2>2, <3>1, <3>2, <3>5, Zenon DEF Between, Apart
    <3>6. QED
      BY <2>1, <3>1, <3>2, <3>4, <3>5, Zenon
  <2>3. QED
    BY <2>2, Zenon DEF Apart
<1>10. Covering(P, total)
  <2> SUFFICES ASSUME NEW e \in 0 .. total - 1
               PROVE  \E p \in P : p.first <= e /\ e < p.first + p.count
    BY Zenon DEF Covering
  <2>1. total \in Nat
    BY <1>2, <1>5, <1>6, Zenon
  <2>2. e \in Nat /\ e < total
    BY <2>1
  <2>3. PICK i \in Starts(s) : Pos[i] <= e /\ e < Pos[After(s)[i]]
    <3>1. Pos \in [1 .. Len(s) + 1 -> Nat] /\ Pos[1] = 0 /\ e < Pos[Len(s) + 1]
      BY <1>2, <2>2, Zenon DEF n
    <3>2. QED
      BY <1>0, <2>2, <3>1, StartsCover, Zenon
  <2>4. Pos[i] \in Nat /\ Pos[After(s)[i]] \in Nat
    BY <1>4, <1>6, Zenon
  <2>5. e \in Pos[i] .. Pos[After(s)[i]] - 1
    BY <2>2, <2>3, <2>4
  <2>6. PICK p \in PiecesAt(c, i) : p.first <= e /\ e < p.first + p.count
    BY <1>4, <2>5, Zenon DEF Between
  <2>7. p \in P
    BY <1>1, <2>6, Zenon
  <2>8. QED
    BY <2>6, <2>7, Zenon
<1>11. \A p \in P : p.count <= MaxXferSize
  BY <1>1, <1>7, Zenon
<1>12. QED
  BY <1>8, <1>9, <1>10, <1>11, Zenon DEF Cut, P, total, n, s
-----------------------------------------------------------------------------
(* All calls.                                                              *)

\* How many elements a call has.
SizeOf(c) ==
  CASE c.kind = "lines" -> c.lines * c.len
    [] c.kind = "spans" -> SumTo(c.sizes, Len(c.sizes))
    [] c.kind = "serdez" -> Len(c.sizes)
    [] c.kind = "reduce" -> c.count
    [] OTHER -> c.len

\* do_remote_write, do_remote_serdez and do_remote_reduce cut every call they
\* accept into messages that fit a buffer.
LEMMA CallCut ==
  ASSUME NEW c \in Calls
  PROVE  /\ c.offset \in Nat /\ StepOf(c) \in Int /\ SizeOf(c) \in Nat
         /\ Cut(Pieces(c), c.offset, StepOf(c), SizeOf(c))
         /\ \A p \in Pieces(c) : c.kind = "rdma" \/ PayloadBytes(c, p) <= MaxXferSize
<1> DEFINE Goal == /\ c.offset \in Nat /\ StepOf(c) \in Int /\ SizeOf(c) \in Nat
                   /\ Cut(Pieces(c), c.offset, StepOf(c), SizeOf(c))
                   /\ \A p \in Pieces(c) : c.kind = "rdma" \/ PayloadBytes(c, p) <= MaxXferSize
<1>0. MaxXferSize \in Nat \ {0} /\ 1 \in Int
  BY WriteAssumption
<1>1. CASE c \in [kind : {"rdma"}, offset : Nat, len : Nat \ {0}]
  <2>1. c.kind = "rdma" /\ c.offset \in Nat /\ c.len \in Nat \ {0}
    BY <1>1
  <2> DEFINE p == Piece(c.offset, 0, c.len)
  <2>2. Pieces(c) = {p} /\ StepOf(c) = 1 /\ SizeOf(c) = c.len
    BY <2>1 DEF Pieces, StepOf, SizeOf
  <2>3. p.offset = c.offset /\ p.first = 0 /\ p.count = c.len
    BY DEF Piece
  <2>4. p \in PieceType
    <3>1. c.offset \in Int /\ 0 \in Nat
      BY <2>1
    <3>2. QED
      BY <2>1, <3>1, Zenon DEF Piece, PieceType
  <2> HIDE DEF p
  <2>5. p.first + p.count <= c.len /\ p.offset = c.offset + p.first * 1
    BY <2>1, <2>3
  <2>6. \A e \in 0 .. c.len - 1 : p.first <= e /\ e < p.first + p.count
    BY <2>1, <2>3
  <2>7. Cut({p}, c.offset, 1, c.len)
    BY <2>4, <2>5, <2>6, Zenon DEF Cut, Placing, Apart, Covering
  <2>8. c.len \in Nat
    BY <2>1
  <2>9. QED
    BY <1>0, <2>1, <2>2, <2>7, <2>8, Zenon
<1>2. CASE c \in [kind : {"write"}, offset : Nat, len : Nat \ {0}]
  <2>1. c.kind = "write" /\ c.offset \in Nat /\ c.len \in Nat /\ c.offset \in Int
    BY <1>2
  <2>2. /\ Pieces(c) = Chop(c.offset, 1, c.len, MaxXferSize) /\ StepOf(c) = 1 /\ SizeOf(c) = c.len
        /\ \A p : PayloadBytes(c, p) = p.count
    BY <2>1 DEF Pieces, StepOf, SizeOf, PayloadBytes, WritePieces
  <2>3. /\ Cut(Chop(c.offset, 1, c.len, MaxXferSize), c.offset, 1, c.len)
        /\ \A p \in Chop(c.offset, 1, c.len, MaxXferSize) : p.count <= MaxXferSize
    BY <1>0, <2>1, ChopCuts, Zenon
  <2>4. QED
    BY <1>0, <2>1, <2>2, <2>3, Zenon
<1>3. CASE c \in [kind : {"lines"}, offset : Nat, len : 1 .. MaxXferSize, lines : Nat \ {0}]
  <2> DEFINE max == (MaxXferSize \div c.len) * c.len
             size == c.lines * c.len
  <2>1. c.kind = "lines" /\ c.offset \in Nat /\ c.offset \in Int /\ c.len \in 1 .. MaxXferSize /\ c.lines \in Nat
    BY <1>3
  <2>2. /\ Pieces(c) = Chop(c.offset, 1, size, max) /\ StepOf(c) = 1 /\ SizeOf(c) = size
        /\ \A p : PayloadBytes(c, p) = p.count
    BY <2>1 DEF Pieces, StepOf, SizeOf, PayloadBytes, LinePieces
  <2>3. max \in Nat \ {0} /\ max <= MaxXferSize
    BY <1>0, <2>1, Portion, Zenon
  <2>4. size \in Nat
    BY <1>0, <2>1
  <2> HIDE DEF max, size
  <2>5. /\ Cut(Chop(c.offset, 1, size, max), c.offset, 1, size)
        /\ \A p \in Chop(c.offset, 1, size, max) : p.count <= max
    BY <1>0, <2>1, <2>3, <2>4, ChopCuts, Zenon
  <2>6. ASSUME NEW p \in Chop(c.offset, 1, size, max) PROVE p.count <= MaxXferSize
    <3>1. p.count \in Nat
      <4>1. p \in PieceType
        BY <2>5, Zenon DEF Cut, Placing
      <4>2. QED
        BY <4>1 DEF PieceType
    <3>2. p.count <= max
      BY <2>5, Zenon
    <3>3. QED
      BY <1>0, <2>3, <3>1, <3>2
  <2>7. QED
    BY <1>0, <2>1, <2>2, <2>4, <2>5, <2>6, Zenon
<1>4. CASE c \in [kind : {"spans"}, offset : Nat, sizes : Seq(Nat \ {0})]
  <2>1. c.kind = "spans" /\ c.offset \in Nat /\ c.sizes \in Seq(Nat \ {0}) /\ c.sizes \in Seq(Nat)
    BY <1>4
  <2>2. /\ Pieces(c) = SpanPieces(c) /\ StepOf(c) = 1 /\ SizeOf(c) = SumTo(c.sizes, Len(c.sizes))
        /\ \A p : PayloadBytes(c, p) = p.count
    BY <2>1 DEF Pieces, StepOf, SizeOf, PayloadBytes
  <2>3. SumTo(c.sizes, Len(c.sizes)) \in Nat
    <3>1. Len(c.sizes) \in 0 .. Len(c.sizes)
      BY <2>1
    <3>2. QED
      BY <2>1, <3>1, SumType, Zenon
  <2>4. QED
    BY <1>0, <2>1, <2>2, <2>3, SpansCut, Zenon
<1>5. CASE c \in [kind : {"serdez"}, offset : Nat, sizes : Seq(1 .. MaxXferSize), step : Nat]
  <2>1. /\ c.kind = "serdez" /\ c.offset \in Nat /\ c.offset \in Int
        /\ c.sizes \in Seq(1 .. MaxXferSize) /\ c.step \in Int
    BY <1>5
  <2>2. /\ Pieces(c) = SerdezPieces(c) /\ StepOf(c) = c.step /\ SizeOf(c) = Len(c.sizes)
        /\ \A p : PayloadBytes(c, p) = SumTo(c.sizes, p.first + p.count) - SumTo(c.sizes, p.first)
    BY <2>1 DEF Pieces, StepOf, SizeOf, PayloadBytes
  <2>3. Len(c.sizes) \in Nat
    BY <2>1
  <2>4. QED
    BY <2>1, <2>2, <2>3, SerdezCuts, Zenon
<1>6. CASE c \in [kind : {"reduce"}, offset : Nat, len : 1 .. MaxXferSize, count : Nat \ {0}, step : Int]
  <2> DEFINE max == MaxXferSize \div c.len
  <2>1. /\ c.kind = "reduce" /\ c.offset \in Nat /\ c.offset \in Int
        /\ c.len \in 1 .. MaxXferSize /\ c.count \in Nat /\ c.step \in Int
    BY <1>6
  <2>2. /\ Pieces(c) = Chop(c.offset, c.step, c.count, max) /\ StepOf(c) = c.step /\ SizeOf(c) = c.count
        /\ \A p : PayloadBytes(c, p) = p.count * c.len
    BY <2>1 DEF Pieces, StepOf, SizeOf, PayloadBytes, ReducePieces
  <2>3. max \in Nat \ {0} /\ max * c.len <= MaxXferSize /\ max * c.len \in Nat
    BY <1>0, <2>1, Portion, Zenon
  <2> HIDE DEF max
  <2>4. /\ Cut(Chop(c.offset, c.step, c.count, max), c.offset, c.step, c.count)
        /\ \A p \in Chop(c.offset, c.step, c.count, max) : p.count <= max
    BY <1>0, <2>1, <2>3, ChopCuts, Zenon
  <2>5. ASSUME NEW p \in Chop(c.offset, c.step, c.count, max) PROVE p.count * c.len <= MaxXferSize
    <3>1. p.count \in Nat
      <4>1. p \in PieceType
        BY <2>4, Zenon DEF Cut, Placing
      <4>2. QED
        BY <4>1 DEF PieceType
    <3>2. p.count <= max
      BY <2>4, Zenon
    <3>3. max \in Nat /\ c.len \in Nat
      BY <1>0, <2>1, <2>3
    <3>4. p.count * c.len <= max * c.len
      BY <3>1, <3>2, <3>3, Times
    <3>5. p.count * c.len \in Int
      BY <3>1, <3>3
    <3> DEFINE u == p.count * c.len
               v == max * c.len
    <3>6. u \in Int /\ v \in Nat /\ u <= v /\ v <= MaxXferSize
      BY <2>3, <3>4, <3>5, Zenon
    <3> HIDE DEF u, v
    <3>7. u <= MaxXferSize
      BY <1>0, <3>6
    <3>8. QED
      BY <3>7, Zenon DEF u
  <2>6. QED
    BY <1>0, <2>1, <2>2, <2>4, <2>5, Zenon
<1>7. QED
  <2>1. ASSUME c \in [kind : {"rdma", "write"}, offset : Nat, len : Nat \ {0}]
        PROVE  \/ c \in [kind : {"rdma"}, offset : Nat, len : Nat \ {0}]
               \/ c \in [kind : {"write"}, offset : Nat, len : Nat \ {0}]
    BY <2>1
  <2>2. QED
    BY <1>1, <1>2, <1>3, <1>4, <1>5, <1>6, <2>1, Zenon DEF Calls
-----------------------------------------------------------------------------
(* What one transfer has sent and stored, given the calls md it has made,  *)
(* its messages ms, what is placed and the number n in flight.             *)

Message(x, k, p) == [xfer |-> x, call |-> k, piece |-> p]

Element(c, k, e) == <<c.offset + e * StepOf(c), k, e>>

StoredAs(c, k, p) == {<<p.offset + i * StepOf(c), k, p.first + i>> : i \in 0 .. p.count - 1}

ExpectedAs(c, k) == {Element(c, k, i) : i \in 0 .. SizeOf(c) - 1}

StoredIn(md, m) == StoredAs(md[m.call], m.call, m.piece)

KnownMessages(x, md, ms) == \A m \in ms : \E k \in 1 .. Len(md) : \E p \in Pieces(md[k]) : m = Message(x, k, p)

NothingMissing(md, ms, pl) ==
  \A t : t \in pl \/ (\E m \in ms : t \in StoredIn(md, m)) <=>
           \E k \in 1 .. Len(md) : t \in ExpectedAs(md[k], k)

NothingTwice(md, ms, pl) ==
  \A m \in ms : /\ StoredIn(md, m) \cap pl = {}
                /\ \A o \in ms : o # m => StoredIn(md, o) \cap StoredIn(md, m) = {}

TransferInv(x, md, ms, pl, n) ==
  /\ md \in Seq(Calls)
  /\ KnownMessages(x, md, ms)
  /\ IsFiniteSet(ms) /\ n = Cardinality(ms)
  /\ NothingMissing(md, ms, pl)
  /\ NothingTwice(md, ms, pl)

\* A message stores the elements of its piece where the call wants them.
LEMMA StoredElements ==
  ASSUME NEW c \in Calls, NEW k, NEW p \in Pieces(c)
  PROVE  /\ p.first \in Nat /\ p.count \in Nat \ {0} /\ p.first + p.count <= SizeOf(c)
         /\ \A t : t \in StoredAs(c, k, p) <=>
                    \E e \in p.first .. p.first + p.count - 1 : t = Element(c, k, e)
<1>1. /\ c.offset \in Nat /\ StepOf(c) \in Int /\ SizeOf(c) \in Nat
      /\ p \in PieceType /\ p.first + p.count <= SizeOf(c) /\ p.offset = c.offset + p.first * StepOf(c)
  BY CallCut, Zenon DEF Cut, Placing
<1>2. p.first \in Nat /\ p.count \in Nat \ {0}
  BY <1>1 DEF PieceType
<1> DEFINE step == StepOf(c)
           f == p.first
           n == p.count
           base == c.offset
<1>3. ASSUME NEW i \in 0 .. n - 1
      PROVE  /\ f + i \in f .. f + n - 1
             /\ p.offset + i * step = base + (f + i) * step
  <2>1. f + i \in f .. f + n - 1
    BY <1>2
  <2>2. i \in Int /\ f \in Int /\ step \in Int /\ base \in Int
    BY <1>1, <1>2
  <2> HIDE DEF step, f, base
  <2>3. (base + f * step) + i * step = base + (f + i) * step
    BY <2>2
  <2>4. p.offset = base + f * step
    BY <1>1, Zenon DEF step, f, base
  <2>5. QED
    BY <2>1, <2>3, <2>4, Zenon
<1>4. ASSUME NEW i \in 0 .. n - 1 PROVE <<p.offset + i * step, k, f + i>> = Element(c, k, f + i)
  BY <1>3, Zenon DEF Element
<1>5. ASSUME NEW e \in f .. f + n - 1 PROVE Element(c, k, e) \in StoredAs(c, k, p)
  <2>1. e - f \in 0 .. n - 1 /\ f + (e - f) = e
    BY <1>2
  <2>2. p.offset + (e - f) * step = base + (f + (e - f)) * step
    BY <1>3, <2>1, Zenon
  <2>3. Element(c, k, e) = <<p.offset + (e - f) * step, k, f + (e - f)>>
    BY <2>1, <2>2, Zenon DEF Element
  <2>4. QED
    BY <2>1, <2>3, Zenon DEF StoredAs
<1>6. ASSUME NEW t \in StoredAs(c, k, p) PROVE \E e \in f .. f + n - 1 : t = Element(c, k, e)
  <2>1. PICK i \in 0 .. n - 1 : t = <<p.offset + i * step, k, f + i>>
    BY <1>6, Zenon DEF StoredAs
  <2>2. f + i \in f .. f + n - 1 /\ t = Element(c, k, f + i)
    BY <1>3, <1>4, <2>1, Zenon
  <2>3. QED
    BY <2>2, Zenon
<1>7. QED
  BY <1>1, <1>2, <1>5, <1>6, Zenon

LEMMA ElementsDiffer ==
  ASSUME NEW c, NEW d, NEW k, NEW l, NEW e, NEW f, Element(c, k, e) = Element(d, l, f)
  PROVE  k = l /\ e = f
BY DEF Element

\* The pieces of a call are finitely many.
LEMMA PiecesFinite ==
  ASSUME NEW c \in Calls
  PROVE  IsFiniteSet(Pieces(c))
<1> DEFINE n == SizeOf(c)
           F == [p \in Pieces(c) |-> p.first]
<1>1. n \in Nat
  BY CallCut, Zenon
<1>2. ASSUME NEW p \in Pieces(c)
      PROVE  p.first \in Nat /\ p.count \in Nat \ {0} /\ p.first + p.count <= n /\ p.first \in 0 .. n
  <2>1. p.first \in Nat /\ p.count \in Nat \ {0} /\ p.first + p.count <= n
    BY StoredElements, Zenon
  <2>2. p.first \in 0 .. n
    BY <1>1, <2>1
  <2>3. QED
    BY <2>1, <2>2, Zenon
<1>3. F \in Injection(Pieces(c), 0 .. n)
  <2>1. ASSUME NEW p \in Pieces(c), NEW q \in Pieces(c), F[p] = F[q] PROVE p = q
    <3>1. p.first = q.first
      BY <2>1, Zenon
    <3>2. p # q => p.first + p.count <= q.first \/ q.first + q.count <= p.first
      BY CallCut, Zenon DEF Cut, Apart
    <3>3. ~(p.first + p.count <= q.first) /\ ~(q.first + q.count <= p.first)
      BY <1>2, <3>1
    <3>4. QED
      BY <3>2, <3>3, Zenon
  <2>2. F \in [Pieces(c) -> 0 .. n]
    BY <1>2, Zenon
  <2>3. QED
    BY <2>1, <2>2, Zenon DEF Injection, IsInjective
<1>4. IsFiniteSet(0 .. n)
  BY <1>1, FS_Interval
<1>5. QED
  BY <1>3, <1>4, FS_Injection, Zenon

\* Together the messages of a call store what is expected of it, once.
LEMMA CallStored ==
  ASSUME NEW c \in Calls, NEW k
  PROVE  /\ \A t : t \in ExpectedAs(c, k) <=> \E p \in Pieces(c) : t \in StoredAs(c, k, p)
         /\ \A p, q \in Pieces(c) : p # q => StoredAs(c, k, p) \cap StoredAs(c, k, q) = {}
<1>0. SizeOf(c) \in Nat /\ Apart(Pieces(c)) /\ Covering(Pieces(c), SizeOf(c))
  BY CallCut, Zenon DEF Cut
<1>1. ASSUME NEW p \in Pieces(c), NEW t \in StoredAs(c, k, p) PROVE t \in ExpectedAs(c, k)
  <2>1. PICK e \in p.first .. p.first + p.count - 1 : t = Element(c, k, e)
    <3>1. \E e \in p.first .. p.first + p.count - 1 : t = Element(c, k, e)
      BY <1>1, StoredElements
    <3>2. QED
      BY <3>1, Zenon
  <2>2. p.first \in Nat /\ p.count \in Nat /\ p.first + p.count <= SizeOf(c)
    BY StoredElements
  <2>3. e \in 0 .. SizeOf(c) - 1
    BY <1>0, <2>2
  <2>4. QED
    BY <2>1, <2>3, Zenon DEF ExpectedAs
<1>2. ASSUME NEW t \in ExpectedAs(c, k) PROVE \E p \in Pieces(c) : t \in StoredAs(c, k, p)
  <2>1. PICK e \in 0 .. SizeOf(c) - 1 : t = Element(c, k, e)
    BY <1>2, Zenon DEF ExpectedAs
  <2>2. PICK p \in Pieces(c) : p.first <= e /\ e < p.first + p.count
    BY <1>0, <2>1, Zenon DEF Covering
  <2>3. p.first \in Nat /\ p.count \in Nat
    BY StoredElements
  <2>4. e \in p.first .. p.first + p.count - 1
    BY <2>1, <2>2, <2>3
  <2>5. t \in StoredAs(c, k, p)
    BY <2>1, <2>4, StoredElements, Zenon
  <2>6. QED
    BY <2>5, Zenon
<1>3. ASSUME NEW p \in Pieces(c), NEW q \in Pieces(c), p # q,
             NEW t \in StoredAs(c, k, p), t \in StoredAs(c, k, q)
      PROVE  FALSE
  <2>1. PICK e \in p.first .. p.first + p.count - 1 : t = Element(c, k, e)
    <3>1. \E e \in p.first .. p.first + p.count - 1 : t = Element(c, k, e)
      BY <1>3, StoredElements
    <3>2. QED
      BY <3>1, Zenon
  <2>2. PICK f \in q.first .. q.first + q.count - 1 : t = Element(c, k, f)
    <3>1. \E f \in q.first .. q.first + q.count - 1 : t = Element(c, k, f)
      BY <1>3, StoredElements
    <3>2. QED
      BY <3>1, Zenon
  <2>3. e = f
    <3>1. Element(c, k, e) = Element(c, k, f)
      BY <2>1, <2>2, Zenon
    <3>2. QED
      BY <3>1, ElementsDiffer
  <2>4. p.first + p.count <= q.first \/ q.first + q.count <= p.first
    BY <1>0, <1>3, Zenon DEF Apart
  <2>5. p.first \in Nat /\ p.count \in Nat /\ q.first \in Nat /\ q.count \in Nat
    BY StoredElements
  <2>6. QED
    BY <2>1, <2>2, <2>3, <2>4, <2>5
<1>4. QED
  BY <1>1, <1>2, <1>3, Zenon

\* What a message of call k stores is marked as call k.
LEMMA StoredMarked ==
  ASSUME NEW c, NEW k, NEW p, NEW t \in StoredAs(c, k, p)
  PROVE  t[2] = k
BY DEF StoredAs

LEMMA ExpectedMarked ==
  ASSUME NEW c, NEW k, NEW t \in ExpectedAs(c, k)
  PROVE  t[2] = k
BY DEF ExpectedAs, Element

LEMMA AppendedCalls ==
  ASSUME NEW md \in Seq(Calls), NEW c \in Calls
  PROVE  /\ Append(md, c) \in Seq(Calls) /\ Len(Append(md, c)) = Len(md) + 1
         /\ Len(md) \in Nat
         /\ \A k \in 1 .. Len(md) : Append(md, c)[k] = md[k] /\ k # Len(md) + 1
         /\ Append(md, c)[Len(md) + 1] = c
         /\ 1 .. Len(Append(md, c)) = (1 .. Len(md)) \cup {Len(md) + 1}
<1>1. /\ Append(md, c) \in Seq(Calls) /\ Len(Append(md, c)) = Len(md) + 1 /\ Len(md) \in Nat
      /\ Append(md, c)[Len(md) + 1] = c
  OBVIOUS
<1>2. \A k \in 1 .. Len(md) : Append(md, c)[k] = md[k] /\ k # Len(md) + 1
  OBVIOUS
<1>3. 1 .. Len(md) + 1 = (1 .. Len(md)) \cup {Len(md) + 1}
  BY <1>1
<1>4. QED
  BY <1>1, <1>2, <1>3, Zenon

\* A do_remote_* call adds its messages.
LEMMA CallAdded ==
  ASSUME NEW x, NEW md, NEW ms, NEW pl, NEW n, TransferInv(x, md, ms, pl, n), NEW c \in Calls
  PROVE  TransferInv(x, Append(md, c), ms \cup {Message(x, Len(md) + 1, p) : p \in Pieces(c)}, pl,
                     n + Cardinality(Pieces(c)))
<1> DEFINE md1 == Append(md, c)
           k1 == Len(md) + 1
           new == {Message(x, k1, p) : p \in Pieces(c)}
           ms1 == ms \cup new
<1>0. /\ md \in Seq(Calls) /\ KnownMessages(x, md, ms) /\ IsFiniteSet(ms) /\ n = Cardinality(ms)
      /\ NothingMissing(md, ms, pl) /\ NothingTwice(md, ms, pl)
  BY Zenon DEF TransferInv
<1>1. /\ md1 \in Seq(Calls) /\ Len(md1) = k1 /\ md1[k1] = c
      /\ \A k \in 1 .. Len(md) : md1[k] = md[k] /\ k # k1
      /\ 1 .. Len(md1) = (1 .. Len(md)) \cup {k1}
  BY <1>0, AppendedCalls, Zenon
<1> HIDE DEF md1, k1
<1>2. ASSUME NEW m \in ms
      PROVE  m.call \in 1 .. Len(md) /\ StoredIn(md1, m) = StoredIn(md, m) /\ m.call # k1
  <2>1. PICK k \in 1 .. Len(md) : \E p \in Pieces(md[k]) : m = Message(x, k, p)
    BY <1>0, Zenon DEF KnownMessages
  <2>2. m.call = k
    BY <2>1 DEF Message
  <2>3. QED
    BY <1>1, <2>2, Zenon DEF StoredIn
<1>3. ASSUME NEW p \in Pieces(c)
      PROVE  /\ StoredIn(md1, Message(x, k1, p)) = StoredAs(c, k1, p)
             /\ Message(x, k1, p).call = k1 /\ Message(x, k1, p).piece = p
  <2>1. Message(x, k1, p).call = k1 /\ Message(x, k1, p).piece = p
    BY DEF Message
  <2>2. QED
    BY <1>1, <2>1, Zenon DEF StoredIn
<1>4. KnownMessages(x, md1, ms1)
  <2>1. ASSUME NEW m \in ms PROVE \E k \in 1 .. Len(md1) : \E p \in Pieces(md1[k]) : m = Message(x, k, p)
    BY <1>0, <1>1, Zenon DEF KnownMessages
  <2>2. ASSUME NEW m \in new
        PROVE  \E k \in 1 .. Len(md1) : \E q \in Pieces(md1[k]) : m = Message(x, k, q)
    <3>1. PICK p \in Pieces(c) : m = Message(x, k1, p)
      BY Zenon
    <3>2. k1 \in 1 .. Len(md1) /\ p \in Pieces(md1[k1])
      BY <1>1, Zenon
    <3>3. QED
      BY <3>1, <3>2, Zenon
  <2> HIDE DEF new
  <2>3. QED
    BY <2>1, <2>2, Zenon DEF KnownMessages
<1>5. IsFiniteSet(new) /\ Cardinality(new) = Cardinality(Pieces(c))
  <2> DEFINE F == [p \in Pieces(c) |-> Message(x, k1, p)]
  <2>1. ASSUME NEW p \in Pieces(c), NEW q \in Pieces(c), F[p] = F[q] PROVE p = q
    BY <1>3, <2>1, Zenon
  <2>2. F \in [Pieces(c) -> new] /\ \A m \in new : \E p \in Pieces(c) : F[p] = m
    BY Zenon
  <2>3. DOMAIN F = Pieces(c)
    BY Zenon
  <2> HIDE DEF F, new
  <2>4. F \in Injection(Pieces(c), new)
    BY <2>1, <2>2, <2>3, Zenon DEF Injection, IsInjective
  <2>5. F \in Surjection(Pieces(c), new)
    BY <2>2, Zenon DEF Surjection
  <2>6. ExistsBijection(Pieces(c), new)
    BY <2>4, <2>5, Zenon DEF ExistsBijection, Bijection
  <2>7. QED
    BY <2>6, PiecesFinite, FS_Bijection, Zenon
<1>6. ms \cap new = {}
  BY <1>2, <1>3, Zenon
<1>7. IsFiniteSet(ms1) /\ n + Cardinality(Pieces(c)) = Cardinality(ms1)
  <2> HIDE DEF new
  <2>1. /\ IsFiniteSet(ms \cup new)
        /\ Cardinality(ms \cup new) = Cardinality(ms) + Cardinality(new) - Cardinality(ms \cap new)
    BY <1>0, <1>5, FS_Union, Zenon
  <2>2. Cardinality(ms \cap new) = 0
    BY <1>6, FS_EmptySet, Zenon
  <2>3. Cardinality(ms) \in Nat /\ Cardinality(new) \in Nat
    BY <1>0, <1>5, FS_CardinalityType, Zenon
  <2>4. Cardinality(ms) + Cardinality(new) - 0 = Cardinality(ms) + Cardinality(new)
    BY <2>3
  <2>5. QED
    BY <1>0, <1>5, <2>1, <2>2, <2>4, Zenon
<1>8. NothingMissing(md1, ms1, pl)
  <2>1. ASSUME NEW t, NEW m \in new, t \in StoredIn(md1, m) PROVE t \in ExpectedAs(md1[k1], k1)
    <3>1. PICK p \in Pieces(c) : m = Message(x, k1, p)
      BY Zenon
    <3>2. t \in StoredAs(c, k1, p)
      BY <1>3, <2>1, <3>1, Zenon
    <3>3. t \in ExpectedAs(c, k1)
      BY <3>2, CallStored, Zenon
    <3>4. QED
      BY <1>1, <3>3, Zenon
  <2>2. ASSUME NEW t, t \in ExpectedAs(md1[k1], k1) PROVE \E m \in new : t \in StoredIn(md1, m)
    <3>1. t \in ExpectedAs(c, k1)
      BY <1>1, <2>2, Zenon
    <3>2. PICK p \in Pieces(c) : t \in StoredAs(c, k1, p)
      BY <3>1, CallStored, Zenon
    <3>3. t \in StoredIn(md1, Message(x, k1, p)) /\ Message(x, k1, p) \in new
      BY <1>3, <3>2, Zenon
    <3> HIDE DEF new
    <3>4. QED
      BY <3>3, Zenon
  <2>3. ASSUME NEW t PROVE t \in pl \/ (\E m \in ms : t \in StoredIn(md1, m)) <=>
                             \E k \in 1 .. Len(md) : t \in ExpectedAs(md1[k], k)
    <3>1. (\E m \in ms : t \in StoredIn(md1, m)) <=> (\E m \in ms : t \in StoredIn(md, m))
      BY <1>2, Zenon
    <3>2. (\E k \in 1 .. Len(md) : t \in ExpectedAs(md1[k], k)) <=>
            (\E k \in 1 .. Len(md) : t \in ExpectedAs(md[k], k))
      BY <1>1, Zenon
    <3>3. QED
      BY <1>0, <3>1, <3>2, Zenon DEF NothingMissing
  <2> HIDE DEF new
  <2>4. ASSUME NEW t
        PROVE  t \in pl \/ (\E m \in ms1 : t \in StoredIn(md1, m)) <=>
                 \E k \in 1 .. Len(md1) : t \in ExpectedAs(md1[k], k)
    <3>1. (\E m \in ms1 : t \in StoredIn(md1, m)) <=>
            (\E m \in ms : t \in StoredIn(md1, m)) \/ (\E m \in new : t \in StoredIn(md1, m))
      BY Zenon
    <3>2. (\E k \in 1 .. Len(md1) : t \in ExpectedAs(md1[k], k)) <=>
            (\E k \in 1 .. Len(md) : t \in ExpectedAs(md1[k], k)) \/ t \in ExpectedAs(md1[k1], k1)
      BY <1>1, Zenon
    <3>3. QED
      BY <2>1, <2>2, <2>3, <3>1, <3>2, Zenon
  <2>5. QED
    BY <2>4, Zenon DEF NothingMissing
<1>9. NothingTwice(md1, ms1, pl)
  <2>1. ASSUME NEW t \in pl PROVE t[2] # k1
    <3>1. PICK k \in 1 .. Len(md) : t \in ExpectedAs(md[k], k)
      BY <1>0, <2>1, Zenon DEF NothingMissing
    <3>2. t[2] = k
      BY <3>1, ExpectedMarked, Zenon
    <3>3. QED
      BY <1>1, <3>2, Zenon
  <2>2. ASSUME NEW m \in ms, NEW t \in StoredIn(md1, m) PROVE t[2] # k1
    BY <1>2, <2>2, StoredMarked, Zenon DEF StoredIn
  <2>3. ASSUME NEW m \in new, NEW t \in StoredIn(md1, m) PROVE t[2] = k1
    <3>1. PICK p \in Pieces(c) : m = Message(x, k1, p)
      BY Zenon
    <3>2. t \in StoredAs(c, k1, p)
      BY <1>3, <2>3, <3>1, Zenon
    <3>3. QED
      BY <3>2, StoredMarked, Zenon
  <2>4. ASSUME NEW m \in ms, NEW o \in ms, o # m PROVE StoredIn(md1, o) \cap StoredIn(md1, m) = {}
    BY <1>0, <1>2, <2>4, Zenon DEF NothingTwice
  <2>5. ASSUME NEW m \in new, NEW o \in new, o # m PROVE StoredIn(md1, o) \cap StoredIn(md1, m) = {}
    <3>1. PICK p \in Pieces(c) : m = Message(x, k1, p)
      BY Zenon
    <3>2. PICK q \in Pieces(c) : o = Message(x, k1, q)
      BY Zenon
    <3>3. q # p
      BY <2>5, <3>1, <3>2, Zenon
    <3>4. StoredAs(c, k1, q) \cap StoredAs(c, k1, p) = {}
      BY <3>3, CallStored, Zenon
    <3>5. QED
      BY <1>3, <3>1, <3>2, <3>4, Zenon
  <2>6. ASSUME NEW m \in ms PROVE StoredIn(md1, m) \cap pl = {}
    BY <1>0, <1>2, Zenon DEF NothingTwice
  <2> HIDE DEF new
  <2>7. QED
    BY <2>1, <2>2, <2>3, <2>4, <2>5, <2>6, Zenon DEF NothingTwice
<1>10. QED
  BY <1>1, <1>4, <1>7, <1>8, <1>9, Zenon DEF TransferInv, md1, k1

\* The handler of a message moves its elements to their place.
LEMMA MessageHandled ==
  ASSUME NEW x, NEW md, NEW ms, NEW pl, NEW n, TransferInv(x, md, ms, pl, n), NEW m \in ms
  PROVE  TransferInv(x, md, ms \ {m}, pl \cup StoredIn(md, m), n - 1)
<1>0. /\ md \in Seq(Calls) /\ KnownMessages(x, md, ms) /\ IsFiniteSet(ms) /\ n = Cardinality(ms)
      /\ NothingMissing(md, ms, pl) /\ NothingTwice(md, ms, pl)
  BY Zenon DEF TransferInv
<1>1. KnownMessages(x, md, ms \ {m})
  BY <1>0, Zenon DEF KnownMessages
<1>2. IsFiniteSet(ms \ {m}) /\ Cardinality(ms \ {m}) = n - 1
  BY <1>0, FS_RemoveElement, Zenon
<1>3. NothingMissing(md, ms \ {m}, pl \cup StoredIn(md, m))
  BY <1>0, Zenon DEF NothingMissing
<1>4. NothingTwice(md, ms \ {m}, pl \cup StoredIn(md, m))
  BY <1>0, Zenon DEF NothingTwice
<1>5. QED
  BY <1>0, <1>1, <1>2, <1>3, <1>4, Zenon DEF TransferInv
-----------------------------------------------------------------------------
(* The transfers.                                                          *)

Of(ms, x) == {m \in ms : m.xfer = x}

DataInv ==
  /\ calls \in [Transfer -> Seq(Calls)]
  /\ DOMAIN made = Transfer /\ DOMAIN placed = Transfer /\ DOMAIN in_flight = Transfer
  /\ \A m \in messages : m.xfer \in Transfer
  /\ \A x \in Transfer : TransferInv(x, made[x], Of(messages, x), placed[x], in_flight[x])

LEMMA DataInit == Init => DataInv
<1> SUFFICES ASSUME Init PROVE DataInv
  OBVIOUS
<1>1. calls \in [Transfer -> Seq(Calls)]
  <2>1. /\ calls \in [Transfer -> UNION {Plan[x] : x \in Transfer}]
        /\ \A x \in Transfer : calls[x] \in Plan[x]
    BY Zenon DEF Init
  <2>2. \A x \in Transfer : calls[x] \in Seq(Calls)
    BY <2>1, WriteAssumption, Zenon
  <2>3. QED
    BY <2>1, <2>2, Zenon
<1>2. ASSUME NEW x \in Transfer PROVE TransferInv(x, made[x], Of(messages, x), placed[x], in_flight[x])
  <2>1. /\ made[x] = <<>> /\ messages = {} /\ placed[x] = {} /\ in_flight[x] = 0
    BY Zenon DEF Init, FenceInit
  <2>2. Of(messages, x) = {}
    BY <2>1, Zenon DEF Of
  <2>3. IsFiniteSet({}) /\ Cardinality({}) = 0
    BY FS_EmptySet, Zenon
  <2>4. <<>> \in Seq(Calls) /\ 1 .. Len(<<>>) = {}
    OBVIOUS
  <2>5. TransferInv(x, <<>>, {}, {}, 0)
    BY <2>3, <2>4, Zenon DEF TransferInv, KnownMessages, NothingMissing, NothingTwice
  <2>6. QED
    BY <2>1, <2>2, <2>5, Zenon
<1>3. /\ DOMAIN made = Transfer /\ DOMAIN placed = Transfer /\ DOMAIN in_flight = Transfer
      /\ messages = {}
  BY Zenon DEF Init, FenceInit
<1>4. QED
  BY <1>1, <1>2, <1>3, Zenon DEF DataInv

LEMMA DoRemoteStep ==
  ASSUME DataInv, NEW x \in Transfer, DoRemote(x)
  PROVE  DataInv' /\ Cardinality(Pieces(Head(calls[x]))) \in Nat
<1> DEFINE c == Head(calls[x])
           new == {Message(x, Len(made[x]) + 1, p) : p \in Pieces(c)}
<1>0. /\ calls \in [Transfer -> Seq(Calls)]
      /\ DOMAIN made = Transfer /\ DOMAIN placed = Transfer /\ DOMAIN in_flight = Transfer
      /\ \A m \in messages : m.xfer \in Transfer
      /\ \A y \in Transfer : TransferInv(y, made[y], Of(messages, y), placed[y], in_flight[y])
  BY Zenon DEF DataInv
<1>1. /\ calls[x] # <<>> /\ SendWrites(x, Cardinality(Pieces(c)))
      /\ messages' = messages \cup new
      /\ made' = [made EXCEPT ![x] = Append(@, c)]
      /\ calls' = [calls EXCEPT ![x] = Tail(@)]
      /\ placed' = placed
  BY Zenon DEF DoRemote, Message
<1>2. c \in Calls /\ Tail(calls[x]) \in Seq(Calls)
  <2>1. calls[x] \in Seq(Calls)
    BY <1>0, Zenon
  <2>2. QED
    BY <1>1, <2>1
<1>3. Cardinality(Pieces(c)) \in Nat
  BY <1>2, PiecesFinite, FS_CardinalityType, Zenon
<1>4. in_flight' = [in_flight EXCEPT ![x] = @ + Cardinality(Pieces(c))]
  BY <1>1, Zenon DEF SendWrites
<1> HIDE DEF c
<1>5. calls' \in [Transfer -> Seq(Calls)]
  BY <1>0, <1>1, <1>2, Zenon
<1>6. \A m \in new : m.xfer = x
  BY DEF Message
<1> HIDE DEF new
<1>7. Of(messages', x) = Of(messages, x) \cup new
  BY <1>1, <1>6, Zenon DEF Of
<1>8. ASSUME NEW y \in Transfer, y # x PROVE Of(messages', y) = Of(messages, y)
  BY <1>1, <1>6, <1>8, Zenon DEF Of
<1>9. ASSUME NEW y \in Transfer
      PROVE  TransferInv(y, made'[y], Of(messages', y), placed'[y], in_flight'[y])
  <2>1. CASE y = x
    <3>1. made'[x] = Append(made[x], c) /\ in_flight'[x] = in_flight[x] + Cardinality(Pieces(c)) /\ placed'[x] = placed[x]
      BY <1>0, <1>1, <1>4, Zenon
    <3>2. TransferInv(x, Append(made[x], c), Of(messages, x) \cup new, placed[x],
                      in_flight[x] + Cardinality(Pieces(c)))
      BY <1>0, <1>2, CallAdded, Zenon DEF new
    <3>3. QED
      BY <1>7, <2>1, <3>1, <3>2, Zenon
  <2>2. CASE y # x
    <3>1. made'[y] = made[y] /\ in_flight'[y] = in_flight[y] /\ placed'[y] = placed[y]
      BY <1>0, <1>1, <1>4, <2>2, Zenon
    <3>2. QED
      BY <1>0, <1>8, <2>2, <3>1, Zenon
  <2>3. QED
    BY <2>1, <2>2, Zenon
<1>10. /\ DOMAIN made' = Transfer /\ DOMAIN placed' = Transfer /\ DOMAIN in_flight' = Transfer
       /\ \A m \in messages' : m.xfer \in Transfer
  BY <1>0, <1>1, <1>4, <1>6, Zenon
<1>11. QED
  BY <1>3, <1>5, <1>9, <1>10, Zenon DEF DataInv, c

LEMMA HandleWriteStep ==
  ASSUME DataInv, NEW m \in messages, HandleWrite(m)
  PROVE  DataInv'
<1> DEFINE x == m.xfer
<1>0. /\ calls \in [Transfer -> Seq(Calls)] /\ x \in Transfer
      /\ DOMAIN made = Transfer /\ DOMAIN placed = Transfer /\ DOMAIN in_flight = Transfer
      /\ \A o \in messages : o.xfer \in Transfer
      /\ \A y \in Transfer : TransferInv(y, made[y], Of(messages, y), placed[y], in_flight[y])
  BY Zenon DEF DataInv
<1>1. /\ messages' = messages \ {m} /\ calls' = calls /\ made' = made
      /\ placed' = [placed EXCEPT ![x] = @ \cup Stored(m)]
      /\ in_flight' = [in_flight EXCEPT ![x] = @ - 1]
  BY Zenon DEF HandleWrite, ApplyWrite
<1>2. Stored(m) = StoredIn(made[x], m)
  BY Zenon DEF Stored, StoredIn, StoredAs
<1>3. Of(messages', x) = Of(messages, x) \ {m} /\ m \in Of(messages, x)
  BY <1>1, Zenon DEF Of
<1>4. ASSUME NEW y \in Transfer, y # x PROVE Of(messages', y) = Of(messages, y)
  BY <1>1, <1>4, Zenon DEF Of
<1> HIDE DEF x
<1>5. ASSUME NEW y \in Transfer
      PROVE  TransferInv(y, made'[y], Of(messages', y), placed'[y], in_flight'[y])
  <2>1. CASE y = x
    <3>1. placed'[x] = placed[x] \cup StoredIn(made[x], m) /\ in_flight'[x] = in_flight[x] - 1
      BY <1>0, <1>1, <1>2, Zenon
    <3>2. TransferInv(x, made[x], Of(messages, x) \ {m}, placed[x] \cup StoredIn(made[x], m), in_flight[x] - 1)
      BY <1>0, <1>3, MessageHandled, Zenon
    <3>3. QED
      BY <1>1, <1>3, <2>1, <3>1, <3>2, Zenon
  <2>2. CASE y # x
    <3>1. in_flight'[y] = in_flight[y] /\ placed'[y] = placed[y]
      BY <1>0, <1>1, <2>2, Zenon
    <3>2. QED
      BY <1>0, <1>1, <1>4, <2>2, <3>1, Zenon
  <2>3. QED
    BY <2>1, <2>2, Zenon
<1>6. QED
  BY <1>0, <1>1, <1>5, Zenon DEF DataInv

LEMMA QuietDataStep ==
  ASSUME DataInv, UNCHANGED <<calls, made, messages, placed, in_flight>>
  PROVE  DataInv'
BY Zenon DEF DataInv, Of

\* Every step of the transfers is a step of the counting, or leaves it alone.
LEMMA DataStep ==
  ASSUME DataInv, [Next]_vars
  PROVE  DataInv' /\ [FenceNext]_fence_vars
<1>1. ASSUME NEW x \in Transfer, DoRemote(x) PROVE DataInv' /\ FenceNext
  <2>1. DataInv' /\ Cardinality(Pieces(Head(calls[x]))) \in Nat
    BY <1>1, DoRemoteStep, Zenon
  <2>2. SendWrites(x, Cardinality(Pieces(Head(calls[x]))))
    BY <1>1, Zenon DEF DoRemote
  <2>3. QED
    BY <2>1, <2>2, Zenon DEF FenceNext
<1>2. ASSUME NEW x \in Transfer, DoRemoteFence(x) PROVE DataInv' /\ FenceNext
  <2>1. SendFence(x) /\ UNCHANGED <<calls, made, messages, placed, in_flight>>
    BY <1>2, Zenon DEF DoRemoteFence, SendFence
  <2>2. QED
    BY <2>1, QuietDataStep, Zenon DEF FenceNext
<1>3. ASSUME NEW x \in Transfer, Track(x) PROVE DataInv' /\ FenceNext
  <2>1. /\ TrackWrite(x) \/ HandleFence(x) \/ HandleFenceAck(x)
        /\ UNCHANGED <<calls, made, messages, placed, in_flight>>
    BY <1>3, Zenon DEF Track, TrackWrite, HandleFence, HandleFenceAck
  <2>2. QED
    BY <2>1, QuietDataStep, Zenon DEF FenceNext
<1>4. ASSUME NEW m \in messages, HandleWrite(m) PROVE DataInv' /\ FenceNext
  <2>1. ApplyWrite(m.xfer) /\ m.xfer \in Transfer
    BY <1>4, Zenon DEF HandleWrite, DataInv
  <2>2. QED
    BY <1>4, <2>1, HandleWriteStep, Zenon DEF FenceNext
<1>5. CASE UNCHANGED vars
  <2>1. UNCHANGED fence_vars /\ UNCHANGED <<calls, made, messages, placed, in_flight>>
    BY <1>5, Zenon DEF vars, fence_vars
  <2>2. QED
    BY <2>1, QuietDataStep, Zenon
<1>6. CASE Next
  BY <1>1, <1>2, <1>3, <1>4, <1>6, Zenon DEF Next
<1>7. QED
  BY <1>5, <1>6, Zenon

(***************************************************************************)
(* The do_remote_* functions and the handlers count as RemoteWriteFence    *)
(* says: whatever the calls and however they are chopped, the returned     *)
(* numbers are those of the messages sent.                                 *)
(***************************************************************************)
THEOREM TransfersAreCounted == Spec => FenceSpec
<1>1. Init => FenceInit
  BY Zenon DEF Init
<1>2. Spec => []DataInv
  BY DataInit, DataStep, PTL DEF Spec
<1>3. DataInv /\ [Next]_vars => [FenceNext]_fence_vars
  BY DataStep
<1>4. QED
  BY <1>1, <1>2, <1>3, PTL DEF Spec, FenceSpec

(***************************************************************************)
(* do_remote_write, do_remote_serdez and do_remote_reduce cut any call     *)
(* into messages that fit a buffer and do not overlap, and when the fence  *)
(* is acknowledged every element of every call is at its address.          *)
(***************************************************************************)
THEOREM DataArrives == Spec => []TransferRight
<1>1. DataInv /\ FenceInv => TransferRight
  <2> SUFFICES ASSUME DataInv, FenceInv PROVE TransferRight
    OBVIOUS
  <2>0. /\ \A m \in messages : m.xfer \in Transfer
        /\ \A x \in Transfer : TransferInv(x, made[x], Of(messages, x), placed[x], in_flight[x])
    BY Zenon DEF DataInv
  <2>1. \A m : Stored(m) = StoredIn(made[m.xfer], m)
    BY Zenon DEF Stored, StoredIn, StoredAs
  <2>2. PiecesFit
    <3> SUFFICES ASSUME NEW m \in messages
                 PROVE  /\ m.piece.count > 0
                        /\ \/ made[m.xfer][m.call].kind = "rdma"
                           \/ PayloadBytes(made[m.xfer][m.call], m.piece) <= MaxXferSize
                        /\ Stored(m) \cap placed[m.xfer] = {}
                        /\ \A o \in messages : o # m /\ o.xfer = m.xfer => Stored(o) \cap Stored(m) = {}
      BY Zenon DEF PiecesFit
    <3> DEFINE x == m.xfer
               md == made[x]
    <3>1. /\ x \in Transfer /\ md \in Seq(Calls) /\ m \in Of(messages, x)
          /\ KnownMessages(x, md, Of(messages, x)) /\ NothingTwice(md, Of(messages, x), placed[x])
      BY <2>0, Zenon DEF TransferInv, Of
    <3>2. PICK k \in 1 .. Len(md) : \E p \in Pieces(md[k]) : m = Message(x, k, p)
      BY <3>1, Zenon DEF KnownMessages
    <3>3. m.call = k /\ m.piece \in Pieces(md[k])
      BY <3>2 DEF Message
    <3>4. md[k] \in Calls
      BY <3>1, <3>2
    <3>5. m.piece.count > 0
      <4>1. m.piece.count \in Nat \ {0}
        BY <3>3, <3>4, StoredElements, Zenon
      <4>2. QED
        BY <4>1
    <3>6. md[k].kind = "rdma" \/ PayloadBytes(md[k], m.piece) <= MaxXferSize
      BY <3>3, <3>4, CallCut, Zenon
    <3>7. Stored(m) \cap placed[x] = {}
      BY <2>1, <3>1, Zenon DEF NothingTwice
    <3>8. ASSUME NEW o \in messages, o # m, o.xfer = m.xfer PROVE Stored(o) \cap Stored(m) = {}
      <4>1. o \in Of(messages, x)
        BY <3>8, Zenon DEF Of
      <4>2. StoredIn(md, o) \cap StoredIn(md, m) = {}
        BY <3>1, <3>8, <4>1, Zenon DEF NothingTwice
      <4>3. QED
        BY <2>1, <3>8, <4>2, Zenon
    <3>9. QED
      BY <3>3, <3>5, <3>6, <3>7, <3>8, Zenon
  <2>3. DataInPlace
    <3> SUFFICES ASSUME NEW x \in Transfer, fence[x] \in {"acked", "finished"}
                 PROVE  placed[x] = UNION {Expected(x, k) : k \in DOMAIN made[x]}
      BY Zenon DEF DataInPlace
    <3>1. in_flight[x] = 0
      BY FenceAcked, Zenon DEF AckAfterWrites
    <3>2. /\ made[x] \in Seq(Calls) /\ IsFiniteSet(Of(messages, x)) /\ in_flight[x] = Cardinality(Of(messages, x))
          /\ NothingMissing(made[x], Of(messages, x), placed[x])
      BY <2>0, Zenon DEF TransferInv
    <3>3. Of(messages, x) = {}
      BY <3>1, <3>2, FS_EmptySet, Zenon
    <3>4. \A t : t \in placed[x] <=> \E k \in 1 .. Len(made[x]) : t \in ExpectedAs(made[x][k], k)
      BY <3>2, <3>3, Zenon DEF NothingMissing
    <3>5. DOMAIN made[x] = 1 .. Len(made[x])
      BY <3>2
    <3>6. \A k : Expected(x, k) = ExpectedAs(made[x][k], k)
      BY Zenon DEF Expected, ExpectedAs, Element, SizeOf
    <3>7. \A t : t \in placed[x] <=> \E k \in DOMAIN made[x] : t \in Expected(x, k)
      BY <3>4, <3>5, <3>6, Zenon
    <3>8. QED
      BY <3>7, Zenon
  <2>4. QED
    BY <2>2, <2>3, Zenon DEF TransferRight
<1>2. Spec => []DataInv
  BY DataInit, DataStep, PTL DEF Spec
<1>3. QED
  BY <1>1, <1>2, TransfersAreCounted, FenceInvariant, PTL
=============================================================================
