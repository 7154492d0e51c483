-------------------------- MODULE ReceivePathProofs --------------------------
(***************************************************************************)
(* Proofs about the receiving side, for any number of nodes, messages and  *)
(* handler threads.  First the ring of senders: it names each sender that  *)
(* has messages exactly once and therefore never wraps.  Then the chunks   *)
(* of long messages, whose map and outcome LongInv describes; and last     *)
(* both together, up to the handler.                                       *)
(***************************************************************************)
EXTENDS ReceivePath, FiniteSetTheorems, TLAPS

OccupiedBy(o, n) ==
  IF o <= n THEN o .. n - 1 ELSE (o .. Nodes) \cup (0 .. n - 1)

(* Adding at the newest index occupies that slot and no other.             *)
LEMMA OccupiedAdd ==
  ASSUME NEW o \in Slot, NEW n \in Slot, Step(n) # o
  PROVE  /\ Step(n) \in Slot
         /\ OccupiedBy(o, Step(n)) = OccupiedBy(o, n) \cup {n}
         /\ n \notin OccupiedBy(o, n)
         /\ OccupiedBy(o, n) \subseteq Slot
BY IncomingAssumption DEF OccupiedBy, Step, Slot

(* Removing the oldest entry frees its slot and no other.                  *)
LEMMA OccupiedRemove ==
  ASSUME NEW o \in Slot, NEW n \in Slot, o # n
  PROVE  /\ Step(o) \in Slot
         /\ OccupiedBy(Step(o), n) = OccupiedBy(o, n) \ {o}
         /\ o \in OccupiedBy(o, n)
         /\ OccupiedBy(o, n) \subseteq Slot
BY IncomingAssumption DEF OccupiedBy, Step, Slot

(* Outside slot n, f does not name s; outside slot n, f names some sender  *)
(* twice.                                                                  *)
Misses(f, n, s) == \A i \in (0 .. Nodes) \ {n} : f[i] # s
Repeats(f, n) == \E i, j \in (0 .. Nodes) \ {n} : i # j /\ f[i] = f[j]

(* All slots but one cannot name all senders but one without repetition.   *)
LEMMA Pigeons ==
  ASSUME NEW n \in 0 .. Nodes, NEW s \in Sender, NEW f \in [0 .. Nodes -> Sender],
         Misses(f, n, s)
  PROVE  Repeats(f, n)
<1> USE DEF Misses, Repeats
<1> DEFINE A == (0 .. Nodes) \ {n}
           B == Sender \ {s}
           g == [i \in A |-> f[i]]
<1>1. IsFiniteSet(0 .. Nodes) /\ Cardinality(0 .. Nodes) = Nodes + 1
  BY FS_Interval, IncomingAssumption
<1>2. IsFiniteSet(A) /\ Cardinality(A) = Nodes
  <2>1. IsFiniteSet(A) /\ Cardinality(A) = Cardinality(0 .. Nodes) - 1
    BY <1>1, FS_RemoveElement, Zenon
  <2> QED
    BY <1>1, <2>1, IncomingAssumption
<1>3. IsFiniteSet(Sender) /\ Cardinality(Sender) = Nodes
  BY FS_Interval, IncomingAssumption DEF Sender
<1>4. IsFiniteSet(B) /\ Cardinality(B) = Nodes - 1
  BY <1>3, FS_RemoveElement, IncomingAssumption, Zenon
<1>5. g \in [A -> B]
  BY Zenon
<1>6. Cardinality(B) < Cardinality(A)
  BY <1>2, <1>4, IncomingAssumption
<1>7. \A i \in A : g[i] = f[i]
  OBVIOUS
<1>8. \E i, j \in A : i # j /\ g[i] = g[j]
  <2> HIDE DEF A, B, g
  <2> QED
    BY <1>2, <1>4, <1>5, <1>6, FS_PigeonHole
<1> QED
  BY <1>7, <1>8

(***************************************************************************)
(* A ring about to wrap would have Nodes entries, which name as many       *)
(* senders; the sender whose list starts is not among them.                *)
(***************************************************************************)
THEOREM RingNeverFull == RingInv => NeverWraps
<1> SUFFICES ASSUME RingInv, NEW s \in Sender, list[s] = <<>>, Step(todo_newest) = todo_oldest
             PROVE  FALSE
  BY DEF NeverWraps
<1>1. /\ todo_newest \in 0 .. Nodes
      /\ todo_list \in [0 .. Nodes -> Sender]
  BY DEF RingInv, TypeOK, Slot
<1>2. Occupied = (0 .. Nodes) \ {todo_newest}
  <2>1. CASE todo_newest + 1 > Nodes
    BY <1>1, <2>1, IncomingAssumption DEF Occupied, Step
  <2>2. CASE ~(todo_newest + 1 > Nodes)
    BY <1>1, <2>2, IncomingAssumption DEF Occupied, Step
  <2> QED
    BY <2>1, <2>2
<1>3. \A i \in Occupied : todo_list[i] # s
  BY Zenon DEF RingInv, RingNamesLists
<1>4. \E i, j \in Occupied : i # j /\ todo_list[i] = todo_list[j]
  <2> HIDE DEF Occupied
  <2>1. Misses(todo_list, todo_newest, s)
    BY <1>2, <1>3, Zenon DEF Misses
  <2>2. Repeats(todo_list, todo_newest)
    BY <1>1, <2>1, Pigeons, Zenon
  <2> QED
    BY <1>2, <2>2, Zenon DEF Repeats
<1> QED
  BY <1>4, Zenon DEF RingInv, RingNamesOnce
-----------------------------------------------------------------------------
LEMMA SeqFacts ==
  ASSUME NEW S, NEW q \in Seq(S), NEW x \in S
  PROVE  /\ Append(q, x) \in Seq(S) /\ Append(q, x) # <<>>
         /\ q # <<>> => Tail(q) \in Seq(S) /\ Head(q) \in S
BY SMTT(30)

(* Nothing but the ring and the lists matters to the two ring invariants.  *)
LEMMA RingUntouched ==
  ASSUME RingInv, UNCHANGED ring
  PROVE  RingNamesOnce' /\ RingNamesLists'
BY DEF RingInv, RingNamesOnce, RingNamesLists, Occupied, ring

LEMMA AddStep ==
  ASSUME RingInv, NEW m \in Msg, AddIncomingMessage(m)
  PROVE  RingInv'
<1> DEFINE s == SenderOf[m]
<1>0. /\ s \in Sender
      /\ list \in [Sender -> Seq(Msg)] /\ todo_list \in [Slot -> Sender]
      /\ todo_oldest \in Slot /\ todo_newest \in Slot
      /\ list' = [list EXCEPT ![s] = Append(@, m)]
      /\ todo_oldest' = todo_oldest
  BY IncomingAssumption, Zenon DEF RingInv, TypeOK, AddIncomingMessage, AppendMessage
<1>1. /\ Append(list[s], m) \in Seq(Msg) /\ Append(list[s], m) # <<>>
      /\ Append(arrived, m) \in Seq(Msg)
  BY <1>0, SeqFacts, Zenon DEF RingInv, TypeOK
<1>2. CASE list[s] # <<>>
  <2>1. UNCHANGED <<todo_list, todo_newest, pc>>
    BY <1>2, Zenon DEF AddIncomingMessage, AppendMessage
  <2>2. TypeOK'
    BY <1>0, <1>1, <2>1, Zenon DEF RingInv, TypeOK, AddIncomingMessage
  <2>3. RingNamesOnce'
    BY <1>0, <2>1 DEF RingInv, RingNamesOnce, Occupied
  <2>4. \A u \in Sender : list'[u] # <<>> <=> list[u] # <<>>
    BY <1>0, <1>1, <1>2, Zenon
  <2>5. RingNamesLists'
    BY <1>0, <2>1, <2>4, Zenon DEF RingInv, RingNamesLists, Occupied
  <2> QED
    BY <2>2, <2>3, <2>5, Zenon DEF RingInv
<1>3. CASE list[s] = <<>>
  <2>1. /\ todo_list' = [todo_list EXCEPT ![todo_newest] = s]
        /\ todo_newest' = Step(todo_newest)
        /\ pc' = [t \in Thread |-> IF pc[t] = "wait" THEN "get" ELSE pc[t]]
    BY <1>3, Zenon DEF AddIncomingMessage, AppendMessage
  <2>2. Step(todo_newest) # todo_oldest
    BY <1>0, <1>3, RingNeverFull, Zenon DEF NeverWraps
  <2>3. /\ todo_newest' \in Slot
        /\ Occupied' = Occupied \cup {todo_newest}
        /\ todo_newest \notin Occupied
        /\ Occupied \subseteq Slot
    BY <1>0, <2>1, <2>2, OccupiedAdd, Zenon DEF Occupied, OccupiedBy
  <2>4. TypeOK'
    <3>1. pc' \in [Thread -> {"get", "wait", "run", "exited"}]
      BY <2>1, Zenon DEF RingInv, TypeOK
    <3>2. \A t \in Thread : pc'[t] = "run" <=> batch'[t] # <<>>
      BY <2>1, Zenon DEF RingInv, TypeOK, AddIncomingMessage
    <3>3. /\ list' \in [Sender -> Seq(Msg)] /\ todo_list' \in [Slot -> Sender]
          /\ todo_oldest' \in Slot
      BY <1>0, <1>1, <2>1, Zenon
    <3> QED
      BY <1>1, <2>3, <3>1, <3>2, <3>3, Zenon DEF RingInv, TypeOK, AddIncomingMessage
  <2>5. /\ todo_list'[todo_newest] = s
        /\ \A i \in Occupied : todo_list'[i] = todo_list[i]
    BY <1>0, <2>1, <2>3, Zenon
  <2>6. \A i \in Occupied : todo_list[i] # s
    BY <1>0, <1>3, Zenon DEF RingInv, RingNamesLists
  <2>7. RingNamesOnce'
    BY <2>3, <2>5, <2>6 DEF RingInv, RingNamesOnce
  <2>8. RingNamesLists'
    <3>1. \A u \in Sender : list'[u] # <<>> <=> (list[u] # <<>> \/ u = s)
      BY <1>0, <1>1, Zenon
    <3> QED
      BY <2>3, <2>5, <3>1 DEF RingInv, RingNamesLists
  <2> QED
    BY <2>4, <2>7, <2>8 DEF RingInv
<1> QED
  BY <1>2, <1>3

LEMMA BatchStep ==
  ASSUME RingInv, NEW t \in Thread, GetBatch(t)
  PROVE  RingInv'
<1> DEFINE s == todo_list[todo_oldest]
<1>0. /\ list \in [Sender -> Seq(Msg)] /\ todo_list \in [Slot -> Sender]
      /\ todo_oldest \in Slot /\ todo_newest \in Slot
      /\ todo_oldest # todo_newest
      /\ list' = [list EXCEPT ![s] = <<>>]
      /\ todo_oldest' = Step(todo_oldest)
      /\ todo_list' = todo_list /\ todo_newest' = todo_newest
  BY Zenon DEF RingInv, TypeOK, GetBatch, Empty
<1>1. /\ todo_oldest' \in Slot
      /\ Occupied' = Occupied \ {todo_oldest}
      /\ todo_oldest \in Occupied
      /\ Occupied \subseteq Slot
  BY <1>0, OccupiedRemove, Zenon DEF Occupied, OccupiedBy
<1>2. s \in Sender /\ list[s] # <<>> /\ list[s] \in Seq(Msg)
  BY <1>0, <1>1, Zenon DEF RingInv, RingNamesLists
<1>3. TypeOK'
  <2>1. /\ batch' = [batch EXCEPT ![t] = list[s]]
        /\ pc' = [pc EXCEPT ![t] = "run"]
        /\ UNCHANGED <<shutdown_flag, polling, arrived, handled>>
    BY Zenon DEF GetBatch
  <2>2. /\ list' \in [Sender -> Seq(Msg)]
        /\ batch' \in [Thread -> Seq(Msg)]
        /\ pc' \in [Thread -> {"get", "wait", "run", "exited"}]
    BY <1>0, <1>2, <2>1 DEF RingInv, TypeOK
  <2>3. \A u \in Thread : pc'[u] = "run" <=> batch'[u] # <<>>
    BY <1>2, <2>1, Zenon DEF RingInv, TypeOK
  <2> QED
    BY <1>0, <1>1, <2>1, <2>2, <2>3, Zenon DEF RingInv, TypeOK
<1>4. RingNamesOnce'
  BY <1>0, <1>1, Zenon DEF RingInv, RingNamesOnce
<1>5. RingNamesLists'
  <2>1. \A u \in Sender : list'[u] # <<>> <=> (list[u] # <<>> /\ u # s)
    BY <1>0, <1>2, Zenon
  <2>2. \A i \in Occupied : i # todo_oldest => todo_list[i] # s
    BY <1>1, Zenon DEF RingInv, RingNamesOnce
  <2>3. \A u \in Sender : (\E i \in Occupied' : todo_list[i] = u) <=> ((\E i \in Occupied : todo_list[i] = u) /\ u # s)
    BY <1>1, <2>2
  <2> QED
    BY <1>0, <2>1, <2>3, Zenon DEF RingInv, RingNamesLists
<1> QED
  BY <1>3, <1>4, <1>5 DEF RingInv

LEMMA RunStep ==
  ASSUME RingInv, NEW t \in Thread, RunHandler(t)
  PROVE  RingInv'
<1>1. UNCHANGED ring
  BY Zenon DEF RunHandler
<1>2. /\ batch[t] # <<>> /\ batch[t] \in Seq(Msg) /\ handled \in Seq(Msg)
      /\ batch' = [batch EXCEPT ![t] = Tail(batch[t])]
      /\ pc' = [pc EXCEPT ![t] = IF Tail(batch[t]) = <<>> THEN "get" ELSE "run"]
      /\ handled' = Append(handled, Head(batch[t]))
  BY Zenon DEF RingInv, TypeOK, RunHandler
<1>3. Tail(batch[t]) \in Seq(Msg) /\ Head(batch[t]) \in Msg
  BY <1>2
<1>4. handled' \in Seq(Msg)
  BY <1>2, <1>3
<1>5. TypeOK'
  <2>1. /\ batch' \in [Thread -> Seq(Msg)]
        /\ pc' \in [Thread -> {"get", "wait", "run", "exited"}]
    BY <1>2, <1>3 DEF RingInv, TypeOK
  <2>2. \A u \in Thread : pc'[u] = "run" <=> batch'[u] # <<>>
    BY <1>2, <1>3, Zenon DEF RingInv, TypeOK
  <2> QED
    BY <1>1, <1>4, <2>1, <2>2, Zenon DEF RingInv, TypeOK, RunHandler, ring
<1> QED
  BY <1>1, <1>5, RingUntouched, Zenon DEF RingInv

LEMMA QuietStep ==
  ASSUME RingInv,
         \/ \E t \in Thread : GetNothing(t) \/ GetWait(t)
         \/ StopPolling \/ Shutdown \/ UNCHANGED vars
  PROVE  RingInv'
<1>1. UNCHANGED ring
  BY Zenon DEF GetNothing, GetWait, StopPolling, Shutdown, vars
<1>2. TypeOK'
  <2>1. CASE \E t \in Thread : GetNothing(t) \/ GetWait(t)
    BY <2>1, Zenon DEF RingInv, TypeOK, GetNothing, GetWait, ring
  <2>2. CASE StopPolling
    BY <2>2, Zenon DEF RingInv, TypeOK, StopPolling, ring
  <2>3. CASE Shutdown
    BY <2>3 DEF RingInv, TypeOK, Shutdown, ring
  <2>4. CASE UNCHANGED vars
    BY <2>4, Zenon DEF RingInv, TypeOK, vars, ring
  <2> QED
    BY <2>1, <2>2, <2>3, <2>4
<1> QED
  BY <1>1, <1>2, RingUntouched, Zenon DEF RingInv
-----------------------------------------------------------------------------
LEMMA RingInit == Init => RingInv
<1> SUFFICES ASSUME Init PROVE RingInv
  BY Zenon
<1>1. TypeOK
  <2>1. 0 \in Sender /\ 0 \in Slot
    BY IncomingAssumption DEF Slot, Sender
  <2>2. todo_list \in [Slot -> Sender]
    BY <2>1, Zenon DEF Init
  <2>3. \A t \in Thread : pc[t] = "get" /\ batch[t] = <<>>
    BY Zenon DEF Init
  <2>4. /\ list \in [Sender -> Seq(Msg)]
        /\ batch \in [Thread -> Seq(Msg)]
        /\ pc \in [Thread -> {"get", "wait", "run", "exited"}]
        /\ arrived \in Seq(Msg) /\ handled \in Seq(Msg)
    BY DEF Init
  <2> QED
    BY <2>1, <2>2, <2>3, <2>4, Zenon DEF Init, TypeOK
<1>2. Occupied = {}
  BY DEF Init, Occupied
<1> QED
  BY <1>1, <1>2 DEF Init, RingInv, RingNamesOnce, RingNamesLists

(***************************************************************************)
(* The ring of add_incoming_message and get_messages is exact in every     *)
(* reachable state, whatever the number of nodes, messages and threads.    *)
(***************************************************************************)
THEOREM IncomingRing == Spec => []RingInv
<1>1. Init => RingInv
  BY RingInit, Zenon
<1>2. RingInv /\ [Next]_vars => RingInv'
  BY AddStep, BatchStep, RunStep, QuietStep, Zenon DEF Next, HandlerStep, Finished
<1> QED
  BY <1>1, <1>2, PTL DEF Spec

(* The assertion "should never wrap around" of add_incoming_message holds. *)
THEOREM IncomingNeverWraps == Spec => []NeverWraps
BY IncomingRing, RingNeverFull, PTL
-----------------------------------------------------------------------------
(* Arithmetic of chunks.                                                   *)

LEMMA RoundUp ==
  ASSUME NEW p \in Nat \ {0}, NEW r \in Nat \ {0}
  PROVE  LET q == (p + r - 1) \div r
         IN /\ q \in Nat \ {0}
            /\ (q - 1) * r < p /\ p <= (q - 1) * r + r
BY SMTT(30)

LEMMA Multiples ==
  ASSUME NEW r \in Nat \ {0}, NEW i \in Nat, NEW j \in Nat
  PROVE  /\ i * r \in Nat
         /\ (i + 1) * r = i * r + r
         /\ i <= j => i * r <= j * r
         /\ i * r = j * r => i = j
BY SMTT(30)

(* What the arithmetic of send_long gives: the last chunk is not empty and *)
(* not too large, and the chunks make up the payload.                      *)
LEMMA ChunkFacts ==
  ASSUME NEW m \in LongMsg
  PROVE  /\ Long!Chunks(m) \in Nat \ {0}
         /\ Long!Chunks(m) - 1 \in Long!Indices(m)
         /\ Long!ChunkSize(m, Long!Chunks(m) - 1) \in 1 .. MaxLongReq
         /\ (Long!Chunks(m) - 1) * MaxLongReq + Long!ChunkSize(m, Long!Chunks(m) - 1) = PayloadSize[m]
<1> DEFINE p == PayloadSize[m]
           q == Long!Chunks(m)
           z == (q - 1) * MaxLongReq
<1>1. p \in Nat \ {0} /\ MaxLongReq \in Nat \ {0}
  BY PathAssumption, Zenon
<1>2. q = (p + MaxLongReq - 1) \div MaxLongReq
  BY Zenon DEF Long!Chunks
<1>3. q \in Nat \ {0} /\ z < p /\ p <= z + MaxLongReq
  BY <1>1, <1>2, RoundUp, Zenon
<1>4. q - 1 \in Nat /\ q - 1 \in 0 .. q - 1
  BY <1>3
<1>5. z \in Nat
  BY <1>1, <1>4, Multiples, Zenon
<1>6. Long!ChunkSize(m, q - 1) = p - z
  BY <1>3 DEF Long!ChunkSize
<1>7. p - z \in 1 .. MaxLongReq /\ z + (p - z) = p
  <2> HIDE DEF z, p
  <2> QED
    BY <1>1, <1>3, <1>5
<1> QED
  BY <1>3, <1>4, <1>6, <1>7, Zenon DEF Long!Indices

LEMMA ChunkOf ==
  ASSUME NEW m \in LongMsg, NEW i \in Long!Indices(m)
  PROVE  /\ i \in Nat /\ i * MaxLongReq \in Nat /\ DestPtr[m] \in Nat
         /\ DestPtr[m] + i * MaxLongReq \in Nat
         /\ Long!ChunkSize(m, i) \in 1 .. MaxLongReq
         /\ i # Long!Chunks(m) - 1 => Long!ChunkSize(m, i) = MaxLongReq
<1>1. Long!Chunks(m) \in Nat \ {0} /\ i \in 0 .. Long!Chunks(m) - 1
  BY ChunkFacts, Zenon DEF Long!Indices
<1>2. i \in Nat /\ MaxLongReq \in Nat \ {0} /\ DestPtr[m] \in Nat
  BY <1>1, PathAssumption
<1>3. i * MaxLongReq \in Nat
  BY <1>2, Multiples, Zenon
<1>4. DestPtr[m] + i * MaxLongReq \in Nat
  <2> DEFINE z == i * MaxLongReq
  <2> HIDE DEF z
  <2>1. z \in Nat
    BY <1>3 DEF z
  <2>2. DestPtr[m] + z \in Nat
    BY <2>1, <1>2
  <2> QED
    BY <2>2, Zenon DEF z
<1>5. i # Long!Chunks(m) - 1 => Long!ChunkSize(m, i) = MaxLongReq /\ MaxLongReq \in 1 .. MaxLongReq
  <2>1. i # Long!Chunks(m) - 1 => i < Long!Chunks(m) - 1
    BY <1>1
  <2>2. MaxLongReq \in 1 .. MaxLongReq
    BY <1>2
  <2> QED
    BY <2>1, <2>2, Zenon DEF Long!ChunkSize
<1> QED
  BY <1>2, <1>3, <1>4, <1>5, ChunkFacts, Zenon

(* A chunk says which it is.                                               *)
LEMMA ChunkFields ==
  ASSUME NEW m, NEW id, NEW i
  PROVE  /\ Long!Chunk(m, id, i).msg = m /\ Long!Chunk(m, id, i).id = id
         /\ Long!Chunk(m, id, i).chunks = Long!Chunks(m)
         /\ Long!Chunk(m, id, i).ptr = DestPtr[m] + i * MaxLongReq
         /\ Long!Chunk(m, id, i).nbytes = Long!ChunkSize(m, i)
BY Zenon DEF Long!Chunk

LEMMA ChunkOnce ==
  ASSUME NEW m \in LongMsg, NEW i \in Long!Indices(m), NEW j \in Long!Indices(m), NEW id,
         Long!Chunk(m, id, i) = Long!Chunk(m, id, j)
  PROVE  i = j
<1> DEFINE a == i * MaxLongReq
           b == j * MaxLongReq
<1>1. DestPtr[m] + a = DestPtr[m] + b
  <2>1. /\ Long!Chunk(m, id, i).ptr = DestPtr[m] + a
        /\ Long!Chunk(m, id, j).ptr = DestPtr[m] + b
    BY ChunkFields
  <2> QED
    BY <2>1, Zenon
<1>2. DestPtr[m] \in Nat /\ a \in Nat /\ b \in Nat /\ i \in Nat /\ j \in Nat
  BY ChunkOf, Zenon
<1>3. a = b
  <2> HIDE DEF a, b
  <2> QED
    BY <1>1, <1>2
<1>4. MaxLongReq \in Nat \ {0}
  BY PathAssumption, Zenon
<1> QED
  BY <1>2, <1>3, <1>4, Multiples, Zenon

(* The indices of the chunks, as a finite set.                             *)
LEMMA IndexSets ==
  ASSUME NEW m \in LongMsg, NEW G \in SUBSET Long!Indices(m)
  PROVE  /\ IsFiniteSet(G) /\ Cardinality(G) \in Nat
         /\ Cardinality(G) = Long!Chunks(m) <=> G = Long!Indices(m)
         /\ Long!Chunks(m) - 1 \in G => Cardinality(G) - 1 \in Nat
<1> DEFINE N == Long!Chunks(m)
           I == Long!Indices(m)
<1>1. N \in Nat \ {0} /\ I = 0 .. N - 1
  BY ChunkFacts, Zenon DEF Long!Indices
<1>2. IsFiniteSet(I) /\ Cardinality(I) = N
  <2>1. 0 \in Int /\ N - 1 \in Int /\ ~(0 > N - 1) /\ (N - 1) - 0 + 1 = N
    BY <1>1
  <2>2. IsFiniteSet(0 .. N - 1) /\ Cardinality(0 .. N - 1) = IF 0 > N - 1 THEN 0 ELSE (N - 1) - 0 + 1
    BY <2>1, FS_Interval, Zenon
  <2> QED
    BY <1>1, <2>1, <2>2, Zenon
<1>3. IsFiniteSet(G) /\ (Cardinality(G) = N <=> G = I)
  BY <1>2, FS_Subset, Zenon
<1>4. Cardinality(G) \in Nat
  BY <1>3, FS_CardinalityType, Zenon
<1>5. ASSUME N - 1 \in G PROVE Cardinality(G) - 1 \in Nat
  <2>1. Cardinality(G) # 0
    BY <1>3, <1>5, FS_EmptySet, Zenon
  <2> QED
    BY <1>4, <2>1
<1> QED
  BY <1>3, <1>4, <1>5, Zenon

LEMMA SameCardinality == \A S : Long!Cardinality(S) = Cardinality(S)
BY Zenon DEF Cardinality, Long!Cardinality

(* adjust_long_msgsize, first chunk.                                       *)
LEMMA FirstDescribes ==
  ASSUME NEW m \in LongMsg, NEW i \in Long!Indices(m),
         NEW info \in Long!ChunkInfo, info.chunks = 1,
         info.base_ptr = DestPtr[m] + i * MaxLongReq,
         info.total_size = Long!ChunkSize(m, i)
  PROVE  Long!Describes(info, m, {i})
<1>1. Long!Cardinality({i}) = 1
  BY FS_Singleton, SameCardinality, Zenon
<1>2. info.total_size = Long!SizeOf(m, {i})
  <2> DEFINE z == Long!ChunkSize(m, Long!Chunks(m) - 1)
  <2>1. z \in 1 .. MaxLongReq /\ MaxLongReq \in Nat
    BY ChunkFacts, PathAssumption, Zenon
  <2>2. (1 - 1) * MaxLongReq + z = z /\ 1 * MaxLongReq = MaxLongReq
    BY <2>1
  <2>3. CASE i = Long!Chunks(m) - 1
    BY <1>1, <2>2, <2>3, Zenon DEF Long!SizeOf
  <2>4. CASE i # Long!Chunks(m) - 1
    BY <1>1, <2>2, <2>4, ChunkOf, Zenon DEF Long!SizeOf
  <2> QED
    BY <2>3, <2>4, Zenon
<1>3. i <= i
  BY ChunkOf
<1> QED
  BY <1>1, <1>2, <1>3, Zenon DEF Long!Describes


(* adjust_long_msgsize, a later chunk: count, size and smallest address    *)
(* are brought up to date.                                                 *)
LEMMA LaterDescribes ==
  ASSUME NEW m \in LongMsg, NEW G \in SUBSET Long!Indices(m), NEW i \in Long!Indices(m) \ G,
         NEW info \in Long!ChunkInfo, Long!Describes(info, m, G), NEW id
  PROVE  /\ Long!Merge(info, Long!Chunk(m, id, i)) \in Long!ChunkInfo
         /\ Long!Describes(Long!Merge(info, Long!Chunk(m, id, i)), m, G \cup {i})
<1> DEFINE H == G \cup {i}
           last == Long!Chunks(m) - 1
           p == DestPtr[m] + i * MaxLongReq
           z == Long!ChunkSize(m, i)
           new == Long!Merge(info, Long!Chunk(m, id, i))
<1>1. /\ i \in Nat /\ p \in Nat /\ z \in Nat /\ MaxLongReq \in Nat \ {0}
      /\ DestPtr[m] \in Nat /\ i * MaxLongReq \in Nat
  BY ChunkOf, PathAssumption
<1>2. /\ info.base_ptr \in Nat /\ info.chunks \in Nat /\ info.total_size \in Nat
  BY Zenon DEF Long!ChunkInfo
<1>3. new = [base_ptr |-> Long!Smaller(p, info.base_ptr), chunks |-> info.chunks + 1,
             total_size |-> info.total_size + z]
  <2>1. Long!Chunk(m, id, i).ptr = p /\ Long!Chunk(m, id, i).nbytes = z
    BY ChunkFields
  <2> QED
    BY <2>1, Zenon DEF Long!Merge
<1>4. /\ new.base_ptr = Long!Smaller(p, info.base_ptr)
      /\ new.chunks = info.chunks + 1 /\ new.total_size = info.total_size + z
  <2> HIDE DEF new, p, z
  <2> QED
    BY <1>3, Zenon
<1>5. new \in Long!ChunkInfo
  <2>1. Long!Smaller(p, info.base_ptr) \in Nat
    BY <1>1, <1>2, Zenon DEF Long!Smaller
  <2>2. info.chunks + 1 \in Nat /\ info.total_size + z \in Nat
    BY <1>1, <1>2
  <2> HIDE DEF p, z, new
  <2> QED
    BY <1>3, <2>1, <2>2, Zenon DEF Long!ChunkInfo
<1>6. /\ IsFiniteSet(G) /\ Cardinality(G) \in Nat /\ Cardinality(H) = Cardinality(G) + 1
      /\ last \in G => Cardinality(G) - 1 \in Nat
  BY IndexSets, FS_AddElement, Zenon
<1>7. info.chunks = Cardinality(G) /\ info.total_size = Long!SizeOf(m, G)
  BY SameCardinality, Zenon DEF Long!Describes
<1>8. new.chunks = Long!Cardinality(H)
  BY <1>4, <1>6, <1>7, SameCardinality, Zenon
<1>9. new.total_size = Long!SizeOf(m, H)
  <2> DEFINE k == Cardinality(G)
             y == Long!ChunkSize(m, last)
  <2>0. y \in Nat
    BY ChunkFacts
  <2>1. CASE last \in G
    <3>1. i # last /\ z = MaxLongReq
      BY <2>1, ChunkOf, Zenon
    <3>2. /\ Long!SizeOf(m, G) = (k - 1) * MaxLongReq + y
          /\ Long!SizeOf(m, H) = (Cardinality(H) - 1) * MaxLongReq + y
      BY <2>1, SameCardinality, Zenon DEF Long!SizeOf
    <3>3. (Cardinality(H) - 1) = k /\ k - 1 \in Nat /\ (k - 1) + 1 = k
      BY <1>6, <2>1
    <3>4. k * MaxLongReq = (k - 1) * MaxLongReq + MaxLongReq /\ (k - 1) * MaxLongReq \in Nat
      BY <1>1, <3>3, Multiples, Zenon
    <3> DEFINE a == (k - 1) * MaxLongReq
    <3>5. (a + y) + MaxLongReq = (a + MaxLongReq) + y
      <4>1. a \in Nat
        BY <3>4, Zenon
      <4> HIDE DEF a, y
      <4> QED
        BY <1>1, <2>0, <4>1
    <3> QED
      BY <1>4, <1>7, <3>1, <3>2, <3>3, <3>4, <3>5, Zenon
  <2>2. CASE last \notin G /\ i = last
    <3>1. z = y
      BY <2>2, Zenon
    <3>2. /\ Long!SizeOf(m, G) = k * MaxLongReq
          /\ Long!SizeOf(m, H) = (Cardinality(H) - 1) * MaxLongReq + y
      BY <2>2, SameCardinality, Zenon DEF Long!SizeOf
    <3>3. Cardinality(H) - 1 = k
      BY <1>6
    <3> QED
      BY <1>4, <1>7, <3>1, <3>2, <3>3, Zenon
  <2>3. CASE last \notin G /\ i # last
    <3>1. z = MaxLongReq
      BY <2>3, ChunkOf, Zenon
    <3>2. /\ Long!SizeOf(m, G) = k * MaxLongReq
          /\ Long!SizeOf(m, H) = (k + 1) * MaxLongReq
      BY <1>6, <2>3, SameCardinality, Zenon DEF Long!SizeOf
    <3>3. (k + 1) * MaxLongReq = k * MaxLongReq + MaxLongReq
      BY <1>1, <1>6, Multiples, Zenon
    <3> QED
      BY <1>4, <1>7, <3>1, <3>2, <3>3, Zenon
  <2> QED
    BY <2>1, <2>2, <2>3, Zenon
<1>10. \E j \in H : new.base_ptr = DestPtr[m] + j * MaxLongReq /\ \A l \in H : j <= l
  <2>1. PICK j \in G : info.base_ptr = DestPtr[m] + j * MaxLongReq /\ \A l \in G : j <= l
    BY Zenon DEF Long!Describes
  <2>2. j \in Nat /\ G \subseteq Nat
    BY ChunkOf, Zenon
  <2>3. i <= j => i * MaxLongReq <= j * MaxLongReq
    BY <1>1, <2>2, Multiples, Zenon
  <2>4. j <= i => j * MaxLongReq <= i * MaxLongReq
    BY <1>1, <2>2, Multiples, Zenon
  <2>5. j * MaxLongReq \in Nat
    BY <1>1, <2>2, Multiples, Zenon
  <2>6. i # j
    BY <2>1, Zenon
  <2>7. i * MaxLongReq = j * MaxLongReq => i = j
    BY <1>1, <2>2, Multiples, Zenon
  <2>8. CASE i < j
    <3>1. p < info.base_ptr
      <4> DEFINE a == i * MaxLongReq
                 b == j * MaxLongReq
      <4>1. /\ a \in Nat /\ b \in Nat /\ a <= b /\ a # b /\ DestPtr[m] \in Nat
            /\ p = DestPtr[m] + a /\ info.base_ptr = DestPtr[m] + b
        BY <1>1, <2>1, <2>2, <2>3, <2>5, <2>6, <2>7, <2>8
      <4> HIDE DEF a, b, p
      <4> QED
        BY <4>1
    <3>2. new.base_ptr = p
      BY <1>4, <3>1, Zenon DEF Long!Smaller
    <3>3. \A l \in H : i <= l
      BY <1>1, <2>1, <2>2, <2>8
    <3> QED
      BY <3>2, <3>3, Zenon
  <2>9. CASE ~(i < j)
    <3>1. ~(p < info.base_ptr)
      <4> DEFINE a == i * MaxLongReq
                 b == j * MaxLongReq
      <4>1. /\ a \in Nat /\ b \in Nat /\ b <= a /\ DestPtr[m] \in Nat
            /\ p = DestPtr[m] + a /\ info.base_ptr = DestPtr[m] + b
        BY <1>1, <2>1, <2>2, <2>4, <2>5, <2>9
      <4> HIDE DEF a, b, p
      <4> QED
        BY <4>1
    <3>2. new.base_ptr = info.base_ptr
      BY <1>4, <3>1, Zenon DEF Long!Smaller
    <3>3. \A l \in H : j <= l
      BY <1>1, <2>1, <2>2, <2>9
    <3> QED
      BY <2>1, <3>2, <3>3, Zenon
  <2> QED
    BY <2>8, <2>9, Zenon
<1> QED
  BY <1>5, <1>8, <1>9, <1>10, Zenon DEF Long!Describes

(* All chunks together are the message.                                    *)
LEMMA AllDescribe ==
  ASSUME NEW m \in LongMsg, NEW info, Long!Describes(info, m, Long!Indices(m))
  PROVE  info.base_ptr = DestPtr[m] /\ info.total_size = PayloadSize[m]
<1>1. 0 \in Long!Indices(m) /\ Long!Indices(m) \subseteq Nat
  BY ChunkFacts DEF Long!Indices
<1>2. PICK i \in Long!Indices(m) :
        info.base_ptr = DestPtr[m] + i * MaxLongReq /\ \A j \in Long!Indices(m) : i <= j
  BY Zenon DEF Long!Describes
<1>3. i = 0
  BY <1>1, <1>2
<1>4. DestPtr[m] + 0 * MaxLongReq = DestPtr[m]
  BY PathAssumption
<1>5. Cardinality(Long!Indices(m)) = Long!Chunks(m)
  BY IndexSets, Zenon
<1>6. Long!SizeOf(m, Long!Indices(m)) = PayloadSize[m]
  BY <1>5, ChunkFacts, SameCardinality, Zenon DEF Long!SizeOf
<1> QED
  BY <1>2, <1>3, <1>4, <1>6, Zenon DEF Long!Describes
-----------------------------------------------------------------------------
(* What the invariant says of the sending thread and of a chunk.           *)

LEMMA SendingFacts ==
  ASSUME Long!LongInv, NEW s \in SendThread, sending[s] # Long!Idle
  PROVE  /\ sending[s].msg \in LongMsg /\ sending[s].msg \notin todo
         /\ sending[s].id \in 0 .. next_outgoing_message_id
         /\ \/ sending[s].step = "numbered" /\ sending[s].id = next_outgoing_message_id
            \/ /\ sending[s].step = "chunks"
               /\ sending[s].id \in 0 .. next_outgoing_message_id - 1
               /\ sending[s].i \in Long!Indices(sending[s].msg)
<1>1. next_outgoing_message_id \in Nat
  BY Zenon DEF Long!LongInv, Long!TypeOK
<1>2. \/ sending[s] \in [step : {"numbered"}, msg : LongMsg \ todo, id : {next_outgoing_message_id}]
      \/ /\ sending[s] \in [step : {"chunks"}, msg : LongMsg \ todo,
                             id : 0 .. next_outgoing_message_id - 1, i : Nat]
         /\ sending[s].i \in Long!Indices(sending[s].msg)
  BY Zenon DEF Long!LongInv, Long!SenderInv
<1> QED
  BY <1>1, <1>2

LEMMA NetworkFacts ==
  ASSUME Long!LongInv, NEW c \in network
  PROVE  /\ c.msg \in LongMsg /\ c.msg \notin todo
         /\ c.id \in 0 .. next_outgoing_message_id - 1
         /\ \E i \in Long!Indices(c.msg) :
              c = Long!Chunk(c.msg, c.id, i) /\ ~Long!Unsent(c.msg, c.id, i)
BY Zenon DEF Long!LongInv, Long!SenderInv

(* A message is on its way exactly as long as a chunk of it is missing.    *)
LEMMA WayFacts ==
  ASSUME Long!LongInv, NEW m, NEW id, Long!OnItsWay(m, id)
  PROVE  /\ m \in LongMsg /\ m \notin todo
         /\ id \in 0 .. next_outgoing_message_id
         /\ Long!Missing(m, id) # {}
<1>1. CASE \E s \in SendThread : Long!Sends(s, m, id)
  <2>1. PICK s \in SendThread : sending[s] # Long!Idle /\ sending[s].msg = m /\ sending[s].id = id
    BY <1>1, Zenon DEF Long!Sends
  <2>2. m \in LongMsg /\ m \notin todo /\ id \in 0 .. next_outgoing_message_id
    BY <2>1, SendingFacts, Zenon
  <2>3. 0 \in Long!Indices(m)
    BY <2>2, ChunkFacts DEF Long!Indices
  <2>4. sending[s].step = "chunks" => 0 <= sending[s].i
    BY <2>1, SendingFacts DEF Long!Indices
  <2>5. Long!Unsent(m, id, 0)
    BY <2>1, <2>4, Zenon DEF Long!Unsent, Long!Sends
  <2> QED
    BY <2>2, <2>3, <2>5, Zenon DEF Long!Missing
<1>2. CASE \E c \in network : c.msg = m /\ c.id = id
  <2>1. PICK c \in network : c.msg = m /\ c.id = id
    BY <1>2, Zenon
  <2>2. PICK i \in Long!Indices(m) : c = Long!Chunk(m, id, i)
    BY <2>1, NetworkFacts, Zenon
  <2>3. m \in LongMsg /\ m \notin todo /\ id \in 0 .. next_outgoing_message_id - 1
    BY <2>1, NetworkFacts, Zenon
  <2>4. id \in 0 .. next_outgoing_message_id
    BY <2>3 DEF Long!LongInv, Long!TypeOK
  <2> QED
    BY <2>1, <2>2, <2>3, <2>4, Zenon DEF Long!Missing
<1> QED
  BY <1>1, <1>2, Zenon DEF Long!OnItsWay

LEMMA MissingFacts ==
  ASSUME NEW m, NEW id, NEW i \in Long!Missing(m, id)
  PROVE  Long!OnItsWay(m, id) /\ i \in Long!Indices(m)
<1>1. CASE Long!Unsent(m, id, i)
  BY <1>1, Zenon DEF Long!Unsent, Long!OnItsWay, Long!Missing
<1>2. CASE Long!Chunk(m, id, i) \in network
  <2>1. Long!Chunk(m, id, i).msg = m /\ Long!Chunk(m, id, i).id = id
    BY ChunkFields
  <2> QED
    BY <1>2, <2>1, Zenon DEF Long!OnItsWay, Long!Missing
<1> QED
  BY <1>1, <1>2, Zenon DEF Long!Missing

LEMMA ReceivedFacts ==
  ASSUME NEW m
  PROVE  Long!Received(m) <=> m \notin todo /\ \A id : ~Long!OnItsWay(m, id)
BY Zenon DEF Long!Received, Long!OnItsWay, Long!Sends

(* The receiver sees no difference.                                        *)
SameView ==
  \A n, b : /\ Long!OnItsWay(n, b)' <=> Long!OnItsWay(n, b)
            /\ Long!Missing(n, b)' = Long!Missing(n, b)

LEMMA ViewKept ==
  ASSUME Long!LongInv, SameView, todo' = todo,
         next_outgoing_message_id' \in {next_outgoing_message_id, next_outgoing_message_id + 1},
         UNCHANGED <<observed_messages, dispatched, released>>
  PROVE  Long!IdsName' /\ Long!MapInv' /\ Long!OutcomeInv'
<1>1. next_outgoing_message_id \in Nat
  BY Zenon DEF Long!LongInv, Long!TypeOK
<1>2. 0 .. next_outgoing_message_id \subseteq 0 .. next_outgoing_message_id'
  BY <1>1
<1>3. \A n, b : Long!OnItsWay(n, b) => b \in 0 .. next_outgoing_message_id
  BY WayFacts, Zenon
<1>4. \A n, b : /\ Long!OnItsWay(n, b)' <=> Long!OnItsWay(n, b)
                /\ Long!Missing(n, b)' = Long!Missing(n, b)
  BY Zenon DEF SameView
<1>5. \A n, b : Long!Seen(n, b)' = Long!Seen(n, b)
  BY <1>4, Zenon DEF Long!Seen, Long!Indices, Long!Chunks
<1>6. \A n : Long!Received(n)' <=> Long!Received(n)
  <2>1. \A n : Long!Received(n)' <=> n \notin todo' /\ \A id : ~Long!OnItsWay(n, id)'
    BY Zenon DEF Long!Received, Long!OnItsWay, Long!Sends
  <2> QED
    BY <1>4, <2>1, ReceivedFacts, Zenon
<1>7. Long!IdsName'
  BY <1>3, <1>4, Zenon DEF Long!IdsName, Long!LongInv
<1>8. Long!MapInv'
  <2>1. ASSUME NEW id \in DOMAIN observed_messages
        PROVE  /\ id \in 0 .. next_outgoing_message_id'
               /\ \E m \in LongMsg : Long!OnItsWay(m, id)' /\ Long!Seen(m, id)' # {}
    BY <1>2, <1>4, <1>5, Zenon DEF Long!MapInv, Long!LongInv
  <2>2. ASSUME NEW m \in LongMsg, NEW id, Long!OnItsWay(m, id)', Long!Seen(m, id)' # {}
        PROVE  id \in DOMAIN observed_messages /\ Long!Describes(observed_messages[id], m, Long!Seen(m, id)')
    BY <1>3, <1>4, <1>5, <2>2, Zenon DEF Long!MapInv, Long!LongInv
  <2> QED
    BY <2>1, <2>2, Zenon DEF Long!MapInv, Long!Describes, Long!SizeOf, Long!Chunks, Long!ChunkSize
<1>9. Long!OutcomeInv'
  BY <1>6, Zenon DEF Long!OutcomeInv, Long!LongInv, Long!Whole
<1> QED
  BY <1>7, <1>8, <1>9, Zenon
-----------------------------------------------------------------------------
(* The steps of send_long.                                                 *)

LEMMA OneThread ==
  ASSUME NEW s \in SendThread, NEW u \in SendThread
  PROVE  u = s
BY PathAssumption, Zenon

(* A new message gets a number that no message on its way has.             *)
LEMMA ReadIdStep ==
  ASSUME Long!LongInv, NEW s \in SendThread, NEW m \in LongMsg, Long!ReadId(s, m)
  PROVE  Long!LongInv'
<1> DEFINE next == next_outgoing_message_id
<1>1. /\ sending[s] = Long!Idle /\ m \in todo /\ todo' = todo \ {m}
      /\ next' = next /\ network' = network /\ observed_messages' = observed_messages
      /\ dispatched' = dispatched /\ released' = released
      /\ sending' = [sending EXCEPT ![s] = [step |-> "numbered", msg |-> m, id |-> next]]
  BY Zenon DEF Long!ReadId
<1>2. next \in Nat /\ DOMAIN sending = SendThread
  BY Zenon DEF Long!LongInv, Long!TypeOK
<1>3. /\ sending'[s] = [step |-> "numbered", msg |-> m, id |-> next]
      /\ DOMAIN sending' = SendThread
  BY <1>1, <1>2, Zenon
<1>4. /\ sending'[s].step = "numbered" /\ sending'[s].msg = m /\ sending'[s].id = next
      /\ sending'[s] # Long!Idle
  BY <1>3 DEF Long!Idle
<1>5. \A u \in SendThread : u = s
  BY OneThread, Zenon
<1>6. \A n, b, i : ~Long!Unsent(n, b, i) /\ (Long!Unsent(n, b, i)' <=> n = m /\ b = next)
  BY <1>1, <1>4, <1>5, Zenon DEF Long!Unsent, Long!Sends
<1>7. \A n, b : Long!OnItsWay(n, b)' <=> Long!OnItsWay(n, b) \/ (n = m /\ b = next)
  BY <1>1, <1>4, <1>5, Zenon DEF Long!OnItsWay, Long!Sends
<1>8. \A n, b : Long!OnItsWay(n, b) => n # m /\ b # next /\ b \in 0 .. next
  <2> SUFFICES ASSUME NEW n, NEW b, Long!OnItsWay(n, b) PROVE n # m /\ b # next /\ b \in 0 .. next
    BY Zenon
  <2>1. PICK c \in network : c.msg = n /\ c.id = b
    BY <1>1, <1>5, Zenon DEF Long!OnItsWay, Long!Sends
  <2>2. n \notin todo /\ b \in 0 .. next - 1
    BY <2>1, NetworkFacts, Zenon
  <2> QED
    BY <1>1, <1>2, <2>2
<1>9. \A n, b : Long!Missing(n, b)' = IF n = m /\ b = next THEN Long!Indices(n) ELSE Long!Missing(n, b)
  <2>1. \A n, b : Long!Missing(n, b)' = {i \in Long!Indices(n) :
                    Long!Unsent(n, b, i)' \/ Long!Chunk(n, b, i) \in network}
    BY <1>1, Zenon DEF Long!Missing, Long!Indices, Long!Chunks, Long!Chunk, Long!ChunkSize
  <2> QED
    BY <1>6, <2>1, Zenon DEF Long!Missing
<1>10. \A n, b : Long!Seen(n, b)' = IF n = m /\ b = next THEN {} ELSE Long!Seen(n, b)
  BY <1>9, Zenon DEF Long!Seen, Long!Indices, Long!Chunks
<1>11. \A n : Long!Received(n)' <=> Long!Received(n)
  <2>1. \A n : Long!Received(n)' <=> n \notin todo' /\ \A id : ~Long!OnItsWay(n, id)'
    BY Zenon DEF Long!Received, Long!OnItsWay, Long!Sends
  <2> QED
    BY <1>1, <1>7, <2>1, ReceivedFacts, Zenon
<1>12. Long!TypeOK'
  <2>1. \A u \in SendThread : sending'[u].msg \in LongMsg /\ sending'[u].id \in Nat
    BY <1>2, <1>4, <1>5, Zenon
  <2>2. todo' \subseteq LongMsg
    BY <1>1, Zenon DEF Long!LongInv, Long!TypeOK
  <2> QED
    BY <1>1, <1>2, <1>3, <2>1, <2>2, Zenon DEF Long!LongInv, Long!TypeOK, Long!ChunkInfo
<1>13. Long!SenderInv'
  <2>1. \A u \in SendThread :
          sending'[u] \in [step : {"numbered"}, msg : LongMsg \ todo', id : {next'}]
    BY <1>1, <1>3, <1>5, Zenon
  <2>2. ASSUME NEW c \in network
        PROVE  \E i \in Long!Indices(c.msg) :
                 /\ c = Long!Chunk(c.msg, c.id, i) /\ ~Long!Unsent(c.msg, c.id, i)'
                 /\ c.msg \in LongMsg \ todo' /\ c.id \in 0 .. next' - 1
    <3>1. c.id # next
      BY <1>2, NetworkFacts
    <3>2. PICK i \in Long!Indices(c.msg) : c = Long!Chunk(c.msg, c.id, i)
      BY NetworkFacts, Zenon
    <3>3. c.msg \in LongMsg \ todo' /\ c.id \in 0 .. next' - 1
      BY <1>1, NetworkFacts, Zenon
    <3>4. ~Long!Unsent(c.msg, c.id, i)'
      BY <1>6, <3>1
    <3> QED
      BY <3>2, <3>3, <3>4, Zenon
  <2> QED
    BY <1>1, <2>1, <2>2, Zenon DEF Long!SenderInv, Long!Indices, Long!Chunks, Long!Chunk, Long!ChunkSize
<1>14. Long!IdsName'
  <2> SUFFICES ASSUME NEW n \in LongMsg, NEW a \in 0 .. next, Long!OnItsWay(n, a)',
                      NEW o \in LongMsg, NEW b \in 0 .. next, Long!OnItsWay(o, b)'
               PROVE  n = o <=> a = b
    BY <1>1, Zenon DEF Long!IdsName
  <2>1. CASE Long!OnItsWay(n, a) /\ Long!OnItsWay(o, b)
    BY <2>1, Zenon DEF Long!IdsName, Long!LongInv
  <2>2. CASE n = m /\ a = next
    BY <1>7, <1>8, <2>2, Zenon
  <2>3. CASE o = m /\ b = next
    BY <1>7, <1>8, <2>3, Zenon
  <2> QED
    BY <1>7, <2>1, <2>2, <2>3, Zenon
<1>15. Long!MapInv'
  <2>1. ASSUME NEW id \in DOMAIN observed_messages
        PROVE  /\ id \in 0 .. next'
               /\ \E n \in LongMsg : Long!OnItsWay(n, id)' /\ Long!Seen(n, id)' # {}
    <3>1. PICK n \in LongMsg : Long!OnItsWay(n, id) /\ Long!Seen(n, id) # {}
      BY Zenon DEF Long!MapInv, Long!LongInv
    <3> QED
      BY <1>1, <1>7, <1>8, <1>10, <3>1, Zenon
  <2>2. ASSUME NEW n \in LongMsg, NEW id \in 0 .. next', Long!OnItsWay(n, id)', Long!Seen(n, id)' # {}
        PROVE  id \in DOMAIN observed_messages /\ Long!Describes(observed_messages[id], n, Long!Seen(n, id)')
    <3>1. Long!OnItsWay(n, id) /\ Long!Seen(n, id) # {} /\ Long!Seen(n, id)' = Long!Seen(n, id)
      BY <1>7, <1>10, <2>2, Zenon
    <3> QED
      BY <1>1, <3>1, Zenon DEF Long!MapInv, Long!LongInv
  <2> QED
    BY <1>1, <2>1, <2>2, Zenon DEF Long!MapInv, Long!Describes, Long!SizeOf, Long!Chunks, Long!ChunkSize
<1>16. Long!OutcomeInv'
  BY <1>1, <1>11, Zenon DEF Long!OutcomeInv, Long!LongInv, Long!Whole
<1> QED
  BY <1>12, <1>13, <1>14, <1>15, <1>16, Zenon DEF Long!LongInv

(* What a step of the sender leaves to be shown when the receiver sees no  *)
(* difference.                                                             *)
LEMMA SenderStep ==
  ASSUME Long!LongInv, SameView, Long!TypeOK', Long!SenderInv', todo' = todo,
         next_outgoing_message_id' \in {next_outgoing_message_id, next_outgoing_message_id + 1},
         UNCHANGED <<observed_messages, dispatched, released>>
  PROVE  Long!LongInv'
BY ViewKept, Zenon DEF Long!LongInv

(* The number is taken; no chunk has been sent yet.                        *)
LEMMA WriteIdStep ==
  ASSUME Long!LongInv, NEW s \in SendThread, Long!WriteId(s)
  PROVE  Long!LongInv'
<1> DEFINE next == next_outgoing_message_id
           m == sending[s].msg
           last == Long!Chunks(m) - 1
<1>1. /\ sending[s].step = "numbered" /\ next' = sending[s].id + 1
      /\ todo' = todo /\ network' = network /\ observed_messages' = observed_messages
      /\ dispatched' = dispatched /\ released' = released
      /\ sending' = [sending EXCEPT ![s] =
           [step |-> "chunks", msg |-> @.msg, id |-> @.id, i |-> Long!Chunks(@.msg) - 1]]
  BY Zenon DEF Long!WriteId
<1>2. next \in Nat /\ DOMAIN sending = SendThread
  BY Zenon DEF Long!LongInv, Long!TypeOK
<1>3. sending[s] # Long!Idle
  BY <1>1 DEF Long!Idle
<1>4. m \in LongMsg /\ m \notin todo /\ sending[s].id = next
  BY <1>1, <1>3, SendingFacts, Zenon
<1>5. next' = next + 1
  BY <1>1, <1>4, Zenon
<1>6. /\ sending'[s] = [step |-> "chunks", msg |-> m, id |-> next, i |-> last]
      /\ DOMAIN sending' = SendThread
  <2> HIDE DEF last
  <2>1. sending' = [sending EXCEPT ![s] = [step |-> "chunks", msg |-> m, id |-> next, i |-> last]]
    BY <1>1, <1>4, Zenon DEF last
  <2> QED
    BY <1>2, <2>1, Zenon
<1>7. /\ sending'[s].step = "chunks" /\ sending'[s].msg = m /\ sending'[s].id = next
      /\ sending'[s].i = last /\ sending'[s] # Long!Idle
  <2> HIDE DEF last, m
  <2> QED
    BY <1>6 DEF Long!Idle
<1>8. \A u \in SendThread : u = s
  BY OneThread, Zenon
<1>9. last \in Long!Indices(m) /\ \A i \in Long!Indices(m) : i <= last
  BY <1>4, ChunkFacts DEF Long!Indices
<1>10. \A n, b : Long!Sends(s, n, b)' <=> Long!Sends(s, n, b)
  BY <1>3, <1>4, <1>7, Zenon DEF Long!Sends
<1>11. \A n, b : \A i \in Long!Indices(n) : Long!Unsent(n, b, i)' <=> Long!Unsent(n, b, i)
  <2> SUFFICES ASSUME NEW n, NEW b, NEW i \in Long!Indices(n)
               PROVE  Long!Unsent(n, b, i)' <=> Long!Unsent(n, b, i)
    BY Zenon
  <2>1. Long!Unsent(n, b, i) <=> Long!Sends(s, n, b)
    <3>1. sending[s].step # "chunks"
      BY <1>1, Zenon
    <3> QED
      BY <1>8, <3>1, Zenon DEF Long!Unsent
  <2>2. Long!Unsent(n, b, i)' <=> Long!Sends(s, n, b)' /\ i <= last
    BY <1>7, <1>8, Zenon DEF Long!Unsent
  <2>3. Long!Sends(s, n, b) => n = m
    BY Zenon DEF Long!Sends
  <2> QED
    BY <1>9, <1>10, <2>1, <2>2, <2>3, Zenon
<1>12. SameView
  <2>1. \A n, b : Long!OnItsWay(n, b)' <=> Long!OnItsWay(n, b)
    BY <1>1, <1>8, <1>10, Zenon DEF Long!OnItsWay
  <2>2. \A n, b : Long!Missing(n, b)' = Long!Missing(n, b)
    BY <1>1, <1>11, Zenon DEF Long!Missing, Long!Indices, Long!Chunks, Long!Chunk, Long!ChunkSize
  <2> QED
    BY <2>1, <2>2, Zenon DEF SameView
<1>13. Long!TypeOK'
  <2>1. next' \in Nat
    BY <1>2, <1>5
  <2>2. \A u \in SendThread : sending'[u].msg \in LongMsg /\ sending'[u].id \in Nat
    BY <1>2, <1>4, <1>7, <1>8, Zenon
  <2> QED
    BY <1>1, <1>6, <2>1, <2>2, Zenon DEF Long!LongInv, Long!TypeOK, Long!ChunkInfo
<1>14. Long!SenderInv'
  <2>1. \A u \in SendThread :
          /\ sending'[u] \in [step : {"chunks"}, msg : LongMsg \ todo', id : 0 .. next' - 1, i : Nat]
          /\ sending'[u].i \in Long!Indices(sending'[u].msg)
    <3>1. next \in 0 .. next' - 1
      BY <1>2, <1>5
    <3>2. last \in Nat
      BY <1>9 DEF Long!Indices
    <3>3. [step |-> "chunks", msg |-> m, id |-> next, i |-> last]
            \in [step : {"chunks"}, msg : LongMsg \ todo', id : 0 .. next' - 1, i : Nat]
      <4> HIDE DEF last, m
      <4> QED
        BY <1>1, <1>4, <3>1, <3>2, Zenon
    <3> QED
      BY <1>6, <1>7, <1>8, <1>9, <3>3, Zenon
  <2>2. ASSUME NEW c \in network
        PROVE  \E i \in Long!Indices(c.msg) :
                 /\ c = Long!Chunk(c.msg, c.id, i) /\ ~Long!Unsent(c.msg, c.id, i)'
                 /\ c.msg \in LongMsg \ todo' /\ c.id \in 0 .. next' - 1
    <3>1. PICK i \in Long!Indices(c.msg) : c = Long!Chunk(c.msg, c.id, i) /\ ~Long!Unsent(c.msg, c.id, i)
      BY NetworkFacts, Zenon
    <3>2. c.msg \in LongMsg \ todo' /\ c.id \in 0 .. next - 1
      BY <1>1, NetworkFacts, Zenon
    <3>3. c.id \in 0 .. next' - 1
      BY <1>2, <1>5, <3>2
    <3>4. ~Long!Unsent(c.msg, c.id, i)'
      BY <1>11, <3>1, Zenon
    <3> QED
      BY <3>1, <3>2, <3>3, <3>4, Zenon
  <2> QED
    BY <1>1, <2>1, <2>2, Zenon DEF Long!SenderInv, Long!Indices, Long!Chunks, Long!Chunk, Long!ChunkSize
<1> QED
  BY <1>1, <1>5, <1>12, <1>13, <1>14, SenderStep, Zenon

(* A chunk leaves the thread for the network.                              *)
LEMMA SendChunkStep ==
  ASSUME Long!LongInv, NEW s \in SendThread, Long!SendChunk(s)
  PROVE  Long!LongInv'
<1> DEFINE next == next_outgoing_message_id
<1>0. PICK m, id, k : m = sending[s].msg /\ id = sending[s].id /\ k = sending[s].i
  BY Zenon
<1> DEFINE c == Long!Chunk(m, id, k)
<1>1. /\ sending[s].step = "chunks" /\ next' = next /\ todo' = todo
      /\ network' = network \cup {c} /\ observed_messages' = observed_messages
      /\ dispatched' = dispatched /\ released' = released
      /\ sending' = [sending EXCEPT ![s] = IF k = 0 THEN Long!Idle ELSE [@ EXCEPT !.i = k - 1]]
  BY <1>0, Zenon DEF Long!SendChunk
<1>2. next \in Nat /\ DOMAIN sending = SendThread
  BY Zenon DEF Long!LongInv, Long!TypeOK
<1>3. sending[s] # Long!Idle /\ sending[s].step # "numbered"
  BY <1>1 DEF Long!Idle
<1>4. m \in LongMsg /\ m \notin todo /\ id \in 0 .. next - 1 /\ k \in Long!Indices(m)
  BY <1>0, <1>3, SendingFacts, Zenon
<1>5. id \in Nat /\ k \in Nat
  BY <1>2, <1>4, ChunkOf
<1>6. sending[s] \in [step : {"chunks"}, msg : LongMsg \ todo, id : 0 .. next - 1, i : Nat]
  <2>1. sending[s] \notin [step : {"numbered"}, msg : LongMsg \ todo, id : {next}]
    BY <1>3, Zenon
  <2> QED
    BY <1>3, <2>1, Zenon DEF Long!LongInv, Long!SenderInv
<1>7. DOMAIN sending' = SendThread /\ \A u \in SendThread : u = s
  BY <1>1, <1>2, OneThread, Zenon
<1>8. k = 0 => sending'[s] = Long!Idle
  BY <1>1, <1>2, Zenon
<1>9. k # 0 => /\ sending'[s] \in [step : {"chunks"}, msg : LongMsg \ todo, id : 0 .. next - 1, i : Nat]
               /\ sending'[s].step = "chunks" /\ sending'[s].msg = m /\ sending'[s].id = id
               /\ sending'[s].i = k - 1 /\ sending'[s] # Long!Idle
  <2> SUFFICES ASSUME k # 0
               PROVE  /\ sending'[s] \in [step : {"chunks"}, msg : LongMsg \ todo, id : 0 .. next - 1, i : Nat]
                      /\ sending'[s].step = "chunks" /\ sending'[s].msg = m /\ sending'[s].id = id
                      /\ sending'[s].i = k - 1 /\ sending'[s] # Long!Idle
    BY Zenon
  <2>1. sending'[s] = [sending[s] EXCEPT !.i = k - 1]
    BY <1>1, <1>2, Zenon
  <2>2. k - 1 \in Nat
    BY <1>5
  <2> QED
    BY <1>0, <1>1, <1>6, <2>1, <2>2 DEF Long!Idle
<1>10. \A n, b : Long!Sends(s, n, b) <=> n = m /\ b = id
  BY <1>0, <1>3, Zenon DEF Long!Sends
<1>11. \A n, b : Long!Sends(s, n, b)' <=> n = m /\ b = id /\ k # 0
  BY <1>8, <1>9, Zenon DEF Long!Sends
<1>12. \A n, b : \A i \in Nat : Long!Unsent(n, b, i) <=> n = m /\ b = id /\ i <= k
  BY <1>0, <1>1, <1>7, <1>10, Zenon DEF Long!Unsent
<1>13. \A n, b : \A i \in Nat : Long!Unsent(n, b, i)' <=> n = m /\ b = id /\ i < k
  <2> SUFFICES ASSUME NEW n, NEW b, NEW i \in Nat
               PROVE  Long!Unsent(n, b, i)' <=> n = m /\ b = id /\ i < k
    BY Zenon
  <2>1. Long!Unsent(n, b, i)' <=> Long!Sends(s, n, b)' /\ (sending'[s].step = "chunks" => i <= sending'[s].i)
    BY <1>7, Zenon DEF Long!Unsent
  <2>2. k = 0 => ~(i < k)
    BY <1>5
  <2>3. k # 0 => (i < k <=> i <= k - 1)
    BY <1>5
  <2> QED
    BY <1>9, <1>11, <2>1, <2>2, <2>3, Zenon
<1>14. c.msg = m /\ c.id = id
  BY ChunkFields
<1>15. SameView
  <2>1. \A n, b : Long!OnItsWay(n, b)' <=> Long!OnItsWay(n, b)
    <3>1. \A n, b : (\E d \in network' : d.msg = n /\ d.id = b) <=>
                    (n = m /\ b = id) \/ (\E d \in network : d.msg = n /\ d.id = b)
      <4> HIDE DEF c
      <4>1. network' = network \cup {c}
        BY <1>1, Zenon
      <4> QED
        BY <1>14, <4>1, Zenon
    <3> SUFFICES ASSUME NEW n, NEW b PROVE Long!OnItsWay(n, b)' <=> Long!OnItsWay(n, b)
      BY Zenon
    <3>2. Long!OnItsWay(n, b)' <=> Long!Sends(s, n, b)' \/ (\E d \in network' : d.msg = n /\ d.id = b)
      BY <1>7, Zenon DEF Long!OnItsWay
    <3>3. Long!OnItsWay(n, b) <=> Long!Sends(s, n, b) \/ (\E d \in network : d.msg = n /\ d.id = b)
      BY <1>7, Zenon DEF Long!OnItsWay
    <3> QED
      BY <1>10, <1>11, <3>1, <3>2, <3>3
  <2>2. ASSUME NEW n, NEW b PROVE Long!Missing(n, b)' = Long!Missing(n, b)
    <3>1. Long!Missing(n, b)' = {i \in Long!Indices(n) : Long!Unsent(n, b, i)' \/ Long!Chunk(n, b, i) \in network'}
      BY Zenon DEF Long!Missing, Long!Indices, Long!Chunks, Long!Chunk, Long!ChunkSize
    <3>2. ASSUME NEW i \in Long!Indices(n)
          PROVE  (Long!Unsent(n, b, i)' \/ Long!Chunk(n, b, i) \in network') <=>
                 (Long!Unsent(n, b, i) \/ Long!Chunk(n, b, i) \in network)
      <4>1. i \in Nat
        BY DEF Long!Indices
      <4>2. Long!Chunk(n, b, i) \in network' <=> (Long!Chunk(n, b, i) \in network \/ Long!Chunk(n, b, i) = c)
        BY <1>1, Zenon
      <4>3. Long!Chunk(n, b, i) = c <=> n = m /\ b = id /\ i = k
        <5>1. ASSUME Long!Chunk(n, b, i) = c PROVE n = m /\ b = id
          BY <1>14, <5>1, ChunkFields
        <5>2. ASSUME Long!Chunk(n, b, i) = c PROVE i = k
          BY <1>4, <5>1, <5>2, ChunkOnce, Zenon
        <5> QED
          BY <5>1, <5>2, Zenon
      <4>4. i <= k <=> i < k \/ i = k
        BY <1>5, <4>1
      <4> QED
        BY <1>12, <1>13, <4>1, <4>2, <4>3, <4>4, Zenon
    <3> QED
      BY <3>1, <3>2, Zenon DEF Long!Missing
  <2> QED
    BY <2>1, <2>2, Zenon DEF SameView
<1>16. Long!TypeOK'
  <2>1. ASSUME NEW u \in SendThread, sending'[u] # Long!Idle
        PROVE  sending'[u].msg \in LongMsg /\ sending'[u].id \in Nat
    BY <1>4, <1>5, <1>7, <1>8, <1>9, <2>1, Zenon
  <2>2. c.msg \in LongMsg /\ c.ptr \in Nat /\ c.nbytes \in 1 .. MaxLongReq
    BY <1>4, ChunkOf, ChunkFields
  <2> QED
    BY <1>1, <1>7, <2>1, <2>2, Zenon DEF Long!LongInv, Long!TypeOK, Long!ChunkInfo
<1>17. Long!SenderInv'
  <2>1. ASSUME NEW u \in SendThread, sending'[u] # Long!Idle
        PROVE  /\ sending'[u] \in [step : {"chunks"}, msg : LongMsg \ todo', id : 0 .. next' - 1, i : Nat]
               /\ sending'[u].i \in Long!Indices(sending'[u].msg)
    <3>1. u = s /\ k # 0
      BY <1>7, <1>8, <2>1, Zenon
    <3>2. k - 1 \in Long!Indices(m)
      BY <1>4, <3>1, ChunkFacts DEF Long!Indices
    <3> QED
      BY <1>1, <1>9, <3>1, <3>2, Zenon
  <2>2. ASSUME NEW d \in network'
        PROVE  \E i \in Long!Indices(d.msg) :
                 /\ d = Long!Chunk(d.msg, d.id, i) /\ ~Long!Unsent(d.msg, d.id, i)'
                 /\ d.msg \in LongMsg \ todo' /\ d.id \in 0 .. next' - 1
    <3>1. CASE d = c
      <4>1. ~(k < k)
        BY <1>5
      <4>2. ~Long!Unsent(m, id, k)'
        BY <1>5, <1>13, <4>1, Zenon
      <4>3. ~Long!Unsent(d.msg, d.id, k)'
        BY <1>14, <3>1, <4>2, Zenon
      <4> QED
        BY <1>1, <1>4, <1>14, <3>1, <4>3, Zenon
    <3>2. CASE d \in network
      <4>1. PICK i \in Long!Indices(d.msg) : d = Long!Chunk(d.msg, d.id, i) /\ ~Long!Unsent(d.msg, d.id, i)
        BY <3>2, NetworkFacts, Zenon
      <4>2. i \in Nat
        BY DEF Long!Indices
      <4>3. i < k => i <= k
        BY <1>5, <4>2
      <4>4. ~Long!Unsent(d.msg, d.id, i)'
        BY <1>12, <1>13, <4>1, <4>2, <4>3, Zenon
      <4>5. d.msg \in LongMsg \ todo' /\ d.id \in 0 .. next' - 1
        BY <1>1, <3>2, NetworkFacts, Zenon
      <4> QED
        BY <4>1, <4>4, <4>5, Zenon
    <3> QED
      BY <1>1, <3>1, <3>2, Zenon
  <2> QED
    BY <2>1, <2>2, Zenon DEF Long!SenderInv, Long!Indices, Long!Chunks, Long!Chunk, Long!ChunkSize
<1> QED
  BY <1>1, <1>15, <1>16, <1>17, SenderStep, Zenon
-----------------------------------------------------------------------------
(* The steps of the receiver.                                              *)

(* Chunk i of m has been taken from the network: the message stays on its  *)
(* way unless this was the last one missing, and nothing else changes.     *)
Took(m, id, i) ==
  /\ todo' = todo /\ next_outgoing_message_id' = next_outgoing_message_id
  /\ m \in LongMsg /\ id \in 0 .. next_outgoing_message_id
  /\ \A n, b : ~(n = m /\ b = id) => /\ Long!OnItsWay(n, b)' <=> Long!OnItsWay(n, b)
                                     /\ Long!Seen(n, b)' = Long!Seen(n, b)
  /\ Long!OnItsWay(m, id)
  /\ Long!OnItsWay(m, id)' <=> Long!Seen(m, id) \cup {i} # Long!Indices(m)
  /\ Long!Seen(m, id)' = Long!Seen(m, id) \cup {i}
  /\ Long!Seen(m, id) \in SUBSET Long!Indices(m)
  /\ i \in Long!Indices(m) \ Long!Seen(m, id)

LEMMA SendsFirst ==
  ASSUME Long!LongInv, NEW s \in SendThread, NEW m, NEW id, Long!Sends(s, m, id)
  PROVE  m \in LongMsg /\ 0 \in Long!Indices(m) /\ Long!Unsent(m, id, 0)
<1>1. sending[s] # Long!Idle /\ sending[s].msg = m /\ sending[s].id = id
  BY Zenon DEF Long!Sends
<1>2. m \in LongMsg
  BY <1>1, SendingFacts, Zenon
<1>3. 0 \in Long!Indices(m)
  BY <1>2, ChunkFacts DEF Long!Indices
<1>4. sending[s].step = "chunks" => 0 <= sending[s].i
  BY <1>1, SendingFacts DEF Long!Indices
<1> QED
  BY <1>2, <1>3, <1>4, Zenon DEF Long!Unsent

LEMMA HandlerView ==
  ASSUME Long!LongInv, NEW m, NEW id, NEW i \in Long!Indices(m),
         Long!Chunk(m, id, i) \in network, ~Long!Unsent(m, id, i),
         network' = network \ {Long!Chunk(m, id, i)},
         UNCHANGED <<sending, todo, next_outgoing_message_id>>
  PROVE  Took(m, id, i)
<1> DEFINE c == Long!Chunk(m, id, i)
<1>1. c.msg = m /\ c.id = id
  BY ChunkFields
<1>2. m \in LongMsg /\ Long!OnItsWay(m, id)
  BY <1>1, NetworkFacts, Zenon DEF Long!OnItsWay
<1>3. id \in 0 .. next_outgoing_message_id
  BY <1>2, WayFacts, Zenon
<1>4. \A s, n, b : Long!Sends(s, n, b)' <=> Long!Sends(s, n, b)
  BY Zenon DEF Long!Sends
<1>5. \A n, b, j : Long!Unsent(n, b, j)' <=> Long!Unsent(n, b, j)
  BY <1>4, Zenon DEF Long!Unsent
<1>6. \A n, b : Long!Missing(n, b)' = {j \in Long!Indices(n) :
                  Long!Unsent(n, b, j) \/ Long!Chunk(n, b, j) \in network'}
  BY <1>5, Zenon DEF Long!Missing, Long!Indices, Long!Chunks, Long!Chunk, Long!ChunkSize
<1>7. ASSUME NEW n, NEW b, ~(n = m /\ b = id)
      PROVE  /\ Long!OnItsWay(n, b)' <=> Long!OnItsWay(n, b)
             /\ Long!Seen(n, b)' = Long!Seen(n, b)
  <2>1. \A d \in network : d.msg = n /\ d.id = b => d \in network'
    BY <1>1, <1>7, Zenon
  <2>2. \A d \in network' : d \in network
    BY Zenon
  <2>3. Long!OnItsWay(n, b)' <=> Long!OnItsWay(n, b)
    BY <1>4, <2>1, <2>2, Zenon DEF Long!OnItsWay
  <2>4. \A j : Long!Chunk(n, b, j).msg = n /\ Long!Chunk(n, b, j).id = b
    BY ChunkFields
  <2>5. \A j : Long!Chunk(n, b, j) \in network' <=> Long!Chunk(n, b, j) \in network
    BY <2>1, <2>2, <2>4, Zenon
  <2>6. Long!Missing(n, b)' = Long!Missing(n, b)
    <3>1. Long!Missing(n, b)' = {j \in Long!Indices(n) : Long!Unsent(n, b, j) \/ Long!Chunk(n, b, j) \in network'}
      BY <1>6, Zenon
    <3> QED
      BY <2>5, <3>1, Zenon DEF Long!Missing
  <2> QED
    BY <2>3, <2>6, Zenon DEF Long!Seen, Long!Indices, Long!Chunks
<1>8. i \in Long!Missing(m, id) /\ Long!Missing(m, id)' = Long!Missing(m, id) \ {i}
  <2>1. \A j \in Long!Indices(m) : Long!Chunk(m, id, j) \in network' <=>
          Long!Chunk(m, id, j) \in network /\ j # i
    <3> SUFFICES ASSUME NEW j \in Long!Indices(m)
                 PROVE  Long!Chunk(m, id, j) \in network' <=> Long!Chunk(m, id, j) \in network /\ j # i
      BY Zenon
    <3>1. Long!Chunk(m, id, j) = Long!Chunk(m, id, i) => j = i
      BY <1>2, ChunkOnce, Zenon
    <3> QED
      BY <3>1, Zenon
  <2>2. i \in Long!Missing(m, id)
    BY Zenon DEF Long!Missing
  <2> QED
    <3>1. Long!Missing(m, id)' = {j \in Long!Indices(m) : Long!Unsent(m, id, j) \/ Long!Chunk(m, id, j) \in network'}
      BY <1>6, Zenon
    <3>2. Long!Missing(m, id) = {j \in Long!Indices(m) : Long!Unsent(m, id, j) \/ Long!Chunk(m, id, j) \in network}
      BY Zenon DEF Long!Missing
    <3> HIDE DEF c
    <3> QED
      BY <2>1, <2>2, <3>1, <3>2, Zenon
<1>9. Long!Missing(m, id) \subseteq Long!Indices(m)
  BY Zenon DEF Long!Missing
<1>10. /\ Long!Seen(m, id)' = Long!Seen(m, id) \cup {i}
       /\ Long!Seen(m, id) \in SUBSET Long!Indices(m)
       /\ i \in Long!Indices(m) \ Long!Seen(m, id)
  <2>1. Long!Seen(m, id)' = Long!Indices(m) \ Long!Missing(m, id)'
    BY Zenon DEF Long!Seen, Long!Indices, Long!Chunks
  <2> QED
    BY <1>8, <1>9, <2>1, Zenon DEF Long!Seen
<1>11. Long!OnItsWay(m, id)' <=> Long!Missing(m, id)' # {}
  <2>1. ASSUME NEW s \in SendThread, Long!Sends(s, m, id) PROVE Long!Missing(m, id)' # {}
    <3>1. 0 \in Long!Indices(m) /\ Long!Unsent(m, id, 0)
      BY <2>1, SendsFirst, Zenon
    <3> QED
      BY <1>6, <3>1, Zenon
  <2>2. ASSUME NEW d \in network', d.msg = m, d.id = id PROVE Long!Missing(m, id)' # {}
    <3>1. PICK j \in Long!Indices(m) : d = Long!Chunk(m, id, j)
      BY <2>2, NetworkFacts, Zenon
    <3> QED
      BY <1>6, <3>1, Zenon
  <2>3. ASSUME NEW j \in Long!Missing(m, id)' PROVE Long!OnItsWay(m, id)'
    <3>1. CASE Long!Unsent(m, id, j)
      BY <1>4, <3>1, Zenon DEF Long!Unsent, Long!OnItsWay
    <3>2. CASE Long!Chunk(m, id, j) \in network'
      <4>1. Long!Chunk(m, id, j).msg = m /\ Long!Chunk(m, id, j).id = id
        BY ChunkFields
      <4> QED
        BY <3>2, <4>1, Zenon DEF Long!OnItsWay
    <3> QED
      BY <1>6, <3>1, <3>2, Zenon
  <2>4. Long!OnItsWay(m, id)' => Long!Missing(m, id)' # {}
    BY <1>4, <2>1, <2>2, Zenon DEF Long!OnItsWay
  <2> QED
    BY <2>3, <2>4, Zenon
<1>12. Long!Missing(m, id)' # {} <=> Long!Seen(m, id) \cup {i} # Long!Indices(m)
  BY <1>8, <1>9, Zenon DEF Long!Seen
<1> QED
  BY <1>2, <1>3, <1>7, <1>10, <1>11, <1>12, Zenon DEF Took

(* The message is complete with chunk i.                                   *)
Completes(m, id, i) == Long!Seen(m, id) \cup {i} = Long!Indices(m)

LEMMA TookReceived ==
  ASSUME Long!LongInv, NEW m, NEW id, NEW i, Took(m, id, i)
  PROVE  /\ ~Long!Received(m) /\ m \notin todo
         /\ \A n : Long!Received(n)' <=> Long!Received(n) \/ (n = m /\ Completes(m, id, i))
<1>1. Long!OnItsWay(m, id) /\ m \notin todo /\ id \in 0 .. next_outgoing_message_id /\ m \in LongMsg
  BY WayFacts, Zenon DEF Took
<1>2. ~Long!Received(m)
  BY <1>1, ReceivedFacts, Zenon
<1>3. \A n : Long!Received(n)' <=> n \notin todo' /\ \A b : ~Long!OnItsWay(n, b)'
  BY Zenon DEF Long!Received, Long!OnItsWay, Long!Sends
<1>4. \A b : Long!OnItsWay(m, b) => b = id
  <2> SUFFICES ASSUME NEW b, Long!OnItsWay(m, b) PROVE b = id
    BY Zenon
  <2>1. b \in 0 .. next_outgoing_message_id
    BY WayFacts, Zenon
  <2> QED
    BY <1>1, <2>1, Zenon DEF Long!LongInv, Long!IdsName
<1>5. Long!Received(m)' <=> Completes(m, id, i)
  <2>1. Long!Received(m)' <=> \A b : ~Long!OnItsWay(m, b)'
    BY <1>1, <1>3, Zenon DEF Took
  <2>2. \A b : b # id => ~Long!OnItsWay(m, b)'
    BY <1>4, Zenon DEF Took
  <2>3. Long!OnItsWay(m, id)' <=> ~Completes(m, id, i)
    BY Zenon DEF Took, Completes
  <2> QED
    BY <2>1, <2>2, <2>3, Zenon
<1>6. ASSUME NEW n, n # m PROVE Long!Received(n)' <=> Long!Received(n)
  <2>1. \A b : Long!OnItsWay(n, b)' <=> Long!OnItsWay(n, b)
    BY <1>6, Zenon DEF Took
  <2>2. todo' = todo
    BY Zenon DEF Took
  <2> QED
    BY <1>3, <2>1, <2>2, ReceivedFacts, Zenon
<1> QED
  BY <1>1, <1>2, <1>5, <1>6, Zenon

LEMMA TookIds ==
  ASSUME Long!LongInv, NEW m, NEW id, NEW i, Took(m, id, i)
  PROVE  Long!IdsName'
<1>1. \A n, b : Long!OnItsWay(n, b)' => Long!OnItsWay(n, b)
  BY Zenon DEF Took
<1>2. next_outgoing_message_id' = next_outgoing_message_id
  BY Zenon DEF Took
<1> QED
  BY <1>1, <1>2, Zenon DEF Long!IdsName, Long!LongInv

(* Whether the map has an entry for the message.                           *)
LEMMA TookEntry ==
  ASSUME Long!LongInv, NEW m, NEW id, NEW i, Took(m, id, i)
  PROVE  /\ id \in DOMAIN observed_messages <=> Long!Seen(m, id) # {}
         /\ id \in DOMAIN observed_messages =>
              Long!Describes(observed_messages[id], m, Long!Seen(m, id))
<1>1. Long!OnItsWay(m, id) /\ id \in 0 .. next_outgoing_message_id /\ m \in LongMsg
  BY Zenon DEF Took
<1>2. Long!Seen(m, id) # {} =>
        id \in DOMAIN observed_messages /\ Long!Describes(observed_messages[id], m, Long!Seen(m, id))
  BY <1>1, Zenon DEF Long!LongInv, Long!MapInv
<1>3. ASSUME id \in DOMAIN observed_messages PROVE Long!Seen(m, id) # {}
  <2>1. PICK n \in LongMsg : Long!OnItsWay(n, id) /\ Long!Seen(n, id) # {}
    BY <1>3, Zenon DEF Long!LongInv, Long!MapInv
  <2>2. n = m
    BY <1>1, <2>1, Zenon DEF Long!LongInv, Long!IdsName
  <2> QED
    BY <2>1, <2>2, Zenon
<1> QED
  BY <1>2, <1>3, Zenon

(* The entry goes with the last chunk.                                     *)
LEMMA MapErased ==
  ASSUME Long!LongInv, NEW m, NEW id, NEW i, Took(m, id, i), Completes(m, id, i),
         DOMAIN observed_messages' = DOMAIN observed_messages \ {id},
         \A x \in DOMAIN observed_messages' : observed_messages'[x] = observed_messages[x]
  PROVE  Long!MapInv'
<1>1. \A n, b : b # id => /\ Long!OnItsWay(n, b)' <=> Long!OnItsWay(n, b)
                          /\ Long!Seen(n, b)' = Long!Seen(n, b)
  BY Zenon DEF Took
<1>2. next_outgoing_message_id' = next_outgoing_message_id
  BY Zenon DEF Took
<1>3. \A n \in LongMsg : ~Long!OnItsWay(n, id)'
  <2>1. ~Long!OnItsWay(m, id)'
    BY Zenon DEF Took, Completes
  <2>2. ASSUME NEW n \in LongMsg, n # m PROVE ~Long!OnItsWay(n, id)
    BY <2>2, Zenon DEF Took, Long!LongInv, Long!IdsName
  <2>3. \A n \in LongMsg : n # m => ~Long!OnItsWay(n, id)'
    BY <2>2, Zenon DEF Took
  <2> QED
    BY <2>1, <2>3, Zenon
<1>4. ASSUME NEW x \in DOMAIN observed_messages'
      PROVE  /\ x \in 0 .. next_outgoing_message_id'
             /\ \E n \in LongMsg : Long!OnItsWay(n, x)' /\ Long!Seen(n, x)' # {}
  <2>1. x # id /\ x \in DOMAIN observed_messages
    BY Zenon
  <2> QED
    BY <1>1, <1>2, <2>1, Zenon DEF Long!LongInv, Long!MapInv
<1>5. ASSUME NEW n \in LongMsg, NEW b \in 0 .. next_outgoing_message_id',
             Long!OnItsWay(n, b)', Long!Seen(n, b)' # {}
      PROVE  b \in DOMAIN observed_messages' /\ Long!Describes(observed_messages'[b], n, Long!Seen(n, b)')
  <2>1. b # id
    BY <1>3, <1>5, Zenon
  <2>2. Long!OnItsWay(n, b) /\ Long!Seen(n, b)' = Long!Seen(n, b)
    BY <1>1, <1>5, <2>1, Zenon
  <2>3. b \in DOMAIN observed_messages /\ Long!Describes(observed_messages[b], n, Long!Seen(n, b))
    BY <1>2, <1>5, <2>2, Zenon DEF Long!LongInv, Long!MapInv
  <2>4. b \in DOMAIN observed_messages' /\ observed_messages'[b] = observed_messages[b]
    BY <2>1, <2>3, Zenon
  <2> QED
    BY <2>2, <2>3, <2>4, Zenon
<1> QED
  BY <1>4, <1>5, Zenon DEF Long!MapInv, Long!Describes, Long!SizeOf, Long!Chunks, Long!ChunkSize

(* Otherwise the entry is there and up to date.                            *)
LEMMA MapPut ==
  ASSUME Long!LongInv, NEW m, NEW id, NEW i, Took(m, id, i), ~Completes(m, id, i),
         DOMAIN observed_messages' = DOMAIN observed_messages \cup {id},
         \A x \in DOMAIN observed_messages : x # id => observed_messages'[x] = observed_messages[x],
         Long!Describes(observed_messages'[id], m, Long!Seen(m, id) \cup {i})
  PROVE  Long!MapInv'
<1>1. \A n, b : ~(n = m /\ b = id) => /\ Long!OnItsWay(n, b)' <=> Long!OnItsWay(n, b)
                                      /\ Long!Seen(n, b)' = Long!Seen(n, b)
  BY Zenon DEF Took
<1>2. /\ next_outgoing_message_id' = next_outgoing_message_id
      /\ Long!Seen(m, id)' = Long!Seen(m, id) \cup {i}
      /\ m \in LongMsg /\ id \in 0 .. next_outgoing_message_id
  BY Zenon DEF Took
<1>3. Long!OnItsWay(m, id)' /\ Long!OnItsWay(m, id)
  BY Zenon DEF Took, Completes
<1>4. ASSUME NEW x \in DOMAIN observed_messages'
      PROVE  /\ x \in 0 .. next_outgoing_message_id'
             /\ \E n \in LongMsg : Long!OnItsWay(n, x)' /\ Long!Seen(n, x)' # {}
  <2>1. CASE x = id
    <3>1. i \in Long!Seen(m, id)'
      BY <1>2, Zenon
    <3> QED
      BY <1>2, <1>3, <2>1, <3>1, Zenon
  <2>2. CASE x # id
    <3>1. x \in DOMAIN observed_messages
      BY <2>2, Zenon
    <3>2. PICK n \in LongMsg : Long!OnItsWay(n, x) /\ Long!Seen(n, x) # {}
      BY <3>1, Zenon DEF Long!LongInv, Long!MapInv
    <3>3. Long!OnItsWay(n, x)' /\ Long!Seen(n, x)' # {}
      BY <1>1, <2>2, <3>2, Zenon
    <3>4. x \in 0 .. next_outgoing_message_id'
      BY <1>2, <3>1, Zenon DEF Long!LongInv, Long!MapInv
    <3> QED
      BY <3>3, <3>4, Zenon
  <2> QED
    BY <2>1, <2>2, Zenon
<1>5. ASSUME NEW n \in LongMsg, NEW b \in 0 .. next_outgoing_message_id',
             Long!OnItsWay(n, b)', Long!Seen(n, b)' # {}
      PROVE  b \in DOMAIN observed_messages' /\ Long!Describes(observed_messages'[b], n, Long!Seen(n, b)')
  <2>1. CASE n = m /\ b = id
    BY <1>2, <2>1, Zenon
  <2>2. CASE ~(n = m /\ b = id)
    <3>1. Long!OnItsWay(n, b) /\ Long!Seen(n, b)' = Long!Seen(n, b)
      BY <1>1, <1>5, <2>2, Zenon
    <3>2. b # id
      <4>1. b \in 0 .. next_outgoing_message_id
        BY <1>2, Zenon
      <4>2. n = m <=> b = id
        BY <1>2, <1>3, <3>1, <4>1, Zenon DEF Long!LongInv, Long!IdsName
      <4> QED
        BY <2>2, <4>2, Zenon
    <3>3. b \in DOMAIN observed_messages /\ Long!Describes(observed_messages[b], n, Long!Seen(n, b))
      BY <1>2, <1>5, <3>1, Zenon DEF Long!LongInv, Long!MapInv
    <3>4. b \in DOMAIN observed_messages' /\ observed_messages'[b] = observed_messages[b]
      BY <3>2, <3>3, Zenon
    <3> QED
      BY <3>1, <3>3, <3>4, Zenon
  <2> QED
    BY <2>1, <2>2, Zenon
<1> QED
  BY <1>4, <1>5, Zenon DEF Long!MapInv, Long!Describes, Long!SizeOf, Long!Chunks, Long!ChunkSize

(* What is dispatched, and released, is complete.                          *)
LEMMA OutcomeDispatched ==
  ASSUME Long!LongInv, NEW m, NEW id, NEW i, Took(m, id, i), Completes(m, id, i),
         Long!Dispatch(m, DestPtr[m], PayloadSize[m])
  PROVE  Long!OutcomeInv' /\ released' \in [LongMsg -> Nat]
<1>1. /\ dispatched' = dispatched \cup {Long!Whole(m)}
      /\ released' = IF m \in InPool THEN [released EXCEPT ![m] = @ + 1] ELSE released
  BY Zenon DEF Long!Dispatch, Long!Whole
<1>2. ~Long!Received(m) /\ \A n : Long!Received(n)' <=> Long!Received(n) \/ n = m
  BY TookReceived, Zenon
<1>3. m \in LongMsg /\ released \in [LongMsg -> Nat]
  BY Zenon DEF Took, Long!LongInv, Long!TypeOK
<1>4. dispatched' = {Long!Whole(n) : n \in {o \in LongMsg : Long!Received(o)'}}
  <2>1. {o \in LongMsg : Long!Received(o)'} = {o \in LongMsg : Long!Received(o)} \cup {m}
    BY <1>2, <1>3, Zenon
  <2>2. dispatched = {Long!Whole(n) : n \in {o \in LongMsg : Long!Received(o)}}
    BY Zenon DEF Long!LongInv, Long!OutcomeInv
  <2> QED
    BY <1>1, <2>1, <2>2, Zenon
<1>5. released' \in [LongMsg -> Nat]
  BY <1>1, <1>3
<1>6. ASSUME NEW n \in LongMsg
      PROVE  released'[n] = IF n \in InPool /\ Long!Received(n)' THEN 1 ELSE 0
  <2>1. released[n] = IF n \in InPool /\ Long!Received(n) THEN 1 ELSE 0
    BY Zenon DEF Long!LongInv, Long!OutcomeInv
  <2>2. CASE n = m
    <3>1. released[m] = 0 /\ Long!Received(m)'
      BY <1>2, <2>1, <2>2, Zenon
    <3>2. released'[m] = IF m \in InPool THEN 1 ELSE 0
      BY <1>1, <1>3, <3>1
    <3> QED
      BY <2>2, <3>1, <3>2, Zenon
  <2>3. CASE n # m
    <3>1. Long!Received(n)' <=> Long!Received(n)
      BY <1>2, <2>3, Zenon
    <3>2. released'[n] = released[n]
      BY <1>1, <1>3, <2>3, Zenon
    <3> QED
      BY <2>1, <3>1, <3>2, Zenon
  <2> QED
    BY <2>2, <2>3, Zenon
<1> QED
  BY <1>4, <1>5, <1>6, Zenon DEF Long!OutcomeInv, Long!Whole

LEMMA OutcomeKept ==
  ASSUME Long!LongInv, NEW m, NEW id, NEW i, Took(m, id, i), ~Completes(m, id, i),
         dispatched' = dispatched, released' = released
  PROVE  Long!OutcomeInv' /\ released' \in [LongMsg -> Nat]
<1>1. \A n : Long!Received(n)' <=> Long!Received(n)
  BY TookReceived, Zenon
<1> QED
  BY <1>1, Zenon DEF Long!OutcomeInv, Long!LongInv, Long!TypeOK, Long!Whole

(* The map as adjust_long_msgsize leaves it.                               *)
IsPut(g, f, id, v, S) ==
  /\ DOMAIN g = DOMAIN f \cup {id}
  /\ g[id] = v
  /\ \A x \in DOMAIN f : x # id => g[x] = f[x]
  /\ g \in [DOMAIN f \cup {id} -> S]

LEMMA PutFacts ==
  ASSUME NEW f, NEW id, NEW S, NEW v \in S, f \in [DOMAIN f -> S]
  PROVE  IsPut(Long!Put(f, id, v), f, id, v, S)
BY Zenon DEF Long!Put, IsPut

LEMMA EraseFacts ==
  ASSUME NEW f, NEW g, NEW id, NEW S, f \in [DOMAIN f -> S], g = Long!Erase(f, id)
  PROVE  /\ DOMAIN g = DOMAIN f \ {id}
         /\ \A x \in DOMAIN g : g[x] = f[x]
         /\ g \in [DOMAIN f \ {id} -> S]
BY Zenon DEF Long!Erase

(* adjust_long_msgsize completes a message exactly when all its chunks     *)
(* have come, and the message it then hands on is the one that was sent.   *)
Handled(m, id, i) ==
  /\ Long!MapInv' /\ Long!OutcomeInv' /\ released' \in [LongMsg -> Nat]
  /\ DOMAIN observed_messages' \subseteq Nat
  /\ observed_messages' \in [DOMAIN observed_messages' -> Long!ChunkInfo]
  /\ IF Completes(m, id, i) THEN dispatched' = dispatched \cup {Long!Whole(m)}
                            ELSE dispatched' = dispatched

LEMMA ReceiveStep ==
  ASSUME Long!LongInv, NEW m, NEW id, NEW i, Took(m, id, i),
         LET c == Long!Chunk(m, id, i)
         IN Long!ReceiveOnly(c) \/ Long!ReceiveFirst(c) \/ Long!ReceiveLater(c)
  PROVE  Handled(m, id, i)
<1> DEFINE c == Long!Chunk(m, id, i)
           seen == Long!Seen(m, id)
           p == DestPtr[m] + i * MaxLongReq
           z == Long!ChunkSize(m, i)
<1>1. /\ c.msg = m /\ c.id = id /\ c.chunks = Long!Chunks(m)
      /\ c.ptr = p /\ c.nbytes = z
  BY ChunkFields
<1> HIDE DEF c
<1>2. /\ m \in LongMsg /\ id \in 0 .. next_outgoing_message_id
      /\ seen \in SUBSET Long!Indices(m) /\ i \in Long!Indices(m) \ seen
  BY Zenon DEF Took
<1>3. /\ DOMAIN observed_messages \subseteq Nat
      /\ observed_messages \in [DOMAIN observed_messages -> Long!ChunkInfo]
  BY Zenon DEF Long!LongInv, Long!TypeOK
<1>4. id \in Nat
  BY <1>2 DEF Long!LongInv, Long!TypeOK
<1>5. Long!Chunks(m) \in Nat \ {0} /\ Long!Indices(m) = 0 .. Long!Chunks(m) - 1
  BY <1>2, ChunkFacts, Zenon DEF Long!Indices
<1>6. p \in Nat /\ z \in Nat
  <2> HIDE DEF p, z
  <2>1. p \in Nat /\ z \in 1 .. MaxLongReq
    BY <1>2, ChunkOf, Zenon DEF p, z
  <2> QED
    BY <2>1
<1>7. CASE Long!ReceiveOnly(c)
  <2>1. /\ Long!Chunks(m) = 1 /\ Long!Dispatch(m, p, z)
        /\ observed_messages' = observed_messages
    BY <1>1, <1>7, Zenon DEF Long!ReceiveOnly
  <2>2. Long!Indices(m) = {0}
    BY <1>5, <2>1
  <2>3. i = 0 /\ seen = {} /\ Completes(m, id, i)
    BY <1>2, <2>2, Zenon DEF Completes
  <2>4. p = DestPtr[m] /\ z = PayloadSize[m]
    <3>1. DestPtr[m] + 0 * MaxLongReq = DestPtr[m]
      BY <1>2, PathAssumption
    <3>2. (Long!Chunks(m) - 1) * MaxLongReq + z = PayloadSize[m] /\ Long!Chunks(m) - 1 = 0
      <4>1. Long!Chunks(m) - 1 = i
        BY <2>1, <2>3
      <4> QED
        BY <1>2, <2>3, <4>1, ChunkFacts, Zenon
    <3>3. 0 * MaxLongReq + z = z
      <4> HIDE DEF z
      <4> QED
        BY <1>6, PathAssumption
    <3> QED
      BY <2>3, <3>1, <3>2, <3>3, Zenon
  <2>5. Long!Dispatch(m, DestPtr[m], PayloadSize[m])
    BY <2>1, <2>4, Zenon
  <2>6. Long!OutcomeInv' /\ released' \in [LongMsg -> Nat]
    BY <2>3, <2>5, OutcomeDispatched, Zenon
  <2>7. id \notin DOMAIN observed_messages
    BY <2>3, TookEntry, Zenon
  <2>8. Long!MapInv'
    BY <2>1, <2>3, <2>7, MapErased, Zenon
  <2>9. dispatched' = dispatched \cup {Long!Whole(m)}
    BY <2>5, Zenon DEF Long!Dispatch, Long!Whole
  <2> QED
    BY <1>3, <2>1, <2>3, <2>6, <2>8, <2>9, Zenon DEF Handled
<1>8. CASE Long!ReceiveFirst(c)
  <2> DEFINE new == [base_ptr |-> p, chunks |-> 1, total_size |-> z]
  <2>1. /\ Long!Chunks(m) # 1 /\ id \notin DOMAIN observed_messages
        /\ observed_messages' = Long!Put(observed_messages, id, new)
        /\ dispatched' = dispatched /\ released' = released
    BY <1>1, <1>8, Zenon DEF Long!ReceiveFirst
  <2>2. seen = {}
    BY <2>1, TookEntry, Zenon
  <2>3. ~Completes(m, id, i)
    <3>1. 0 \in Long!Indices(m) /\ 1 \in Long!Indices(m) /\ 0 # 1
      BY <1>5, <2>1
    <3>2. seen \cup {i} # Long!Indices(m)
      BY <2>2, <3>1
    <3> QED
      BY <3>2, Zenon DEF Completes
  <2>4. new \in Long!ChunkInfo /\ new.base_ptr = p /\ new.chunks = 1 /\ new.total_size = z
    <3> HIDE DEF p, z
    <3> QED
      BY <1>6, Zenon DEF Long!ChunkInfo
  <2> HIDE DEF new
  <2>5. Long!Describes(new, m, {i})
    BY <1>2, <2>4, FirstDescribes, Zenon
  <2>6. /\ DOMAIN observed_messages' = DOMAIN observed_messages \cup {id}
        /\ observed_messages'[id] = new
        /\ \A x \in DOMAIN observed_messages : x # id => observed_messages'[x] = observed_messages[x]
        /\ observed_messages' \in [DOMAIN observed_messages \cup {id} -> Long!ChunkInfo]
    <3>1. IsPut(Long!Put(observed_messages, id, new), observed_messages, id, new, Long!ChunkInfo)
      BY <1>3, <2>4, PutFacts, Zenon
    <3> QED
      BY <2>1, <3>1, Zenon DEF IsPut
  <2>7. seen \cup {i} = {i}
    BY <2>2, Zenon
  <2>8. Long!MapInv'
    BY <2>3, <2>5, <2>6, <2>7, MapPut, Zenon
  <2>9. Long!OutcomeInv' /\ released' \in [LongMsg -> Nat]
    BY <2>1, <2>3, OutcomeKept, Zenon
  <2> QED
    BY <1>3, <1>4, <2>1, <2>3, <2>6, <2>8, <2>9, Zenon DEF Handled
<1>9. CASE Long!ReceiveLater(c)
  <2> DEFINE new == Long!Merge(observed_messages[id], c)
  <2>1. /\ id \in DOMAIN observed_messages
        /\ IF new.chunks = Long!Chunks(m)
             THEN /\ observed_messages' = Long!Erase(observed_messages, id)
                  /\ Long!Dispatch(m, new.base_ptr, new.total_size)
             ELSE /\ observed_messages' = Long!Put(observed_messages, id, new)
                  /\ dispatched' = dispatched /\ released' = released
    BY <1>1, <1>9, Zenon DEF Long!ReceiveLater
  <2>2. Long!Describes(observed_messages[id], m, seen) /\ observed_messages[id] \in Long!ChunkInfo
    <3>1. observed_messages[id] \in Long!ChunkInfo
      BY <1>3, <2>1, Zenon
    <3> QED
      BY <2>1, <3>1, TookEntry, Zenon
  <2>3. new \in Long!ChunkInfo /\ Long!Describes(new, m, seen \cup {i})
    BY <1>2, <2>2, LaterDescribes, Zenon DEF c
  <2> HIDE DEF new
  <2>4. new.chunks = Long!Chunks(m) <=> Completes(m, id, i)
    <3>1. new.chunks = Cardinality(seen \cup {i})
      BY <2>3, SameCardinality, Zenon DEF Long!Describes
    <3>2. seen \cup {i} \in SUBSET Long!Indices(m)
      BY <1>2, Zenon
    <3> QED
      BY <1>2, <3>1, <3>2, IndexSets, Zenon DEF Completes
  <2>5. CASE Completes(m, id, i)
    <3>1. new.base_ptr = DestPtr[m] /\ new.total_size = PayloadSize[m]
      BY <1>2, <2>3, <2>5, AllDescribe, Zenon DEF Completes
    <3>2. Long!Dispatch(m, DestPtr[m], PayloadSize[m])
      BY <2>1, <2>4, <2>5, <3>1, Zenon
    <3>3. /\ DOMAIN observed_messages' = DOMAIN observed_messages \ {id}
          /\ \A x \in DOMAIN observed_messages' : observed_messages'[x] = observed_messages[x]
          /\ observed_messages' \in [DOMAIN observed_messages \ {id} -> Long!ChunkInfo]
      BY <1>3, <2>1, <2>4, <2>5, EraseFacts, Zenon
    <3>4. Long!MapInv'
      BY <2>5, <3>3, MapErased, Zenon
    <3>5. Long!OutcomeInv' /\ released' \in [LongMsg -> Nat]
      BY <2>5, <3>2, OutcomeDispatched, Zenon
    <3>6. dispatched' = dispatched \cup {Long!Whole(m)}
      BY <3>2, Zenon DEF Long!Dispatch, Long!Whole
    <3> QED
      BY <1>3, <2>5, <3>3, <3>4, <3>5, <3>6, Zenon DEF Handled
  <2>6. CASE ~Completes(m, id, i)
    <3>1. /\ observed_messages' = Long!Put(observed_messages, id, new)
          /\ dispatched' = dispatched /\ released' = released
      BY <2>1, <2>4, <2>6, Zenon
    <3>2. /\ DOMAIN observed_messages' = DOMAIN observed_messages \cup {id}
          /\ observed_messages'[id] = new
          /\ \A x \in DOMAIN observed_messages : x # id => observed_messages'[x] = observed_messages[x]
          /\ observed_messages' \in [DOMAIN observed_messages \cup {id} -> Long!ChunkInfo]
      <4>1. IsPut(Long!Put(observed_messages, id, new), observed_messages, id, new, Long!ChunkInfo)
        BY <1>3, <2>3, PutFacts, Zenon
      <4> QED
        BY <3>1, <4>1, Zenon DEF IsPut
    <3>3. Long!MapInv'
      BY <2>3, <2>6, <3>2, MapPut, Zenon
    <3>4. Long!OutcomeInv' /\ released' \in [LongMsg -> Nat]
      BY <2>6, <3>1, OutcomeKept, Zenon
    <3> QED
      BY <1>3, <1>4, <2>6, <3>1, <3>2, <3>3, <3>4, Zenon DEF Handled
  <2> QED
    BY <2>5, <2>6, Zenon
<1> QED
  BY <1>7, <1>8, <1>9, Zenon DEF c

(* handler_medium takes a chunk off the network.  What it leaves there was *)
(* there before, and the thread that sends goes on where it was.           *)
LEMMA TookSender ==
  ASSUME Long!LongInv, NEW c \in network, network' = network \ {c},
         UNCHANGED <<next_outgoing_message_id, todo, sending>>
  PROVE  Long!SenderInv'
<1>1. \A n, b, k : Long!Unsent(n, b, k)' <=> Long!Unsent(n, b, k)
  BY Zenon DEF Long!Unsent, Long!Sends
<1>2. \A d \in network' : d \in network
  BY Zenon
<1> QED
  BY <1>1, <1>2, Zenon DEF Long!LongInv, Long!SenderInv

(* One call of handler_medium: the invariant is kept, and a message is     *)
(* dispatched exactly when it is the last chunk that came.                 *)
LEMMA HandlerMediumStep ==
  ASSUME Long!LongInv, NEW c \in network, Long!HandlerMedium(c)
  PROVE  /\ Long!LongInv'
         /\ c.msg \in LongMsg
         /\ \A n : Long!Received(n)' <=> Long!Received(n) \/ (n = c.msg /\ dispatched' # dispatched)
<1>1. PICK m, id : m = c.msg /\ id = c.id
  BY Zenon
<1>2. PICK i \in Long!Indices(m) : c = Long!Chunk(m, id, i) /\ ~Long!Unsent(m, id, i)
  BY <1>1, NetworkFacts, Zenon
<1>3. /\ network' = network \ {c}
      /\ Long!ReceiveOnly(c) \/ Long!ReceiveFirst(c) \/ Long!ReceiveLater(c)
      /\ UNCHANGED <<next_outgoing_message_id, todo, sending>>
  BY Zenon DEF Long!HandlerMedium
<1>4. Took(m, id, i)
  BY <1>2, <1>3, HandlerView, Zenon
<1>5. Handled(m, id, i)
  BY <1>2, <1>3, <1>4, ReceiveStep, Zenon
<1>6. Long!TypeOK'
  <2>1. \A d \in network' : d \in network
    BY <1>3, Zenon
  <2> QED
    BY <1>3, <1>5, <2>1, Zenon DEF Handled, Long!LongInv, Long!TypeOK
<1>7. Long!IdsName' /\ Long!SenderInv'
  BY <1>3, <1>4, TookIds, TookSender, Zenon
<1>8. Long!LongInv'
  BY <1>5, <1>6, <1>7, Zenon DEF Handled, Long!LongInv
<1>9. Completes(m, id, i) <=> dispatched' # dispatched
  <2>1. Long!Whole(m) \notin dispatched
    <3>1. \A n : Long!Whole(m) = Long!Whole(n) => n = m
      BY Zenon DEF Long!Whole
    <3>2. ~Long!Received(m)
      BY <1>4, TookReceived, Zenon
    <3>3. \A d \in dispatched : \E n \in LongMsg : Long!Received(n) /\ d = Long!Whole(n)
      BY Zenon DEF Long!LongInv, Long!OutcomeInv
    <3> QED
      BY <3>1, <3>2, <3>3, Zenon
  <2> QED
    BY <1>5, <2>1, Zenon DEF Handled
<1>10. \A n : Long!Received(n)' <=> Long!Received(n) \/ (n = m /\ Completes(m, id, i))
  BY <1>4, TookReceived, Zenon
<1>11. m \in LongMsg
  BY <1>4, Zenon DEF Took
<1> QED
  BY <1>1, <1>8, <1>9, <1>10, <1>11, Zenon

(* Nothing is sent and nothing has come before the first message.          *)
LEMMA LongStart ==
  ASSUME Long!Init
  PROVE  Long!LongInv /\ \A m \in LongMsg : ~Long!Received(m)
<1>1. /\ next_outgoing_message_id = 0 /\ todo = LongMsg /\ network = {}
      /\ sending = [s \in SendThread |-> Long!Idle]
      /\ observed_messages = << >> /\ dispatched = {}
      /\ released = [m \in LongMsg |-> 0]
  BY Zenon DEF Long!Init
<1>2. DOMAIN sending = SendThread /\ \A s \in SendThread : sending[s] = Long!Idle
  BY <1>1, Zenon
<1>3. DOMAIN observed_messages = {} /\ observed_messages \in [{} -> Long!ChunkInfo]
  BY <1>1
<1>4. Long!TypeOK
  <2>1. released \in [LongMsg -> Nat] /\ next_outgoing_message_id \in Nat
    BY <1>1, Zenon
  <2> QED
    BY <1>1, <1>2, <1>3, <2>1, Zenon DEF Long!TypeOK
<1>5. Long!SenderInv
  BY <1>1, <1>2, Zenon DEF Long!SenderInv
<1>6. \A m, id : ~Long!OnItsWay(m, id)
  BY <1>1, <1>2, Zenon DEF Long!OnItsWay, Long!Sends
<1>7. Long!IdsName /\ Long!MapInv
  BY <1>3, <1>6, Zenon DEF Long!IdsName, Long!MapInv
<1>8. \A m \in LongMsg : ~Long!Received(m)
  BY <1>1, Zenon DEF Long!Received
<1>9. Long!OutcomeInv
  <2>1. \A m \in LongMsg : released[m] = 0
    BY <1>1, Zenon
  <2>2. {n \in LongMsg : Long!Received(n)} = {}
    BY <1>8, Zenon
  <2>3. {Long!Whole(m) : m \in {}} = {}
    BY Zenon
  <2> QED
    BY <1>1, <1>8, <2>1, <2>2, <2>3, Zenon DEF Long!OutcomeInv
<1> QED
  BY <1>4, <1>5, <1>7, <1>8, <1>9, Zenon DEF Long!LongInv

(* The messages received are those dispatched, so that a step which        *)
(* dispatches nothing receives none.                                       *)
LEMMA SameReceived ==
  ASSUME Long!LongInv, Long!LongInv', dispatched' = dispatched
  PROVE  \A m \in LongMsg : Long!Received(m)' <=> Long!Received(m)
<1>1. \A m, n : Long!Whole(m) = Long!Whole(n) => n = m
  BY Zenon DEF Long!Whole
<1>2. \A m \in LongMsg : Long!Received(m) <=> Long!Whole(m) \in dispatched
  <2>1. dispatched = {Long!Whole(m) : m \in {n \in LongMsg : Long!Received(n)}}
    BY Zenon DEF Long!LongInv, Long!OutcomeInv
  <2> QED
    BY <1>1, <2>1, Zenon
<1>3. \A m \in LongMsg : Long!Received(m)' <=> Long!Whole(m) \in dispatched'
  <2>1. dispatched' = {Long!Whole(m) : m \in {n \in LongMsg : Long!Received(n)'}}
    BY Zenon DEF Long!LongInv, Long!OutcomeInv, Long!Whole
  <2> QED
    BY <1>1, <2>1, Zenon
<1> QED
  BY <1>2, <1>3, Zenon
-----------------------------------------------------------------------------
(* A message from add_incoming_message to its handler.                     *)

LEMMA AppendFacts ==
  ASSUME NEW S, NEW q \in Seq(S), NEW x \in S
  PROVE  /\ Range(Append(q, x)) = Range(q) \cup {x}
         /\ OnceEach(q) /\ x \notin Range(q) => OnceEach(Append(q, x))
<1>1. /\ Len(q) \in Nat /\ DOMAIN q = 1 .. Len(q)
      /\ DOMAIN Append(q, x) = 1 .. Len(q) + 1
      /\ \A i \in 1 .. Len(q) : Append(q, x)[i] = q[i]
      /\ Append(q, x)[Len(q) + 1] = x
  OBVIOUS
<1> DEFINE n == Len(q) + 1
           r == Append(q, x)
<1>2. /\ n \notin DOMAIN q /\ DOMAIN r = DOMAIN q \cup {n}
  BY <1>1
<1>3. r[n] = x /\ \A i \in DOMAIN q : r[i] = q[i]
  BY <1>1, Zenon
<1> HIDE DEF n, r
<1>4. Range(r) = Range(q) \cup {x}
  BY <1>2, <1>3 DEF Range
<1>5. OnceEach(q) /\ x \notin Range(q) => OnceEach(r)
  BY <1>2, <1>3, Zenon DEF OnceEach, Range
<1> QED
  BY <1>4, <1>5, Zenon DEF r

LEMMA AppendRange ==
  ASSUME NEW S, NEW q \in Seq(S), NEW x \in S
  PROVE  Range(Append(q, x)) = Range(q) \cup {x}
BY AppendFacts

LEMMA AppendOnce ==
  ASSUME NEW S, NEW q \in Seq(S), NEW x \in S, OnceEach(q), x \notin Range(q)
  PROVE  OnceEach(Append(q, x))
BY AppendFacts, Zenon

LEMMA TailOnce ==
  ASSUME NEW S, NEW q \in Seq(S), q # <<>>, OnceEach(q)
  PROVE  /\ OnceEach(Tail(q)) /\ Head(q) \in Range(q)
         /\ Range(Tail(q)) = Range(q) \ {Head(q)}
<1> DEFINE n == Len(q)
           r == Tail(q)
<1>1. /\ n \in Nat \ {0} /\ DOMAIN q = 1 .. n /\ Head(q) = q[1]
      /\ DOMAIN r = 1 .. n - 1
      /\ \A i \in 1 .. n - 1 : r[i] = q[i + 1]
  OBVIOUS
<1> HIDE DEF n, r
<1>2. \A i, j \in 1 .. n : q[i] = q[j] => i = j
  BY <1>1, Zenon DEF OnceEach
<1>3. OnceEach(r)
  BY <1>1, <1>2 DEF OnceEach
<1>4. Head(q) \in Range(q)
  <2>1. 1 \in DOMAIN q
    BY <1>1
  <2> QED
    BY <1>1, <2>1, Zenon DEF Range
<1>5. Range(r) = Range(q) \ {Head(q)}
  <2>1. \A y \in Range(r) : y \in Range(q) /\ y # Head(q)
    <3> SUFFICES ASSUME NEW i \in 1 .. n - 1 PROVE r[i] \in Range(q) /\ r[i] # Head(q)
      BY <1>1, Zenon DEF Range
    <3>1. i + 1 \in 1 .. n /\ 1 \in 1 .. n /\ i + 1 # 1
      BY <1>1
    <3>2. r[i] = q[i + 1] /\ Head(q) = q[1] /\ DOMAIN q = 1 .. n
      BY <1>1, Zenon
    <3>3. q[i + 1] # q[1]
      BY <1>2, <3>1, Zenon
    <3> QED
      BY <3>1, <3>2, <3>3, Zenon DEF Range
  <2>2. \A y \in Range(q) : y # Head(q) => y \in Range(r)
    <3> SUFFICES ASSUME NEW i \in 1 .. n, q[i] # Head(q) PROVE q[i] \in Range(r)
      BY <1>1, Zenon DEF Range
    <3>1. i # 1
      BY <1>1, Zenon
    <3>2. i - 1 \in 1 .. n - 1 /\ i = i - 1 + 1
      BY <1>1, <3>1
    <3>3. r[i - 1] = q[i]
      BY <1>1, <3>2, Zenon
    <3> QED
      BY <1>1, <3>2, <3>3, Zenon DEF Range
  <2> QED
    BY <2>1, <2>2, Zenon
<1> QED
  BY <1>3, <1>4, <1>5, Zenon DEF r

LEMMA EmptyOnce == OnceEach(<<>>) /\ Range(<<>>) = {}
BY DEF OnceEach, Range

(* add_incoming_message puts a new message into the list of its sender.    *)
LEMMA AddPlaces ==
  ASSUME RingInv, PlacesInv, NEW m \in Msg, AddIncomingMessage(m)
  PROVE  PlacesInv' /\ Range(arrived') = Range(arrived) \cup {m}
<1> DEFINE s == SenderOf[m]
<1>1. /\ s \in Sender /\ m \notin Range(arrived)
      /\ list' = [list EXCEPT ![s] = Append(list[s], m)]
      /\ arrived' = Append(arrived, m) /\ batch' = batch /\ handled' = handled
  BY IncomingAssumption, Zenon DEF AddIncomingMessage, AppendMessage
<1>2. list \in [Sender -> Seq(Msg)] /\ arrived \in Seq(Msg)
  BY Zenon DEF RingInv, TypeOK
<1>3. list'[s] = Append(list[s], m) /\ \A u \in Sender \ {s} : list'[u] = list[u]
  BY <1>1, <1>2, Zenon
<1>4. Range(arrived') = Range(arrived) \cup {m}
  BY <1>1, <1>2, AppendRange
<1>5. list[s] \in Seq(Msg)
  BY <1>1, <1>2, Zenon
<1>6. /\ m \notin Range(list[s])
      /\ m \notin Range(handled) /\ \A t \in Thread : m \notin Range(batch[t])
  BY <1>1, Zenon DEF PlacesInv
<1>7. /\ Range(list'[s]) = Range(list[s]) \cup {m}
      /\ OnceEach(list'[s])
  <2>1. OnceEach(list[s])
    BY <1>1, Zenon DEF PlacesInv
  <2> QED
    BY <1>3, <1>5, <1>6, <2>1, AppendRange, AppendOnce
<1> HIDE DEF s
<1>8. \A u \in Sender : /\ OnceEach(list'[u])
                        /\ \A n \in Range(list'[u]) : SenderOf[n] = u
                        /\ Range(list'[u]) \subseteq Range(arrived') \ Range(handled)
                        /\ \A t \in Thread : Range(list'[u]) \cap Range(batch[t]) = {}
  <2> SUFFICES ASSUME NEW u \in Sender
               PROVE  /\ OnceEach(list'[u])
                      /\ \A n \in Range(list'[u]) : SenderOf[n] = u
                      /\ Range(list'[u]) \subseteq Range(arrived') \ Range(handled)
                      /\ \A t \in Thread : Range(list'[u]) \cap Range(batch[t]) = {}
    BY Zenon
  <2>0. /\ OnceEach(list[u])
        /\ \A n \in Range(list[u]) : SenderOf[n] = u
        /\ Range(list[u]) \subseteq Range(arrived) \ Range(handled)
        /\ \A t \in Thread : Range(list[u]) \cap Range(batch[t]) = {}
    BY Zenon DEF PlacesInv
  <2>1. CASE u = s
    <3>1. SenderOf[m] = u
      BY <2>1, Zenon DEF s
    <3> QED
      BY <1>4, <1>6, <1>7, <2>0, <2>1, <3>1, Zenon
  <2>2. CASE u # s
    BY <1>3, <1>4, <2>0, <2>2, Zenon
  <2> QED
    BY <2>1, <2>2, Zenon
<1>9. \A t \in Thread : Range(batch[t]) \subseteq Range(arrived') \ Range(handled)
  BY <1>4, Zenon DEF PlacesInv
<1>10. Range(handled) \subseteq Range(arrived')
  BY <1>4, Zenon DEF PlacesInv
<1> QED
  BY <1>1, <1>4, <1>8, <1>9, <1>10, Zenon DEF PlacesInv

(* get_messages moves the list of a sender into the batch of the thread,   *)
(* whose batch is empty.                                                   *)
LEMMA BatchPlaces ==
  ASSUME RingInv, PlacesInv, NEW t \in Thread, GetBatch(t)
  PROVE  PlacesInv' /\ arrived' = arrived
<1>1. PICK s : s = todo_list[todo_oldest]
  BY Zenon
<1>2. /\ list' = [list EXCEPT ![s] = <<>>] /\ batch' = [batch EXCEPT ![t] = list[s]]
      /\ arrived' = arrived /\ handled' = handled
      /\ list \in [Sender -> Seq(Msg)] /\ batch \in [Thread -> Seq(Msg)]
  BY <1>1, Zenon DEF GetBatch, RingInv, TypeOK
<1>3. s \in Sender
  BY <1>1, Zenon DEF RingInv, TypeOK
<1>4. /\ list'[s] = <<>> /\ \A u \in Sender \ {s} : list'[u] = list[u]
      /\ batch'[t] = list[s] /\ \A u \in Thread \ {t} : batch'[u] = batch[u]
  BY <1>2, <1>3, Zenon
<1>5. \A u \in Sender : /\ OnceEach(list[u])
                        /\ \A n \in Range(list[u]) : SenderOf[n] = u
                        /\ Range(list[u]) \subseteq Range(arrived) \ Range(handled)
  BY Zenon DEF PlacesInv
<1>6. \A u \in Thread : /\ OnceEach(batch[u])
                        /\ Range(batch[u]) \subseteq Range(arrived) \ Range(handled)
                        /\ \A v \in Sender : Range(list[v]) \cap Range(batch[u]) = {}
                        /\ \A w \in Thread : u # w => Range(batch[u]) \cap Range(batch[w]) = {}
  BY Zenon DEF PlacesInv
<1>7. \A u \in Sender : u # s => Range(list[u]) \cap Range(list[s]) = {}
  BY <1>3, <1>5, Zenon
<1>8. \A u \in Sender : /\ OnceEach(list'[u])
                        /\ \A n \in Range(list'[u]) : SenderOf[n] = u
                        /\ Range(list'[u]) \subseteq Range(arrived) \ Range(handled)
                        /\ Range(list'[u]) \subseteq Range(list[u])
                        /\ Range(list'[u]) \cap Range(list[s]) = {}
  BY <1>4, <1>5, <1>7, EmptyOnce, Zenon
<1>9. \A u \in Thread : /\ OnceEach(batch'[u])
                        /\ Range(batch'[u]) \subseteq Range(arrived) \ Range(handled)
                        /\ \A v \in Sender : Range(list'[v]) \cap Range(batch'[u]) = {}
  BY <1>3, <1>4, <1>5, <1>6, <1>8, Zenon
<1>10. \A u, w \in Thread : u # w => Range(batch'[u]) \cap Range(batch'[w]) = {}
  <2> SUFFICES ASSUME NEW u \in Thread, NEW w \in Thread, u # w
               PROVE  Range(batch'[u]) \cap Range(batch'[w]) = {}
    BY Zenon
  <2>1. CASE u = t
    BY <1>3, <1>4, <1>6, <2>1, Zenon
  <2>2. CASE w = t
    BY <1>3, <1>4, <1>6, <2>2, Zenon
  <2>3. CASE u # t /\ w # t
    BY <1>4, <1>6, <2>3, Zenon
  <2> QED
    BY <2>1, <2>2, <2>3, Zenon
<1>11. OnceEach(handled') /\ Range(handled') \subseteq Range(arrived')
  BY <1>2, Zenon DEF PlacesInv
<1> QED
  BY <1>2, <1>8, <1>9, <1>10, <1>11, Zenon DEF PlacesInv

(* The handler thread runs the handler of the first message of its batch.  *)
LEMMA RunPlaces ==
  ASSUME RingInv, PlacesInv, NEW t \in Thread, RunHandler(t)
  PROVE  PlacesInv' /\ arrived' = arrived
<1>1. PICK m, q : m = Head(batch[t]) /\ q = Tail(batch[t])
  BY Zenon
<1>2. /\ batch[t] # <<>> /\ batch[t] \in Seq(Msg) /\ handled \in Seq(Msg)
      /\ batch \in [Thread -> Seq(Msg)]
      /\ batch' = [batch EXCEPT ![t] = q] /\ handled' = Append(handled, m)
      /\ arrived' = arrived /\ list' = list
  BY <1>1, Zenon DEF RunHandler, RingInv, TypeOK, ring
<1>3. batch'[t] = q /\ \A u \in Thread \ {t} : batch'[u] = batch[u]
  BY <1>2, Zenon
<1>4. \A u \in Thread : /\ OnceEach(batch[u])
                        /\ Range(batch[u]) \subseteq Range(arrived) \ Range(handled)
                        /\ \A v \in Sender : Range(list[v]) \cap Range(batch[u]) = {}
                        /\ \A w \in Thread : u # w => Range(batch[u]) \cap Range(batch[w]) = {}
  BY Zenon DEF PlacesInv
<1>5. OnceEach(q) /\ m \in Range(batch[t]) /\ Range(q) = Range(batch[t]) \ {m}
  BY <1>1, <1>2, <1>4, TailOnce, Zenon
<1>6. m \in Msg
  BY <1>1, <1>2, SeqFacts
<1>7. /\ OnceEach(handled') /\ Range(handled') = Range(handled) \cup {m}
      /\ Range(handled') \subseteq Range(arrived)
  <2>1. OnceEach(handled) /\ Range(handled) \subseteq Range(arrived)
    BY Zenon DEF PlacesInv
  <2>2. m \notin Range(handled) /\ m \in Range(arrived)
    BY <1>4, <1>5, Zenon
  <2>3. OnceEach(handled') /\ Range(handled') = Range(handled) \cup {m}
    BY <1>2, <1>6, <2>1, <2>2, AppendRange, AppendOnce
  <2> QED
    BY <2>1, <2>2, <2>3, Zenon
<1>8. \A u \in Thread : /\ OnceEach(batch'[u])
                        /\ Range(batch'[u]) \subseteq Range(batch[u])
                        /\ m \notin Range(batch'[u])
  BY <1>3, <1>4, <1>5, Zenon
<1>9. \A u \in Sender : m \notin Range(list[u])
  BY <1>4, <1>5, Zenon
<1>10. \A u \in Sender : /\ OnceEach(list[u])
                         /\ \A n \in Range(list[u]) : SenderOf[n] = u
                         /\ Range(list[u]) \subseteq Range(arrived) \ Range(handled')
  BY <1>7, <1>9, Zenon DEF PlacesInv
<1>11. \A u \in Thread : /\ Range(batch'[u]) \subseteq Range(arrived) \ Range(handled')
                         /\ \A v \in Sender : Range(list[v]) \cap Range(batch'[u]) = {}
  <2>1. \A u \in Thread : Range(batch'[u]) \subseteq Range(arrived) \ (Range(handled) \cup {m})
    <3> SUFFICES ASSUME NEW u \in Thread, NEW x \in Range(batch'[u])
                 PROVE  x \in Range(arrived) /\ x \notin Range(handled) /\ x # m
      BY Zenon
    <3>1. x \in Range(batch[u]) /\ m \notin Range(batch'[u])
      BY <1>8, Zenon
    <3> QED
      BY <1>4, <3>1, Zenon
  <2>2. Range(handled') = Range(handled) \cup {m}
    BY <1>7, Zenon
  <2>3. \A u \in Thread, v \in Sender : Range(list[v]) \cap Range(batch'[u]) = {}
    BY <1>4, <1>8, Zenon
  <2> QED
    BY <2>1, <2>2, <2>3, Zenon
<1>12. \A u, w \in Thread : u # w => Range(batch'[u]) \cap Range(batch'[w]) = {}
  BY <1>4, <1>8, Zenon
<1> QED
  BY <1>2, <1>7, <1>8, <1>10, <1>11, <1>12, Zenon DEF PlacesInv

(* All other steps of the receiver leave the messages where they are.      *)
LEMMA QuietPlaces ==
  ASSUME PlacesInv, UNCHANGED <<list, batch, arrived, handled>>
  PROVE  PlacesInv'
BY Zenon DEF PlacesInv

LEMMA StartPlaces ==
  ASSUME Init
  PROVE  PlacesInv /\ Range(arrived) = {}
<1>1. /\ arrived = <<>> /\ handled = <<>>
      /\ \A s \in Sender : list[s] = <<>>
      /\ \A t \in Thread : batch[t] = <<>>
  BY Zenon DEF Init
<1> QED
  BY <1>1, EmptyOnce, Zenon DEF PlacesInv
-----------------------------------------------------------------------------
(* send_long, on the other node, adds nothing.                             *)
LEMMA SendLongStep ==
  ASSUME PathInv, NEW s \in SendThread, SendLong(s)
  PROVE  PathInv'
<1>1. Long!LongInv /\ RingInv /\ PlacesInv
  BY Zenon DEF PathInv
<1>2. UNCHANGED vars
  BY Zenon DEF SendLong
<1>3. Long!LongInv' /\ dispatched' = dispatched
  <2>1. CASE \E m \in LongMsg : Long!ReadId(s, m)
    BY <1>1, <2>1, ReadIdStep, Zenon DEF Long!ReadId
  <2>2. CASE Long!WriteId(s)
    BY <1>1, <2>2, WriteIdStep, Zenon DEF Long!WriteId
  <2>3. CASE Long!SendChunk(s)
    BY <1>1, <2>3, SendChunkStep, Zenon DEF Long!SendChunk
  <2> QED
    BY <2>1, <2>2, <2>3, Zenon DEF SendLong
<1>4. \A m \in LongMsg : Long!Received(m)' <=> Long!Received(m)
  BY <1>1, <1>3, SameReceived, Zenon
<1>5. RingInv'
  BY <1>1, <1>2, QuietStep, Zenon
<1>6. PlacesInv' /\ arrived' = arrived
  BY <1>1, <1>2, QuietPlaces, Zenon DEF vars, ring
<1> QED
  BY <1>3, <1>4, <1>5, <1>6, Zenon DEF PathInv

(* handler_medium adds a message when it is complete, and only then.       *)
LEMMA MediumStep ==
  ASSUME PathInv, NEW c \in network, HandlerMedium(c)
  PROVE  PathInv'
<1>1. Long!LongInv /\ RingInv /\ PlacesInv
  BY Zenon DEF PathInv
<1>2. \A m \in LongMsg : m \in Range(arrived) <=> Long!Received(m)
  BY Zenon DEF PathInv
<1>3. PICK m : m = c.msg
  BY Zenon
<1>4. /\ Long!LongInv' /\ m \in LongMsg
      /\ \A n : Long!Received(n)' <=> Long!Received(n) \/ (n = m /\ dispatched' # dispatched)
  BY <1>1, <1>3, HandlerMediumStep, Zenon DEF HandlerMedium
<1>5. CASE dispatched' # dispatched
  <2>1. AddIncomingMessage(m) /\ m \in Msg
    BY <1>3, <1>4, <1>5, PathAssumption, Zenon DEF HandlerMedium
  <2>2. RingInv' /\ PlacesInv' /\ Range(arrived') = Range(arrived) \cup {m}
    BY <1>1, <2>1, AddStep, AddPlaces, Zenon
  <2>3. \A n \in LongMsg : n \in Range(arrived') <=> Long!Received(n)'
    BY <1>2, <1>4, <1>5, <2>2, Zenon
  <2> QED
    BY <1>4, <2>2, <2>3, Zenon DEF PathInv
<1>6. CASE dispatched' = dispatched
  <2>1. UNCHANGED vars
    BY <1>6, Zenon DEF HandlerMedium
  <2>2. RingInv'
    BY <1>1, <2>1, QuietStep, Zenon
  <2>3. PlacesInv' /\ arrived' = arrived
    BY <1>1, <2>1, QuietPlaces, Zenon DEF vars, ring
  <2>4. \A n \in LongMsg : n \in Range(arrived') <=> Long!Received(n)'
    BY <1>2, <1>4, <1>6, <2>3, Zenon
  <2> QED
    BY <1>4, <2>2, <2>3, <2>4, Zenon DEF PathInv
<1> QED
  BY <1>5, <1>6, Zenon

(* A step of the receiver alone.                                           *)
LEMMA LongUntouched ==
  ASSUME PathInv, UNCHANGED longVars
  PROVE  Long!LongInv' /\ \A m \in LongMsg : Long!Received(m)' <=> Long!Received(m)
<1>1. /\ next_outgoing_message_id' = next_outgoing_message_id
      /\ todo' = todo /\ sending' = sending /\ network' = network
      /\ observed_messages' = observed_messages /\ dispatched' = dispatched
      /\ released' = released
  BY Zenon DEF longVars
<1>2. Long!LongInv
  BY Zenon DEF PathInv
<1>3. /\ \A n, b : Long!OnItsWay(n, b)' <=> Long!OnItsWay(n, b)
      /\ \A n, b, k : Long!Unsent(n, b, k)' <=> Long!Unsent(n, b, k)
  BY <1>1, Zenon DEF Long!OnItsWay, Long!Unsent, Long!Sends
<1>4. \A n, b : Long!Seen(n, b)' = Long!Seen(n, b)
  BY <1>1, <1>3, Zenon DEF Long!Seen, Long!Missing
<1>5. \A n : Long!Received(n)' <=> Long!Received(n)
  BY <1>1, Zenon DEF Long!Received
<1>6. Long!TypeOK' /\ Long!SenderInv' /\ Long!IdsName'
  <2>1. Long!TypeOK'
    BY <1>1, <1>2, Zenon DEF Long!LongInv, Long!TypeOK
  <2>2. Long!SenderInv'
    BY <1>1, <1>2, <1>3, Zenon DEF Long!LongInv, Long!SenderInv
  <2>3. Long!IdsName'
    BY <1>1, <1>2, <1>3, Zenon DEF Long!LongInv, Long!IdsName
  <2> QED
    BY <2>1, <2>2, <2>3, Zenon
<1>7. Long!MapInv'
  BY <1>1, <1>2, <1>3, <1>4, Zenon DEF Long!LongInv, Long!MapInv
<1>8. Long!OutcomeInv'
  <2>1. {n \in LongMsg : Long!Received(n)'} = {n \in LongMsg : Long!Received(n)}
    BY <1>5, Zenon
  <2>2. dispatched' = {Long!Whole(n) : n \in {n \in LongMsg : Long!Received(n)'}}
    BY <1>1, <1>2, <2>1, Zenon DEF Long!LongInv, Long!OutcomeInv
  <2> QED
    BY <1>1, <1>2, <1>5, <2>2, Zenon DEF Long!LongInv, Long!OutcomeInv, Long!Whole
<1> QED
  BY <1>5, <1>6, <1>7, <1>8, Zenon DEF Long!LongInv

(* handler_short adds a message that was never cut into chunks.            *)
LEMMA ShortStep ==
  ASSUME PathInv, NEW m \in Msg, HandlerShort(m)
  PROVE  PathInv'
<1>1. RingInv /\ PlacesInv /\ \A n \in LongMsg : n \in Range(arrived) <=> Long!Received(n)
  BY Zenon DEF PathInv
<1>2. m \notin LongMsg /\ AddIncomingMessage(m) /\ UNCHANGED longVars
  BY Zenon DEF HandlerShort
<1>3. RingInv' /\ PlacesInv' /\ Range(arrived') = Range(arrived) \cup {m}
  BY <1>1, <1>2, AddStep, AddPlaces, Zenon
<1>4. Long!LongInv' /\ \A n \in LongMsg : Long!Received(n)' <=> Long!Received(n)
  BY <1>2, LongUntouched, Zenon
<1> QED
  BY <1>1, <1>2, <1>3, <1>4, Zenon DEF PathInv

(* Handler threads move messages and add none.                             *)
LEMMA ThreadsStep ==
  ASSUME PathInv, Threads \/ UNCHANGED pathVars
  PROVE  PathInv'
<1>1. RingInv /\ PlacesInv /\ \A n \in LongMsg : n \in Range(arrived) <=> Long!Received(n)
  BY Zenon DEF PathInv
<1>2. UNCHANGED longVars
  BY Zenon DEF Threads, pathVars
<1>3. Long!LongInv' /\ \A n \in LongMsg : Long!Received(n)' <=> Long!Received(n)
  BY <1>2, LongUntouched, Zenon
<1>4. RingInv' /\ PlacesInv' /\ arrived' = arrived
  <2>1. ASSUME NEW t \in Thread, GetBatch(t)
        PROVE  RingInv' /\ PlacesInv' /\ arrived' = arrived
    BY <1>1, <2>1, BatchStep, BatchPlaces, Zenon
  <2>2. ASSUME NEW t \in Thread, RunHandler(t)
        PROVE  RingInv' /\ PlacesInv' /\ arrived' = arrived
    BY <1>1, <2>2, RunStep, RunPlaces, Zenon
  <2>3. ASSUME \/ \E t \in Thread : GetNothing(t) \/ GetWait(t)
               \/ StopPolling \/ Shutdown \/ UNCHANGED vars
        PROVE  RingInv' /\ PlacesInv' /\ arrived' = arrived
    <3>1. UNCHANGED <<list, batch, arrived, handled>>
      BY <2>3, Zenon DEF GetNothing, GetWait, StopPolling, Shutdown, vars, ring
    <3> QED
      BY <1>1, <2>3, <3>1, QuietStep, QuietPlaces, Zenon
  <2> QED
    BY <2>1, <2>2, <2>3, Zenon DEF Threads, HandlerStep, Finished, pathVars
<1> QED
  BY <1>1, <1>3, <1>4, Zenon DEF PathInv

(***************************************************************************)
(* From send_long to the handler: in every reachable state the map of      *)
(* adjust_long_msgsize describes exactly the chunks that have come,        *)
(* enqueue_incoming has been called exactly for the complete messages, and *)
(* a message that was added is in one place.                               *)
(***************************************************************************)
THEOREM PathInvariant == PathSpec => []PathInv
<1>1. PathInit => PathInv
  BY RingInit, StartPlaces, LongStart, Zenon DEF PathInit, PathInv
<1>2. PathInv /\ [PathNext]_pathVars => PathInv'
  BY SendLongStep, MediumStep, ShortStep, ThreadsStep, Zenon DEF PathNext
<1> QED
  BY <1>1, <1>2, PTL DEF PathSpec

(* What the invariant says when nothing is on its way.                     *)
LEMMA NothingLeft ==
  ASSUME Long!LongInv
  PROVE  Long!AllDispatched
<1> SUFFICES ASSUME network = {}, \A s \in SendThread : sending[s] = Long!Idle
             PROVE  /\ observed_messages = << >>
                    /\ \A m \in LongMsg \ todo : \E d \in dispatched : d.msg = m
  BY Zenon DEF Long!AllDispatched
<1>1. \A m, id : ~Long!OnItsWay(m, id)
  BY Zenon DEF Long!OnItsWay, Long!Sends
<1>2. DOMAIN observed_messages = {}
  BY <1>1, Zenon DEF Long!LongInv, Long!MapInv
<1>3. observed_messages \in [{} -> Long!ChunkInfo]
  BY <1>2, Zenon DEF Long!LongInv, Long!TypeOK
<1>4. observed_messages = << >>
  BY <1>3
<1>5. \A m \in LongMsg \ todo : Long!Received(m)
  BY Zenon DEF Long!Received
<1>6. \A m \in LongMsg \ todo : Long!Whole(m) \in dispatched
  BY <1>5, Zenon DEF Long!LongInv, Long!OutcomeInv
<1>7. \A m : Long!Whole(m).msg = m
  BY Zenon DEF Long!Whole
<1> QED
  BY <1>4, <1>6, <1>7, Zenon

(* What the invariant says of the messages dispatched and released.        *)
LEMMA OutcomeWhole ==
  ASSUME Long!LongInv
  PROVE  /\ Long!DispatchedWhole /\ Long!ReleasedOnce
         /\ \A m \in LongMsg : Long!Received(m) =>
              {d \in dispatched : d.msg = m} = {Long!Whole(m)}
<1>1. /\ \A d \in dispatched : \E n \in LongMsg : Long!Received(n) /\ d = Long!Whole(n)
      /\ \A n \in LongMsg : Long!Received(n) => Long!Whole(n) \in dispatched
      /\ \A m \in LongMsg : released[m] = IF m \in InPool /\ Long!Received(m) THEN 1 ELSE 0
  BY Zenon DEF Long!LongInv, Long!OutcomeInv
<1>2. \A n : /\ Long!Whole(n).msg = n /\ Long!Whole(n).ptr = DestPtr[n]
             /\ Long!Whole(n).nbytes = PayloadSize[n]
  BY Zenon DEF Long!Whole
<1>3. Long!DispatchedWhole
  BY <1>1, <1>2 DEF Long!DispatchedWhole
<1>4. Long!ReleasedOnce
  BY <1>1 DEF Long!ReleasedOnce
<1>5. ASSUME NEW m \in LongMsg, Long!Received(m)
      PROVE  {d \in dispatched : d.msg = m} = {Long!Whole(m)}
  BY <1>1, <1>2, <1>5
<1> QED
  BY <1>3, <1>4, <1>5, Zenon

(***************************************************************************)
(* Whatever the sizes of the messages, the order of their chunks and the   *)
(* number of handler threads, a handler runs at most once per message and  *)
(* is given the whole payload at its address.                              *)
(***************************************************************************)
THEOREM HandledOnceAndWhole == PathSpec => []HandledWhole
<1>1. PathInv => HandledWhole
  <2> SUFFICES ASSUME PathInv PROVE HandledWhole
    BY Zenon
  <2>1. Long!LongInv /\ PlacesInv /\ \A m \in LongMsg : m \in Range(arrived) => Long!Received(m)
    BY Zenon DEF PathInv
  <2>2. /\ \A i, j \in DOMAIN handled : handled[i] = handled[j] => i = j
        /\ \A i \in DOMAIN handled : handled[i] \in Range(arrived)
    BY <2>1, Zenon DEF PlacesInv, OnceEach, Range
  <2>3. \A i \in DOMAIN handled : handled[i] \in LongMsg =>
          {d \in dispatched : d.msg = handled[i]} = {Long!Whole(handled[i])}
    BY <2>1, <2>2, OutcomeWhole, Zenon
  <2>4. Long!TypeOK /\ Long!DispatchedWhole /\ Long!ReleasedOnce /\ Long!AllDispatched
    BY <2>1, OutcomeWhole, NothingLeft, Zenon DEF Long!LongInv
  <2> QED
    BY <2>2, <2>3, <2>4, Zenon DEF HandledWhole, Long!Whole
<1> QED
  BY <1>1, PathInvariant, PTL
=============================================================================
