------------------------ MODULE StartupProofs -----------------------------
(***************************************************************************)
(* The layout of the registered segment is right for any number of nodes   *)
(* and any sizes that an int can hold in bytes.                            *)
(***************************************************************************)
EXTENDS Startup, TLAPS

(* The command lines whose sizes init_endpoints can shift without overflow. *)
IntSize == 0 .. 2047

SizesFit(c) ==
  /\ c.gsize \in IntSize /\ c.rsize \in IntSize /\ c.ib_rsize \in IntSize
  /\ c.sdpsize \in Nat /\ c.numlmbs \in Nat /\ c.lmbsize \in Nat

(* Multiplication by a natural number is monotonic.                        *)
LEMMA TimesMonotonic ==
  ASSUME NEW c \in Nat, NEW a \in Nat, NEW b \in Nat, a <= b
  PROVE  c * a \in Nat /\ c * b \in Nat /\ c * a <= c * b
<1>1. PICK d \in Nat : b = a + d
  <2>1. b - a \in Nat /\ b = a + (b - a)
    OBVIOUS
  <2>2. QED
    BY <2>1, Zenon
<1>2. c * d \in Nat /\ c * a \in Nat
  OBVIOUS
<1>3. c * b = c * a + c * d
  BY <1>1
<1>4. QED
  BY <1>2, <1>3

(* The number of a buffer within its segment determines who writes it and  *)
(* which of the writer's buffers it is.                                    *)
LEMMA NumberingInjective ==
  ASSUME NEW k \in Nat, NEW w \in Nat, NEW v \in Nat,
         NEW i \in 0 .. k - 1, NEW j \in 0 .. k - 1, w < v
  PROVE  w * k + i < v * k + j
<1>1. k * (w + 1) <= k * v
  BY TimesMonotonic
<1>2. k * (w + 1) = w * k + k /\ k * v = v * k
  OBVIOUS
<1>3. w * k \in Nat /\ v * k \in Nat
  OBVIOUS
<1>4. QED
  BY <1>1, <1>2, <1>3

(* The buffers' sizes and numbers are natural numbers.                     *)
LEMMA OptionTypes ==
  ASSUME NEW c, SizesFit(c)
  PROVE  /\ EndpointOptions(c).num_lmbs \in Nat
         /\ EndpointOptions(c).lmb_size \in Nat
         /\ EndpointOptions(c).sdpsize \in Nat
BY DEF SizesFit, EndpointOptions

(***************************************************************************)
(* The endpoint constructors of different nodes never give two senders, or *)
(* one sender twice, overlapping buffers of a segment.                     *)
(***************************************************************************)
THEOREM BuffersDisjoint ==
  ASSUME NEW c, SizesFit(c),
         NEW w \in Nodes, NEW v \in Nodes, NEW i \in Lmbs(c), NEW j \in Lmbs(c),
         w # v \/ i # j
  PROVE  \/ LmbFromEnd(c, w, i) + EndpointOptions(c).lmb_size <= LmbFromEnd(c, v, j)
         \/ LmbFromEnd(c, v, j) + EndpointOptions(c).lmb_size <= LmbFromEnd(c, w, i)
<1>1. PICK k \in Nat, s \in Nat : /\ k = EndpointOptions(c).num_lmbs
                                  /\ s = EndpointOptions(c).lmb_size
  BY OptionTypes, Zenon
<1>2. w \in Nat /\ v \in Nat /\ i \in 0 .. k - 1 /\ j \in 0 .. k - 1
  BY <1>1, LayoutAssumption DEF Nodes, Lmbs
<1>3. PICK x \in Nat, y \in Nat : x = w * k + i /\ y = v * k + j
  <2>1. w * k \in Nat /\ v * k \in Nat
    BY <1>2
  <2>2. QED
    BY <1>2, <2>1
<1>4. LmbFromEnd(c, w, i) = s * (x + 1) /\ LmbFromEnd(c, v, j) = s * (y + 1)
  BY <1>1, <1>3, Zenon DEF LmbFromEnd
<1>5. x < y \/ y < x
  <2>1. CASE w = v
    BY <1>2, <1>3, <2>1
  <2>2. CASE w < v
    BY <1>2, <1>3, <2>2, NumberingInjective, Zenon
  <2>3. CASE v < w
    BY <1>2, <1>3, <2>3, NumberingInjective, Zenon
  <2>4. QED
    BY <1>2, <2>1, <2>2, <2>3
<1>6. ASSUME NEW a \in Nat, NEW b \in Nat, a < b
      PROVE  s * (a + 1) + s <= s * (b + 1)
  <2>1. s * (a + 2) <= s * (b + 1)
    BY <1>6, TimesMonotonic
  <2>2. s * (a + 2) = s * (a + 1) + s
    OBVIOUS
  <2>3. QED
    BY <2>1, <2>2, Zenon
<1>7. QED
  BY <1>1, <1>4, <1>5, <1>6, Zenon

(* Sizes that fit an int are shifted exactly: the pool starts behind what  *)
(* RuntimeImpl places for itself.                                          *)
LEMMA PoolOffset ==
  ASSUME NEW c, SizesFit(c)
  PROVE  PoolOffsets(c) = {c.gsize + c.rsize + c.ib_rsize}
<1>1. \A y \in IntSize : ShiftInt(y) = {y}
  BY DEF IntSize, ShiftInt
<1>2. /\ ShiftInt(c.gsize) = {c.gsize} /\ ShiftInt(c.rsize) = {c.rsize}
      /\ ShiftInt(c.ib_rsize) = {c.ib_rsize}
  BY <1>1, Zenon DEF SizesFit
<1>3. QED
  BY <1>2 DEF PoolOffsets

(***************************************************************************)
(* Every buffer lies inside the segment that init_endpoints asked for and  *)
(* above the source data pool, which lies above what RuntimeImpl places    *)
(* for itself.                                                             *)
(***************************************************************************)
THEOREM BuffersAbovePool ==
  ASSUME NEW c, SizesFit(c), NEW w \in Nodes, NEW i \in Lmbs(c),
         NEW off \in PoolOffsets(c)
  PROVE  /\ LmbFromEnd(c, w, i) >= EndpointOptions(c).lmb_size
         /\ off + EndpointOptions(c).sdpsize <= AttachSize(c) - LmbFromEnd(c, w, i)
         /\ IbMemOffset(c) + c.ib_rsize <= off
         /\ RegMemOffset(c) + c.rsize <= IbMemOffset(c)
<1>1. PICK k \in Nat, s \in Nat : /\ k = EndpointOptions(c).num_lmbs
                                  /\ s = EndpointOptions(c).lmb_size
  BY OptionTypes, Zenon
<1>2. /\ w \in Nat /\ w + 1 <= NumNodes /\ NumNodes \in Nat
      /\ i \in 0 .. k - 1
  BY <1>1, LayoutAssumption DEF Nodes, Lmbs
<1>3. PICK x \in Nat : x = w * k + i
  BY <1>2
<1>4. LmbFromEnd(c, w, i) = s * (x + 1)
  BY <1>1, <1>3, Zenon DEF LmbFromEnd
<1>5. PICK t \in Nat : t = k * NumNodes /\ x + 1 <= t
  <2>1. k * (w + 1) <= k * NumNodes /\ k * NumNodes \in Nat
    BY <1>2, TimesMonotonic
  <2>2. k * (w + 1) = w * k + k
    BY <1>2
  <2>3. w * k \in Nat
    BY <1>2
  <2>4. QED
    BY <1>2, <1>3, <2>1, <2>2, <2>3
<1>6. s * (x + 1) <= s * t /\ s * 1 <= s * (x + 1) /\ s * (x + 1) \in Nat /\ s * t \in Nat
  BY <1>5, TimesMonotonic
<1>7. TotalLmbSize(c) = s * t
  <2>1. NumNodes * k = t /\ t * s = s * t
    BY <1>2, <1>5
  <2>2. QED
    BY <1>1, <2>1, Zenon DEF TotalLmbSize
<1>8. PICK g \in IntSize, r \in IntSize, q \in IntSize :
        g = c.gsize /\ r = c.rsize /\ q = c.ib_rsize
  BY Zenon DEF SizesFit
<1>9. g \in Nat /\ r \in Nat /\ q \in Nat /\ off = g + r + q
  <2>1. \A y \in IntSize : y \in Nat
    BY SMTT(30) DEF IntSize
  <2>2. QED
    BY <1>8, <2>1, PoolOffset, Zenon
<1>10. LmbFromEnd(c, w, i) >= EndpointOptions(c).lmb_size
  BY <1>1, <1>4, <1>6
<1>11. off + EndpointOptions(c).sdpsize <= AttachSize(c) - LmbFromEnd(c, w, i)
  <2>1. PICK l \in Nat, z \in Nat : l = s * (x + 1) /\ z = s * t /\ l <= z
    BY <1>6, Zenon
  <2>2. PICK d \in Nat : d = EndpointOptions(c).sdpsize
    BY OptionTypes, Zenon
  <2>3. AttachSize(c) = off + d + z
    BY <1>7, <1>8, <1>9, <2>1, <2>2, Zenon DEF AttachSize
  <2>4. off \in Nat
    BY <1>9
  <2>5. QED
    BY <1>4, <2>1, <2>2, <2>3, <2>4
<1>12. QED
  BY <1>8, <1>9, <1>10, <1>11 DEF IbMemOffset, RegMemOffset
-----------------------------------------------------------------------------
(* The tables.                                                             *)

(* Adding an object to a numbered row, with the next number, keeps it so.  *)
LEMMA AppendNumbered ==
  ASSUME NEW row, NEW type, NEW n, NEW o, NumberedRow(row, type, n),
         o.id = <<type, n, Len(row)>>
  PROVE  /\ NumberedRow(Append(row, o), type, n)
         /\ Len(row) \in Nat /\ Len(Append(row, o)) = Len(row) + 1
         /\ DOMAIN Append(row, o) = 1 .. Len(row) + 1
         /\ \A i \in DOMAIN row : Append(row, o)[i] = row[i]
         /\ Append(row, o)[Len(row) + 1] = o
<1> DEFINE S == Range(row) \cup {o}
<1>1. row \in Seq(S)
  BY DEF NumberedRow
<1>2. /\ Append(row, o) \in Seq(S) /\ Len(row) \in Nat /\ DOMAIN row = 1 .. Len(row)
      /\ Len(Append(row, o)) = Len(row) + 1
      /\ DOMAIN Append(row, o) = 1 .. Len(row) + 1
      /\ \A i \in 1 .. Len(row) : Append(row, o)[i] = row[i]
      /\ Append(row, o)[Len(row) + 1] = o
  BY <1>1
<1>3. Append(row, o) \in Seq(Range(Append(row, o)))
  BY <1>2 DEF Range
<1>4. ASSUME NEW i \in DOMAIN Append(row, o)
      PROVE  Append(row, o)[i].id = <<type, n, i - 1>>
  <2>1. CASE i \in DOMAIN row
    BY <1>2, <2>1, Zenon DEF NumberedRow
  <2>2. CASE i = Len(row) + 1
    BY <1>2, <2>2
  <2>3. QED
    BY <1>2, <2>1, <2>2
<1>5. QED
  BY <1>2, <1>3, <1>4, Zenon DEF NumberedRow

(* Adding an object that is not registered, or the first that is, keeps    *)
(* the registered ones at their place.                                     *)
LEMMA AppendRegistered ==
  ASSUME NEW row, NEW o, NEW S, NEW from, NEW len, row \in Seq(S),
         RegisteredAt(row, from, len),
         o.base = 0 \/ (Unregistered(row) /\ o.base = from /\ o.size = len)
  PROVE  RegisteredAt(Append(row, o), from, len)
<1>1. /\ Len(row) \in Nat /\ DOMAIN row = 1 .. Len(row)
      /\ DOMAIN Append(row, o) = 1 .. Len(row) + 1
      /\ \A i \in 1 .. Len(row) : Append(row, o)[i] = row[i]
      /\ Append(row, o)[Len(row) + 1] = o
  BY SMT
<1>2. SUFFICES ASSUME NEW i \in 1 .. Len(row) + 1, NEW j \in 1 .. Len(row) + 1,
                      Append(row, o)[i].base # 0
               PROVE  /\ Append(row, o)[i].base = from /\ Append(row, o)[i].size = len
                      /\ Append(row, o)[j].base # 0 => i = j
  BY <1>1, Zenon DEF RegisteredAt
<1>3. CASE i \in 1 .. Len(row) /\ j \in 1 .. Len(row)
  BY <1>1, <1>2, <1>3, Zenon DEF RegisteredAt
<1>4. CASE i \in 1 .. Len(row) /\ j = Len(row) + 1
  BY <1>1, <1>2, <1>4, Zenon DEF RegisteredAt, Unregistered
<1>5. CASE i = Len(row) + 1
  BY <1>1, <1>2, <1>5 DEF RegisteredAt, Unregistered
<1>6. QED
  BY <1>1, <1>3, <1>4, <1>5

(* The steps of a main thread between two labels at which a node may have  *)
(* the same objects.                                                       *)
LEMMA BuiltMoves ==
  ASSUME NEW own, Len(own["mem"]) \in Nat
  PROVE  /\ BuiltBy("attach", own) => BuiltBy("attached", own)
         /\ BuiltBy("attached", own) => BuiltBy("laid_out", own)
         /\ BuiltBy("laid_out", own) => BuiltBy("polling", own)
         /\ BuiltBy("polling", own) => BuiltBy("global", own)
         /\ BuiltBy("global", own) => BuiltBy("sysmem", own)
         /\ BuiltBy("sysmem", own) => BuiltBy("regmem", own)
         /\ BuiltBy("regmem", own) => BuiltBy("procs", own)
         /\ BuiltBy("ibmem", own) => BuiltBy("disk", own)
         /\ BuiltBy("disk", own) => BuiltBy("file", own)
         /\ BuiltBy("affinities", own) => BuiltBy("announce", own)
         /\ BuiltBy("announce", own) => BuiltBy("announced", own)
         /\ BuiltBy("announced", own) => BuiltBy("ready", own)
<1>1. /\ \A l \in Early : Memories[l] = 0
      /\ Memories["regmem"] = 1 /\ Memories["procs"] = 2 /\ Memories["ibmem"] = 2
      /\ Memories["disk"] = 2 /\ Memories["file"] = 3 /\ Memories["affinities"] = 4
      /\ \A l \in Made : Memories[l] = 4
  BY Zenon DEF Memories, Labels, Early, Made, Told
<1>2. QED
  BY <1>1, SMTT(30) DEF BuiltBy, Early, Made, Told

(* A node whose objects, counters and command line stay, and whose main    *)
(* thread moves without building, keeps its part of the invariant.         *)
LEMMA ObjectsStay ==
  ASSUME NEW n \in Nodes, OwnObjects(n), cmd' = cmd,
         tables'[n][n] = tables[n][n], next_id'[n] = next_id[n],
         global_memory'[n] = global_memory[n], BuiltBy(pc'[n], tables[n][n]),
         pc'[n] \in Early \ {"sysmem"} <=> pc[n] \in Early \ {"sysmem"}
  PROVE  OwnObjects(n)'
<1>1. NewGASNetMemory' = NewGASNetMemory
  BY Zenon DEF NewGASNetMemory
<1>2. GlobalBuilt(n)' = GlobalBuilt(n)
  BY <1>1, Zenon DEF GlobalBuilt
<1>3. QED
  BY <1>2, Zenon DEF OwnObjects

(* The lengths of a node's rows.                                           *)
LEMMA RowLengths ==
  ASSUME NEW n \in Nodes, OwnObjects(n), NEW type \in Types
  PROVE  /\ Len(tables[n][n][type]) \in Nat
         /\ DOMAIN tables[n][n][type] = 1 .. Len(tables[n][n][type])
<1>1. tables[n][n][type] \in Seq(Range(tables[n][n][type]))
  BY Zenon DEF OwnObjects, NumberedRow
<1>2. QED
  BY <1>1

(* The steps of a main thread that add an object.                          *)
LEMMA BuiltAdds ==
  ASSUME NEW own, NEW next, NEW o, NEW S, NEW row \in Seq(S), own["mem"] = row,
         next["proc"] = own["proc"], next["ib"] = own["ib"], next["mem"] = Append(row, o)
  PROVE  /\ BuiltBy("sysmem", own) /\ o.base = 0 => BuiltBy("regmem", next)
         /\ BuiltBy("regmem", own) => BuiltBy("procs", next)
         /\ BuiltBy("disk", own) => BuiltBy("file", next)
         /\ BuiltBy("file", own) => BuiltBy("affinities", next)
<1>1. /\ Len(row) \in Nat /\ DOMAIN row = 1 .. Len(row)
      /\ Len(Append(row, o)) = Len(row) + 1 /\ DOMAIN Append(row, o) = 1 .. Len(row) + 1
      /\ Append(row, o)[Len(row) + 1] = o /\ Append(row, o) # <<>>
      /\ \A i \in 1 .. Len(row) : Append(row, o)[i] = row[i]
  OBVIOUS
<1>2. /\ Memories["sysmem"] = 0 /\ Memories["regmem"] = 1 /\ Memories["procs"] = 2
      /\ Memories["disk"] = 2 /\ Memories["file"] = 3 /\ Memories["affinities"] = 4
  BY Zenon DEF Memories, Labels, Early, Made, Told
<1>3. Unregistered(row) /\ o.base = 0 => Unregistered(next["mem"])
  <2>1. PICK new : new = Append(row, o)
    BY Zenon
  <2>2. \A i \in 1 .. Len(row) + 1 : i \in 1 .. Len(row) \/ i = Len(row) + 1
    BY <1>1
  <2>3. Unregistered(row) /\ o.base = 0 => Unregistered(new)
    BY <1>1, <2>1, <2>2, Zenon DEF Unregistered
  <2>4. QED
    BY <2>1, <2>3, Zenon
<1>4. QED
  BY <1>1, <1>2, <1>3 DEF BuiltBy, Early, Made, Told

LEMMA BuiltOthers ==
  ASSUME NEW own, NEW next, next["mem"] = own["mem"]
  PROVE  /\ BuiltBy("procs", own) /\ next["ib"] = own["ib"] => BuiltBy("ibmem", next)
         /\ BuiltBy("ibmem", own) => BuiltBy("disk", next)
<1>1. Memories["procs"] = 2 /\ Memories["ibmem"] = 2 /\ Memories["disk"] = 2
  BY Zenon DEF Memories, Labels, Early, Made, Told
<1>2. QED
  BY <1>1, Zenon DEF BuiltBy, Early, Made, Told

(* AddObject gives the object the number of its place.                     *)
Added(n, type, sz, base) ==
  /\ \A t \in Types : /\ NumberedRow(tables'[n][n][t], t, n)
                      /\ next_id'[n][t] = Len(tables'[n][n][t])
  /\ \A t \in Types \ {type} : tables'[n][n][t] = tables[n][n][t]
  /\ \E o : /\ tables'[n][n][type] = Append(tables[n][n][type], o)
            /\ o.base = base /\ o.size = sz
  /\ \A m, k \in Nodes : m # n \/ k # n => tables'[m][k] = tables[m][k]
  /\ \A m \in Nodes \ {n} : next_id'[m] = next_id[m]

LEMMA ObjectAdded ==
  ASSUME TypeOK, NEW n \in Nodes, OwnObjects(n), NEW type \in Types, NEW kind, NEW sz, NEW base,
         AddObject(n, type, kind, sz, base)
  PROVE  Added(n, type, sz, base)
<1> DEFINE o == [id |-> NextLocalId(n, type), kind |-> kind, size |-> sz, base |-> base]
           row == tables[n][n][type]
<1>1. tables' = [tables EXCEPT ![n][n][type] = Append(row, o)]
  BY Zenon DEF AddObject
<1>2. next_id' = [next_id EXCEPT ![n][type] = next_id[n][type] + 1]
  BY Zenon DEF AddObject
<1>3. /\ \A m, k \in Nodes : m # n \/ k # n => tables'[m][k] = tables[m][k]
      /\ tables'[n][n][type] = Append(row, o)
      /\ \A t \in Types \ {type} : tables'[n][n][t] = tables[n][n][t]
  <2> HIDE DEF o, row
  <2>1. PICK r : r = Append(row, o)
    BY Zenon
  <2>2. tables' = [tables EXCEPT ![n][n][type] = r]
    BY <1>1, <2>1, Zenon
  <2>3. QED
    BY <2>1, <2>2, Zenon DEF TypeOK
<1>4. NumberedRow(row, type, n) /\ o.id = <<type, n, Len(row)>>
  BY Zenon DEF OwnObjects, NextLocalId
<1>5. NumberedRow(Append(row, o), type, n) /\ Len(row) \in Nat
      /\ Len(Append(row, o)) = Len(row) + 1
  <2> HIDE DEF o, row
  <2>1. QED
    BY <1>4, AppendNumbered, Zenon
<1>6. /\ next_id'[n][type] = Len(row) + 1
      /\ \A t \in Types \ {type} : next_id'[n][t] = next_id[n][t]
      /\ \A m \in Nodes \ {n} : next_id'[m] = next_id[m]
  BY <1>2, Zenon DEF TypeOK, OwnObjects
<1>7. o.base = base /\ o.size = sz
  BY Zenon
<1>8. \A t \in Types : /\ NumberedRow(tables'[n][n][t], t, n)
                       /\ next_id'[n][t] = Len(tables'[n][n][t])
  <2> HIDE DEF o, row
  <2>1. QED
    BY <1>3, <1>5, <1>6, Zenon DEF OwnObjects
<1>9. QED
  <2> HIDE DEF o, row
  <2>1. QED
    BY <1>3, <1>6, <1>7, <1>8, Zenon DEF row, Added

(* A node past its global memory that builds keeps its part of the         *)
(* invariant if its rows do.                                               *)
LEMMA ObjectsBuilt ==
  ASSUME NEW n \in Nodes, OwnObjects(n), cmd' = cmd, global_memory' = global_memory,
         pc[n] \notin Early \ {"sysmem"}, pc'[n] \notin Early \ {"sysmem"},
         \A t \in Types : /\ NumberedRow(tables'[n][n][t], t, n)
                          /\ next_id'[n][t] = Len(tables'[n][n][t]),
         BuiltBy(pc'[n], tables'[n][n]),
         RegisteredAt(tables'[n][n]["mem"], Addr[n] + RegMemOffset(cmd), cmd.rsize),
         RegisteredAt(tables'[n][n]["ib"], Addr[n] + IbMemOffset(cmd), cmd.ib_rsize)
  PROVE  OwnObjects(n)'
<1>1. NewGASNetMemory' = NewGASNetMemory
  BY Zenon DEF NewGASNetMemory
<1>2. GlobalBuilt(n)' = GlobalBuilt(n)
  BY <1>1, Zenon DEF GlobalBuilt
<1>3. QED
  BY <1>2, Zenon DEF OwnObjects

(* Adding a memory: it is not registered, or it is the registered memory.  *)
LEMMA MemoryAdded ==
  ASSUME TypeOK, NEW n \in Nodes, OwnObjects(n), cmd' = cmd, global_memory' = global_memory,
         NEW kind, NEW sz, NEW base, AddObject(n, "mem", kind, sz, base),
         \/ base = 0 /\ <<pc[n], pc'[n]>> \in {<<"sysmem", "regmem">>, <<"disk", "file">>,
                                               <<"file", "affinities">>}
         \/ /\ pc[n] = "regmem" /\ pc'[n] = "procs"
            /\ base = Addr[n] + RegMemOffset(cmd) /\ sz = cmd.rsize
  PROVE  OwnObjects(n)'
<1>0. "mem" \in Types /\ {"proc", "ib"} \subseteq Types \ {"mem"}
  BY Zenon DEF Types
<1>a. Added(n, "mem", sz, base)
  BY <1>0, ObjectAdded, Zenon
<1>1. PICK o : /\ tables'[n][n]["mem"] = Append(tables[n][n]["mem"], o)
               /\ o.base = base /\ o.size = sz
  BY <1>0, <1>a, Zenon DEF Added
<1>2. /\ \A t \in Types : /\ NumberedRow(tables'[n][n][t], t, n)
                          /\ next_id'[n][t] = Len(tables'[n][n][t])
      /\ tables'[n][n]["proc"] = tables[n][n]["proc"] /\ tables'[n][n]["ib"] = tables[n][n]["ib"]
  BY <1>0, <1>a, Zenon DEF Added
<1>3. PICK row, S : row = tables[n][n]["mem"] /\ row \in Seq(S)
  BY Zenon DEF OwnObjects, NumberedRow, Types
<1>4. BuiltBy(pc'[n], tables'[n][n])
  <2>1. /\ BuiltBy("sysmem", tables[n][n]) /\ o.base = 0 => BuiltBy("regmem", tables'[n][n])
        /\ BuiltBy("regmem", tables[n][n]) => BuiltBy("procs", tables'[n][n])
        /\ BuiltBy("disk", tables[n][n]) => BuiltBy("file", tables'[n][n])
        /\ BuiltBy("file", tables[n][n]) => BuiltBy("affinities", tables'[n][n])
    BY <1>1, <1>2, <1>3, BuiltAdds, Zenon
  <2>2. BuiltBy(pc[n], tables[n][n])
    BY Zenon DEF OwnObjects
  <2>3. QED
    BY <1>1, <2>1, <2>2, Zenon
<1>5. RegisteredAt(tables'[n][n]["mem"], Addr[n] + RegMemOffset(cmd), cmd.rsize)
  <2>1. RegisteredAt(row, Addr[n] + RegMemOffset(cmd), cmd.rsize)
    BY <1>3, Zenon DEF OwnObjects
  <2>2. pc[n] = "regmem" => Unregistered(row)
    BY <1>3, Zenon DEF OwnObjects, BuiltBy
  <2>3. \/ o.base = 0
        \/ Unregistered(row) /\ o.base = Addr[n] + RegMemOffset(cmd) /\ o.size = cmd.rsize
    BY <1>1, <2>2, Zenon
  <2>4. QED
    BY <1>1, <1>3, <2>1, <2>3, AppendRegistered, Zenon
<1>6. QED
  BY <1>2, <1>4, <1>5, ObjectsBuilt, Zenon DEF OwnObjects, Early

(* Adding the intermediate buffer.                                         *)
LEMMA BufferAdded ==
  ASSUME TypeOK, NEW n \in Nodes, OwnObjects(n), cmd' = cmd, global_memory' = global_memory,
         NEW kind, AddObject(n, "ib", kind, cmd.ib_rsize, Addr[n] + IbMemOffset(cmd)),
         pc[n] = "ibmem", pc'[n] = "disk"
  PROVE  OwnObjects(n)'
<1>0. "ib" \in Types /\ "mem" \in Types \ {"ib"}
  BY Zenon DEF Types
<1>a. Added(n, "ib", cmd.ib_rsize, Addr[n] + IbMemOffset(cmd))
  BY <1>0, ObjectAdded, Zenon
<1>1. PICK o : /\ tables'[n][n]["ib"] = Append(tables[n][n]["ib"], o)
               /\ o.base = Addr[n] + IbMemOffset(cmd) /\ o.size = cmd.ib_rsize
  BY <1>0, <1>a, Zenon DEF Added
<1>2. /\ \A t \in Types : /\ NumberedRow(tables'[n][n][t], t, n)
                          /\ next_id'[n][t] = Len(tables'[n][n][t])
      /\ tables'[n][n]["mem"] = tables[n][n]["mem"]
  BY <1>0, <1>a, Zenon DEF Added
<1>3. tables[n][n]["ib"] = <<>>
  BY Zenon DEF OwnObjects, BuiltBy
<1>4. BuiltBy(pc'[n], tables'[n][n])
  BY <1>2, BuiltOthers, Zenon DEF OwnObjects
<1>5. RegisteredAt(tables'[n][n]["ib"], Addr[n] + IbMemOffset(cmd), cmd.ib_rsize)
  <2>1. <<>> \in Seq({}) /\ Unregistered(<<>>)
    BY DEF Unregistered
  <2>2. RegisteredAt(<<>>, Addr[n] + IbMemOffset(cmd), cmd.ib_rsize)
    BY DEF RegisteredAt
  <2>3. QED
    BY <1>1, <1>3, <2>1, <2>2, AppendRegistered, Zenon
<1>6. QED
  BY <1>2, <1>4, <1>5, ObjectsBuilt, Zenon DEF OwnObjects, Early

LEMMA ProcKindsType ==
  ASSUME TypeOK
  PROVE  Len(ProcKinds) \in Nat
<1> DEFINE K == {"UTIL", "IO", "LOC"}
<1>1. PICK u \in Nat, i \in Nat, c \in Nat : u = cmd.util /\ i = cmd.io /\ c = cmd.cpu
  BY CommandAssumption, Zenon DEF TypeOK
<1>2. /\ [k \in 1 .. u |-> "UTIL"] \in Seq(K) /\ [k \in 1 .. i |-> "IO"] \in Seq(K)
      /\ [k \in 1 .. c |-> "LOC"] \in Seq(K)
  OBVIOUS
<1>3. ProcKinds \in Seq(K)
  <2>1. ASSUME NEW x \in Seq(K), NEW y \in Seq(K), NEW z \in Seq(K)
        PROVE  x \o y \o z \in Seq(K)
    OBVIOUS
  <2>2. QED
    BY <1>1, <1>2, <2>1, Zenon DEF ProcKinds
<1>4. QED
  BY <1>3

(* The processors are numbered from 0, in the one row that is made whole.  *)
LEMMA ProcessorsCreated ==
  ASSUME TypeOK, NEW n \in Nodes, OwnObjects(n), CreateProcessors(n)
  PROVE  /\ OwnObjects(n)'
         /\ \A m, k \in Nodes : m # n \/ k # n => tables'[m][k] = tables[m][k]
         /\ \A m \in Nodes \ {n} : next_id'[m] = next_id[m]
<1>1. PICK k \in Nat : k = Len(ProcKinds)
  BY ProcKindsType, Zenon
<1>2. PICK row : row = [i \in 1 .. k |-> [id |-> <<"proc", n, next_id[n]["proc"] + i - 1>>,
                                          kind |-> ProcKinds[i]]]
  BY Zenon
<1>3. pc[n] = "procs" /\ pc'[n] = "ibmem"
  BY Zenon DEF CreateProcessors, Step, TypeOK
<1>4. next_id[n]["proc"] = 0
  <2>1. tables[n][n]["proc"] = <<>>
    BY <1>3, Zenon DEF OwnObjects, BuiltBy
  <2>2. next_id[n]["proc"] = Len(tables[n][n]["proc"])
    BY Zenon DEF OwnObjects, Types
  <2>3. QED
    BY <2>1, <2>2, Zenon
<1>5. /\ NumberedRow(row, "proc", n) /\ Len(row) = k
  <2>1. /\ DOMAIN row = 1 .. k
        /\ \A i \in 1 .. k : row[i] = [id |-> <<"proc", n, 0 + i - 1>>, kind |-> ProcKinds[i]]
    BY <1>2, <1>4, Zenon
  <2>2. \A i \in 1 .. k : row[i].id = <<"proc", n, i - 1>>
    <3>1. \A i \in 1 .. k : 0 + i - 1 = i - 1
      BY <1>1
    <3>2. QED
      BY <2>1, <3>1
  <2>3. row = [i \in 1 .. k |-> row[i]]
    BY <1>2, <2>1, Zenon
  <2>4. row \in Seq(Range(row)) /\ Len(row) = k
    <3>1. \A i \in 1 .. k : row[i] \in Range(row)
      BY <2>1, Zenon DEF Range
    <3>2. QED
      BY <2>3, <3>1
  <2>5. QED
    BY <2>1, <2>2, <2>4, Zenon DEF NumberedRow
<1>6. tables' = [tables EXCEPT ![n][n]["proc"] = row]
  BY <1>1, <1>2, Zenon DEF CreateProcessors
<1>7. next_id' = [next_id EXCEPT ![n]["proc"] = 0 + k]
  BY <1>1, <1>4, Zenon DEF CreateProcessors
<1>8. /\ \A m, p \in Nodes : m # n \/ p # n => tables'[m][p] = tables[m][p]
      /\ tables'[n][n]["proc"] = row
      /\ tables'[n][n]["mem"] = tables[n][n]["mem"]
      /\ tables'[n][n]["ib"] = tables[n][n]["ib"]
  BY <1>6 DEF TypeOK, Types
<1>9. /\ next_id'[n]["proc"] = k /\ next_id'[n]["mem"] = next_id[n]["mem"]
      /\ next_id'[n]["ib"] = next_id[n]["ib"]
      /\ \A m \in Nodes \ {n} : next_id'[m] = next_id[m]
  BY <1>1, <1>7 DEF TypeOK, Types
<1>10. \A t \in Types : /\ NumberedRow(tables'[n][n][t], t, n)
                        /\ next_id'[n][t] = Len(tables'[n][n][t])
  BY <1>5, <1>8, <1>9, Zenon DEF OwnObjects, Types
<1>11. cmd' = cmd /\ global_memory' = global_memory
  BY Zenon DEF CreateProcessors
<1>12. BuiltBy(pc'[n], tables'[n][n])
  BY <1>3, <1>8, BuiltOthers, Zenon DEF OwnObjects
<1>13. OwnObjects(n)'
  <2>1. /\ RegisteredAt(tables'[n][n]["mem"], Addr[n] + RegMemOffset(cmd), cmd.rsize)
        /\ RegisteredAt(tables'[n][n]["ib"], Addr[n] + IbMemOffset(cmd), cmd.ib_rsize)
    BY <1>8, Zenon DEF OwnObjects
  <2>2. pc[n] \notin Early \ {"sysmem"} /\ pc'[n] \notin Early \ {"sysmem"}
    BY <1>3, Zenon DEF Early
  <2>3. QED
    BY <1>10, <1>11, <1>12, <2>1, <2>2, ObjectsBuilt, Zenon
<1>14. QED
  BY <1>8, <1>9, <1>13, Zenon

(* The steps that build: they change rows of the node's own tables only.   *)
OwnRowsOnly(n) ==
  /\ \A m, k \in Nodes : m # n \/ k # n => tables'[m][k] = tables[m][k]
  /\ \A m \in Nodes \ {n} : next_id'[m] = next_id[m]

(* One memory, at the labels and with the base the code gives it.          *)
LEMMA MemoryCreated ==
  ASSUME TypeOK, NEW n \in Nodes, OwnObjects(n), NEW from \in Labels, NEW to \in Labels,
         NEW kind, NEW sz, NEW base, CreateMemory(n, from, to, "mem", kind, sz, base),
         \/ base = 0 /\ <<from, to>> \in {<<"sysmem", "regmem">>, <<"disk", "file">>}
         \/ /\ from = "regmem" /\ to = "procs"
            /\ base = Addr[n] + RegMemOffset(cmd) /\ sz = cmd.rsize
  PROVE  OwnObjects(n)' /\ OwnRowsOnly(n)
<1>1. /\ pc[n] = from /\ pc'[n] = to /\ cmd' = cmd /\ global_memory' = global_memory
  BY Zenon DEF CreateMemory, Step, TypeOK
<1>2. CASE sz > 0
  <2>1. AddObject(n, "mem", kind, sz, base)
    BY <1>2, Zenon DEF CreateMemory
  <2>2. OwnObjects(n)'
    BY <1>1, <2>1, MemoryAdded, Zenon
  <2>3. Added(n, "mem", sz, base)
    BY <2>1, ObjectAdded, Zenon DEF Types
  <2>4. QED
    BY <2>2, <2>3, Zenon DEF Added, OwnRowsOnly
<1>3. CASE ~(sz > 0)
  <2>1. tables' = tables /\ next_id' = next_id
    BY <1>3, Zenon DEF CreateMemory
  <2>2. BuiltBy(pc'[n], tables[n][n])
    <3>1. Len(tables[n][n]["mem"]) \in Nat
      BY RowLengths, Zenon DEF Types
    <3>2. BuiltBy(from, tables[n][n])
      BY <1>1, Zenon DEF OwnObjects
    <3>3. QED
      BY <1>1, <3>1, <3>2, BuiltMoves, Zenon
  <2>3. pc'[n] \in Early \ {"sysmem"} <=> pc[n] \in Early \ {"sysmem"}
    BY <1>1, Zenon DEF Early
  <2>4. OwnObjects(n)'
    BY <1>1, <2>1, <2>2, <2>3, ObjectsStay, Zenon
  <2>5. QED
    BY <2>1, <2>4, Zenon DEF OwnRowsOnly
<1>4. QED
  BY <1>2, <1>3, Zenon

LEMMA BufferCreated ==
  ASSUME TypeOK, NEW n \in Nodes, OwnObjects(n), CreateIbMemory(n)
  PROVE  OwnObjects(n)' /\ OwnRowsOnly(n)
<1> DEFINE base == Addr[n] + IbMemOffset(cmd)
<1>1. /\ pc[n] = "ibmem" /\ pc'[n] = "disk" /\ cmd' = cmd /\ global_memory' = global_memory
  BY Zenon DEF CreateIbMemory, CreateMemory, Step, TypeOK
<1>2. CASE cmd.ib_rsize > 0
  <2>1. AddObject(n, "ib", "REGDMA", cmd.ib_rsize, base)
    BY <1>2, Zenon DEF CreateIbMemory, CreateMemory
  <2>2. OwnObjects(n)'
    BY <1>1, <2>1, BufferAdded, Zenon
  <2>3. Added(n, "ib", cmd.ib_rsize, base)
    BY <2>1, ObjectAdded, Zenon DEF Types
  <2>4. QED
    BY <2>2, <2>3, Zenon DEF Added, OwnRowsOnly
<1>3. CASE ~(cmd.ib_rsize > 0)
  <2>1. tables' = tables /\ next_id' = next_id
    BY <1>3, Zenon DEF CreateIbMemory, CreateMemory
  <2>2. BuiltBy(pc'[n], tables[n][n])
    BY <1>1, BuiltOthers, Zenon DEF OwnObjects
  <2>3. pc'[n] \in Early \ {"sysmem"} <=> pc[n] \in Early \ {"sysmem"}
    BY <1>1, Zenon DEF Early
  <2>4. OwnObjects(n)'
    BY <1>1, <2>1, <2>2, <2>3, ObjectsStay, Zenon
  <2>5. QED
    BY <2>1, <2>4, Zenon DEF OwnRowsOnly
<1>4. QED
  BY <1>2, <1>3, Zenon

Builds(n) ==
  \/ CreateSystemMemory(n) \/ CreateRegisteredMemory(n) \/ CreateProcessors(n)
  \/ CreateIbMemory(n) \/ CreateDiskMemory(n) \/ CreateFileMemory(n)

LEMMA BuildsRight ==
  ASSUME TypeOK, NEW n \in Nodes, OwnObjects(n), Builds(n)
  PROVE  OwnObjects(n)' /\ OwnRowsOnly(n)
<1>0. {"sysmem", "regmem", "procs", "disk", "file", "affinities"} \subseteq Labels
  BY Zenon DEF Labels
<1>1. CASE CreateSystemMemory(n)
  BY <1>0, <1>1, MemoryCreated, Zenon DEF CreateSystemMemory
<1>2. CASE CreateRegisteredMemory(n)
  BY <1>0, <1>2, MemoryCreated, Zenon DEF CreateRegisteredMemory
<1>3. CASE CreateProcessors(n)
  BY <1>3, ProcessorsCreated, Zenon DEF OwnRowsOnly
<1>4. CASE CreateIbMemory(n)
  BY <1>4, BufferCreated, Zenon
<1>5. CASE CreateDiskMemory(n)
  BY <1>0, <1>5, MemoryCreated, Zenon DEF CreateDiskMemory
<1>6. CASE CreateFileMemory(n)
  <2>1. /\ pc[n] = "file" /\ pc'[n] = "affinities" /\ cmd' = cmd
        /\ global_memory' = global_memory /\ AddObject(n, "mem", "FILE", 0, 0)
    BY <1>6, Zenon DEF CreateFileMemory, Step, TypeOK
  <2>2. OwnObjects(n)'
    BY <2>1, MemoryAdded, Zenon
  <2>3. Added(n, "mem", 0, 0)
    BY <2>1, ObjectAdded, Zenon DEF Types
  <2>4. QED
    BY <2>2, <2>3, Zenon DEF Added, OwnRowsOnly
<1>7. QED
  BY <1>1, <1>2, <1>3, <1>4, <1>5, <1>6, Zenon DEF Builds
-----------------------------------------------------------------------------
(* Types and places.                                                       *)

(* The main thread of node n goes from one label to the next.              *)
LEMMA Stepped ==
  ASSUME TypeOK, NEW n \in Nodes, NEW from, NEW to \in Labels, Step(n, from, to)
  PROVE  /\ pc[n] = from /\ pc'[n] = to /\ pc' \in [Nodes -> Labels]
         /\ \A m \in Nodes \ {n} : pc'[m] = pc[m]
BY Zenon DEF TypeOK, Step

(* Assigning a row keeps the shape of the tables.                          *)
LEMMA TablesTyped ==
  ASSUME TypeOK, NEW n \in Nodes, NEW type \in Types, NEW row, NEW next,
         tables' = [tables EXCEPT ![n][n][type] = row],
         next_id' = [next_id EXCEPT ![n][type] = next]
  PROVE  /\ DOMAIN next_id' = Nodes /\ \A m \in Nodes : DOMAIN next_id'[m] = Types
         /\ DOMAIN tables' = Nodes
         /\ \A m \in Nodes : /\ DOMAIN tables'[m] = Nodes
                             /\ \A k \in Nodes : DOMAIN tables'[m][k] = Types
BY Zenon DEF TypeOK

LEMMA MemoryTyped ==
  ASSUME TypeOK, NEW n \in Nodes, NEW from, NEW to \in Labels, NEW type \in Types,
         NEW kind, NEW sz, NEW base, CreateMemory(n, from, to, type, kind, sz, base)
  PROVE  TypeOK'
<1>1. pc' \in [Nodes -> Labels]
  BY Stepped, Zenon DEF CreateMemory
<1>2. /\ DOMAIN next_id' = Nodes /\ \A m \in Nodes : DOMAIN next_id'[m] = Types
      /\ DOMAIN tables' = Nodes
      /\ \A m \in Nodes : /\ DOMAIN tables'[m] = Nodes
                          /\ \A k \in Nodes : DOMAIN tables'[m][k] = Types
  <2>1. CASE sz > 0
    BY <2>1, TablesTyped, SMTT(30) DEF CreateMemory, AddObject
  <2>2. CASE ~(sz > 0)
    BY <2>2 DEF CreateMemory, TypeOK
  <2>3. QED
    BY <2>1, <2>2, Zenon
<1>3. QED
  BY <1>1, <1>2, Zenon DEF CreateMemory, TypeOK, layoutVars

LEMMA BuildsTyped ==
  ASSUME TypeOK, NEW n \in Nodes, Builds(n)
  PROVE  TypeOK'
<1>0. /\ {"sysmem", "regmem", "procs", "ibmem", "disk", "file", "affinities"} \subseteq Labels
      /\ Types = {"mem", "ib", "proc"}
  BY Zenon DEF Labels, Types
<1>1. CASE CreateSystemMemory(n)
  BY <1>0, <1>1, MemoryTyped, Zenon DEF CreateSystemMemory
<1>2. CASE CreateRegisteredMemory(n)
  BY <1>0, <1>2, MemoryTyped, Zenon DEF CreateRegisteredMemory
<1>3. CASE CreateProcessors(n)
  <2>1. pc' \in [Nodes -> Labels]
    BY <1>0, <1>3, Stepped, Zenon DEF CreateProcessors
  <2>2. /\ DOMAIN next_id' = Nodes /\ \A m \in Nodes : DOMAIN next_id'[m] = Types
        /\ DOMAIN tables' = Nodes
        /\ \A m \in Nodes : /\ DOMAIN tables'[m] = Nodes
                            /\ \A k \in Nodes : DOMAIN tables'[m][k] = Types
    BY <1>0, <1>3, TablesTyped, Zenon DEF CreateProcessors
  <2>3. QED
    BY <1>3, <2>1, <2>2, Zenon DEF CreateProcessors, TypeOK, layoutVars
<1>4. CASE CreateIbMemory(n)
  BY <1>0, <1>4, MemoryTyped, Zenon DEF CreateIbMemory
<1>5. CASE CreateDiskMemory(n)
  BY <1>0, <1>5, MemoryTyped, Zenon DEF CreateDiskMemory
<1>6. CASE CreateFileMemory(n)
  <2>1. pc' \in [Nodes -> Labels]
    BY <1>0, <1>6, Stepped, Zenon DEF CreateFileMemory
  <2>2. /\ DOMAIN next_id' = Nodes /\ \A m \in Nodes : DOMAIN next_id'[m] = Types
        /\ DOMAIN tables' = Nodes
        /\ \A m \in Nodes : /\ DOMAIN tables'[m] = Nodes
                            /\ \A k \in Nodes : DOMAIN tables'[m][k] = Types
    BY <1>0, <1>6, TablesTyped, Zenon DEF CreateFileMemory, AddObject
  <2>3. QED
    BY <1>6, <2>1, <2>2, Zenon DEF CreateFileMemory, TypeOK, layoutVars
<1>7. QED
  BY <1>1, <1>2, <1>3, <1>4, <1>5, <1>6, Zenon DEF Builds

(* Places stay where they are while a laid-out node builds.                *)
LEMMA PlacesStay ==
  ASSUME PlacesInv, cmd' = cmd, UNCHANGED layoutVars,
         \A m \in Nodes : \/ pc'[m] = pc[m]
                          \/ pc[m] \notin {"attach", "attached"} /\ pc'[m] \notin {"attach", "attached"}
  PROVE  PlacesInv'
<1>1. \A n \in Nodes : WriteBases(n)' = WriteBases(n) /\ ReadBases(n)' = ReadBases(n)
  BY Zenon DEF layoutVars, WriteBases, ReadBases
<1>2. \A n \in Nodes : LaidOut(n)' <=> LaidOut(n)
  BY Zenon DEF LaidOut
<1>3. \A n \in Nodes : pc'[n] = "attach" <=> pc[n] = "attach"
  BY Zenon
<1>4. ASSUME NEW n \in Nodes
      PROVE  /\ pc'[n] = "attach" \/ \E pad \in Pads : size' = [m \in Nodes |-> AttachSize(cmd') + pad]
             /\ \A m \in Nodes : pc'[n] = "attach" => pc'[m] = "attach"
  BY <1>3, Zenon DEF PlacesInv, layoutVars
<1>5. ASSUME NEW n \in Nodes
      PROVE  /\ lmb_w_bases'[n] = IF LaidOut(n)' THEN WriteBases(n)' ELSE Unset
             /\ lmb_r_bases'[n] = IF LaidOut(n)' THEN ReadBases(n)' ELSE Unset
  BY <1>1, <1>2, Zenon DEF PlacesInv, layoutVars
<1>6. ASSUME NEW n \in Nodes
      PROVE  pool'[n] = Unset \/ (LaidOut(n)' /\ \E off \in PoolOffsets(cmd') : pool'[n] = Addr[n] + off)
  BY <1>2, Zenon DEF PlacesInv, layoutVars
<1>7. QED
  BY <1>4, <1>5, <1>6, Zenon DEF PlacesInv
-----------------------------------------------------------------------------
(* What the other nodes know.                                              *)

(* What a node says of itself depends on its own objects only.             *)
LEMMA SameSaid ==
  ASSUME NEW m \in Nodes, tables'[m][m] = tables[m][m], global_memory'[m] = global_memory[m]
  PROVE  /\ OwnPmas(m)' = OwnPmas(m) /\ OwnMmas(m)' = OwnMmas(m)
         /\ SharedMmas(m)' = SharedMmas(m) /\ Said(m)' = Said(m)
<1>1. LocalMemories(m)' = LocalMemories(m) /\ GlobalMemories(m)' = GlobalMemories(m)
  BY Zenon DEF LocalMemories, GlobalMemories
<1>2. /\ NearProcessors(m)' = NearProcessors(m) /\ SystemMemories(m)' = SystemMemories(m)
      /\ NearSystemMemories(m)' = NearSystemMemories(m)
  BY <1>1, Zenon DEF NearProcessors, SystemMemories, NearSystemMemories
<1>3. OwnPmas(m)' = OwnPmas(m) /\ OwnMmas(m)' = OwnMmas(m)
  BY <1>2, Zenon DEF OwnPmas, OwnMmas
<1>4. SharedMmas(m)' = SharedMmas(m)
  BY <1>3, Zenon DEF SharedMmas
<1>5. QED
  BY <1>3, <1>4, Zenon DEF Said

(* A node that has been heard from has announced itself.                   *)
LEMMA HeardTold ==
  ASSUME ProxiesInv, NEW n \in Nodes, NEW m \in Heard(n)
  PROVE  m \in Nodes /\ m # n /\ pc[m] \in Told /\ tables[n][m] = tables[m][m]
BY Zenon DEF ProxiesInv, Heard, Others

(* Steps that leave proxies and affinities alone, and the objects of the   *)
(* nodes that have their affinities.                                       *)
LEMMA ProxiesStay ==
  ASSUME ProxiesInv, pmas' = pmas, mmas' = mmas,
         \A m \in Nodes : pc[m] \in Told => pc'[m] \in Told,
         \A m \in Nodes : pc[m] \in Made <=> pc'[m] \in Made,
         \A m \in Nodes : pc[m] \in Made => /\ tables'[m][m] = tables[m][m]
                                            /\ global_memory'[m] = global_memory[m],
         \A m, k \in Nodes : m # k => tables'[m][k] = tables[m][k],
         \A m \in Nodes : pc'[m] = "ready" => pc[m] = "ready" \/ Heard(m) = Others(m)
  PROVE  ProxiesInv'
<1>1. \A m \in Nodes : pc[m] \in Told => pc[m] \in Made
  BY Zenon DEF Made
<1>2. \A m \in Nodes : pc[m] \in Made => /\ OwnPmas(m)' = OwnPmas(m) /\ OwnMmas(m)' = OwnMmas(m)
                                         /\ SharedMmas(m)' = SharedMmas(m)
  BY SameSaid, Zenon
<1>3. SUFFICES ASSUME NEW n \in Nodes
               PROVE  /\ \A m \in Others(n) : \/ tables'[n][m] = NoObjects
                                              \/ pc'[m] \in Told /\ tables'[n][m] = tables'[m][m]
                      /\ pmas'[n] = (IF pc'[n] \in Made THEN OwnPmas(n)' ELSE {})
                                      \cup UNION {OwnPmas(m)' : m \in Heard(n)'}
                      /\ mmas'[n] = (IF pc'[n] \in Made THEN OwnMmas(n)' ELSE {})
                                      \cup UNION {SharedMmas(m)' : m \in Heard(n)'}
                      /\ pc'[n] = "ready" => Heard(n)' = Others(n)
  BY Zenon DEF ProxiesInv, Others
<1>4. Heard(n)' = Heard(n)
  BY Zenon DEF Heard, Others
<1>5. \A m \in Heard(n) : OwnPmas(m)' = OwnPmas(m) /\ SharedMmas(m)' = SharedMmas(m)
  BY <1>1, <1>2, HeardTold, Zenon
<1>6. /\ {OwnPmas(m)' : m \in Heard(n)'} = {OwnPmas(m) : m \in Heard(n)}
      /\ {SharedMmas(m)' : m \in Heard(n)'} = {SharedMmas(m) : m \in Heard(n)}
  BY <1>4, <1>5, Zenon
<1>7. \A m \in Others(n) : \/ tables'[n][m] = NoObjects
                           \/ pc'[m] \in Told /\ tables'[n][m] = tables'[m][m]
  BY <1>1 DEF ProxiesInv, Others
<1>8. /\ (IF pc'[n] \in Made THEN OwnPmas(n)' ELSE {}) = (IF pc[n] \in Made THEN OwnPmas(n) ELSE {})
      /\ (IF pc'[n] \in Made THEN OwnMmas(n)' ELSE {}) = (IF pc[n] \in Made THEN OwnMmas(n) ELSE {})
  BY <1>2, Zenon
<1>9. pc'[n] = "ready" => Heard(n)' = Others(n)
  BY <1>4, Zenon DEF ProxiesInv
<1>10. QED
  BY <1>6, <1>7, <1>8, <1>9, Zenon DEF ProxiesInv

(* What is under way stays true to its sender.                             *)
LEMMA NetStays ==
  ASSUME NetInv, net' \subseteq net,
         \A m \in Nodes : pc[m] \in Told => /\ pc'[m] \in Told /\ tables'[m][m] = tables[m][m]
                                            /\ global_memory'[m] = global_memory[m]
  PROVE  NetInv'
<1>1. SUFFICES ASSUME NEW a \in net'
               PROVE  /\ a.what.from \in Nodes /\ a.to \in Others(a.what.from)
                      /\ pc'[a.what.from] \in Told
                      /\ a = [to |-> a.to, what |-> Said(a.what.from)']
  BY Zenon DEF NetInv, Others
<1>2. /\ a.what.from \in Nodes /\ a.to \in Others(a.what.from) /\ pc[a.what.from] \in Told
      /\ a = [to |-> a.to, what |-> Said(a.what.from)]
  BY Zenon DEF NetInv
<1>3. Said(a.what.from)' = Said(a.what.from)
  BY <1>2, SameSaid, Zenon
<1>4. QED
  BY <1>2, <1>3, Zenon
-----------------------------------------------------------------------------
(* The inductive invariant, one action at a time.                          *)

(* Steps that change no object: they keep a node's objects if they keep    *)
(* what it may have at the label its main thread is at.                    *)
LEMMA NothingBuilt ==
  ASSUME ObjectsInv, cmd' = cmd, next_id' = next_id, global_memory' = global_memory,
         \A m \in Nodes : tables'[m][m] = tables[m][m],
         \A m \in Nodes :
           \/ pc'[m] = pc[m]
           \/ <<pc[m], pc'[m]>> \in {<<"attach", "attached">>, <<"attached", "laid_out">>,
                <<"laid_out", "polling">>, <<"polling", "global">>, <<"affinities", "announce">>,
                <<"announce", "announced">>, <<"announced", "ready">>}
  PROVE  ObjectsInv'
<1>1. SUFFICES ASSUME NEW n \in Nodes
               PROVE  OwnObjects(n)'
  BY Zenon DEF ObjectsInv
<1>2. OwnObjects(n)
  BY Zenon DEF ObjectsInv
<1>3. BuiltBy(pc'[n], tables[n][n])
  <2>1. Len(tables[n][n]["mem"]) \in Nat
    BY <1>2, RowLengths, Zenon DEF Types
  <2>2. BuiltBy(pc[n], tables[n][n])
    BY <1>2, Zenon DEF OwnObjects
  <2>3. QED
    BY <2>1, <2>2, BuiltMoves, Zenon
<1>4. pc'[n] \in Early \ {"sysmem"} <=> pc[n] \in Early \ {"sysmem"}
  BY Zenon DEF Early
<1>5. QED
  BY <1>2, <1>3, <1>4, ObjectsStay, Zenon

LEMMA AttachKeeps ==
  ASSUME StartupInv, Attach
  PROVE  StartupInv'
<1>1. /\ \A m \in Nodes : pc[m] = "attach" /\ pc'[m] = "attached"
      /\ pc' \in [Nodes -> Labels]
      /\ cmd' = cmd /\ UNCHANGED machineVars /\ net' = net
  BY Zenon DEF Attach, Labels
<1>2. PICK pad \in Pads : size' = [n \in Nodes |-> AttachSize(cmd) + pad]
  BY Zenon DEF Attach
<1>3. AttachSize(cmd) + pad \in Nat
  <2>1. PICK g \in Nat, r \in Nat, i \in Nat, s \in Nat, k \in Nat, l \in Nat :
          /\ g = cmd.gsize /\ r = cmd.rsize /\ i = cmd.ib_rsize /\ s = cmd.sdpsize
          /\ k = EndpointOptions(cmd).num_lmbs /\ l = EndpointOptions(cmd).lmb_size
    BY CommandAssumption, Zenon DEF StartupInv, TypeOK, EndpointOptions
  <2>2. EndpointOptions(cmd).sdpsize = s
    BY <2>1, Zenon DEF EndpointOptions
  <2>3. NumNodes * k * l \in Nat
    BY LayoutAssumption
  <2>4. pad \in Nat
    BY CommandAssumption, Zenon
  <2>5. QED
    BY <2>1, <2>2, <2>3, <2>4 DEF AttachSize, TotalLmbSize
<1>4. TypeOK'
  BY <1>1, <1>2, <1>3 DEF StartupInv, TypeOK, Attach, machineVars
<1>5. PlacesInv'
  <2>1. \A n \in Nodes : ~LaidOut(n) /\ ~LaidOut(n)'
    BY <1>1, Zenon DEF LaidOut
  <2>2. lmb_w_bases' = lmb_w_bases /\ lmb_r_bases' = lmb_r_bases /\ pool' = pool
    BY Zenon DEF Attach
  <2>3. QED
    BY <1>1, <1>2, <2>1, <2>2, Zenon DEF StartupInv, PlacesInv
<1>6. ObjectsInv'
  BY <1>1, NothingBuilt, Zenon DEF StartupInv, machineVars
<1>7. ProxiesInv' /\ NetInv'
  <2>1. "attach" \notin Made /\ "attached" \notin Made /\ "attach" \notin Told
    BY Zenon DEF Made, Told
  <2>2. ProxiesInv'
    BY <1>1, <2>1, ProxiesStay, Zenon DEF StartupInv, machineVars
  <2>3. NetInv'
    BY <1>1, <2>1, NetStays, Zenon DEF StartupInv
  <2>4. QED
    BY <2>2, <2>3, Zenon
<1>8. QED
  BY <1>4, <1>5, <1>6, <1>7 DEF StartupInv

(* A main thread that builds nothing the others know of.                   *)
LEMMA MainThreadMoves ==
  ASSUME StartupInv, UNCHANGED machineVars, net' = net, NEW n \in Nodes,
         \A m \in Nodes \ {n} : pc'[m] = pc[m],
         \/ pc[n] \notin Made /\ pc'[n] \notin Made
         \/ pc[n] = "announced" /\ pc'[n] = "ready" /\ Heard(n) = Others(n)
  PROVE  ProxiesInv' /\ NetInv'
<1>1. \A m \in Nodes : pc[m] \in Told => pc'[m] \in Told
  BY Zenon DEF Made, Told
<1>2. \A m \in Nodes : pc[m] \in Made <=> pc'[m] \in Made
  BY Zenon DEF Made, Told
<1>3. \A m \in Nodes : pc'[m] = "ready" => pc[m] = "ready" \/ Heard(m) = Others(m)
  BY Zenon DEF Made, Told
<1>4. QED
  BY <1>1, <1>2, <1>3, ProxiesStay, NetStays, Zenon DEF StartupInv, machineVars

LEMMA InitEndpointsKeeps ==
  ASSUME StartupInv, NEW n \in Nodes, InitEndpoints(n)
  PROVE  StartupInv'
<1>1. /\ pc[n] = "attached" /\ pc'[n] = "laid_out" /\ pc' \in [Nodes -> Labels]
      /\ \A m \in Nodes \ {n} : pc'[m] = pc[m]
      /\ cmd' = cmd /\ size' = size /\ UNCHANGED machineVars /\ net' = net
  BY Stepped, Zenon DEF InitEndpoints, StartupInv, Labels
<1>2. TypeOK'
  <2>1. DOMAIN pool' = Nodes
    BY Zenon DEF StartupInv, TypeOK, InitEndpoints
  <2>2. DOMAIN lmb_w_bases' = Nodes /\ DOMAIN lmb_r_bases' = Nodes /\ aborted' = aborted
    BY Zenon DEF StartupInv, TypeOK, InitEndpoints, NewEndpoints
  <2>3. QED
    BY <1>1, <2>1, <2>2, Zenon DEF StartupInv, TypeOK, machineVars
<1>3. PlacesInv'
  <2>1. SUFFICES ASSUME NEW m \in Nodes
        PROVE  /\ pc'[m] = "attach" \/ \E pad \in Pads : size' = [k \in Nodes |-> AttachSize(cmd') + pad]
               /\ \A k \in Nodes : pc'[m] = "attach" => pc'[k] = "attach"
               /\ lmb_w_bases'[m] = IF LaidOut(m)' THEN WriteBases(m)' ELSE Unset
               /\ lmb_r_bases'[m] = IF LaidOut(m)' THEN ReadBases(m)' ELSE Unset
               /\ pool'[m] = Unset \/ (LaidOut(m)' /\ \E off \in PoolOffsets(cmd') : pool'[m] = Addr[m] + off)
    BY Zenon DEF PlacesInv
  <2>2. /\ \E pad \in Pads : size' = [k \in Nodes |-> AttachSize(cmd') + pad]
        /\ \A k \in Nodes : pc'[m] = "attach" => pc'[k] = "attach"
    BY <1>1, Zenon DEF StartupInv, PlacesInv
  <2>3. WriteBases(m)' = WriteBases(m) /\ ReadBases(m)' = ReadBases(m)
    BY <1>1, Zenon DEF WriteBases, ReadBases
  <2>4. LaidOut(n)' /\ (m # n => (LaidOut(m)' <=> LaidOut(m)))
    BY <1>1, Zenon DEF LaidOut
  <2>5. /\ lmb_w_bases'[m] = IF m = n THEN WriteBases(m) ELSE lmb_w_bases[m]
        /\ lmb_r_bases'[m] = IF m = n THEN ReadBases(m) ELSE lmb_r_bases[m]
    BY Zenon DEF InitEndpoints, NewEndpoints, StartupInv, TypeOK
  <2>6. /\ lmb_w_bases'[m] = IF LaidOut(m)' THEN WriteBases(m)' ELSE Unset
        /\ lmb_r_bases'[m] = IF LaidOut(m)' THEN ReadBases(m)' ELSE Unset
    BY <2>3, <2>4, <2>5, Zenon DEF StartupInv, PlacesInv
  <2>7. \/ pool'[m] = pool[m]
        \/ m = n /\ \E off \in PoolOffsets(cmd) : pool'[m] = Addr[m] + off
    BY Zenon DEF InitEndpoints, StartupInv, TypeOK
  <2>8. pool'[m] = Unset \/ (LaidOut(m)' /\ \E off \in PoolOffsets(cmd') : pool'[m] = Addr[m] + off)
    BY <1>1, <2>4, <2>7, Zenon DEF StartupInv, PlacesInv
  <2>9. QED
    BY <2>2, <2>6, <2>8, Zenon
<1>4. ObjectsInv'
  BY <1>1, NothingBuilt, Zenon DEF StartupInv, machineVars
<1>5. ProxiesInv' /\ NetInv'
  BY <1>1, MainThreadMoves, Zenon DEF Made, Told
<1>6. QED
  BY <1>2, <1>3, <1>4, <1>5, Zenon DEF StartupInv

(* The threads start; the node has all announcements.                      *)
LEMMA StartsKeep ==
  ASSUME StartupInv, NEW n \in Nodes,
         StartPollingThreads(n) \/ StartHandlerThreads(n) \/ AwaitAnnouncements(n)
  PROVE  StartupInv'
<1>1. /\ <<pc[n], pc'[n]>> \in {<<"laid_out", "polling">>, <<"polling", "global">>,
                                <<"announced", "ready">>}
      /\ pc' \in [Nodes -> Labels] /\ \A m \in Nodes \ {n} : pc'[m] = pc[m]
      /\ cmd' = cmd /\ UNCHANGED layoutVars /\ UNCHANGED machineVars
      /\ net' = net /\ aborted' = aborted
  BY Stepped, Zenon DEF StartPollingThreads, StartHandlerThreads, AwaitAnnouncements, StartupInv, Labels
<1>2. TypeOK'
  BY <1>1, Zenon DEF StartupInv, TypeOK, layoutVars, machineVars
<1>3. PlacesInv'
  BY <1>1, PlacesStay, Zenon DEF StartupInv
<1>4. ObjectsInv'
  BY <1>1, NothingBuilt, Zenon DEF StartupInv, machineVars
<1>5. pc'[n] = "ready" => Heard(n) = Others(n)
  BY <1>1, Stepped, Zenon DEF StartPollingThreads, StartHandlerThreads, AwaitAnnouncements, Step
<1>6. ProxiesInv' /\ NetInv'
  BY <1>1, <1>5, MainThreadMoves, Zenon DEF Made, Told
<1>7. QED
  BY <1>2, <1>3, <1>4, <1>6, Zenon DEF StartupInv

(* Steps of a node that has no affinities yet and changes its own objects. *)
LEMMA UnseenKeeps ==
  ASSUME StartupInv, NEW n \in Nodes, pc[n] \notin Made, pc'[n] \notin Made,
         \A m \in Nodes \ {n} : pc'[m] = pc[m] /\ global_memory'[m] = global_memory[m],
         \A m, k \in Nodes : m # n \/ k # n => tables'[m][k] = tables[m][k],
         pmas' = pmas, mmas' = mmas, net' = net
  PROVE  ProxiesInv' /\ NetInv'
<1>1. \A m \in Nodes : pc[m] \in Told => m # n /\ pc'[m] \in Told
  BY Zenon DEF Made
<1>2. \A m \in Nodes : pc[m] \in Made => m # n
  BY Zenon
<1>3. /\ \A m \in Nodes : pc[m] \in Made <=> pc'[m] \in Made
      /\ \A m \in Nodes : pc'[m] = "ready" => pc[m] = "ready"
  BY Zenon DEF Made, Told
<1>4. ProxiesInv'
  BY <1>1, <1>2, <1>3, ProxiesStay DEF StartupInv
<1>5. NetInv'
  BY <1>1, NetStays, Zenon DEF StartupInv
<1>6. QED
  BY <1>4, <1>5, Zenon

LEMMA CreateGlobalMemoryKeeps ==
  ASSUME StartupInv, NEW n \in Nodes, CreateGlobalMemory(n)
  PROVE  StartupInv'
<1>1. /\ pc[n] = "global" /\ pc'[n] = "sysmem"
      /\ pc' \in [Nodes -> Labels] /\ \A m \in Nodes \ {n} : pc'[m] = pc[m]
      /\ cmd' = cmd /\ UNCHANGED layoutVars /\ net' = net /\ aborted' = aborted
      /\ next_id' = next_id /\ tables' = tables /\ pmas' = pmas /\ mmas' = mmas
  BY Stepped, Zenon DEF CreateGlobalMemory, StartupInv, Labels
<1>2. /\ DOMAIN global_memory' = Nodes
      /\ \A m \in Nodes \ {n} : global_memory'[m] = global_memory[m]
      /\ global_memory'[n] = IF cmd.gsize = 0 THEN global_memory[n] ELSE NewGASNetMemory
  BY Zenon DEF CreateGlobalMemory, StartupInv, TypeOK
<1>3. TypeOK'
  BY <1>1, <1>2, Zenon DEF StartupInv, TypeOK, layoutVars
<1>4. PlacesInv'
  BY <1>1, PlacesStay, Zenon DEF StartupInv
<1>5. ObjectsInv'
  <2>1. SUFFICES ASSUME NEW m \in Nodes
                 PROVE  OwnObjects(m)'
    BY Zenon DEF ObjectsInv
  <2>2. OwnObjects(m)
    BY Zenon DEF StartupInv, ObjectsInv
  <2>3. CASE m # n
    <3>1. BuiltBy(pc'[m], tables[m][m])
      BY <1>1, <2>2, <2>3, Zenon DEF OwnObjects
    <3>2. QED
      BY <1>1, <1>2, <2>2, <2>3, <3>1, ObjectsStay, Zenon
  <2>4. CASE m = n
    <3>1. Len(tables[n][n]["mem"]) \in Nat
      BY <2>2, <2>4, RowLengths, Zenon DEF Types
    <3>2. BuiltBy("sysmem", tables[n][n])
      BY <1>1, <2>2, <2>4, <3>1, BuiltMoves, Zenon DEF OwnObjects
    <3>3. NewGASNetMemory' = NewGASNetMemory
      BY <1>1, Zenon DEF NewGASNetMemory
    <3>4. cmd.gsize = 0 => global_memory[n] = Unset
      BY <2>2, <2>4, Zenon DEF OwnObjects, GlobalBuilt
    <3>5. global_memory'[n] = GlobalBuilt(n)'
      BY <1>1, <1>2, <3>3, <3>4, Zenon DEF GlobalBuilt, Early
    <3>6. QED
      BY <1>1, <2>2, <2>4, <3>2, <3>5, Zenon DEF OwnObjects
  <2>5. QED
    BY <2>3, <2>4, Zenon
<1>6. ProxiesInv' /\ NetInv'
  BY <1>1, <1>2, UnseenKeeps, Zenon DEF Made, Told
<1>7. QED
  BY <1>3, <1>4, <1>5, <1>6 DEF StartupInv

LEMMA BuildsKeeps ==
  ASSUME StartupInv, NEW n \in Nodes, Builds(n)
  PROVE  StartupInv'
<1>1. /\ pc[n] \in {"sysmem", "regmem", "procs", "ibmem", "disk", "file"}
      /\ pc'[n] \in {"regmem", "procs", "ibmem", "disk", "file", "affinities"}
      /\ \A m \in Nodes \ {n} : pc'[m] = pc[m]
  BY Zenon DEF Builds, CreateSystemMemory, CreateRegisteredMemory, CreateProcessors, CreateIbMemory,
         CreateDiskMemory, CreateFileMemory, CreateMemory, Step, StartupInv, TypeOK
<1>2. /\ cmd' = cmd /\ UNCHANGED layoutVars /\ net' = net
      /\ global_memory' = global_memory /\ pmas' = pmas /\ mmas' = mmas
  BY Zenon DEF Builds, CreateSystemMemory, CreateRegisteredMemory, CreateProcessors, CreateIbMemory,
         CreateDiskMemory, CreateFileMemory, CreateMemory
<1>3. OwnObjects(n)' /\ OwnRowsOnly(n)
  BY BuildsRight, Zenon DEF StartupInv, ObjectsInv
<1>4. TypeOK'
  BY BuildsTyped DEF StartupInv
<1>5. PlacesInv'
  BY <1>1, <1>2, PlacesStay, Zenon DEF StartupInv
<1>6. ObjectsInv'
  <2>1. ASSUME NEW m \in Nodes \ {n}
        PROVE  OwnObjects(m)'
    <3>1. OwnObjects(m)
      BY Zenon DEF StartupInv, ObjectsInv
    <3>2. BuiltBy(pc'[m], tables[m][m])
      BY <1>1, <3>1, Zenon DEF OwnObjects
    <3>3. QED
      BY <1>1, <1>2, <1>3, <3>1, <3>2, ObjectsStay, Zenon DEF OwnRowsOnly
  <2>2. QED
    BY <1>3, <2>1, Zenon DEF ObjectsInv
<1>7. ProxiesInv' /\ NetInv'
  <2>1. pc[n] \notin Made /\ pc'[n] \notin Made
    BY <1>1, Zenon DEF Made, Told
  <2>2. QED
    BY <1>1, <1>2, <1>3, <2>1, UnseenKeeps, Zenon DEF OwnRowsOnly
<1>8. QED
  BY <1>4, <1>5, <1>6, <1>7, Zenon DEF StartupInv

LEMMA AddAffinitiesKeeps ==
  ASSUME StartupInv, NEW n \in Nodes, AddAffinities(n)
  PROVE  StartupInv'
<1>1. /\ pc[n] = "affinities" /\ pc'[n] = "announce"
      /\ pc' \in [Nodes -> Labels] /\ \A m \in Nodes \ {n} : pc'[m] = pc[m]
      /\ cmd' = cmd /\ UNCHANGED layoutVars /\ net' = net /\ aborted' = aborted
      /\ next_id' = next_id /\ tables' = tables /\ global_memory' = global_memory
  BY Stepped, Zenon DEF AddAffinities, StartupInv, Labels
<1>2. /\ DOMAIN pmas' = Nodes /\ DOMAIN mmas' = Nodes
      /\ \A m \in Nodes \ {n} : pmas'[m] = pmas[m] /\ mmas'[m] = mmas[m]
      /\ pmas'[n] = pmas[n] \cup OwnPmas(n) /\ mmas'[n] = mmas[n] \cup OwnMmas(n)
  BY Zenon DEF AddAffinities, WithMissing, OwnPmas, OwnMmas, StartupInv, TypeOK
<1>3. TypeOK'
  BY <1>1, <1>2, Zenon DEF StartupInv, TypeOK, layoutVars
<1>4. PlacesInv'
  BY <1>1, PlacesStay, Zenon DEF StartupInv
<1>5. ObjectsInv'
  BY <1>1, NothingBuilt, Zenon DEF StartupInv
<1>6. /\ \A m \in Nodes : pc[m] \in Told => pc'[m] \in Told
      /\ \A m \in Nodes \ {n} : pc'[m] \in Made <=> pc[m] \in Made
      /\ pc[n] \notin Made /\ pc'[n] \in Made
  BY <1>1, Zenon DEF Told, Made
<1>7. ProxiesInv'
  <2>1. SUFFICES ASSUME NEW m \in Nodes
                 PROVE  /\ \A k \in Others(m) : \/ tables'[m][k] = NoObjects
                                                \/ pc'[k] \in Told /\ tables'[m][k] = tables'[k][k]
                        /\ pmas'[m] = (IF pc'[m] \in Made THEN OwnPmas(m)' ELSE {})
                                        \cup UNION {OwnPmas(k)' : k \in Heard(m)'}
                        /\ mmas'[m] = (IF pc'[m] \in Made THEN OwnMmas(m)' ELSE {})
                                        \cup UNION {SharedMmas(k)' : k \in Heard(m)'}
                        /\ pc'[m] = "ready" => Heard(m)' = Others(m)
    BY Zenon DEF ProxiesInv, Others
  <2>2. \A k \in Others(m) : \/ tables'[m][k] = NoObjects
                             \/ pc'[k] \in Told /\ tables'[m][k] = tables'[k][k]
    BY <1>1, <1>6, Zenon DEF StartupInv, ProxiesInv, Others
  <2>3. \A k \in Nodes : /\ OwnPmas(k)' = OwnPmas(k) /\ OwnMmas(k)' = OwnMmas(k)
                         /\ SharedMmas(k)' = SharedMmas(k)
    BY <1>1, SameSaid, Zenon
  <2>4. Heard(m)' = Heard(m) /\ Heard(m) \subseteq Nodes
    BY <1>1, Zenon DEF Heard, Others
  <2>5. /\ {OwnPmas(k)' : k \in Heard(m)'} = {OwnPmas(k) : k \in Heard(m)}
        /\ {SharedMmas(k)' : k \in Heard(m)'} = {SharedMmas(k) : k \in Heard(m)}
    BY <2>3, <2>4, Zenon
  <2>6. /\ pmas[m] = (IF pc[m] \in Made THEN OwnPmas(m) ELSE {})
                       \cup UNION {OwnPmas(k) : k \in Heard(m)}
        /\ mmas[m] = (IF pc[m] \in Made THEN OwnMmas(m) ELSE {})
                       \cup UNION {SharedMmas(k) : k \in Heard(m)}
    BY Zenon DEF StartupInv, ProxiesInv
  <2>7. pc'[m] = "ready" => Heard(m)' = Others(m)
    BY <1>1, <2>4, Zenon DEF StartupInv, ProxiesInv
  <2>8. CASE m # n
    BY <1>2, <1>6, <2>2, <2>3, <2>5, <2>6, <2>7, <2>8, Zenon
  <2>9. CASE m = n
    <3>1. pmas'[n] = (IF pc'[n] \in Made THEN OwnPmas(n)' ELSE {})
                       \cup UNION {OwnPmas(k)' : k \in Heard(n)'}
      BY <1>2, <1>6, <2>3, <2>5, <2>6, <2>9, Zenon
    <3>2. mmas'[n] = (IF pc'[n] \in Made THEN OwnMmas(n)' ELSE {})
                       \cup UNION {SharedMmas(k)' : k \in Heard(n)'}
      BY <1>2, <1>6, <2>3, <2>5, <2>6, <2>9, Zenon
    <3>3. QED
      BY <2>2, <2>7, <2>9, <3>1, <3>2, Zenon
  <2>10. QED
    BY <2>8, <2>9, Zenon
<1>8. NetInv'
  BY <1>1, <1>6, NetStays, Zenon DEF StartupInv
<1>9. QED
  BY <1>3, <1>4, <1>5, <1>7, <1>8, Zenon DEF StartupInv

(* An identifier names the node that gave it.                              *)
LEMMA OwnIds ==
  ASSUME ObjectsInv, NEW m \in Nodes, NEW type \in Types, NEW id \in Ids(tables[m][m][type])
  PROVE  OwnerOf(id) = m
<1>1. PICK i \in DOMAIN tables[m][m][type] : id = tables[m][m][type][i].id
  BY Zenon DEF Ids, Range
<1>2. id = <<type, m, i - 1>>
  BY <1>1, Zenon DEF ObjectsInv, OwnObjects, NumberedRow
<1>3. QED
  BY <1>2, Zenon DEF OwnerOf

LEMMA SystemIds ==
  ASSUME NEW m \in Nodes
  PROVE  SystemMemories(m) \subseteq Ids(tables[m][m]["mem"])
BY Zenon DEF SystemMemories, OfKind, LocalMemories, Ids

(* The affinities a node announces are the ones it found itself.           *)
LEMMA Announces ==
  ASSUME StartupInv, NEW n \in Nodes, pc[n] \in Made
  PROVE  Announcement(n) = Said(n)
<1>1. /\ pmas[n] = OwnPmas(n) \cup UNION {OwnPmas(m) : m \in Heard(n)}
      /\ mmas[n] = OwnMmas(n) \cup UNION {SharedMmas(m) : m \in Heard(n)}
  BY Zenon DEF StartupInv, ProxiesInv
<1>2. {a \in pmas[n] : a[1] \in Ids(tables[n][n]["proc"])} = OwnPmas(n)
  <2>1. \A a \in OwnPmas(n) : a[1] \in Ids(tables[n][n]["proc"])
    BY Zenon DEF OwnPmas
  <2>2. ASSUME NEW m \in Heard(n), NEW a \in OwnPmas(m), a[1] \in Ids(tables[n][n]["proc"])
        PROVE  FALSE
    <3>1. m \in Nodes /\ m # n
      BY Zenon DEF Heard, Others
    <3>2. a[1] \in Ids(tables[m][m]["proc"])
      BY Zenon DEF OwnPmas
    <3>3. OwnerOf(a[1]) = m /\ OwnerOf(a[1]) = n
      BY <2>2, <3>1, <3>2, OwnIds, Zenon DEF StartupInv, Types
    <3>4. QED
      BY <3>1, <3>3, Zenon
  <2>3. QED
    BY <1>1, <2>1, <2>2, Zenon
<1>3. {a \in mmas[n] : a[1] \in Ids(tables[n][n]["mem"]) /\ OwnerOf(a[2]) = n} = SharedMmas(n)
  <2>1. \A a \in OwnMmas(n) : a[1] \in Ids(tables[n][n]["mem"])
    BY SystemIds, Zenon DEF OwnMmas
  <2>2. ASSUME NEW m \in Heard(n), NEW a \in SharedMmas(m), a[1] \in Ids(tables[n][n]["mem"])
        PROVE  FALSE
    <3>1. m \in Nodes /\ m # n
      BY Zenon DEF Heard, Others
    <3>2. a[1] \in Ids(tables[m][m]["mem"])
      BY <3>1, SystemIds, Zenon DEF SharedMmas, OwnMmas
    <3>3. OwnerOf(a[1]) = m /\ OwnerOf(a[1]) = n
      BY <2>2, <3>1, <3>2, OwnIds, Zenon DEF StartupInv, Types
    <3>4. QED
      BY <3>1, <3>3, Zenon
  <2>3. QED
    BY <1>1, <2>1, <2>2, Zenon DEF SharedMmas
<1>4. QED
  BY <1>2, <1>3, Zenon DEF Announcement, Said

LEMMA AnnounceKeeps ==
  ASSUME StartupInv, NEW n \in Nodes, Announce(n)
  PROVE  StartupInv'
<1>1. /\ pc[n] = "announce" /\ pc'[n] = "announced"
      /\ pc' \in [Nodes -> Labels] /\ \A m \in Nodes \ {n} : pc'[m] = pc[m]
      /\ cmd' = cmd /\ UNCHANGED layoutVars /\ UNCHANGED machineVars /\ aborted' = aborted
  BY Stepped, Zenon DEF Announce, StartupInv, Labels
<1>2. TypeOK'
  BY <1>1, Zenon DEF StartupInv, TypeOK, layoutVars, machineVars
<1>3. PlacesInv'
  BY <1>1, PlacesStay, Zenon DEF StartupInv
<1>4. ObjectsInv'
  BY <1>1, NothingBuilt, Zenon DEF StartupInv, machineVars
<1>5. /\ \A m \in Nodes : pc[m] \in Told => pc'[m] \in Told
      /\ \A m \in Nodes : pc[m] \in Made <=> pc'[m] \in Made
      /\ pc[n] \in Made /\ pc'[n] \in Told
  BY <1>1, Zenon DEF Told, Made
<1>6. ProxiesInv'
  BY <1>1, <1>5, ProxiesStay, Zenon DEF StartupInv, machineVars
<1>7. NetInv'
  <2>1. SUFFICES ASSUME NEW a \in net'
                 PROVE  /\ a.what.from \in Nodes /\ a.to \in Others(a.what.from)
                        /\ pc'[a.what.from] \in Told
                        /\ a = [to |-> a.to, what |-> Said(a.what.from)']
    BY Zenon DEF NetInv, Others
  <2>2. \A m \in Nodes : Said(m)' = Said(m)
    BY <1>1, SameSaid, Zenon DEF machineVars
  <2>3. CASE a \in net
    BY <1>5, <2>2, <2>3, Zenon DEF StartupInv, NetInv
  <2>4. CASE a \notin net
    <3>1. PICK m \in Others(n) : a = [to |-> m, what |-> Said(n)]
      BY <1>5, <2>4, Announces, Zenon DEF Announce
    <3>2. a.what.from = n
      BY <3>1, Zenon DEF Said
    <3>3. QED
      BY <1>5, <2>2, <3>1, <3>2, Zenon
  <2>5. QED
    BY <2>3, <2>4, Zenon
<1>8. QED
  BY <1>2, <1>3, <1>4, <1>6, <1>7, Zenon DEF StartupInv

LEMMA HandleAnnouncementKeeps ==
  ASSUME StartupInv, NEW a \in net, HandleAnnouncement(a)
  PROVE  StartupInv'
<1>1. PICK t \in Nodes, m \in Nodes :
        /\ t = a.to /\ m = a.what.from /\ t # m /\ pc[m] \in Told
        /\ a = [to |-> t, what |-> Said(m)]
  BY Zenon DEF StartupInv, NetInv, Others
<1>2. /\ cmd' = cmd /\ pc' = pc /\ UNCHANGED layoutVars /\ next_id' = next_id
      /\ global_memory' = global_memory /\ net' \subseteq net
  BY Zenon DEF HandleAnnouncement
<1>3. CASE pc[t] = "polling"
  <2>1. /\ tables' = tables /\ pmas' = pmas /\ mmas' = mmas /\ aborted' = TRUE
    BY <1>1, <1>3, Zenon DEF HandleAnnouncement
  <2>2. TypeOK'
    BY <1>2, <2>1, Zenon DEF StartupInv, TypeOK, layoutVars
  <2>3. PlacesInv'
    BY <1>2, PlacesStay, Zenon DEF StartupInv
  <2>4. ObjectsInv'
    BY <1>2, <2>1, NothingBuilt, Zenon DEF StartupInv
  <2>5. ProxiesInv'
    BY <1>2, <2>1, ProxiesStay, Zenon DEF StartupInv
  <2>6. NetInv'
    BY <1>2, <2>1, NetStays, Zenon DEF StartupInv
  <2>7. QED
    BY <2>2, <2>3, <2>4, <2>5, <2>6, Zenon DEF StartupInv
<1>4. CASE pc[t] # "polling"
  <2>1. /\ tables' = [tables EXCEPT ![t][m] = tables[m][m]]
        /\ pmas' = [pmas EXCEPT ![t] = pmas[t] \cup OwnPmas(m)]
        /\ mmas' = [mmas EXCEPT ![t] = mmas[t] \cup SharedMmas(m)]
        /\ aborted' = aborted
    <3>1. /\ a.what.objects = tables[m][m] /\ a.what.pmas = OwnPmas(m)
          /\ a.what.mmas = SharedMmas(m)
      BY <1>1, SMTT(30) DEF Said
    <3>2. /\ tables' = [tables EXCEPT ![a.to][a.what.from] = a.what.objects]
          /\ pmas' = [pmas EXCEPT ![a.to] = @ \cup a.what.pmas]
          /\ mmas' = [mmas EXCEPT ![a.to] = @ \cup a.what.mmas]
          /\ aborted' = aborted
      BY <1>1, <1>4, Zenon DEF HandleAnnouncement
    <3>3. a.to = t /\ a.what.from = m
      BY <1>1, Zenon
    <3>4. QED
      BY <3>1, <3>2, <3>3, Zenon
  <2>2. /\ DOMAIN tables' = Nodes /\ \A k \in Nodes : DOMAIN tables'[k] = Nodes
        /\ \A k, j \in Nodes : DOMAIN tables'[k][j] = Types
        /\ \A k, j \in Nodes : k # t \/ j # m => tables'[k][j] = tables[k][j]
        /\ tables'[t][m] = tables[m][m]
    BY <2>1, Zenon DEF StartupInv, TypeOK
  <2>3. /\ DOMAIN pmas' = Nodes /\ DOMAIN mmas' = Nodes
        /\ \A k \in Nodes \ {t} : pmas'[k] = pmas[k] /\ mmas'[k] = mmas[k]
        /\ pmas'[t] = pmas[t] \cup OwnPmas(m) /\ mmas'[t] = mmas[t] \cup SharedMmas(m)
    BY <2>1, Zenon DEF StartupInv, TypeOK
  <2>4. \A k \in Nodes : tables'[k][k] = tables[k][k]
    BY <1>1, <2>2, Zenon
  <2>5. TypeOK'
    BY <1>2, <2>1, <2>2, <2>3, Zenon DEF StartupInv, TypeOK, layoutVars
  <2>6. PlacesInv'
    BY <1>2, PlacesStay, Zenon DEF StartupInv
  <2>7. ObjectsInv'
    BY <1>2, <2>4, NothingBuilt, Zenon DEF StartupInv
  <2>8. NetInv'
    BY <1>2, <2>4, NetStays, Zenon DEF StartupInv
  <2>9. \A k \in Nodes : /\ OwnPmas(k)' = OwnPmas(k) /\ OwnMmas(k)' = OwnMmas(k)
                         /\ SharedMmas(k)' = SharedMmas(k)
    BY <1>2, <2>4, SameSaid, Zenon
  <2>10. tables[m][m] # NoObjects
    <3>1. tables[m][m]["mem"] # <<>>
      BY <1>1, Zenon DEF StartupInv, ObjectsInv, OwnObjects, BuiltBy, Made
    <3>2. NoObjects["mem"] = <<>>
      BY Zenon DEF NoObjects, Types
    <3>3. QED
      BY <3>1, <3>2, Zenon
  <2>11. \A k \in Nodes : Heard(k)' = IF k = t THEN Heard(k) \cup {m} ELSE Heard(k)
    BY <1>1, <2>2, <2>10, SMTT(30) DEF Heard, Others
  <2>12. ProxiesInv'
    <3>1. SUFFICES ASSUME NEW n \in Nodes
                   PROVE  /\ \A k \in Others(n) : \/ tables'[n][k] = NoObjects
                                                  \/ pc'[k] \in Told /\ tables'[n][k] = tables'[k][k]
                          /\ pmas'[n] = (IF pc'[n] \in Made THEN OwnPmas(n)' ELSE {})
                                          \cup UNION {OwnPmas(k)' : k \in Heard(n)'}
                          /\ mmas'[n] = (IF pc'[n] \in Made THEN OwnMmas(n)' ELSE {})
                                          \cup UNION {SharedMmas(k)' : k \in Heard(n)'}
                          /\ pc'[n] = "ready" => Heard(n)' = Others(n)
      BY Zenon DEF ProxiesInv, Others
    <3>2. \A k \in Others(n) : \/ tables'[n][k] = NoObjects
                               \/ pc'[k] \in Told /\ tables'[n][k] = tables'[k][k]
      BY <1>1, <1>2, <2>2, <2>4, SMTT(30) DEF StartupInv, ProxiesInv, Others
    <3>3. Heard(n) \subseteq Nodes /\ Heard(n)' \subseteq Nodes
      BY <1>1, <2>11, Zenon DEF Heard, Others
    <3>4. /\ {OwnPmas(k)' : k \in Heard(n)'} = {OwnPmas(k) : k \in Heard(n)'}
          /\ {SharedMmas(k)' : k \in Heard(n)'} = {SharedMmas(k) : k \in Heard(n)'}
      BY <2>9, <3>3, Zenon
    <3>5. /\ UNION {OwnPmas(k) : k \in Heard(t) \cup {m}}
               = (UNION {OwnPmas(k) : k \in Heard(t)}) \cup OwnPmas(m)
          /\ UNION {SharedMmas(k) : k \in Heard(t) \cup {m}}
               = (UNION {SharedMmas(k) : k \in Heard(t)}) \cup SharedMmas(m)
      BY Zenon
    <3>6. /\ pmas[n] = (IF pc[n] \in Made THEN OwnPmas(n) ELSE {})
                         \cup UNION {OwnPmas(k) : k \in Heard(n)}
          /\ mmas[n] = (IF pc[n] \in Made THEN OwnMmas(n) ELSE {})
                         \cup UNION {SharedMmas(k) : k \in Heard(n)}
      BY Zenon DEF StartupInv, ProxiesInv
    <3>a. pc'[n] = "ready" => Heard(n)' = Others(n)
      BY <1>1, <1>2, <2>11 DEF StartupInv, ProxiesInv, Others
    <3>7. CASE n # t
      BY <1>2, <2>3, <2>9, <2>11, <3>2, <3>4, <3>6, <3>7, <3>a, Zenon
    <3>8. CASE n = t
      <4>1. Heard(t)' = Heard(t) \cup {m}
        BY <2>11, Zenon
      <4>2. pmas'[t] = (IF pc'[t] \in Made THEN OwnPmas(t)' ELSE {})
                         \cup UNION {OwnPmas(k)' : k \in Heard(t)'}
        BY <1>2, <2>3, <2>9, <3>4, <3>5, <3>6, <3>8, <4>1
      <4>3. mmas'[t] = (IF pc'[t] \in Made THEN OwnMmas(t)' ELSE {})
                         \cup UNION {SharedMmas(k)' : k \in Heard(t)'}
        BY <1>2, <2>3, <2>9, <3>4, <3>5, <3>6, <3>8, <4>1
      <4>4. QED
        BY <3>2, <3>8, <3>a, <4>2, <4>3, Zenon
    <3>9. QED
      BY <3>7, <3>8, Zenon
  <2>13. QED
    BY <2>5, <2>6, <2>7, <2>8, <2>12, Zenon DEF StartupInv
<1>5. QED
  BY <1>3, <1>4, Zenon

LEMMA InitStartup == Init => StartupInv
<1> SUFFICES ASSUME Init PROVE StartupInv
  BY Zenon
<1>1. /\ \A n \in Nodes : pc[n] = "attach" /\ ~LaidOut(n)
      /\ \A n \in Nodes : n \in Nodes => pc[n] \notin Made
      /\ \A n, m \in Nodes : tables[n][m] = NoObjects
      /\ \A type \in Types : NoObjects[type] = <<>>
  BY Zenon DEF Init, LaidOut, Made, Told, NoObjects
<1>2. TypeOK
  BY Zenon DEF Init, TypeOK, Labels, NoObjects
<1>3. PlacesInv
  BY <1>1, Zenon DEF Init, PlacesInv
<1>4. ObjectsInv
  <2>1. SUFFICES ASSUME NEW n \in Nodes
                 PROVE  OwnObjects(n)
    BY Zenon DEF ObjectsInv
  <2>2. \A type \in Types : tables[n][n][type] = <<>> /\ next_id[n][type] = 0
    BY <1>1, Zenon DEF Init
  <2>3. \A type \in Types : NumberedRow(<<>>, type, n)
    BY DEF NumberedRow, Range
  <2>4. BuiltBy("attach", tables[n][n])
    <3>1. Memories["attach"] = 0
      BY Zenon DEF Memories, Labels, Early
    <3>2. tables[n][n]["mem"] = <<>> /\ tables[n][n]["proc"] = <<>> /\ tables[n][n]["ib"] = <<>>
      BY <2>2, Zenon DEF Types
    <3>3. QED
      BY <3>1, <3>2 DEF BuiltBy, Unregistered, Made, Told
  <2>5. \A from, len : RegisteredAt(<<>>, from, len)
    BY DEF RegisteredAt
  <2>6. global_memory[n] = GlobalBuilt(n)
    BY <1>1, Zenon DEF Init, GlobalBuilt, Early
  <2>7. QED
    BY <1>1, <2>2, <2>3, <2>4, <2>5, <2>6, SMTT(30) DEF OwnObjects, Types
<1>5. ProxiesInv
  <2>1. \A n \in Nodes : Heard(n) = {} /\ pmas[n] = {} /\ mmas[n] = {}
    BY <1>1, Zenon DEF Init, Heard, Others
  <2>2. QED
    BY <1>1, <2>1, Zenon DEF ProxiesInv, Others
<1>6. NetInv
  BY Zenon DEF Init, NetInv
<1>7. QED
  BY <1>2, <1>3, <1>4, <1>5, <1>6, Zenon DEF StartupInv

LEMMA StartupStep == StartupInv /\ [Next]_vars => StartupInv'
<1> SUFFICES ASSUME StartupInv, [Next]_vars PROVE StartupInv'
  BY Zenon
<1>1. CASE Attach
  BY <1>1, AttachKeeps, Zenon
<1>2. ASSUME NEW n \in Nodes, MainThread(n)
      PROVE  StartupInv'
  <2>1. CASE InitEndpoints(n)
    BY <2>1, InitEndpointsKeeps, Zenon
  <2>2. CASE StartPollingThreads(n) \/ StartHandlerThreads(n) \/ AwaitAnnouncements(n)
    BY <2>2, StartsKeep, Zenon
  <2>3. CASE CreateGlobalMemory(n)
    BY <2>3, CreateGlobalMemoryKeeps, Zenon
  <2>4. CASE Builds(n)
    BY <2>4, BuildsKeeps, Zenon
  <2>5. CASE AddAffinities(n)
    BY <2>5, AddAffinitiesKeeps, Zenon
  <2>6. CASE Announce(n)
    BY <2>6, AnnounceKeeps, Zenon
  <2>7. QED
    BY <1>2, <2>1, <2>2, <2>3, <2>4, <2>5, <2>6, Zenon DEF MainThread, Builds
<1>3. ASSUME NEW a \in net, HandleAnnouncement(a)
      PROVE  StartupInv'
  BY <1>3, HandleAnnouncementKeeps, Zenon
<1>4. CASE UNCHANGED vars
  <2>1. /\ cmd' = cmd /\ pc' = pc /\ UNCHANGED layoutVars /\ next_id' = next_id
        /\ global_memory' = global_memory /\ tables' = tables /\ pmas' = pmas /\ mmas' = mmas
        /\ net' = net /\ aborted' = aborted
    BY <1>4, Zenon DEF vars, machineVars
  <2>2. TypeOK'
    BY <2>1, Zenon DEF StartupInv, TypeOK, layoutVars
  <2>3. PlacesInv'
    BY <2>1, PlacesStay, Zenon DEF StartupInv
  <2>4. ObjectsInv'
    BY <2>1, NothingBuilt, Zenon DEF StartupInv
  <2>5. ProxiesInv'
    BY <2>1, ProxiesStay, Zenon DEF StartupInv
  <2>6. NetInv'
    BY <2>1, NetStays, Zenon DEF StartupInv
  <2>7. QED
    BY <2>2, <2>3, <2>4, <2>5, <2>6, Zenon DEF StartupInv
<1>5. QED
  BY <1>1, <1>2, <1>3, <1>4, Zenon DEF Next

(***************************************************************************)
(* On any number of nodes and for any command line, what each node places, *)
(* builds, announces and hears about stays consistent through startup,     *)
(* however announcements and main threads interleave.                      *)
(***************************************************************************)
THEOREM StartupInvariant == Spec => []StartupInv
BY InitStartup, StartupStep, PTL DEF Spec
-----------------------------------------------------------------------------
(* The layout.                                                             *)

LEMMA FromEndType ==
  ASSUME NEW c, SizesFit(c), NEW w \in Nodes, NEW i \in Lmbs(c)
  PROVE  LmbFromEnd(c, w, i) \in Nat
<1>1. PICK k \in Nat, s \in Nat : /\ k = EndpointOptions(c).num_lmbs
                                  /\ s = EndpointOptions(c).lmb_size
  BY OptionTypes, Zenon
<1>2. w \in Nat /\ i \in Nat
  BY <1>1, LayoutAssumption DEF Nodes, Lmbs
<1>3. w * k \in Nat
  BY <1>2
<1>4. PICK x \in Nat : x = w * k + i + 1
  BY <1>2, <1>3
<1>5. s * x \in Nat
  OBVIOUS
<1>6. QED
  BY <1>1, <1>4, <1>5, Zenon DEF LmbFromEnd

(* A region between two addresses.                                         *)
Between(r, a, b) == r.from \in Int /\ r.len \in Nat /\ a <= r.from /\ r.from + r.len <= b

(* The boundaries of a node's segment: the global memory, the registered   *)
(* memory, the intermediate buffer, the pool and the buffers.              *)
EndOfGlobal(n) == Addr[n] + cmd.gsize
EndOfRegistered(n) == EndOfGlobal(n) + cmd.rsize
EndOfIb(n) == EndOfRegistered(n) + cmd.ib_rsize
EndOfPool(n) == EndOfIb(n) + EndpointOptions(cmd).sdpsize
EndOfSegment(n) == Addr[n] + size[n]

(* The segment once the nodes are attached, for sizes an int can hold.     *)
LEMMA Segment ==
  ASSUME StartupInv, SizesFitInt, NEW n \in Nodes, LaidOut(n)
  PROVE  /\ SizesFit(cmd) /\ \A m \in Nodes : size[m] = size[n]
         /\ cmd.gsize \in Nat /\ cmd.rsize \in Nat /\ cmd.ib_rsize \in Nat
         /\ EndpointOptions(cmd).sdpsize \in Nat /\ EndpointOptions(cmd).lmb_size \in Nat
         /\ Addr[n] \in Nat /\ size[n] \in Nat /\ size[n] >= AttachSize(cmd)
         /\ TotalLmbSize(cmd) \in Nat
         /\ AttachSize(cmd) = cmd.gsize + cmd.rsize + cmd.ib_rsize
                                + EndpointOptions(cmd).sdpsize + TotalLmbSize(cmd)
<1>1. /\ cmd.gsize \in Nat /\ cmd.rsize \in Nat /\ cmd.ib_rsize \in Nat
      /\ cmd.sdpsize \in Nat /\ cmd.lmbsize \in Nat /\ cmd.numlmbs \in Nat
  BY CommandAssumption, Zenon DEF StartupInv, TypeOK
<1>2. SizesFit(cmd)
  <2>1. cmd.gsize < 2048 /\ cmd.rsize < 2048 /\ cmd.ib_rsize < 2048
    BY DEF SizesFitInt
  <2>2. \A x \in Nat : x < 2048 => x \in IntSize
    BY DEF IntSize
  <2>3. QED
    BY <1>1, <2>1, <2>2 DEF SizesFit
<1>3. /\ EndpointOptions(cmd).sdpsize \in Nat /\ EndpointOptions(cmd).lmb_size \in Nat
      /\ EndpointOptions(cmd).num_lmbs \in Nat
  BY <1>2, OptionTypes
<1>4. PICK pad \in Pads : size = [m \in Nodes |-> AttachSize(cmd) + pad]
  BY Zenon DEF StartupInv, PlacesInv, LaidOut
<1>5. pad \in Nat /\ Addr[n] \in Nat /\ size[n] \in Nat
  BY CommandAssumption, LayoutAssumption, Zenon DEF StartupInv, TypeOK
<1>6. TotalLmbSize(cmd) \in Nat
  <2>1. PICK k \in Nat, s \in Nat : /\ k = EndpointOptions(cmd).num_lmbs
                                    /\ s = EndpointOptions(cmd).lmb_size
    BY <1>3, Zenon
  <2>2. NumNodes * k * s \in Nat
    BY LayoutAssumption
  <2>3. QED
    BY <2>1, <2>2, Zenon DEF TotalLmbSize
<1>7. AttachSize(cmd) = cmd.gsize + cmd.rsize + cmd.ib_rsize
                          + EndpointOptions(cmd).sdpsize + TotalLmbSize(cmd)
  BY Zenon DEF AttachSize
<1>8. AttachSize(cmd) \in Nat
  BY <1>1, <1>3, <1>6, <1>7
<1>9. \A m \in Nodes : size[m] = AttachSize(cmd) + pad
  BY <1>4, Zenon
<1>10. QED
  BY <1>1, <1>2, <1>3, <1>5, <1>6, <1>7, <1>8, <1>9, SMTT(30)

(* The boundaries are in order.                                            *)
LEMMA Boundaries ==
  ASSUME StartupInv, SizesFitInt, NEW n \in Nodes, LaidOut(n)
  PROVE  /\ Addr[n] \in Nat /\ EndOfGlobal(n) \in Nat /\ EndOfRegistered(n) \in Nat
         /\ EndOfIb(n) \in Nat /\ EndOfPool(n) \in Nat /\ EndOfSegment(n) \in Nat
         /\ Addr[n] <= EndOfGlobal(n) /\ EndOfGlobal(n) <= EndOfRegistered(n)
         /\ EndOfRegistered(n) <= EndOfIb(n) /\ EndOfIb(n) <= EndOfPool(n)
         /\ EndOfPool(n) <= EndOfSegment(n)
<1>1. /\ Addr[n] \in Nat /\ cmd.gsize \in Nat /\ cmd.rsize \in Nat /\ cmd.ib_rsize \in Nat
      /\ EndpointOptions(cmd).sdpsize \in Nat /\ size[n] \in Nat /\ TotalLmbSize(cmd) \in Nat
      /\ size[n] >= AttachSize(cmd)
      /\ AttachSize(cmd) = cmd.gsize + cmd.rsize + cmd.ib_rsize
                             + EndpointOptions(cmd).sdpsize + TotalLmbSize(cmd)
  BY Segment, Zenon
<1>2. QED
  BY <1>1, SMTT(30) DEF EndOfGlobal, EndOfRegistered, EndOfIb, EndOfPool, EndOfSegment

(* What RuntimeImpl places: each in its part of the segment, once.         *)
LEMMA GlobalPlaced ==
  ASSUME StartupInv, SizesFitInt, NEW n \in Nodes, LaidOut(n), NEW r \in GlobalRegions(n)
  PROVE  /\ Between(r, Addr[n], EndOfGlobal(n))
         /\ \A q \in GlobalRegions(n) : q = r
<1>1. Addr[n] \in Nat /\ cmd.gsize \in Nat
  BY Segment, Zenon
<1>2. \A q \in GlobalRegions(n) : q = [what |-> <<"global">>, from |-> Addr[n], len |-> cmd.gsize]
  BY Zenon DEF GlobalRegions
<1>3. r.from = Addr[n] /\ r.len = cmd.gsize
  BY <1>2
<1>4. QED
  BY <1>1, <1>2, <1>3 DEF Between, EndOfGlobal

(* The registered object of a row of the node.                             *)
LEMMA MemoryPlaced ==
  ASSUME NEW n \in Nodes, NEW type, NEW from \in Nat, NEW len \in Nat,
         RegisteredAt(tables[n][n][type], from, len), NEW r \in MemoryRegions(n, type)
  PROVE  /\ Between(r, from, from + len)
         /\ \A q \in MemoryRegions(n, type) : q = r
<1> DEFINE row == tables[n][n][type]
<1>1. \A q \in MemoryRegions(n, type) :
        \E i \in DOMAIN row : /\ row[i].base # 0
                              /\ q = [what |-> <<"memory", row[i].id>>, from |-> row[i].base,
                                      len |-> row[i].size]
  BY Zenon DEF MemoryRegions, Range
<1>2. PICK i \in DOMAIN row : /\ row[i].base # 0
                              /\ r = [what |-> <<"memory", row[i].id>>, from |-> row[i].base,
                                      len |-> row[i].size]
  BY <1>1, Zenon
<1>3. r.from = from /\ r.len = len
  BY <1>2, Zenon DEF RegisteredAt
<1>4. \A q \in MemoryRegions(n, type) : q = r
  BY <1>1, <1>2 DEF RegisteredAt
<1>5. QED
  BY <1>3, <1>4 DEF Between

(* The source data pool.                                                   *)
LEMMA PoolPlaced ==
  ASSUME StartupInv, SizesFitInt, NEW n \in Nodes, LaidOut(n), NEW r \in PoolRegions(n)
  PROVE  /\ Between(r, EndOfIb(n), EndOfPool(n))
         /\ \A q \in PoolRegions(n) : q = r
<1>1. \A q \in PoolRegions(n) : /\ pool[n] # Unset
                                /\ q = [what |-> <<"pool">>, from |-> pool[n],
                                        len |-> EndpointOptions(cmd).sdpsize]
  BY Zenon DEF PoolRegions
<1>2. PICK off \in PoolOffsets(cmd) : pool[n] = Addr[n] + off
  BY <1>1, Zenon DEF StartupInv, PlacesInv
<1>3. /\ cmd.gsize \in Nat /\ cmd.rsize \in Nat /\ cmd.ib_rsize \in Nat /\ SizesFit(cmd)
      /\ EndpointOptions(cmd).sdpsize \in Nat /\ Addr[n] \in Nat
  BY Segment, Zenon
<1>4. off = cmd.gsize + cmd.rsize + cmd.ib_rsize
  BY <1>3, PoolOffset, Zenon
<1>5. r.from = EndOfIb(n) /\ r.len = EndpointOptions(cmd).sdpsize
  BY <1>1, <1>2, <1>3, <1>4 DEF EndOfIb, EndOfRegistered, EndOfGlobal
<1>6. EndOfIb(n) \in Nat
  BY Boundaries, Zenon
<1>7. QED
  BY <1>1, <1>3, <1>5, <1>6 DEF Between, EndOfPool

(* The buffers of the peers.                                               *)
LEMMA LmbPlaced ==
  ASSUME StartupInv, SizesFitInt, NEW n \in Nodes, LaidOut(n), NEW p \in Others(n), NEW i \in Lmbs(cmd)
  PROVE  /\ lmb_r_bases[n][p][i] = EndOfSegment(n) - LmbFromEnd(cmd, p, i)
         /\ LmbFromEnd(cmd, p, i) \in Nat /\ EndpointOptions(cmd).lmb_size \in Nat
         /\ EndOfPool(n) <= lmb_r_bases[n][p][i]
         /\ lmb_r_bases[n][p][i] + EndpointOptions(cmd).lmb_size <= EndOfSegment(n)
<1>1. /\ SizesFit(cmd) /\ size[p] = size[n] /\ p \in Nodes /\ size[n] >= AttachSize(cmd)
      /\ cmd.gsize \in Nat /\ cmd.rsize \in Nat /\ cmd.ib_rsize \in Nat
      /\ EndpointOptions(cmd).sdpsize \in Nat /\ EndpointOptions(cmd).lmb_size \in Nat
      /\ Addr[n] \in Nat /\ size[n] \in Nat
  BY Segment, Zenon DEF Others
<1>2. lmb_r_bases[n][p][i] = Addr[n] + size[p] - LmbFromEnd(cmd, p, i)
  <2>1. lmb_r_bases[n] = ReadBases(n)
    BY Zenon DEF StartupInv, PlacesInv
  <2>2. QED
    BY <2>1 DEF ReadBases, LmbReadBase
<1>3. LmbFromEnd(cmd, p, i) \in Nat
  BY <1>1, FromEndType, Zenon
<1>4. PICK off \in PoolOffsets(cmd) : off = cmd.gsize + cmd.rsize + cmd.ib_rsize
  BY <1>1, PoolOffset, Zenon
<1>5. /\ LmbFromEnd(cmd, p, i) >= EndpointOptions(cmd).lmb_size
      /\ off + EndpointOptions(cmd).sdpsize <= AttachSize(cmd) - LmbFromEnd(cmd, p, i)
  BY <1>1, BuffersAbovePool, Zenon
<1>6. AttachSize(cmd) \in Nat
  BY Segment
<1>7. QED
  BY <1>1, <1>2, <1>3, <1>4, <1>5, <1>6, SMTT(30)
     DEF EndOfSegment, EndOfPool, EndOfIb, EndOfRegistered, EndOfGlobal

(* Every region lies in one of the five parts of the segment, and those of *)
(* one part do not overlap.                                                *)
Part(r, a, b, S) == Between(r, a, b) /\ r \in S

LEMMA RegionPlaced ==
  ASSUME StartupInv, SizesFitInt, NEW n \in Nodes, LaidOut(n), NEW r \in Regions(n)
  PROVE  \/ Part(r, Addr[n], EndOfGlobal(n), GlobalRegions(n))
         \/ Part(r, EndOfGlobal(n), EndOfRegistered(n), MemoryRegions(n, "mem"))
         \/ Part(r, EndOfRegistered(n), EndOfIb(n), MemoryRegions(n, "ib"))
         \/ Part(r, EndOfIb(n), EndOfPool(n), PoolRegions(n))
         \/ Part(r, EndOfPool(n), EndOfSegment(n), LmbRegions(n))
<1>1. CASE r \in GlobalRegions(n)
  BY <1>1, GlobalPlaced, Zenon DEF Part
<1>2. /\ EndOfGlobal(n) = Addr[n] + RegMemOffset(cmd)
      /\ EndOfRegistered(n) = Addr[n] + IbMemOffset(cmd)
      /\ EndOfGlobal(n) \in Nat /\ EndOfRegistered(n) \in Nat
      /\ cmd.rsize \in Nat /\ cmd.ib_rsize \in Nat
  <2>1. cmd.gsize \in Nat /\ cmd.rsize \in Nat /\ cmd.ib_rsize \in Nat /\ Addr[n] \in Nat
    BY Segment, Zenon
  <2>2. QED
    BY <2>1 DEF EndOfGlobal, EndOfRegistered, RegMemOffset, IbMemOffset
<1>3. /\ RegisteredAt(tables[n][n]["mem"], EndOfGlobal(n), cmd.rsize)
      /\ RegisteredAt(tables[n][n]["ib"], EndOfRegistered(n), cmd.ib_rsize)
  BY <1>2, Zenon DEF StartupInv, ObjectsInv, OwnObjects
<1>4. CASE r \in MemoryRegions(n, "mem")
  BY <1>2, <1>3, <1>4, MemoryPlaced, Zenon DEF Part, EndOfRegistered
<1>5. CASE r \in MemoryRegions(n, "ib")
  BY <1>2, <1>3, <1>5, MemoryPlaced, Zenon DEF Part, EndOfIb
<1>6. CASE r \in PoolRegions(n)
  BY <1>6, PoolPlaced, Zenon DEF Part
<1>7. CASE r \in LmbRegions(n)
  <2>1. PICK p \in Others(n), i \in Lmbs(cmd) :
          r = [what |-> <<"lmb", p, i>>, from |-> lmb_r_bases[n][p][i],
               len |-> EndpointOptions(cmd).lmb_size]
    BY <1>7 DEF LmbRegions
  <2>2. EndOfSegment(n) \in Nat
    BY Boundaries, Zenon
  <2>3. /\ lmb_r_bases[n][p][i] = EndOfSegment(n) - LmbFromEnd(cmd, p, i)
        /\ LmbFromEnd(cmd, p, i) \in Nat /\ EndpointOptions(cmd).lmb_size \in Nat
        /\ EndOfPool(n) <= lmb_r_bases[n][p][i]
        /\ lmb_r_bases[n][p][i] + EndpointOptions(cmd).lmb_size <= EndOfSegment(n)
    BY LmbPlaced, Zenon
  <2>4. r.from = lmb_r_bases[n][p][i] /\ r.len = EndpointOptions(cmd).lmb_size
    BY <2>1, Zenon
  <2>5. Between(r, EndOfPool(n), EndOfSegment(n))
    BY <2>2, <2>3, <2>4 DEF Between
  <2>6. QED
    BY <1>7, <2>5, Zenon DEF Part
<1>8. QED
  BY <1>1, <1>4, <1>5, <1>6, <1>7, Zenon DEF Regions

(* Two buffers of a segment do not overlap.                                *)
LEMMA LmbsApart ==
  ASSUME StartupInv, SizesFitInt, NEW n \in Nodes, LaidOut(n),
         NEW r \in LmbRegions(n), NEW q \in LmbRegions(n), r # q
  PROVE  r.from + r.len <= q.from \/ q.from + q.len <= r.from
<1>1. PICK p \in Others(n), i \in Lmbs(cmd) :
        r = [what |-> <<"lmb", p, i>>, from |-> lmb_r_bases[n][p][i],
             len |-> EndpointOptions(cmd).lmb_size]
  BY DEF LmbRegions
<1>2. PICK w \in Others(n), j \in Lmbs(cmd) :
        q = [what |-> <<"lmb", w, j>>, from |-> lmb_r_bases[n][w][j],
             len |-> EndpointOptions(cmd).lmb_size]
  BY DEF LmbRegions
<1>3. p # w \/ i # j
  BY <1>1, <1>2, Zenon
<1>4. SizesFit(cmd) /\ p \in Nodes /\ w \in Nodes
  BY Segment, Zenon DEF Others
<1>5. \/ LmbFromEnd(cmd, p, i) + EndpointOptions(cmd).lmb_size <= LmbFromEnd(cmd, w, j)
      \/ LmbFromEnd(cmd, w, j) + EndpointOptions(cmd).lmb_size <= LmbFromEnd(cmd, p, i)
  BY <1>3, <1>4, BuffersDisjoint, Zenon
<1>6. /\ r.from = EndOfSegment(n) - LmbFromEnd(cmd, p, i)
      /\ r.len = EndpointOptions(cmd).lmb_size
      /\ LmbFromEnd(cmd, p, i) \in Nat /\ EndpointOptions(cmd).lmb_size \in Nat
  BY <1>1, LmbPlaced, Zenon
<1>7. /\ q.from = EndOfSegment(n) - LmbFromEnd(cmd, w, j)
      /\ q.len = EndpointOptions(cmd).lmb_size /\ LmbFromEnd(cmd, w, j) \in Nat
  BY <1>2, LmbPlaced, Zenon
<1>8. EndOfSegment(n) \in Nat
  BY Boundaries, Zenon
<1>9. QED
  BY <1>5, <1>6, <1>7, <1>8

(* Regions of one part are the same or do not overlap.                     *)
LEMMA SamePart ==
  ASSUME StartupInv, SizesFitInt, NEW n \in Nodes, LaidOut(n),
         NEW r \in Regions(n), NEW q \in Regions(n), r # q
  PROVE  /\ ~(r \in GlobalRegions(n) /\ q \in GlobalRegions(n))
         /\ ~(r \in MemoryRegions(n, "mem") /\ q \in MemoryRegions(n, "mem"))
         /\ ~(r \in MemoryRegions(n, "ib") /\ q \in MemoryRegions(n, "ib"))
         /\ ~(r \in PoolRegions(n) /\ q \in PoolRegions(n))
         /\ r \in LmbRegions(n) /\ q \in LmbRegions(n) =>
              r.from + r.len <= q.from \/ q.from + q.len <= r.from
<1>1. /\ cmd.gsize \in Nat /\ cmd.rsize \in Nat /\ cmd.ib_rsize \in Nat /\ Addr[n] \in Nat
  BY Segment, Zenon
<1>2. Addr[n] + RegMemOffset(cmd) \in Nat /\ Addr[n] + IbMemOffset(cmd) \in Nat
  BY <1>1 DEF RegMemOffset, IbMemOffset
<1>3. /\ RegisteredAt(tables[n][n]["mem"], Addr[n] + RegMemOffset(cmd), cmd.rsize)
      /\ RegisteredAt(tables[n][n]["ib"], Addr[n] + IbMemOffset(cmd), cmd.ib_rsize)
  BY Zenon DEF StartupInv, ObjectsInv, OwnObjects
<1>4. ~(r \in GlobalRegions(n) /\ q \in GlobalRegions(n))
  BY GlobalPlaced, Zenon
<1>5. ~(r \in MemoryRegions(n, "mem") /\ q \in MemoryRegions(n, "mem"))
  BY <1>1, <1>2, <1>3, MemoryPlaced, Zenon
<1>6. ~(r \in MemoryRegions(n, "ib") /\ q \in MemoryRegions(n, "ib"))
  BY <1>1, <1>2, <1>3, MemoryPlaced, Zenon
<1>7. ~(r \in PoolRegions(n) /\ q \in PoolRegions(n))
  BY PoolPlaced, Zenon
<1>8. QED
  BY <1>4, <1>5, <1>6, <1>7, LmbsApart, Zenon

LEMMA RegionsApart ==
  ASSUME StartupInv, SizesFitInt, NEW n \in Nodes, LaidOut(n),
         NEW r \in Regions(n), NEW q \in Regions(n), r # q
  PROVE  r.from + r.len <= q.from \/ q.from + q.len <= r.from
<1>1. PICK a0 \in Nat, a1 \in Nat, a2 \in Nat, a3 \in Nat, a4 \in Nat, a5 \in Nat :
        /\ a0 = Addr[n] /\ a1 = EndOfGlobal(n) /\ a2 = EndOfRegistered(n) /\ a3 = EndOfIb(n)
        /\ a4 = EndOfPool(n) /\ a5 = EndOfSegment(n)
        /\ a0 <= a1 /\ a1 <= a2 /\ a2 <= a3 /\ a3 <= a4 /\ a4 <= a5
  BY Boundaries, Zenon
<1>2. ASSUME NEW s \in Regions(n)
      PROVE  \/ Part(s, a0, a1, GlobalRegions(n))
             \/ Part(s, a1, a2, MemoryRegions(n, "mem"))
             \/ Part(s, a2, a3, MemoryRegions(n, "ib"))
             \/ Part(s, a3, a4, PoolRegions(n))
             \/ Part(s, a4, a5, LmbRegions(n))
  BY <1>1, RegionPlaced, Zenon
<1>3. /\ ~(r \in GlobalRegions(n) /\ q \in GlobalRegions(n))
      /\ ~(r \in MemoryRegions(n, "mem") /\ q \in MemoryRegions(n, "mem"))
      /\ ~(r \in MemoryRegions(n, "ib") /\ q \in MemoryRegions(n, "ib"))
      /\ ~(r \in PoolRegions(n) /\ q \in PoolRegions(n))
      /\ r \in LmbRegions(n) /\ q \in LmbRegions(n) =>
           r.from + r.len <= q.from \/ q.from + q.len <= r.from
  BY SamePart, Zenon
<1>4. /\ \/ Part(r, a0, a1, GlobalRegions(n)) \/ Part(r, a1, a2, MemoryRegions(n, "mem"))
         \/ Part(r, a2, a3, MemoryRegions(n, "ib")) \/ Part(r, a3, a4, PoolRegions(n))
         \/ Part(r, a4, a5, LmbRegions(n))
      /\ \/ Part(q, a0, a1, GlobalRegions(n)) \/ Part(q, a1, a2, MemoryRegions(n, "mem"))
         \/ Part(q, a2, a3, MemoryRegions(n, "ib")) \/ Part(q, a3, a4, PoolRegions(n))
         \/ Part(q, a4, a5, LmbRegions(n))
  BY <1>2, Zenon
<1>5. QED
  BY <1>1, <1>3, <1>4 DEF Part, Between

LEMMA LayoutImplied == StartupInv => LayoutRight
<1>1. SUFFICES ASSUME StartupInv, SizesFitInt, NEW n \in Nodes, LaidOut(n)
               PROVE  /\ \A r \in Regions(n) : Addr[n] <= r.from /\ r.from + r.len <= Addr[n] + size[n]
                      /\ \A r, q \in Regions(n) :
                           r # q => r.from + r.len <= q.from \/ q.from + q.len <= r.from
                      /\ \A p \in Others(n) : LaidOut(p) =>
                           \A i \in Lmbs(cmd) : lmb_w_bases[p][n][i] = lmb_r_bases[n][p][i]
  BY Zenon DEF LayoutRight
<1>2. ASSUME NEW r \in Regions(n)
      PROVE  Addr[n] <= r.from /\ r.from + r.len <= Addr[n] + size[n]
  <2>1. PICK a0 \in Nat, a1 \in Nat, a2 \in Nat, a3 \in Nat, a4 \in Nat, a5 \in Nat :
          /\ a0 = Addr[n] /\ a1 = EndOfGlobal(n) /\ a2 = EndOfRegistered(n) /\ a3 = EndOfIb(n)
          /\ a4 = EndOfPool(n) /\ a5 = EndOfSegment(n)
          /\ a0 <= a1 /\ a1 <= a2 /\ a2 <= a3 /\ a3 <= a4 /\ a4 <= a5
    BY <1>1, Boundaries, Zenon
  <2>2. \/ Between(r, a0, a1) \/ Between(r, a1, a2) \/ Between(r, a2, a3)
        \/ Between(r, a3, a4) \/ Between(r, a4, a5)
    BY <1>1, <2>1, RegionPlaced, Zenon DEF Part
  <2>3. a0 <= r.from /\ r.from + r.len <= a5
    BY <2>1, <2>2 DEF Between
  <2>4. QED
    BY <2>1, <2>3, Zenon DEF EndOfSegment
<1>3. \A r, q \in Regions(n) : r # q => r.from + r.len <= q.from \/ q.from + q.len <= r.from
  BY <1>1, RegionsApart, Zenon
<1>4. ASSUME NEW p \in Others(n), LaidOut(p), NEW i \in Lmbs(cmd)
      PROVE  lmb_w_bases[p][n][i] = lmb_r_bases[n][p][i]
  <2>1. size[p] = size[n] /\ p \in Nodes /\ n \in Others(p)
    BY <1>1, Segment, Zenon DEF Others
  <2>2. lmb_w_bases[p] = WriteBases(p) /\ lmb_r_bases[n] = ReadBases(n)
    BY <1>1, <1>4, <2>1, Zenon DEF StartupInv, PlacesInv
  <2>3. /\ WriteBases(p)[n][i] = Addr[n] + size[n] - LmbFromEnd(cmd, p, i)
        /\ ReadBases(n)[p][i] = Addr[n] + size[p] - LmbFromEnd(cmd, p, i)
    BY <2>1, Zenon DEF WriteBases, ReadBases, LmbWriteBase, LmbReadBase
  <2>4. QED
    BY <2>1, <2>2, <2>3, Zenon
<1>5. QED
  BY <1>2, <1>3, <1>4, Zenon

(***************************************************************************)
(* On every node the regions that RuntimeImpl, init_endpoints and the      *)
(* endpoint constructors place on their own lie inside the segment and do  *)
(* not overlap, and every peer writes where this node reads, for any       *)
(* number of nodes and any sizes that an int can hold in bytes.            *)
(***************************************************************************)
THEOREM SegmentsLaidOut == Spec => []LayoutRight
BY StartupInvariant, LayoutImplied, PTL
-----------------------------------------------------------------------------
(* The machine.                                                            *)

(* A ready node has the tables of every node, and all of them have the     *)
(* same global memory.                                                     *)
LEMMA ReadyKnows ==
  ASSUME StartupInv, NEW n \in Nodes, pc[n] = "ready"
  PROVE  \A m \in Nodes : /\ pc[m] \in Told /\ tables[n][m] = tables[m][m]
                          /\ global_memory[m] = global_memory[n]
<1>1. Heard(n) = Others(n)
  BY Zenon DEF StartupInv, ProxiesInv
<1>2. \A m \in Nodes : pc[m] \in Told /\ tables[n][m] = tables[m][m]
  BY <1>1, HeardTold, Zenon DEF StartupInv, Others, Told
<1>3. \A m \in Nodes : pc[m] \notin Early \ {"sysmem"}
  BY <1>2, Zenon DEF Told, Early
<1>4. \A m \in Nodes : GlobalBuilt(m) = GlobalBuilt(n)
  BY <1>3, Zenon DEF GlobalBuilt
<1>5. \A m \in Nodes : global_memory[m] = GlobalBuilt(m)
  BY Zenon DEF StartupInv, ObjectsInv, OwnObjects
<1>6. QED
  BY <1>2, <1>4, <1>5, Zenon

(* An object's place in its row is its number.                             *)
LEMMA PlaceInRow ==
  ASSUME StartupInv, NEW m \in Nodes, NEW type \in Types, NEW o \in Range(tables[m][m][type])
  PROVE  \E k \in Nat : /\ o.id = <<type, m, k>> /\ k < Len(tables[m][m][type])
                        /\ tables[m][m][type][k + 1] = o
                        /\ type = "mem" => k # GlobalIndex
<1> DEFINE row == tables[m][m][type]
<1>1. /\ NumberedRow(row, type, m) /\ Len(row) \in Nat /\ DOMAIN row = 1 .. Len(row)
  BY RowLengths, Zenon DEF StartupInv, ObjectsInv, OwnObjects
<1>2. PICK i \in 1 .. Len(row) : o = row[i]
  BY <1>1, Zenon DEF Range
<1>3. type = "mem" => Len(row) <= 4
  <2>1. Len(tables[m][m]["mem"]) <= Memories[pc[m]] /\ pc[m] \in Labels
    BY Zenon DEF StartupInv, ObjectsInv, OwnObjects, BuiltBy, TypeOK
  <2>2. \A l \in Labels : Memories[l] \in 0 .. 4
    BY SMTT(30) DEF Memories
  <2>3. QED
    BY <1>1, <2>1, <2>2, SMTT(30)
<1>4. o.id = <<type, m, i - 1>>
  BY <1>1, <1>2, Zenon DEF NumberedRow
<1>5. /\ i - 1 \in Nat /\ i - 1 < Len(row) /\ (i - 1) + 1 = i
      /\ type = "mem" => i - 1 # GlobalIndex
  BY <1>1, <1>2, <1>3 DEF GlobalIndex
<1>6. PICK k \in Nat : k = i - 1 /\ k < Len(row) /\ k + 1 = i /\ (type = "mem" => k # GlobalIndex)
  BY <1>5, Zenon
<1>7. QED
  BY <1>2, <1>4, <1>6, Zenon

(* Lookups on a ready node find what the owner made.                       *)
LEMMA MemoryFound ==
  ASSUME StartupInv, NEW n \in Nodes, pc[n] = "ready", NEW m \in Nodes,
         NEW type \in {"mem", "ib"}, NEW o \in Range(tables[m][m][type])
  PROVE  GetMemoryImpl(n, o.id) = o /\ OwnerOf(o.id) = m
<1>1. PICK k \in Nat : /\ o.id = <<type, m, k>> /\ k < Len(tables[m][m][type])
                       /\ tables[m][m][type][k + 1] = o
                       /\ type = "mem" => k # GlobalIndex
  <2>1. type \in Types
    BY Zenon DEF Types
  <2>2. QED
    BY <2>1, PlaceInRow, Zenon
<1>2. tables[n][m] = tables[m][m]
  BY ReadyKnows, Zenon
<1>3. /\ o.id[1] = type /\ o.id[2] = m /\ o.id[3] = k
  BY <1>1
<1>4. QED
  BY <1>1, <1>2, <1>3, Zenon DEF GetMemoryImpl, OwnerOf

LEMMA ProcessorFound ==
  ASSUME StartupInv, NEW n \in Nodes, pc[n] = "ready", NEW m \in Nodes,
         NEW o \in Range(tables[m][m]["proc"])
  PROVE  GetProcessorImpl(n, o.id) = o /\ OwnerOf(o.id) = m
<1>1. PICK k \in Nat : /\ o.id = <<"proc", m, k>> /\ k < Len(tables[m][m]["proc"])
                       /\ tables[m][m]["proc"][k + 1] = o
  BY PlaceInRow DEF Types
<1>2. tables[n][m] = tables[m][m]
  BY ReadyKnows, Zenon
<1>3. /\ o.id[2] = m /\ o.id[3] = k
  BY <1>1
<1>4. QED
  BY <1>1, <1>2, <1>3, Zenon DEF GetProcessorImpl, OwnerOf

(* The one identifier of the global memory.                                *)
LEMMA GlobalId ==
  ASSUME StartupInv, NEW m \in Nodes, NEW g \in GlobalMemories(m)
  PROVE  g = global_memory[m] /\ g # Unset /\ g.id = <<"mem", 0, GlobalIndex>>
<1>1. g = global_memory[m] /\ g # Unset
  BY Zenon DEF GlobalMemories
<1>2. global_memory[m] = GlobalBuilt(m)
  BY Zenon DEF StartupInv, ObjectsInv, OwnObjects
<1>3. g = NewGASNetMemory
  BY <1>1, <1>2, Zenon DEF GlobalBuilt
<1>4. QED
  BY <1>1, <1>3 DEF NewGASNetMemory

(* The affinities of a ready node come from all the nodes.                 *)
LEMMA ReadyAffinities ==
  ASSUME StartupInv, NEW n \in Nodes, pc[n] = "ready"
  PROVE  /\ pmas[n] = UNION {OwnPmas(k) : k \in Nodes}
         /\ AnnouncedMmas(n)
              = {a \in UNION {SharedMmas(k) : k \in Nodes} : a[2][3] # GlobalIndex}
<1>1. /\ pmas[n] = OwnPmas(n) \cup UNION {OwnPmas(k) : k \in Others(n)}
      /\ mmas[n] = OwnMmas(n) \cup UNION {SharedMmas(k) : k \in Others(n)}
  <2>1. pc[n] \in Made /\ Heard(n) = Others(n)
    BY Zenon DEF StartupInv, ProxiesInv, Made, Told
  <2>2. QED
    BY <2>1, Zenon DEF StartupInv, ProxiesInv
<1>2. pmas[n] = UNION {OwnPmas(k) : k \in Nodes}
  BY <1>1, Zenon DEF Others
<1>3. ASSUME NEW a \in OwnMmas(n), a[2][3] # GlobalIndex
      PROVE  a \in SharedMmas(n)
  <2>1. PICK m \in LocalMemories(n) \cup GlobalMemories(n) : a[2] = m.id
    BY Zenon DEF OwnMmas, NearSystemMemories, OfKind
  <2>2. m \in LocalMemories(n)
    BY <1>3, <2>1, GlobalId
  <2>3. OwnerOf(a[2]) = n
    BY <2>1, <2>2, MemoryFound, Zenon DEF LocalMemories
  <2>4. QED
    BY <2>3, Zenon DEF SharedMmas
<1>4. SharedMmas(n) \subseteq OwnMmas(n)
  BY Zenon DEF SharedMmas
<1>5. ASSUME NEW a
      PROVE  a \in AnnouncedMmas(n)
               <=> a \in UNION {SharedMmas(k) : k \in Nodes} /\ a[2][3] # GlobalIndex
  <2>1. a \in AnnouncedMmas(n) <=> a \in mmas[n] /\ a[2][3] # GlobalIndex
    BY Zenon DEF AnnouncedMmas
  <2>2. a \in mmas[n] <=> a \in OwnMmas(n) \/ \E k \in Others(n) : a \in SharedMmas(k)
    BY <1>1, Zenon
  <2>3. a \in UNION {SharedMmas(k) : k \in Nodes}
          <=> a \in SharedMmas(n) \/ \E k \in Others(n) : a \in SharedMmas(k)
    BY Zenon DEF Others
  <2>4. QED
    BY <1>3, <1>4, <2>1, <2>2, <2>3, Zenon
<1>6. QED
  BY <1>2, <1>5, Zenon

(* The ends of an affinity are found on a ready node.                      *)
LEMMA AffinityFound ==
  ASSUME StartupInv, NEW n \in Nodes, pc[n] = "ready", NEW m \in Nodes, NEW a \in pmas[m]
  PROVE  /\ GetMemoryImpl(n, a[2]) \in LocalMemories(OwnerOf(a[2])) \cup GlobalMemories(n)
         /\ GetProcessorImpl(n, a[1]) \in Range(tables[OwnerOf(a[1])][OwnerOf(a[1])]["proc"])
<1>1. PICK k \in Nodes : a \in OwnPmas(k)
  <2>1. Heard(m) \subseteq Nodes
    BY Zenon DEF Heard, Others
  <2>2. \/ a \in OwnPmas(m)
        \/ a \in UNION {OwnPmas(k) : k \in Heard(m)}
    BY Zenon DEF StartupInv, ProxiesInv
  <2>3. QED
    BY <2>1, <2>2, Zenon
<1>2. PICK p \in Range(tables[k][k]["proc"]) : a[1] = p.id
  BY <1>1, Zenon DEF OwnPmas, Ids
<1>3. GetProcessorImpl(n, a[1]) = p /\ OwnerOf(a[1]) = k
  BY <1>2, ProcessorFound, Zenon
<1>4. PICK o \in LocalMemories(k) \cup GlobalMemories(k) : a[2] = o.id
  BY <1>1, Zenon DEF OwnPmas, NearProcessors, OfKind
<1>5. CASE o \in LocalMemories(k)
  <2>1. GetMemoryImpl(n, a[2]) = o /\ OwnerOf(a[2]) = k
    BY <1>4, <1>5, MemoryFound, SMTT(30) DEF LocalMemories
  <2>2. QED
    BY <1>2, <1>3, <1>5, <2>1, Zenon
<1>6. CASE o \in GlobalMemories(k)
  <2>1. o = global_memory[k] /\ o # Unset /\ a[2] = <<"mem", 0, GlobalIndex>>
    BY <1>4, <1>6, GlobalId, Zenon
  <2>2. global_memory[k] = global_memory[n]
    BY ReadyKnows, Zenon
  <2>3. GetMemoryImpl(n, a[2]) = global_memory[n]
    BY <2>1, SMTT(30) DEF GetMemoryImpl
  <2>4. QED
    BY <1>2, <1>3, <2>1, <2>2, <2>3, Zenon DEF GlobalMemories
<1>7. QED
  BY <1>4, <1>5, <1>6, Zenon

LEMMA MachineImplied == StartupInv => MachineAgreed
<1>1. SUFFICES ASSUME StartupInv, NEW n \in Nodes, pc[n] = "ready"
               PROVE  /\ \A m \in Nodes :
                           /\ \A o \in Range(tables[m][m]["mem"]) \cup Range(tables[m][m]["ib"]) :
                                GetMemoryImpl(n, o.id) = o
                           /\ \A o \in Range(tables[m][m]["proc"]) : GetProcessorImpl(n, o.id) = o
                           /\ \A a \in pmas[m] :
                                /\ GetMemoryImpl(n, a[2])
                                     \in LocalMemories(OwnerOf(a[2])) \cup GlobalMemories(n)
                                /\ GetProcessorImpl(n, a[1])
                                     \in Range(tables[OwnerOf(a[1])][OwnerOf(a[1])]["proc"])
                      /\ \A m \in Nodes : pc[m] = "ready" =>
                           pmas[n] = pmas[m] /\ AnnouncedMmas(n) = AnnouncedMmas(m)
  BY Zenon DEF MachineAgreed
<1>2. ASSUME NEW m \in Nodes
      PROVE  /\ \A o \in Range(tables[m][m]["mem"]) : GetMemoryImpl(n, o.id) = o
             /\ \A o \in Range(tables[m][m]["ib"]) : GetMemoryImpl(n, o.id) = o
             /\ \A o \in Range(tables[m][m]["proc"]) : GetProcessorImpl(n, o.id) = o
  BY <1>1, MemoryFound, ProcessorFound, Zenon
<1>3. ASSUME NEW m \in Nodes, NEW a \in pmas[m]
      PROVE  /\ GetMemoryImpl(n, a[2]) \in LocalMemories(OwnerOf(a[2])) \cup GlobalMemories(n)
             /\ GetProcessorImpl(n, a[1]) \in Range(tables[OwnerOf(a[1])][OwnerOf(a[1])]["proc"])
  BY <1>1, AffinityFound, Zenon
<1>4. ASSUME NEW m \in Nodes, pc[m] = "ready"
      PROVE  pmas[n] = pmas[m] /\ AnnouncedMmas(n) = AnnouncedMmas(m)
  BY <1>1, <1>4, ReadyAffinities, Zenon
<1>5. QED
  BY <1>2, <1>3, <1>4, Zenon

(***************************************************************************)
(* A node that has all announcements resolves every identifier that any    *)
(* node has given out to the object its owner made, and all ready nodes    *)
(* hold the same affinities, for any number of nodes and any command line. *)
(***************************************************************************)
THEOREM MachinesAgree == Spec => []MachineAgreed
BY StartupInvariant, MachineImplied, PTL
=============================================================================
