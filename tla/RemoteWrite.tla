----------------------------- MODULE RemoteWrite -----------------------------
(***************************************************************************)
(* Remote writes, serdez copies and reductions with their data.  Unless    *)
(* the destination is RDMA-able, a call is chopped into messages whose     *)
(* payload fits the long message buffer; the return value, the number of   *)
(* messages, is what the fence of RemoteWriteFence will wait for.          *)
(*                                                                         *)
(* The data of a call is its elements 0, 1, ...: bytes of a write, values  *)
(* of a reduction or of a serdez copy.  A piece [offset, first, count]     *)
(* carries the elements first .. first + count - 1 to be put at offset.    *)
(***************************************************************************)
EXTENDS RemoteWriteFence, Sequences, FiniteSets

CONSTANTS
  Plan,          \* Plan[x]: the sequences of do_remote_* calls x may be
  MaxXferSize    \* get_lmb_size of the memory's owner

(* The calls: none is empty, and where the code asserts it, one line, value *)
(* or serialized element fits a message.                                   *)
Calls ==
  [kind : {"rdma", "write"}, offset : Nat, len : Nat \ {0}]
  \cup [kind : {"lines"}, offset : Nat, len : 1 .. MaxXferSize, lines : Nat \ {0}]
  \cup [kind : {"spans"}, offset : Nat, sizes : Seq(Nat \ {0}) \ {<<>>}]
  \cup [kind : {"serdez"}, offset : Nat, sizes : Seq(1 .. MaxXferSize) \ {<<>>}, step : Nat]
  \cup [kind : {"reduce"}, offset : Nat, len : 1 .. MaxXferSize, count : Nat \ {0}, step : Int]

ASSUME WriteAssumption ==
  /\ MaxXferSize \in Nat \ {0}
  /\ \A x \in Transfer : \A plan \in Plan[x] : plan \in Seq(Calls)

VARIABLES
  calls,         \* [x]: the calls still to be made
  made,          \* history [x]: the calls made, in order
  messages,      \* pieces in flight: [xfer, call, piece]
  placed         \* [x]: <<address, call, element>> in the destination

vars == <<fence_vars, calls, made, messages, placed>>

Piece(o, f, n) == [offset |-> o, first |-> f, count |-> n]

(* Sum of the first n entries of a sequence of sizes.                      *)
SumTo(s, n) == Cardinality(UNION {{i} \X (1 .. s[i]) : i \in 1 .. n})
-----------------------------------------------------------------------------
(* The loop without the last send, of "whatever's left".                   *)
ChopWholeOnly(offset, step, count, max) ==
  {Piece(offset + i * max * step, i * max, max) : i \in {j \in 0 .. count : (j + 1) * max <= count}}

(* The loop of all the calls with pieces of constant size: count elements, *)
(* of which max fit a message, element i being put at offset + i * step.   *)
Chop(offset, step, count, max) ==
  {Piece(offset + i * max * step, i * max, IF (i + 1) * max < count THEN max ELSE count - i * max)
     : i \in {j \in 0 .. count : j * max < count}}

(* do_remote_write of contiguous data.                                     *)
WritePieces(c) == Chop(c.offset, 1, c.len, MaxXferSize)

(* do_remote_write of c.lines lines: whole lines only.                     *)
LinePieces(c) ==
  Chop(c.offset, 1, c.lines * c.len, (MaxXferSize \div c.len) * c.len)

(***************************************************************************)
(* Entries of different sizes, the spans of a list or the serialized       *)
(* elements of a field, are taken in order as long as they fit a message,  *)
(* a larger one alone.  Starts is where the loop begins a message: at the  *)
(* first entry, and after each one it took last.                           *)
(***************************************************************************)
Fits(s, i, j) == SumTo(s, j) - SumTo(s, i - 1) <= MaxXferSize

LastFit(s, i) == CHOOSE j \in i .. Len(s) : Fits(s, i, j) /\ (j = Len(s) \/ ~Fits(s, i, j + 1))

After(s) == [i \in 1 .. Len(s) |-> IF s[i] > MaxXferSize THEN i + 1 ELSE LastFit(s, i) + 1]

Starts(s) ==
  {i \in 1 .. Len(s) : \A T \in SUBSET (1 .. Len(s)) :
     1 \in T /\ (\A j \in T : After(s)[j] <= Len(s) => After(s)[j] \in T) => i \in T}

(* do_remote_write of a span list: a span too large for a message is       *)
(* chopped up.                                                             *)
SpanPieces(c) ==
  LET At(i) == SumTo(c.sizes, i - 1)
  IN UNION {IF c.sizes[i] > MaxXferSize
            THEN {[p EXCEPT !.first = @ + At(i)] : p \in Chop(c.offset + At(i), 1, c.sizes[i], MaxXferSize)}
            ELSE {Piece(c.offset + At(i), At(i), At(After(c.sizes)[i]) - At(i))}
              : i \in Starts(c.sizes)}

(* do_remote_serdez: as many elements as their serialized sizes allow;     *)
(* fields are c.step apart in the destination.                             *)
SerdezPieces(c) ==
  {Piece(c.offset + (i - 1) * c.step, i - 1, After(c.sizes)[i] - i) : i \in Starts(c.sizes)}

(* do_remote_reduce: c.count values of c.len bytes, c.step apart.          *)
ReducePieces(c) == Chop(c.offset, c.step, c.count, MaxXferSize \div c.len)

(* A write into RDMA-able memory is one message, whatever its size.        *)
Pieces(c) ==
  CASE c.kind = "rdma"   -> {Piece(c.offset, 0, c.len)}
    [] c.kind = "write"  -> WritePieces(c)
    [] c.kind = "lines"  -> LinePieces(c)
    [] c.kind = "spans"  -> SpanPieces(c)
    [] c.kind = "serdez" -> SerdezPieces(c)
    [] c.kind = "reduce" -> ReducePieces(c)

(* Bytes of payload a message with piece p of call c carries.              *)
PayloadBytes(c, p) ==
  CASE c.kind = "serdez" -> SumTo(c.sizes, p.first + p.count) - SumTo(c.sizes, p.first)
    [] c.kind = "reduce" -> p.count * c.len
    [] OTHER -> p.count

(* Distance in the destination from one element of a call to the next.     *)
StepOf(c) == IF c.kind \in {"serdez", "reduce"} THEN c.step ELSE 1
-----------------------------------------------------------------------------
Init ==
  /\ FenceInit
  /\ calls \in {f \in [Transfer -> UNION {Plan[x] : x \in Transfer}] : \A x \in Transfer : f[x] \in Plan[x]}
  /\ made = [x \in Transfer |-> <<>>]
  /\ messages = {}
  /\ placed = [x \in Transfer |-> {}]

(* One do_remote_* call: all its messages are sent.                        *)
DoRemote(x) ==
  /\ calls[x] # <<>>
  /\ LET c == Head(calls[x])
         k == Len(made[x]) + 1
     IN /\ SendWrites(x, Cardinality(Pieces(c)))
        /\ messages' = messages \cup {[xfer |-> x, call |-> k, piece |-> p] : p \in Pieces(c)}
        /\ made' = [made EXCEPT ![x] = Append(@, c)]
  /\ calls' = [calls EXCEPT ![x] = Tail(@)]
  /\ UNCHANGED placed

DoRemoteFence(x) ==
  /\ calls[x] = <<>>
  /\ SendFence(x)
  /\ UNCHANGED <<calls, made, messages, placed>>

(* What the handler of a message stores where: put_bytes, the loop of      *)
(* deserialize, apply_strided or fold_strided.                             *)
Stored(m) ==
  LET c == made[m.xfer][m.call]
  IN {<<m.piece.offset + i * StepOf(c), m.call, m.piece.first + i>> : i \in 0 .. m.piece.count - 1}

HandleWrite(m) ==
  /\ ApplyWrite(m.xfer)
  /\ messages' = messages \ {m}
  /\ placed' = [placed EXCEPT ![m.xfer] = @ \cup Stored(m)]
  /\ UNCHANGED <<calls, made>>

(* The rest of a handler, and the handlers without data.                   *)
Track(x) ==
  /\ TrackWrite(x) \/ HandleFence(x) \/ HandleFenceAck(x)
  /\ UNCHANGED <<calls, made, messages, placed>>

Next ==
  \/ \E x \in Transfer : DoRemote(x) \/ DoRemoteFence(x) \/ Track(x)
  \/ \E m \in messages : HandleWrite(m)

Spec == Init /\ [][Next]_vars

(* Operations are issued, messages delivered and handlers run.             *)
FairSpec == Spec /\ WF_vars(Next)
-----------------------------------------------------------------------------
(* The elements of call k, each where it belongs.                          *)
Expected(x, k) ==
  LET c == made[x][k]
      n == CASE c.kind = "lines" -> c.lines * c.len
             [] c.kind = "spans" -> SumTo(c.sizes, Len(c.sizes))
             [] c.kind = "serdez" -> Len(c.sizes)
             [] c.kind = "reduce" -> c.count
             [] OTHER -> c.len
  IN {<<c.offset + i * StepOf(c), k, i>> : i \in 0 .. n - 1}

(***************************************************************************)
(* When the sender is told, all the data is in place and nothing else is:  *)
(* every element of every call at its address.                             *)
(***************************************************************************)
DataInPlace ==
  \A x \in Transfer : fence[x] \in {"acked", "finished"} =>
    placed[x] = UNION {Expected(x, k) : k \in DOMAIN made[x]}

(***************************************************************************)
(* The payload of a message is not empty and fits a long message buffer    *)
(* (unless it goes straight to its destination), and no element is sent    *)
(* twice: a reduction would count it twice.                                *)
(***************************************************************************)
PiecesFit ==
  \A m \in messages :
    LET c == made[m.xfer][m.call]
    IN /\ m.piece.count > 0
       /\ c.kind = "rdma" \/ PayloadBytes(c, m.piece) <= MaxXferSize
       /\ Stored(m) \cap placed[m.xfer] = {}
       /\ \A o \in messages : o # m /\ o.xfer = m.xfer => Stored(o) \cap Stored(m) = {}

(* Every transfer's fence is acknowledged in the end.                      *)
FenceReached == <>(\A x \in Transfer : fence[x] = "finished")

(* do_remote_write, do_remote_serdez and do_remote_reduce cut a transfer   *)
(* right: no message is too large, empty or overlaps another, and at the   *)
(* acknowledgement every element is at its address.                        *)
TransferRight == PiecesFit /\ DataInPlace
=============================================================================
