----------------------------- MODULE LongMessage -----------------------------
(***************************************************************************)
(* Long messages between one node and its peer.  send_long gives a message *)
(* an id, cuts its payload into chunks of at most max_long_req bytes and   *)
(* sends the last chunk first; every chunk carries the id, the number of   *)
(* chunks and the source pointer.  The receiver's adjust_long_msgsize      *)
(* puts the chunks together by id, in whatever order they arrive, and lets *)
(* the last one dispatch the message and release the source pointer.       *)
(*                                                                         *)
(* Senders are threads inside send_long for the same endpoint.             *)
(* push_messages calls it without the mutex, so with more than one polling *)
(* thread there can be several: the increment of next_outgoing_message_id  *)
(* is a read and a later write.                                            *)
(***************************************************************************)
EXTENDS Naturals, FiniteSets

CONSTANTS
  Msg,         \* the messages, each with a non-empty payload
  Sender,      \* the threads that may be in send_long at once
  DestPtr,     \* DestPtr[m]: the address the payload goes to
  PayloadSize, \* PayloadSize[m], at least 1
  InPool,      \* messages in mode PAYLOAD_SRCPTR
  MaxLongReq   \* gasnet_AMMaxLongRequest()

VARIABLES
  next_outgoing_message_id,
  todo,               \* messages no thread has taken yet
  sending,            \* [s]: the thread's call of send_long, or Idle
  network,            \* chunks on their way
  observed_messages,  \* the receiver's map from id to ChunkInfo
  dispatched,         \* (message, ptr, nbytes) of enqueue_incoming calls
  released            \* [m]: send_srcptr_release calls for its pointer

vars == <<next_outgoing_message_id, todo, sending, network,
          observed_messages, dispatched, released>>

Idle == [step |-> "idle"]

(* "every chunk but the last is the max size - the last one is whatever is *)
(* left (which may also be the max size if it divided evenly)"             *)
Chunks(m) == (PayloadSize[m] + MaxLongReq - 1) \div MaxLongReq

ChunkSize(m, i) ==
  IF i < Chunks(m) - 1 THEN MaxLongReq ELSE PayloadSize[m] - (Chunks(m) - 1) * MaxLongReq

(* Chunk i of m, and the arguments it is sent with.                        *)
Chunk(m, id, i) ==
  [msg |-> m, id |-> id, chunks |-> Chunks(m),
   ptr |-> DestPtr[m] + i * MaxLongReq, nbytes |-> ChunkSize(m, i)]

Init ==
  /\ next_outgoing_message_id = 0
  /\ todo = Msg
  /\ sending = [s \in Sender |-> Idle]
  /\ network = {}
  /\ observed_messages = << >>
  /\ dispatched = {}
  /\ released = [m \in Msg |-> 0]
-----------------------------------------------------------------------------
(* push_messages pops a message and calls send_long, which reads the id.   *)
ReadId(s, m) ==
  /\ sending[s] = Idle /\ m \in todo
  /\ todo' = todo \ {m}
  /\ sending' = [sending EXCEPT ![s] =
       [step |-> "numbered", msg |-> m, id |-> next_outgoing_message_id]]
  /\ UNCHANGED <<next_outgoing_message_id, network, observed_messages, dispatched, released>>

(* ... and writes it back incremented.                                     *)
WriteId(s) ==
  /\ sending[s].step = "numbered"
  /\ next_outgoing_message_id' = sending[s].id + 1
  /\ sending' = [sending EXCEPT ![s] =
       [step |-> "chunks", msg |-> @.msg, id |-> @.id, i |-> Chunks(@.msg) - 1]]
  /\ UNCHANGED <<todo, network, observed_messages, dispatched, released>>

(* One iteration of the loop over the chunks.                              *)
SendChunk(s) ==
  /\ sending[s].step = "chunks"
  /\ LET m == sending[s].msg
         i == sending[s].i
     IN /\ network' = network \cup {Chunk(m, sending[s].id, i)}
        /\ sending' = [sending EXCEPT ![s] = IF i = 0 THEN Idle ELSE [@ EXCEPT !.i = i - 1]]
  /\ UNCHANGED <<next_outgoing_message_id, todo, observed_messages, dispatched, released>>
-----------------------------------------------------------------------------
(* The receiver's map with entry id set to v; and with it erased.          *)
Put(f, id, v) == [x \in DOMAIN f \cup {id} |-> IF x = id THEN v ELSE f[x]]
Erase(f, id)  == [x \in DOMAIN f \ {id} |-> f[x]]

Smaller(a, b) == IF a < b THEN a ELSE b

(* Taking the pointer of the chunk that arrived last for the base.         *)
MergeLast(info, c) ==
  [base_ptr |-> c.ptr, chunks |-> info.chunks + 1, total_size |-> info.total_size + c.nbytes]

(* "Update the pointer with the smallest one which is the base"            *)
Merge(info, c) ==
  [base_ptr |-> Smaller(c.ptr, info.base_ptr), chunks |-> info.chunks + 1,
   total_size |-> info.total_size + c.nbytes]

(* The rest of handler_medium once the message is complete: enqueue it for *)
(* the handler threads and release the source pointer, if there is one.    *)
Dispatch(m, ptr, nbytes) ==
  /\ dispatched' = dispatched \cup {[msg |-> m, ptr |-> ptr, nbytes |-> nbytes]}
  /\ released' = IF m \in InPool THEN [released EXCEPT ![m] = @ + 1] ELSE released

(* "Quick out, if there was only one chunk, then we are good to go"        *)
ReceiveOnly(c) ==
  /\ c.chunks = 1
  /\ Dispatch(c.msg, c.ptr, c.nbytes)
  /\ UNCHANGED observed_messages

(* "haven't seen it before, mark that we've seen the first chunk"          *)
ReceiveFirst(c) ==
  /\ c.chunks # 1 /\ c.id \notin DOMAIN observed_messages
  /\ observed_messages' = Put(observed_messages, c.id,
       [base_ptr |-> c.ptr, chunks |-> 1, total_size |-> c.nbytes])
  /\ UNCHANGED <<dispatched, released>>

(* A later chunk; the last one hands the message on.                       *)
ReceiveLater(c) ==
  /\ c.chunks # 1 /\ c.id \in DOMAIN observed_messages
  /\ LET info == Merge(observed_messages[c.id], c)
     IN IF info.chunks = c.chunks
          THEN /\ observed_messages' = Erase(observed_messages, c.id)
               /\ Dispatch(c.msg, info.base_ptr, info.total_size)
          ELSE /\ observed_messages' = Put(observed_messages, c.id, info)
               /\ UNCHANGED <<dispatched, released>>

HandlerMedium(c) ==
  /\ network' = network \ {c}
  /\ ReceiveOnly(c) \/ ReceiveFirst(c) \/ ReceiveLater(c)
  /\ UNCHANGED <<next_outgoing_message_id, todo, sending>>
-----------------------------------------------------------------------------
Next ==
  \/ \E s \in Sender : \/ \E m \in Msg : ReadId(s, m)
                       \/ WriteId(s)
                       \/ SendChunk(s)
  \/ \E c \in network : HandlerMedium(c)

Spec == Init /\ [][Next]_vars
-----------------------------------------------------------------------------
ChunkInfo == [base_ptr : Nat, chunks : Nat, total_size : Nat]

TypeOK ==
  /\ next_outgoing_message_id \in Nat
  /\ todo \subseteq Msg
  /\ DOMAIN sending = Sender
  /\ \A s \in Sender : sending[s] # Idle => sending[s].msg \in Msg /\ sending[s].id \in Nat
  /\ \A c \in network : c.msg \in Msg /\ c.ptr \in Nat /\ c.nbytes \in 1 .. MaxLongReq
  /\ DOMAIN observed_messages \subseteq Nat
  /\ observed_messages \in [DOMAIN observed_messages -> ChunkInfo]
  /\ released \in [Msg -> Nat]

(* m has left the sender and the network.                                  *)
Received(m) ==
  /\ m \notin todo
  /\ \A s \in Sender : sending[s] = Idle \/ sending[s].msg # m
  /\ \A c \in network : c.msg # m

(***************************************************************************)
(* adjust_long_msgsize reassembles: a message is dispatched with exactly   *)
(* the address and the length it was sent with, and only when all of its   *)
(* chunks have arrived.                                                    *)
(***************************************************************************)
DispatchedWhole ==
  \A d \in dispatched : /\ Received(d.msg)
                        /\ d.ptr = DestPtr[d.msg]
                        /\ d.nbytes = PayloadSize[d.msg]

(***************************************************************************)
(* The source pointer goes back to the sender's pool once, and not before  *)
(* the last chunk that reads from it has arrived.                          *)
(***************************************************************************)
ReleasedOnce ==
  \A m \in Msg : /\ released[m] <= 1
                 /\ released[m] = 1 => m \in InPool /\ Received(m)

(* Once nothing is on its way, every message sent has been dispatched and  *)
(* the map of adjust_long_msgsize holds no left-over.                      *)
AllDispatched ==
  (network = {} /\ \A s \in Sender : sending[s] = Idle) =>
    /\ observed_messages = << >>
    /\ \A m \in Msg \ todo : \E d \in dispatched : d.msg = m
-----------------------------------------------------------------------------
(* Why they hold when one thread sends.                                    *)

(* Thread s is in send_long for m under id, with chunk i still to send.    *)
Sends(s, m, id) == sending[s] # Idle /\ sending[s].msg = m /\ sending[s].id = id
Unsent(m, id, i) ==
  \E s \in Sender : Sends(s, m, id) /\ (sending[s].step = "chunks" => i <= sending[s].i)

OnItsWay(m, id) ==
  (\E s \in Sender : Sends(s, m, id)) \/ (\E c \in network : c.msg = m /\ c.id = id)

(* The chunks of m that the receiver has not seen, and those it has.       *)
Indices(m) == 0 .. Chunks(m) - 1
Missing(m, id) == {i \in Indices(m) : Unsent(m, id, i) \/ Chunk(m, id, i) \in network}
Seen(m, id) == Indices(m) \ Missing(m, id)

(* Ids grow; a chunk is sent once, with the id its message was given.      *)
SenderInv ==
  /\ \A s \in Sender :
       \/ sending[s] = Idle
       \/ sending[s] \in [step : {"numbered"}, msg : Msg \ todo, id : {next_outgoing_message_id}]
       \/ /\ sending[s] \in [step : {"chunks"}, msg : Msg \ todo,
                              id : 0 .. next_outgoing_message_id - 1, i : Nat]
          /\ sending[s].i \in Indices(sending[s].msg)
  /\ \A c \in network : \E i \in Indices(c.msg) :
       /\ c = Chunk(c.msg, c.id, i) /\ ~Unsent(c.msg, c.id, i)
       /\ c.msg \in Msg \ todo /\ c.id \in 0 .. next_outgoing_message_id - 1

(* An id is the name of one message, as long as the message is on its way. *)
IdsName ==
  \A m \in Msg, a \in 0 .. next_outgoing_message_id : OnItsWay(m, a) =>
    \A n \in Msg, b \in 0 .. next_outgoing_message_id : OnItsWay(n, b) => (m = n <=> a = b)

(* Bytes of the chunks in G: all are of the largest size but the last.     *)
SizeOf(m, G) ==
  IF Chunks(m) - 1 \in G
    THEN (Cardinality(G) - 1) * MaxLongReq + ChunkSize(m, Chunks(m) - 1)
    ELSE Cardinality(G) * MaxLongReq

(* What ChunkInfo says of a message of which the chunks in G have come.    *)
Describes(info, m, G) ==
  /\ info.chunks = Cardinality(G)
  /\ info.total_size = SizeOf(m, G)
  /\ \E i \in G : info.base_ptr = DestPtr[m] + i * MaxLongReq /\ \A j \in G : i <= j

(* The map has an entry for every message of which some chunks have come   *)
(* and some have not, and no other.                                        *)
MapInv ==
  /\ \A id \in DOMAIN observed_messages :
       /\ id \in 0 .. next_outgoing_message_id
       /\ \E m \in Msg : OnItsWay(m, id) /\ Seen(m, id) # {}
  /\ \A m \in Msg : \A id \in 0 .. next_outgoing_message_id :
       OnItsWay(m, id) /\ Seen(m, id) # {} =>
         id \in DOMAIN observed_messages /\ Describes(observed_messages[id], m, Seen(m, id))

(* A message is dispatched, and its pointer released, when it is neither   *)
(* waiting nor on its way.                                                 *)
Whole(m) == [msg |-> m, ptr |-> DestPtr[m], nbytes |-> PayloadSize[m]]
OutcomeInv ==
  /\ dispatched = {Whole(m) : m \in {n \in Msg : Received(n)}}
  /\ \A m \in Msg : released[m] = IF m \in InPool /\ Received(m) THEN 1 ELSE 0

(* The inductive invariant of one sender and its receiver.                 *)
LongInv == TypeOK /\ SenderInv /\ IdsName /\ MapInv /\ OutcomeInv
=============================================================================
