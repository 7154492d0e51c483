----------------------- MODULE IncomingMessageManager -----------------------
(***************************************************************************)
(* The queue between the threads that poll the network and the threads     *)
(* that run message handlers: a list of messages per sender, and a ring    *)
(* buffer of the senders whose list is not empty.  A handler thread takes  *)
(* the whole list of the oldest sender of the ring and runs its handlers   *)
(* without the mutex.                                                      *)
(***************************************************************************)
EXTENDS Integers, Sequences, FiniteSets, Functions

CONSTANTS
  Nodes,          \* gasnet_nodes()
  Thread,         \* handler threads
  Msg,            \* the messages that will arrive
  SenderOf        \* SenderOf[m]

Sender == 0 .. Nodes - 1
Slot   == 0 .. Nodes   \* "an extra entry to distinguish full from empty"

ASSUME IncomingAssumption ==
  /\ Nodes \in Nat \ {0}
  /\ SenderOf \in [Msg -> Sender]

VARIABLES
  list,           \* [s]: the chain from heads[s] to tails[s]
  todo_list, todo_oldest, todo_newest,
  shutdown_flag,
  polling,        \* whether a thread still polls for incoming messages
  pc,             \* [t]: "get", "wait" on condvar, "run" or "exited"
  batch,          \* [t]: current_msg and what follows it
  arrived,        \* history: messages in the order they were added
  handled         \* history: messages in the order their handlers ran

ring == <<list, todo_list, todo_oldest, todo_newest>>
vars == <<ring, shutdown_flag, polling, pc, batch, arrived, handled>>

(* todo_newest++; if(todo_newest > nodes) todo_newest = 0;                 *)
Step(i) == IF i + 1 > Nodes THEN 0 ELSE i + 1

Empty == todo_oldest = todo_newest

Init ==
  /\ list = [s \in Sender |-> <<>>]
  /\ todo_list \in [Slot -> {0}]        \* not read before it is written
  /\ todo_oldest = 0
  /\ todo_newest = 0
  /\ shutdown_flag = FALSE
  /\ polling = TRUE
  /\ pc = [t \in Thread |-> "get"]
  /\ batch = [t \in Thread |-> <<>>]
  /\ arrived = <<>>
  /\ handled = <<>>
-----------------------------------------------------------------------------
(* A sender that goes into the ring with every message.                    *)
AppendAlwaysListing(m) ==
  /\ list' = [list EXCEPT ![SenderOf[m]] = Append(@, m)]
  /\ todo_list' = [todo_list EXCEPT ![todo_newest] = SenderOf[m]]
  /\ todo_newest' = Step(todo_newest)
  /\ pc' = [t \in Thread |-> IF pc[t] = "wait" THEN "get" ELSE pc[t]]

AppendMessage(m) ==
  /\ list' = [list EXCEPT ![SenderOf[m]] = Append(@, m)]
  /\ IF list[SenderOf[m]] # <<>>
       THEN UNCHANGED <<todo_list, todo_newest, pc>>
       ELSE /\ todo_list' = [todo_list EXCEPT ![todo_newest] = SenderOf[m]]
            /\ todo_newest' = Step(todo_newest)
            /\ pc' = [t \in Thread |-> IF pc[t] = "wait" THEN "get" ELSE pc[t]]

AddIncomingMessage(m) ==
  /\ polling
  /\ m \notin Range(arrived)
  /\ AppendMessage(m)
  /\ arrived' = Append(arrived, m)
  /\ UNCHANGED <<todo_oldest, shutdown_flag, polling, batch, handled>>

(* Leaving the loop of get_messages as soon as shutdown_flag is set.       *)
LeavesAtOnce == shutdown_flag

Leaves == Empty /\ shutdown_flag

(* get_messages, once per turn of its loop, and what the handler thread    *)
(* does with the result: an empty list means shutdown.                     *)
GetNothing(t) ==
  /\ pc[t] = "get" /\ Leaves
  /\ pc' = [pc EXCEPT ![t] = "exited"]
  /\ UNCHANGED <<ring, shutdown_flag, polling, batch, arrived, handled>>

GetWait(t) ==
  /\ pc[t] = "get" /\ ~Leaves /\ Empty
  /\ pc' = [pc EXCEPT ![t] = "wait"]
  /\ UNCHANGED <<ring, shutdown_flag, polling, batch, arrived, handled>>

GetBatch(t) ==
  /\ pc[t] = "get" /\ ~Leaves /\ ~Empty
  /\ LET sender == todo_list[todo_oldest]
     IN /\ batch' = [batch EXCEPT ![t] = list[sender]]
        /\ list' = [list EXCEPT ![sender] = <<>>]
  /\ todo_oldest' = Step(todo_oldest)
  /\ pc' = [pc EXCEPT ![t] = "run"]
  /\ UNCHANGED <<todo_list, todo_newest, shutdown_flag, polling, arrived, handled>>

RunHandler(t) ==
  /\ pc[t] = "run"
  /\ handled' = Append(handled, Head(batch[t]))
  /\ batch' = [batch EXCEPT ![t] = Tail(@)]
  /\ pc' = [pc EXCEPT ![t] = IF Tail(batch[t]) = <<>> THEN "get" ELSE "run"]
  /\ UNCHANGED <<ring, shutdown_flag, polling, arrived>>

(* stop_activemsg_threads joins the polling threads first.                 *)
StopPolling ==
  /\ polling
  /\ polling' = FALSE
  /\ UNCHANGED <<ring, shutdown_flag, pc, batch, arrived, handled>>

Shutdown ==
  /\ ~polling /\ ~shutdown_flag
  /\ shutdown_flag' = TRUE
  /\ pc' = [t \in Thread |-> IF pc[t] = "wait" THEN "get" ELSE pc[t]]
  /\ UNCHANGED <<ring, polling, batch, arrived, handled>>

(* shutdown() has joined every thread.                                     *)
Joined == shutdown_flag /\ \A t \in Thread : pc[t] = "exited"

Finished == Joined /\ UNCHANGED vars
-----------------------------------------------------------------------------
HandlerStep(t) == GetNothing(t) \/ GetWait(t) \/ GetBatch(t) \/ RunHandler(t)

Next ==
  \/ \E m \in Msg : AddIncomingMessage(m)
  \/ \E t \in Thread : HandlerStep(t)
  \/ StopPolling \/ Shutdown
  \/ Finished

Spec == Init /\ [][Next]_vars
-----------------------------------------------------------------------------
(* The values of the lists, the ring and the threads; a running thread has *)
(* a message to handle.                                                    *)
TypeOK ==
  /\ list \in [Sender -> Seq(Msg)]
  /\ todo_list \in [Slot -> Sender]
  /\ todo_oldest \in Slot /\ todo_newest \in Slot
  /\ shutdown_flag \in BOOLEAN /\ polling \in BOOLEAN
  /\ pc \in [Thread -> {"get", "wait", "run", "exited"}]
  /\ batch \in [Thread -> Seq(Msg)]
  /\ arrived \in Seq(Msg) /\ handled \in Seq(Msg)
  /\ \A t \in Thread : pc[t] = "run" <=> batch[t] # <<>>

Occupied ==
  IF todo_oldest <= todo_newest THEN todo_oldest .. todo_newest - 1
                                ELSE (todo_oldest .. Nodes) \cup (0 .. todo_newest - 1)

(* The ring names every sender whose list is not empty, and names it once. *)
RingNamesOnce ==
  \A i, j \in Occupied : todo_list[i] = todo_list[j] => i = j

RingNamesLists ==
  \A s \in Sender : list[s] # <<>> <=> \E i \in Occupied : todo_list[i] = s

RingInv == TypeOK /\ RingNamesOnce /\ RingNamesLists

(* assert(todo_newest != todo_oldest): "should never wrap around".         *)
NeverWraps ==
  \A s \in Sender : list[s] = <<>> => Step(todo_newest) # todo_oldest
=============================================================================
