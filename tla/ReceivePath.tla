---------------------------- MODULE ReceivePath ----------------------------
(***************************************************************************)
(* From send_long on one node to the handler on another: the chunks of     *)
(* LongMessage, all from one node, and the lists, the ring and the handler *)
(* threads of the receiver's IncomingMessageManager.  A polling            *)
(* thread of the receiver runs handler_short or handler_medium; the call   *)
(* that completes a message adds it to the list of its sender.             *)
(***************************************************************************)
EXTENDS IncomingMessageManager

CONSTANTS
  LongMsg,      \* the members of Msg that send_long cuts into chunks
  SendThread, DestPtr, PayloadSize, InPool, MaxLongReq   \* of LongMessage

VARIABLES
  next_outgoing_message_id, todo, sending, network,
  observed_messages, dispatched, released

(* One thread sends: by default one polls (-ll:amsg).  With two the ids of *)
(* messages need not differ.                                               *)
ASSUME PathAssumption ==
  /\ LongMsg \subseteq Msg
  /\ \A s, t \in SendThread : s = t
  /\ MaxLongReq \in Nat \ {0}
  /\ DestPtr \in [LongMsg -> Nat]
  /\ PayloadSize \in [LongMsg -> Nat \ {0}]

Long == INSTANCE LongMessage WITH Msg <- LongMsg, Sender <- SendThread

longVars == <<next_outgoing_message_id, todo, sending, network,
              observed_messages, dispatched, released>>
pathVars == <<vars, longVars>>

PathInit == Init /\ Long!Init

(* The sender's half of send_long.                                         *)
SendLong(s) ==
  /\ \/ \E m \in LongMsg : Long!ReadId(s, m)
     \/ Long!WriteId(s)
     \/ Long!SendChunk(s)
  /\ UNCHANGED vars

(* handler_medium: adjust_long_msgsize, and enqueue_incoming if it says    *)
(* that the message is complete.                                           *)
HandlerMedium(c) ==
  /\ polling
  /\ Long!HandlerMedium(c)
  /\ IF dispatched' # dispatched THEN AddIncomingMessage(c.msg) ELSE UNCHANGED vars

(* handler_short: a message without a payload is complete.                 *)
HandlerShort(m) ==
  /\ m \notin LongMsg
  /\ AddIncomingMessage(m)
  /\ UNCHANGED longVars

Threads ==
  /\ (\E t \in Thread : HandlerStep(t)) \/ StopPolling \/ Shutdown \/ Finished
  /\ UNCHANGED longVars

PathNext ==
  \/ \E s \in SendThread : SendLong(s)
  \/ \E c \in network : HandlerMedium(c)
  \/ \E m \in Msg : HandlerShort(m)
  \/ Threads

PathSpec == PathInit /\ [][PathNext]_pathVars

(* Senders that have begun a message finish it, the network delivers while *)
(* somebody polls, handler threads run on and a shutdown goes on.          *)
PathFairness ==
  /\ \A s \in SendThread : WF_pathVars(SendLong(s))
  /\ WF_pathVars(\E c \in network : HandlerMedium(c))
  /\ \A t \in Thread : WF_pathVars(HandlerStep(t) /\ UNCHANGED longVars)
  /\ WF_pathVars(Shutdown /\ UNCHANGED longVars)

PathFairSpec == PathSpec /\ PathFairness
-----------------------------------------------------------------------------
(***************************************************************************)
(* A handler runs once per message, however its chunks, its neighbours'    *)
(* and the shutdown interleave, and what it is given is the message: the   *)
(* payload is complete, at its address and of its length.  The sender's    *)
(* source pointer is released once, after the last chunk that reads from   *)
(* it, and when nothing is on its way adjust_long_msgsize remembers no     *)
(* message.                                                                *)
(***************************************************************************)
HandledWhole ==
  /\ \A i, j \in DOMAIN handled : handled[i] = handled[j] => i = j
  /\ \A i \in DOMAIN handled : handled[i] \in LongMsg =>
       {d \in dispatched : d.msg = handled[i]} =
         {[msg |-> handled[i], ptr |-> DestPtr[handled[i]], nbytes |-> PayloadSize[handled[i]]]}
  /\ Long!TypeOK
  /\ Long!DispatchedWhole
  /\ Long!ReleasedOnce
  /\ Long!AllDispatched

(* Where a message is from add_incoming_message to its handler: in the     *)
(* list of its sender, in the batch of a thread, or handled, and once.     *)
OnceEach(q) == \A i, j \in DOMAIN q : q[i] = q[j] => i = j
PlacesInv ==
  /\ OnceEach(handled) /\ Range(handled) \subseteq Range(arrived)
  /\ \A s \in Sender : /\ OnceEach(list[s])
                       /\ \A m \in Range(list[s]) : SenderOf[m] = s
                       /\ Range(list[s]) \subseteq Range(arrived) \ Range(handled)
  /\ \A t \in Thread : /\ OnceEach(batch[t])
                       /\ Range(batch[t]) \subseteq Range(arrived) \ Range(handled)
                       /\ \A s \in Sender : Range(list[s]) \cap Range(batch[t]) = {}
  /\ \A t, u \in Thread : t # u => Range(batch[t]) \cap Range(batch[u]) = {}

(* The inductive invariant of the whole path: enqueue_incoming is called   *)
(* exactly for the messages that are complete.                             *)
PathInv ==
  /\ RingInv /\ PlacesInv
  /\ Long!LongInv
  /\ \A m \in LongMsg : m \in Range(arrived) <=> Long!Received(m)

(***************************************************************************)
(* In the end a message whose sending has begun is handled, unless the     *)
(* receiver has stopped polling; a message that was added is handled in    *)
(* any case, and a shutdown that has begun is over: no handler thread      *)
(* leaves or sleeps while a message is listed.                             *)
(***************************************************************************)
EveryMessageArrives ==
  <>[](/\ polling => LongMsg \ todo \subseteq Range(handled)
       /\ Range(arrived) \subseteq Range(handled)
       /\ ~polling => Joined)
=============================================================================
