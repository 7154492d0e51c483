-------------------------- MODULE EndpointManager --------------------------
(***************************************************************************)
(* The todo list of a node's EndpointManager.  Threads that enqueue a      *)
(* message push it on the endpoint's queue under the endpoint's mutex and, *)
(* when the queue was empty, add the endpoint to the todo list under the   *)
(* manager's mutex: two steps.  Polling threads (and callers of            *)
(* do_some_polling) pop an endpoint, push some of its messages and put the *)
(* endpoint back when there is still more.  An entry of the list is thus a *)
(* token: whoever holds it must push or pass it on.                        *)
(*                                                                         *)
(* The ring of total_endpoints + 1 slots is a sequence here; the assertion *)
(* of add_todo_entry is the property NeverWraps.                           *)
(***************************************************************************)
EXTENDS Naturals, Sequences, FiniteSets

CONSTANTS
  Target,      \* the peers of this node
  Msg,         \* the messages handed to enqueue_message, once each
  Dest,        \* Dest[m]: the target of m
  Poller,      \* the polling threads
  Helper,      \* other threads, which call do_some_polling
  MaxToSend    \* max_msgs_to_send, the budget of one push_messages

Pusher == Poller \cup Helper

ASSUME ManagerAssumption ==
  /\ Target # {} /\ Msg # {}
  /\ Dest \in [Msg -> Target]
  /\ Poller \cap Helper = {}
  /\ MaxToSend \in Nat \ {0}

ASSUME FiniteTarget == IsFiniteSet(Target)

ASSUME SomePoller == Poller # {}   \* -ll:amsg, 1 by default

VARIABLES
  queue,          \* [t]: out_short_hdrs and out_long_hdrs of endpoint t
  arrived,        \* [t]: history: the messages queued so far, in order
  owed,           \* messages whose enqueuer found the queue empty and has
                  \* not called add_todo_entry yet
  todo,           \* the todo list, oldest first
  pc,             \* [p]: where a pusher is
  target,         \* [p]: the endpoint it popped
  hdr,            \* [p]: the message it is sending
  still_more,     \* [p]
  count,          \* [p]: messages sent in this call of push_messages
  sent,           \* [t]: messages handed to GASNet, in order
  shutdown_flag,
  settled         \* history: messages that stop_threads leaves to the polling
                  \* threads it joins

thread == <<pc, target, hdr, still_more, count>>
vars   == <<queue, arrived, owed, todo, thread, sent, shutdown_flag, settled>>

Init ==
  /\ queue = [t \in Target |-> <<>>]
  /\ arrived = [t \in Target |-> <<>>]
  /\ owed = {}
  /\ todo = <<>>
  /\ pc = [p \in Pusher |-> IF p \in Poller THEN "top" ELSE "out"]
  /\ target = [p \in Pusher |-> CHOOSE t \in Target : TRUE]
  /\ hdr = [p \in Pusher |-> CHOOSE m \in Msg : TRUE]
  /\ still_more = [p \in Pusher |-> TRUE]
  /\ count = [p \in Pusher |-> 0]
  /\ sent = [t \in Target |-> <<>>]
  /\ shutdown_flag = FALSE
  /\ settled = {}
-----------------------------------------------------------------------------
Arrived(m) == \E i \in DOMAIN arrived[Dest[m]] : arrived[Dest[m]][i] = m
WasSent(m) == \E i \in DOMAIN sent[Dest[m]] : sent[Dest[m]][i] = m

(* An enqueuer that always puts the endpoint on the list.                  *)
EnqueueAlwaysAdding(m) ==
  /\ ~Arrived(m)
  /\ arrived' = [arrived EXCEPT ![Dest[m]] = Append(@, m)]
  /\ queue' = [queue EXCEPT ![Dest[m]] = Append(@, m)]
  /\ owed' = owed \cup {m}
  /\ UNCHANGED <<todo, thread, sent, shutdown_flag, settled>>

(* enqueue_message of the endpoint, under its mutex, returns was_empty.    *)
(* handle_flip_request and handle_long_msgptr queue a FLIP_ACK this way.   *)
EnqueueMessage(m) ==
  /\ ~Arrived(m)
  /\ arrived' = [arrived EXCEPT ![Dest[m]] = Append(@, m)]
  /\ queue' = [queue EXCEPT ![Dest[m]] = Append(@, m)]
  /\ owed' = IF queue[Dest[m]] = <<>> THEN owed \cup {m} ELSE owed
  /\ UNCHANGED <<todo, thread, sent, shutdown_flag, settled>>

(* The enqueuer's call of add_todo_entry.                                  *)
AddTodoEntry(m) ==
  /\ m \in owed
  /\ owed' = owed \ {m}
  /\ todo' = Append(todo, Dest[m])
  /\ UNCHANGED <<queue, arrived, thread, sent, shutdown_flag, settled>>

(* do_some_polling calls push_messages.                                    *)
DoSomePolling(p) ==
  /\ p \in Helper /\ pc[p] = "out"
  /\ pc' = [pc EXCEPT ![p] = "top"]
  /\ UNCHANGED <<queue, arrived, owed, todo, target, hdr, still_more, count,
                 sent, shutdown_flag, settled>>

(* "have the lock here, and list is non-empty - pop the front one"; then   *)
(* the endpoint's push_messages starts with still_more = true, count = 0.  *)
(* What a helper takes is no longer left to the polling threads alone.     *)
PopTodo(p) ==
  /\ pc[p] = "top"
  /\ todo # <<>>
  /\ todo' = Tail(todo)
  /\ target' = [target EXCEPT ![p] = Head(todo)]
  /\ still_more' = [still_more EXCEPT ![p] = TRUE]
  /\ count' = [count EXCEPT ![p] = 0]
  /\ pc' = [pc EXCEPT ![p] = "pushing"]
  /\ settled' = IF p \in Helper THEN {m \in settled : Dest[m] # Head(todo)} ELSE settled
  /\ UNCHANGED <<queue, arrived, owed, hdr, sent, shutdown_flag>>

(* A failed trylock reported as an empty list.                             *)
LockBusyMeansEmpty(p) ==
  /\ pc[p] = "top"
  /\ pc' = [pc EXCEPT ![p] = IF p \in Poller THEN "looked" ELSE "out"]
  /\ UNCHANGED <<queue, arrived, owed, todo, target, hdr, still_more, count,
                 sent, shutdown_flag, settled>>

(* The trylock fails: "no lock, so we don't actually know if we have any   *)
(* messages - be conservative".  push_messages returns true, on which a    *)
(* polling thread calls it again and a helper returns to its caller.       *)
LockBusy(p) ==
  /\ pc[p] = "top"
  /\ pc' = [pc EXCEPT ![p] = IF p \in Poller THEN "top" ELSE "out"]
  /\ UNCHANGED <<queue, arrived, owed, todo, target, hdr, still_more, count,
                 sent, shutdown_flag, settled>>

(* Under the lock the list is empty, so push_messages returns false: a     *)
(* helper returns to its caller, a polling thread has shutdown_flag to     *)
(* read, without the lock.                                                 *)
ListEmpty(p) ==
  /\ pc[p] = "top"
  /\ todo = <<>>
  /\ pc' = [pc EXCEPT ![p] = IF p \in Poller THEN "looked" ELSE "out"]
  /\ UNCHANGED <<queue, arrived, owed, todo, target, hdr, still_more, count,
                 sent, shutdown_flag, settled>>

(* "check for shutdown, but only if we've pushed all of our messages": the *)
(* list may have been filled, and the flag set, since the thread looked.   *)
CheckShutdown(p) ==
  /\ pc[p] = "looked"
  /\ pc' = [pc EXCEPT ![p] = IF shutdown_flag THEN "exited" ELSE "top"]
  /\ UNCHANGED <<queue, arrived, owed, todo, target, hdr, still_more, count,
                 sent, shutdown_flag, settled>>

(* The ways push_messages breaks out with still_more: the endpoint's mutex *)
(* is taken, the message at the head waits for source data or for an LMB,  *)
(* or there is no message at all.                                          *)
PushBreak(p) ==
  /\ pc[p] = "pushing"
  /\ pc' = [pc EXCEPT ![p] = "readd"]
  /\ UNCHANGED <<queue, arrived, owed, todo, target, hdr, still_more, count,
                 sent, shutdown_flag, settled>>

(* Taking the message without looking for a next one.                      *)
PushPopForgetting(p) ==
  /\ pc[p] = "pushing"
  /\ queue[target[p]] # <<>>
  /\ hdr' = [hdr EXCEPT ![p] = Head(queue[target[p]])]
  /\ queue' = [queue EXCEPT ![target[p]] = Tail(@)]
  /\ still_more' = [still_more EXCEPT ![p] = FALSE]
  /\ pc' = [pc EXCEPT ![p] = "sending"]
  /\ UNCHANGED <<arrived, owed, todo, target, count, sent, shutdown_flag, settled>>

(* Take the head of the queue and compute still_more, under the mutex.     *)
PushPop(p) ==
  /\ pc[p] = "pushing"
  /\ queue[target[p]] # <<>>
  /\ hdr' = [hdr EXCEPT ![p] = Head(queue[target[p]])]
  /\ queue' = [queue EXCEPT ![target[p]] = Tail(@)]
  /\ still_more' = [still_more EXCEPT ![p] = Tail(queue[target[p]]) # <<>>]
  /\ pc' = [pc EXCEPT ![p] = "sending"]
  /\ UNCHANGED <<arrived, owed, todo, target, count, sent, shutdown_flag, settled>>

(* "now let go of lock and send message", then the loop's condition.       *)
Send(p) ==
  /\ pc[p] = "sending"
  /\ sent' = [sent EXCEPT ![target[p]] = Append(@, hdr[p])]
  /\ count' = [count EXCEPT ![p] = @ + 1]
  /\ pc' = [pc EXCEPT ![p] = CASE ~still_more[p] -> "top"
                               [] still_more[p] /\ count[p] + 1 < MaxToSend -> "pushing"
                               [] OTHER -> "readd"]
  /\ UNCHANGED <<queue, arrived, owed, todo, target, hdr, still_more, shutdown_flag, settled>>

(* "if we didn't send them all, put this target back on the list"          *)
PutBack(p) ==
  /\ pc[p] = "readd"
  /\ todo' = Append(todo, target[p])
  /\ pc' = [pc EXCEPT ![p] = "top"]
  /\ UNCHANGED <<queue, arrived, owed, target, hdr, still_more, count,
                 sent, shutdown_flag, settled>>

(* A thread at work on the endpoint of target t.                           *)
WorksOn(p, t) == target[p] = t /\ pc[p] \in {"pushing", "sending", "readd"}

(* A polling thread that will look at the list before it exits.            *)
WillLook(p) == pc[p] \notin {"looked", "exited"}

(* stop_threads sets the flag; it then joins the polling threads.  Left to *)
(* them is every message queued at an endpoint which no enqueuer has still *)
(* to put on the list and no helper works on; nothing if they all have     *)
(* found the list empty and are about to read the flag.                    *)
StopThreads ==
  /\ ~shutdown_flag
  /\ shutdown_flag' = TRUE
  /\ settled' = {m \in Msg : /\ \E p \in Poller : WillLook(p)
                             /\ Arrived(m)
                             /\ \A n \in owed : Dest[n] # Dest[m]
                             /\ \A h \in Helper : ~WorksOn(h, Dest[m])}
  /\ UNCHANGED <<queue, arrived, owed, todo, thread, sent>>
-----------------------------------------------------------------------------
PusherStep(p) ==
  \/ DoSomePolling(p) \/ PopTodo(p) \/ LockBusy(p) \/ ListEmpty(p) \/ CheckShutdown(p)
  \/ PushBreak(p) \/ PushPop(p) \/ Send(p) \/ PutBack(p)

Next ==
  \/ \E m \in Msg : EnqueueMessage(m) \/ AddTodoEntry(m)
  \/ \E p \in Pusher : PusherStep(p)
  \/ StopThreads

Spec == Init /\ [][Next]_vars

(* Threads run.  push_messages breaks out only for a while: the mutex is   *)
(* held briefly, and the endpoint's flow control and the source data pool  *)
(* never block a message for good.                                         *)
Fairness ==
  /\ \A m \in Msg : WF_vars(AddTodoEntry(m))
  /\ \A p \in Pusher : /\ WF_vars(PopTodo(p)) /\ WF_vars(PutBack(p))
                       /\ WF_vars(PushBreak(p) \/ PushPop(p))
                       /\ WF_vars(Send(p))
                       /\ WF_vars(ListEmpty(p)) /\ WF_vars(CheckShutdown(p))
  /\ \A t \in Target : SF_vars(\E p \in Pusher : target[p] = t /\ PushPop(p))

FairSpec == Spec /\ Fairness
-----------------------------------------------------------------------------
TypeOK ==
  /\ queue \in [Target -> Seq(Msg)]
  /\ arrived \in [Target -> Seq(Msg)]
  /\ owed \subseteq Msg
  /\ todo \in Seq(Target)
  /\ pc \in [Pusher -> {"out", "top", "pushing", "sending", "readd", "looked", "exited"}]
  /\ target \in [Pusher -> Target]
  /\ hdr \in [Pusher -> Msg]
  /\ still_more \in [Pusher -> BOOLEAN]
  /\ count \in [Pusher -> Nat]
  /\ sent \in [Target -> Seq(Msg)]
  /\ shutdown_flag \in BOOLEAN
  /\ settled \subseteq Msg

(* Where the token of endpoint t can be: with a pusher, on the todo list,  *)
(* or with the enqueuer that found the queue empty.                        *)
Holds(p, t) ==
  /\ target[p] = t
  /\ pc[p] \in {"pushing", "readd"} \/ (pc[p] = "sending" /\ still_more[p])

Held(t)   == \E p \in Pusher : Holds(p, t)
Listed(t) == \E i \in DOMAIN todo : todo[i] = t
Owed(t)   == \E m \in owed : Dest[m] = t

HeldOnce(t)   == \A p, q \in Pusher : Holds(p, t) /\ Holds(q, t) => p = q
ListedOnce(t) == \A i, j \in DOMAIN todo : todo[i] = t /\ todo[j] = t => i = j
OwedOnce(t)   == \A m, n \in owed : Dest[m] = t /\ Dest[n] = t => m = n

(***************************************************************************)
(* An endpoint with queued messages has exactly one token, and an endpoint *)
(* without has none.  Hence no endpoint is forgotten, and no two threads   *)
(* push the same endpoint's queue at once.                                 *)
(***************************************************************************)
OneToken ==
  \A t \in Target :
    /\ queue[t] # <<>> <=> Held(t) \/ Listed(t) \/ Owed(t)
    /\ ~(Held(t) /\ Listed(t)) /\ ~(Held(t) /\ Owed(t)) /\ ~(Listed(t) /\ Owed(t))
    /\ HeldOnce(t) /\ ListedOnce(t) /\ OwedOnce(t)

(* The inductive invariant: the tokens, and the types they rest on.        *)
TokenInv == TypeOK /\ OneToken

(* add_todo_entry's assertion, "should never wrap around": the list never  *)
(* holds more entries than there are endpoints.                            *)
NeverWraps == Len(todo) <= Cardinality(Target)

InQueue(m) == \E i \in DOMAIN queue[Dest[m]] : queue[Dest[m]][i] = m
Sending(m) == \E p \in Pusher : pc[p] = "sending" /\ hdr[p] = m

(* What was queued is in the queue, with a pusher that sends it to its     *)
(* target, or sent.                                                        *)
NothingLost ==
  /\ \A t \in Target : \A i \in DOMAIN queue[t] : Dest[queue[t][i]] = t
  /\ \A p \in Pusher : pc[p] = "sending" => Dest[hdr[p]] = target[p]
  /\ \A m \in Msg : Arrived(m) => InQueue(m) \/ Sending(m) \/ WasSent(m)

(* Polling threads stay until stop_threads.  Afterwards no helper works on *)
(* the endpoint of a settled message, and while the message is queued, the *)
(* endpoint is with a polling thread, or on the list and some polling      *)
(* thread has still to look at it.                                         *)
ExitInv ==
  /\ \A p \in Poller : pc[p] # "out" /\ (pc[p] = "exited" => shutdown_flag)
  /\ ~shutdown_flag => settled = {}
  /\ \A m \in settled :
       /\ Arrived(m)
       /\ \A h \in Helper : ~WorksOn(h, Dest[m])
       /\ InQueue(m) => \/ \E p \in Poller : Holds(p, Dest[m])
                        \/ Listed(Dest[m]) /\ \E p \in Poller : WillLook(p)

(* The inductive invariant of the manager.                                 *)
ManagerInv == TokenInv /\ NothingLost /\ ExitInv

Joined == \A p \in Poller : pc[p] = "exited"

(***************************************************************************)
(* When stop_threads has joined the polling threads, everything it left to *)
(* them has been sent: what was queued and listed when it set the flag,    *)
(* provided one of them had not yet made its last look at the list, and no *)
(* helper, which is not joined, took the endpoint.                         *)
(***************************************************************************)
NothingStranded == Joined => \A m \in settled : WasSent(m)

(***************************************************************************)
(* As long as the node is not shut down, every queued message is sent: no  *)
(* interleaving of enqueuers and pushers loses the wake-up.                *)
(***************************************************************************)
EverySent ==
  \A m \in Msg : Arrived(m) ~> (shutdown_flag \/ WasSent(m))

(***************************************************************************)
(* polling_worker_loop: "check for shutdown, but only if we've pushed all  *)
(* of our messages", i.e. no message is left in a queue that was filled    *)
(* before the polling threads exited.  The endpoint may have been listed   *)
(* after the thread's last look and before it reads the flag, or its       *)
(* enqueuer may not have listed it yet: this does not hold, and no run     *)
(* checks it.                                                              *)
(***************************************************************************)
ExitsAfterPushing ==
  [][\A p \in Poller : pc[p] # "exited" /\ pc'[p] = "exited" =>
       \A t \in Target : queue[t] # <<>> => \E q \in Pusher \ {p} :
          pc[q] \notin {"exited", "out"}]_vars

(***************************************************************************)
(* push_messages: "if a short message needs to be ordered with long        *)
(* messages, it goes in the long message queue": what is sent to a target  *)
(* is sent in the order in which it was queued.  Two pushing threads break *)
(* it; no run checks it.                                                   *)
(***************************************************************************)
SentInOrder ==
  \A t \in Target : \A i \in DOMAIN sent[t] : sent[t][i] = arrived[t][i]
=============================================================================
