------------------------- MODULE ActiveMessagesMPI --------------------------
(***************************************************************************)
(* Active messages over MPI (macros_ammpi/am_mpi.def, use_mpi.def): sender *)
(* threads, the polling thread of each node with its AM_MULT_RECV posted   *)
(* receives, and the shutdown with its final barrier, as built by default: *)
(* MPI_THREAD_MULTIPLE, pack_medium, poll_some, handlers run in the        *)
(* polling thread.                                                         *)
(*                                                                         *)
(* A message is a header on the main communicator.  A short message, and a *)
(* medium one whose payload fits, is only that; a larger medium one is     *)
(* followed by its payload on comm_medium, under the tag the header names; *)
(* a long one is preceded by a Put.  MPI keeps the order of one thread's   *)
(* messages to one node, and no other.  Headers are small and never block  *)
(* their sender; a payload may be buffered or wait for its receive.        *)
(***************************************************************************)
EXTENDS Integers, Sequences, FiniteSets, SequencesExt, FiniteSetsExt

CONSTANTS
  Nodes,       \* ranks
  Threads,     \* threads that send, besides the polling threads
  HomeOf,      \* the node of each thread
  MaxSends,    \* bound: messages each thread sends
  KindsOf,     \* the kinds of message each thread sends
  SlotCount,   \* n_am_mult_recv
  TagRange,    \* 32 in the code: am_seq is taken & 0x1f
  None

Kinds == {"request", "reply", "medium", "long", "null"}

ASSUME MPIAssumption ==
  /\ HomeOf \in [Threads -> Nodes]
  /\ MaxSends \in [Threads -> Nat]
  /\ KindsOf \in [Threads -> SUBSET (Kinds \ {"reply", "null"})]
  /\ SlotCount \in Nat \ {0}
  /\ TagRange \in Nat \ {0}
  /\ Threads \cap Nodes = {}

Senders == Threads \cup Nodes     \* a node stands for its polling thread
Home(s) == IF s \in Nodes THEN s ELSE HomeOf[s]

VARIABLES
  num_threads,   \* per node
  thread_id,     \* thread_local; 0 is none yet
  am_seq,        \* thread_local
  tpc,           \* where each sender thread is
  job,           \* the message it is sending
  count,         \* messages from each sender to each node so far
  chan,          \* headers under way, in order
  pay,           \* payloads under way on comm_medium, in order
  win,           \* long messages whose data is in each node's window
  posted,        \* receives posted and not matched
  matched,       \* receives completed, not yet seen by Testsome
  batch,         \* what Testsome returned, still to be handled
  cur,           \* medium message whose payload is being received
  handled,       \* messages whose handler has run
  got,           \* which payload each medium message was given
  stage          \* shutdown: run, stopping, barrier, final

idVars == <<num_threads, thread_id>>
sendVars == <<am_seq, tpc, job, count>>
netVars == <<chan, pay, win>>
recvVars == <<posted, matched, batch, cur, handled, got>>
vars == <<num_threads, thread_id, am_seq, tpc, job, count, chan, pay, win, posted,
          matched, batch, cur, handled, got, stage>>

Init ==
  /\ num_threads = [n \in Nodes |-> 0]
  /\ thread_id = [s \in Senders |-> 0]
  /\ am_seq = [t \in Threads |-> 0]
  /\ tpc = [t \in Threads |-> "idle"]
  /\ job = [t \in Threads |-> None]
  /\ count = [s \in Senders |-> [n \in Nodes |-> 0]]
  /\ chan = [s \in Senders |-> [n \in Nodes |-> <<>>]]
  /\ pay = [t \in Threads |-> [n \in Nodes |-> <<>>]]
  /\ win = [n \in Nodes |-> {}]
  /\ posted = [n \in Nodes |-> SlotCount]
  /\ matched = [n \in Nodes |-> {}]
  /\ batch = [n \in Nodes |-> {}]
  /\ cur = [n \in Nodes |-> None]
  /\ handled = [n \in Nodes |-> {}]
  /\ got = {}
  /\ stage = [n \in Nodes |-> "run"]

Goto(t, l) == tpc' = [tpc EXCEPT ![t] = l]

\* The n-th message of a sender to a node; its header.
Header(s, n, k, kind, tag) == [from |-> s, k |-> k, kind |-> kind, tag |-> tag]
Id(h, n) == <<h.from, n, h.k>>

-----------------------------------------------------------------------------
(* enqueue_message: AM_short_n, AM_medium_n, AM_long_n.                    *)

Total(t) == FoldFunction(+, 0, count[t])

Enqueue(t, n, kind) ==
  /\ tpc[t] = "idle"
  /\ n # HomeOf[t]
  /\ Total(t) < MaxSends[t]
  /\ job' = [job EXCEPT ![t] = [to |-> n, kind |-> kind]]
  /\ count' = [count EXCEPT ![t][n] = @ + 1]
  /\ Goto(t, IF thread_id[t] = 0 THEN "count"
             ELSE IF kind = "long" THEN "put" ELSE "header")
  /\ UNCHANGED <<idVars, am_seq, netVars, recvVars, stage>>

\* get_thread_id: num_threads++ and thread_id = num_threads are two steps.
CountThread(t) ==
  /\ tpc[t] = "count"
  /\ num_threads' = [num_threads EXCEPT ![HomeOf[t]] = @ + 1]
  /\ Goto(t, "read")
  /\ UNCHANGED <<thread_id, am_seq, job, count, netVars, recvVars, stage>>

ReadThreadId(t) ==
  /\ tpc[t] = "read"
  /\ thread_id' = [thread_id EXCEPT ![t] = num_threads[HomeOf[t]]]
  /\ Goto(t, IF job[t].kind = "long" THEN "put" ELSE "header")
  /\ UNCHANGED <<num_threads, am_seq, job, count, netVars, recvVars, stage>>

\* MPI_Put and MPI_Win_flush: the data is in the target's window on return.
PutAndFlush(t) ==
  /\ tpc[t] = "put"
  /\ win' = [win EXCEPT ![job[t].to] = @ \cup {<<t, job[t].to, count[t][job[t].to]>>}]
  /\ Goto(t, "header")
  /\ UNCHANGED <<idVars, am_seq, job, count, chan, pay, recvVars, stage>>

\* set_am_msg_tag: the sender's thread id and its next sequence number.
SameSeq(t) == am_seq[t]
NextSeq(t) == (am_seq[t] + 1) % TagRange
NextTag(t) == <<thread_id[t], NextSeq(t)>>

SendMediumHeader(t) ==
  LET n == job[t].to
  IN  /\ tpc[t] = "header"
      /\ job[t].kind = "medium"
      /\ am_seq' = [am_seq EXCEPT ![t] = NextSeq(t)]
      /\ chan' = [chan EXCEPT ![t][n] =
                    Append(@, Header(t, n, count[t][n], "medium", NextTag(t)))]
      /\ Goto(t, "payload")
      /\ UNCHANGED <<idVars, job, count, pay, win, recvVars, stage>>

\* The end of a short or long message.
SendHeader(t) ==
  LET n == job[t].to
  IN  /\ tpc[t] = "header"
      /\ job[t].kind # "medium"
      /\ chan' = [chan EXCEPT ![t][n] =
                    Append(@, Header(t, n, count[t][n], job[t].kind, None))]
      /\ job' = [job EXCEPT ![t] = None]
      /\ Goto(t, "idle")
      /\ UNCHANGED <<idVars, am_seq, count, pay, win, recvVars, stage>>

\* MPI_Send of the payload: buffered, or blocking until it is received.
SendPayload(t, buffered) ==
  LET n == job[t].to
  IN  /\ tpc[t] = "payload"
      /\ pay' = [pay EXCEPT ![t][n] =
                   Append(@, [k |-> count[t][n], tag |-> <<thread_id[t], am_seq[t]>>,
                              buffered |-> buffered])]
      /\ job' = [job EXCEPT ![t] = None]
      /\ Goto(t, IF buffered THEN "idle" ELSE "blocked")
      /\ UNCHANGED <<idVars, am_seq, count, chan, win, recvVars, stage>>

\* The thread has nothing more to send.
Finish(t) ==
  /\ tpc[t] = "idle"
  /\ Goto(t, "done")
  /\ UNCHANGED <<idVars, am_seq, job, count, netVars, recvVars, stage>>

-----------------------------------------------------------------------------
(* MPI: the next header of a thread matches a posted receive.              *)

MatchHeader(s, n) ==
  /\ chan[s][n] # <<>>
  /\ posted[n] > 0
  /\ stage[n] # "final"
  /\ chan' = [chan EXCEPT ![s][n] = Tail(@)]
  /\ matched' = [matched EXCEPT ![n] = @ \cup {Head(chan[s][n])}]
  /\ posted' = [posted EXCEPT ![n] = @ - 1]
  /\ UNCHANGED <<idVars, sendVars, pay, win, batch, cur, handled, got, stage>>

-----------------------------------------------------------------------------
(* AMPoll: the polling thread, then the thread in AM_Finalize.             *)

\* Between two calls of Testsome.
Polling(n) == batch[n] = {} /\ cur[n] = None /\ stage[n] # "final"

TestAny(n) ==
  /\ Polling(n)
  /\ \E h \in matched[n] : /\ batch' = [batch EXCEPT ![n] = {h}]
                           /\ matched' = [matched EXCEPT ![n] = @ \ {h}]
  /\ UNCHANGED <<idVars, sendVars, netVars, posted, cur, handled, got, stage>>
\* MPI_Testsome returns all the receives that have completed.
TestSome(n) ==
  /\ Polling(n)
  /\ matched[n] # {}
  /\ batch' = [batch EXCEPT ![n] = matched[n]]
  /\ matched' = [matched EXCEPT ![n] = {}]
  /\ UNCHANGED <<idVars, sendVars, netVars, posted, cur, handled, got, stage>>

\* The handler has run, unless it is AM_NULL_HANDLER, and the receive is posted
\* again.
Handled(h, n) ==
  /\ handled' = [handled EXCEPT ![n] = IF h.kind = "null" THEN @ ELSE @ \cup {Id(h, n)}]
  /\ posted' = [posted EXCEPT ![n] = @ + 1]

\* The handler of a request sends a short message back (and, if it is the
\* first this thread sends, takes a thread id).
Reply(n, to) ==
  /\ num_threads' = [num_threads EXCEPT ![n] = IF thread_id[n] = 0 THEN @ + 1 ELSE @]
  /\ thread_id' = [thread_id EXCEPT ![n] = IF @ = 0 THEN num_threads[n] + 1 ELSE @]
  /\ count' = [count EXCEPT ![n][to] = @ + 1]
  /\ chan' = [chan EXCEPT ![n][to] =
                Append(@, Header(n, to, count[n][to] + 1, "reply", None))]

\* got_am and run_am for a message that is all in the header or the window;
\* the order in which Testsome lists the receives is MPI's choice.
RunHandler(n, h) ==
  /\ cur[n] = None
  /\ h \in batch[n]
  /\ h.kind # "medium"
  /\ batch' = [batch EXCEPT ![n] = @ \ {h}]
  /\ Handled(h, n)
  /\ IF h.kind = "request"
       THEN Reply(n, Home(h.from))
       ELSE UNCHANGED <<num_threads, thread_id, count, chan>>
  /\ UNCHANGED <<am_seq, tpc, job, pay, win, matched, cur, got, stage>>

ReceiveMedium(n, h) ==
  /\ cur[n] = None
  /\ h \in batch[n]
  /\ h.kind = "medium"
  /\ batch' = [batch EXCEPT ![n] = @ \ {h}]
  /\ cur' = [cur EXCEPT ![n] = h]
  /\ UNCHANGED <<idVars, sendVars, netVars, posted, matched, handled, got, stage>>

\* recv_medium_twoside: the first payload of some thread of the source node
\* under the tag; its sender goes on.  Then the handler runs.
RecvPayload(n, t) ==
  LET h == cur[n]
      hits == {i \in DOMAIN pay[t][n] : pay[t][n][i].tag = h.tag}
      p == pay[t][n][Min(hits)]
  IN  /\ h # None
      /\ HomeOf[t] = Home(h.from)
      /\ hits # {}
      /\ pay' = [pay EXCEPT ![t][n] = RemoveAt(@, Min(hits))]
      /\ tpc' = [tpc EXCEPT ![t] = IF p.buffered THEN @ ELSE "idle"]
      /\ got' = got \cup {<<Id(h, n), <<t, n, p.k>>>>}
      /\ cur' = [cur EXCEPT ![n] = None]
      /\ Handled(h, n)
      /\ UNCHANGED <<idVars, am_seq, job, count, chan, win, matched, batch, stage>>

-----------------------------------------------------------------------------
(* stop_activemsg_threads.                                                 *)

\* The main thread raises the shutdown flag, once the node's own threads send
\* no more, and sends a short message for AM_NULL_HANDLER to its own node: the
\* only message that goes to where it comes from, hence alone in chan[n][n].
StopThreads(n) ==
  /\ stage[n] = "run"
  /\ \A t \in Threads : HomeOf[t] = n => tpc[t] = "done"
  /\ stage' = [stage EXCEPT ![n] = "stopping"]
  /\ num_threads' = [num_threads EXCEPT ![n] = @ + 1]
  /\ count' = [count EXCEPT ![n][n] = @ + 1]
  /\ chan' = [chan EXCEPT ![n][n] = Append(@, Header(n, n, count[n][n] + 1, "null", None))]
  /\ UNCHANGED <<thread_id, am_seq, tpc, job, pay, win, recvVars>>

\* The polling thread ends its loop and is joined; AM_Finalize starts the
\* MPI_Ibarrier and goes on polling.
EnterBarrier(n) ==
  /\ stage[n] = "stopping"
  /\ Polling(n)
  /\ stage' = [stage EXCEPT ![n] = "barrier"]
  /\ UNCHANGED <<idVars, sendVars, netVars, recvVars>>

\* The barrier is complete: the posted receives are cancelled.
Finalize(n) ==
  /\ stage[n] = "barrier"
  /\ Polling(n)
  /\ \A m \in Nodes : stage[m] \in {"barrier", "final"}
  /\ stage' = [stage EXCEPT ![n] = "final"]
  /\ UNCHANGED <<idVars, sendVars, netVars, recvVars>>

-----------------------------------------------------------------------------
Sending(t) ==
  \/ CountThread(t) \/ ReadThreadId(t) \/ PutAndFlush(t)
  \/ SendMediumHeader(t) \/ SendHeader(t)
  \/ \E b \in BOOLEAN : SendPayload(t, b)

AMPollUntilJoined(n) ==
  /\ stage[n] \in {"run", "stopping"}
  /\ \/ TestSome(n)
     \/ \E h \in batch[n] : RunHandler(n, h) \/ ReceiveMedium(n, h)
     \/ \E t \in Threads : RecvPayload(n, t)
AMPoll(n) ==
  \/ TestSome(n)
  \/ \E h \in batch[n] : RunHandler(n, h) \/ ReceiveMedium(n, h)
  \/ \E t \in Threads : RecvPayload(n, t)

Stopping(n) == StopThreads(n) \/ EnterBarrier(n) \/ Finalize(n)

Next ==
  \/ \E t \in Threads : \/ Sending(t) \/ Finish(t)
                        \/ \E n \in Nodes, kind \in KindsOf[t] : Enqueue(t, n, kind)
  \/ \E s \in Senders, n \in Nodes : MatchHeader(s, n)
  \/ \E n \in Nodes : AMPoll(n) \/ Stopping(n)

Spec == Init /\ [][Next]_vars

\* A thread finishes the send it is in and, in the end, has no more to send;
\* the polling threads poll, MPI delivers, and the main thread shuts down.
Fairness ==
  /\ \A t \in Threads : WF_vars(Sending(t)) /\ WF_vars(Finish(t))
  /\ \A s \in Senders, n \in Nodes : WF_vars(MatchHeader(s, n))
  /\ \A n \in Nodes : WF_vars(AMPoll(n)) /\ WF_vars(Stopping(n))

FairSpec == Spec /\ Fairness

-----------------------------------------------------------------------------
(* Properties.                                                             *)

Tags == Nat \X (0..(TagRange - 1))
Headers == [from : Senders, k : Nat \ {0}, kind : Kinds, tag : Tags \cup {None}]
Ids == Senders \X Nodes \X (Nat \ {0})

TypeOK ==
  /\ num_threads \in [Nodes -> Nat]
  /\ thread_id \in [Senders -> Nat]
  /\ am_seq \in [Threads -> 0..(TagRange - 1)]
  /\ tpc \in [Threads -> {"idle", "count", "read", "put", "header", "payload",
                          "blocked", "done"}]
  /\ job \in [Threads -> [to : Nodes, kind : Kinds] \cup {None}]
  /\ count \in [Senders -> [Nodes -> Nat]]
  /\ chan \in [Senders -> [Nodes -> Seq(Headers)]]
  /\ pay \in [Threads -> [Nodes -> Seq([k : Nat \ {0}, tag : Tags,
                                         buffered : BOOLEAN])]]
  /\ win \in [Nodes -> SUBSET Ids]
  /\ posted \in [Nodes -> 0..SlotCount]
  /\ matched \in [Nodes -> SUBSET Headers]
  /\ batch \in [Nodes -> SUBSET Headers]
  /\ cur \in [Nodes -> Headers \cup {None}]
  /\ handled \in [Nodes -> SUBSET Ids]
  /\ got \subseteq Ids \X Ids
  /\ stage \in [Nodes -> {"run", "stopping", "barrier", "final"}]

IdsDistinct ==
  \A t, u \in Threads : /\ HomeOf[t] = HomeOf[u]
                        /\ thread_id[t] = thread_id[u]
                        /\ thread_id[t] # 0
                        => t = u
OneTarget == \A t \in Threads : Cardinality({n \in Nodes : count[t][n] > 0}) <= 1

\* A medium message's handler gets the payload sent with it, although headers
\* and payloads travel on different communicators and headers are handled out
\* of order ("medium msg tag need be unique within a range").  It takes that
\* the threads of a node have different ids and that each sends to one node.
OwnPayload == IdsDistinct /\ OneTarget => \A g \in got : g[1] = g[2]

\* Testsome may reorder the messages of one thread to one node only within
\* AM_MULT_RECV of them: the range in which the tags have to differ.
ReorderBounded ==
  \A n \in Nodes : \A i \in handled[n] : \A k \in 1..(i[3] - SlotCount) :
    <<i[1], n, k>> \in handled[n]

\* The data of a long message is in the window before its header arrives.
WindowReady ==
  \A n \in Nodes : \A h \in matched[n] \cup batch[n] :
    h.kind = "long" => Id(h, n) \in win[n]

\* No posted receive is lost: each is posted, completed, being handled, or
\* waiting for the payload of its message.
ReceivesConserved ==
  \A n \in Nodes :
    posted[n] + Cardinality(matched[n]) + Cardinality(batch[n])
      + (IF cur[n] = None THEN 0 ELSE 1) = SlotCount

\* Every node finalizes: no thread stays blocked in the send of a payload,
\* because every node polls until all have come to the final barrier.
EveryNodeFinalizes == <>(\A n \in Nodes : stage[n] = "final")

(* The polling thread's receives and the registered window: types, every   *)
(* receive posted, waited for or in a handler, no message dispatched       *)
(* before the put it announces is visible in the window, and Testsome's    *)
(* reordering within the range of the tags.                                *)
ReceiveInv == TypeOK /\ ReceivesConserved /\ WindowReady /\ ReorderBounded
=============================================================================
