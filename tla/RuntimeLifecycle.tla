-------------------------- MODULE RuntimeLifecycle --------------------------
(***************************************************************************)
(* The life of the runtime on every node (RuntimeImpl, runtime_impl.cc):   *)
(* start the active-message threads, announce the node to the others, run  *)
(* the program with its collective spawns, and shut down when a task of    *)
(* some node asks for it.                                                  *)
(*                                                                         *)
(* An event is the set of the tasks it waits for: it has triggered when    *)
(* all of them are done, merging is union, and NO_EVENT is the empty set.  *)
(* The loops that send a message to every other node are one step: sending *)
(* one message later is the same as delivering it later.                   *)
(***************************************************************************)
EXTENDS Integers, Sequences, FiniteSets, Functions

CONSTANTS
  Nodes,      \* 0..max_node_id
  Procs,      \* nodes[n].processors of each node
  Callers,    \* nodes whose tasks call Runtime::shutdown
  CodeOf,     \* the result code each of them passes
  Unset       \* no value yet

Styles == {"ONE_TASK_ONLY", "ONE_TASK_PER_NODE", "ONE_TASK_PER_PROC", "NO_MAIN"}

ASSUME RuntimeAssumption ==
  /\ 0 \in Nodes /\ Nodes = 0..(Cardinality(Nodes) - 1)
  /\ DOMAIN Procs = Nodes
  /\ \A n \in Nodes : Procs[n] \in Seq(Range(Procs[n])) /\ IsInjective(Procs[n])
  /\ \A n, m \in Nodes : n # m => Range(Procs[n]) \cap Range(Procs[m]) = {}
  /\ Procs[0] # <<>>                        \* run() uses nodes[0].processors[0]
  /\ Callers \subseteq Nodes
  /\ DOMAIN CodeOf = Callers

ProcsOf(n) == Range(Procs[n])
AllProcs == UNION {ProcsOf(n) : n \in Nodes}
NodeOfProc(p) == CHOOSE n \in Nodes : p \in ProcsOf(n)

Tasks == {"init", "main", "shutdown"} \X AllProcs
Events == SUBSET ({"init", "main"} \X AllProcs)

ASSUME UnsetAssumption == \A e \in Events : e # Unset

\* The four gathers and broadcasts of run(); each happens once.
Collectives == {"init_pre", "init_fin", "main_pre", "main_fin"}

VARIABLES
  style,      \* how the program is run: the arguments of run()
  pc,         \* where each node's main thread is
  known,      \* the nodes whose announcement each node has handled
  net,        \* active messages under way
  aborted,    \* assert(incoming_message_manager != 0) failed
  run_method_called,
  ev,         \* the event each main thread carries from call to call
  given,      \* what each node put into each gather
  result,     \* what the root broadcast
  pre,        \* the precondition of every spawned task
  done,       \* finished tasks
  waiters,    \* DeferredShutdown objects
  called,     \* callers that have called Runtime::shutdown
  sd,         \* where RuntimeImpl::shutdown is on each node
  code,       \* the result code of that call
  shutdown_requested, shutdown_result_code

startVars == <<known, aborted>>
spawnVars == <<ev, given, result, pre>>
stopVars == <<waiters, called, sd, code, shutdown_requested, shutdown_result_code>>
vars == <<style, pc, known, net, aborted, run_method_called, ev, given, result,
          pre, done, waiters, called, sd, code, shutdown_requested,
          shutdown_result_code>>

Init ==
  /\ style \in Styles
  /\ pc = [n \in Nodes |-> "attach"]
  /\ known = [n \in Nodes |-> {}]
  /\ net = {}
  /\ aborted = FALSE
  /\ run_method_called = [n \in Nodes |-> FALSE]
  /\ ev = [n \in Nodes |-> {}]
  /\ given = [c \in Collectives |-> [n \in Nodes |-> Unset]]
  /\ result = [c \in Collectives |-> Unset]
  /\ pre = [t \in Tasks |-> Unset]
  /\ done = {}
  /\ waiters = {}
  /\ called = {}
  /\ sd = [n \in Nodes |-> "none"]
  /\ code = [n \in Nodes |-> Unset]
  /\ shutdown_requested = [n \in Nodes |-> FALSE]
  /\ shutdown_result_code = [n \in Nodes |-> Unset]

Step(n, from, to) == pc[n] = from /\ pc' = [pc EXCEPT ![n] = to]

Message(kind, n, m, c) == [type |-> kind, from |-> n, to |-> m, code |-> c]
ToOthers(kind, n, c) == {Message(kind, n, m, c) : m \in Nodes \ {n}}

-----------------------------------------------------------------------------
(* RuntimeImpl::init.                                                      *)

\* The barriers at the end of init_endpoints: nobody leaves before all came.
AttachBarrier ==
  /\ \A n \in Nodes : pc[n] = "attach"
  /\ pc' = [n \in Nodes |-> "attached"]
  /\ UNCHANGED <<style, net, startVars, run_method_called, spawnVars, done, stopVars>>

StartPollingThreads(n) ==
  /\ Step(n, "attached", "polling")
  /\ UNCHANGED <<style, net, startVars, run_method_called, spawnVars, done, stopVars>>

StartHandlerThreads(n) ==
  /\ Step(n, "polling", "handling")
  /\ UNCHANGED <<style, net, startVars, run_method_called, spawnVars, done, stopVars>>

SendAnnouncements(n) ==
  /\ Step(n, "handling", "announced")
  /\ net' = net \cup ToOthers("announce", n, Unset)
  /\ UNCHANGED <<style, startVars, run_method_called, spawnVars, done, stopVars>>

\* A polling thread hands a message to incoming_message_manager, which exists
\* only once start_handler_threads has run.
Receiving(n) == pc[n] \notin {"attach", "attached", "exited"}
HandleAnnouncement(m) ==
  /\ m.type = "announce"
  /\ Receiving(m.to)
  /\ net' = net \ {m}
  /\ IF pc[m.to] = "polling"
       THEN aborted' = TRUE /\ UNCHANGED known
       ELSE known' = [known EXCEPT ![m.to] = @ \cup {m.from}] /\ UNCHANGED aborted
  /\ UNCHANGED <<style, pc, run_method_called, spawnVars, done, stopVars>>

\* NodeAnnounceMessage::await_all_announcements.
AwaitAnnouncements(n) ==
  /\ known[n] = Nodes \ {n}
  /\ Step(n, "announced", "ready")
  /\ UNCHANGED <<style, net, startVars, run_method_called, spawnVars, done, stopVars>>

-----------------------------------------------------------------------------
(* RuntimeImpl::run, with collective_spawn_by_kind for the init tasks and  *)
(* the style's collective spawn for the main task.                         *)

Run(n) ==
  /\ Step(n, "ready", "init_pre")          \* after start(): processors run
  /\ run_method_called' = [run_method_called EXCEPT ![n] = TRUE]
  /\ ev' = [ev EXCEPT ![n] = {}]           \* Event::NO_EVENT
  /\ UNCHANGED <<style, net, startVars, given, result, pre, done, stopVars>>

\* broadcast_check sends from node 0: no other node passes it before node 0
\* has entered the same call.
Entered(c) == \/ c \in {"init_fin", "main_fin"}
              \/ c = "init_pre" /\ pc[0] \in {"init_pre", "init_wait"}
              \/ c = "main_pre" /\ pc[0] \in {"main_pre", "main_wait"}

After(c) == [init_pre |-> "init_wait", init_fin |-> "init_end",
             main_pre |-> "main_wait", main_fin |-> "main_end"][c]

\* A node's part in a gather; only the root waits in it.
Contribute(n, c) ==
  /\ Step(n, c, After(c))
  /\ n # 0 => Entered(c)
  /\ given' = [given EXCEPT ![c][n] = ev[n]]
  /\ UNCHANGED <<style, net, startVars, run_method_called, ev, result, pre, done,
                 stopVars>>

Gathered(c) == \A n \in Nodes : given[c][n] # Unset
MergedOwn(c) == given[c][0]
Merged(c) == UNION {given[c][n] : n \in Nodes}

\* The root of collective_spawn_by_kind merges and broadcasts.
MergeAndBroadcast(c) ==
  /\ Gathered(c)
  /\ result[c] = Unset
  /\ result' = [result EXCEPT ![c] = Merged(c)]
  /\ UNCHANGED <<style, pc, net, startVars, run_method_called, ev, given, pre,
                 done, stopVars>>

\* The processors of the node that a spawn by kind (NO_KIND: any) reaches.
Reached(n, one_per_node) ==
  IF one_per_node /\ Procs[n] # <<>> THEN {Procs[n][1]} ELSE ProcsOf(n)

Spawned(kind, procs, e) ==
  pre' = [t \in Tasks |-> IF t[1] = kind /\ t[2] \in procs THEN e ELSE pre[t]]

\* The middle of collective_spawn_by_kind: take the merged precondition, spawn
\* the local tasks, and carry their merged finish event.
SpawnByKind(n, kind, one_per_node) ==
  LET procs == Reached(n, one_per_node)
      c == IF kind = "init" THEN "init_pre" ELSE "main_pre"
  IN  /\ result[c] # Unset
      /\ Step(n, After(c), IF kind = "init" THEN "init_fin" ELSE "main_fin")
      /\ Spawned(kind, procs, result[c])
      /\ ev' = [ev EXCEPT ![n] = {kind} \X procs]
      /\ UNCHANGED <<style, net, startVars, run_method_called, given, result, done,
                     stopVars>>

\* collective_spawn at the owner of nodes[0].processors[0].
CollectiveSpawnRoot ==
  /\ style = "ONE_TASK_ONLY"
  /\ Gathered("main_pre")
  /\ result["main_fin"] = Unset
  /\ Spawned("main", {Procs[0][1]}, Merged("main_pre"))
  /\ result' = [result EXCEPT !["main_fin"] = {<<"main", Procs[0][1]>>}]
  /\ UNCHANGED <<style, pc, net, startVars, run_method_called, ev, given, done,
                 stopVars>>

\* The end of a collective call: everyone returns what the root broadcast.
ReceiveOwnEvent(n, c, from, to) ==
  /\ result[c] # Unset
  /\ Step(n, from, to)
  /\ UNCHANGED <<style, net, startVars, run_method_called, ev, given, result, pre,
                 done, stopVars>>
ReceiveEvent(n, c, from, to) ==
  /\ result[c] # Unset
  /\ Step(n, from, to)
  /\ ev' = [ev EXCEPT ![n] = result[c]]
  /\ UNCHANGED <<style, net, startVars, run_method_called, given, result, pre,
                 done, stopVars>>

RunStep(n) ==
  \/ Run(n)
  \/ Contribute(n, "init_pre")
  \/ SpawnByKind(n, "init", FALSE)
  \/ Contribute(n, "init_fin")
  \/ style = "NO_MAIN" /\ ReceiveEvent(n, "init_fin", "init_end", "waiting")
  \/ style # "NO_MAIN" /\ ReceiveEvent(n, "init_fin", "init_end", "main_pre")
  \/ Contribute(n, "main_pre")
  \/ style = "ONE_TASK_ONLY" /\ ReceiveEvent(n, "main_fin", "main_wait", "waiting")
  \/ style = "ONE_TASK_PER_NODE" /\ SpawnByKind(n, "main", TRUE)
  \/ style = "ONE_TASK_PER_PROC" /\ SpawnByKind(n, "main", FALSE)
  \/ Contribute(n, "main_fin")
  \/ ReceiveEvent(n, "main_fin", "main_end", "waiting")

RootStep ==
  \/ MergeAndBroadcast("init_pre") \/ MergeAndBroadcast("init_fin")
  \/ style # "ONE_TASK_ONLY" /\ (\/ MergeAndBroadcast("main_pre")
                                 \/ MergeAndBroadcast("main_fin"))
  \/ CollectiveSpawnRoot

\* A processor runs a task once its precondition has triggered.  (That a
\* shutdown task runs changes nothing here.)
RunTask(t) ==
  /\ t[1] # "shutdown"
  /\ pre[t] # Unset
  /\ pre[t] \subseteq done
  /\ t \notin done
  /\ pc[NodeOfProc(t[2])] # "exited"
  /\ done' = done \cup {t}
  /\ UNCHANGED <<style, pc, net, startVars, run_method_called, spawnVars, stopVars>>

-----------------------------------------------------------------------------
(* RuntimeImpl::shutdown.                                                  *)

\* shutdown_count filters all but the first call on a node; a local request
\* goes on to notify the others.
Begin(n, local, c) ==
  IF sd[n] = "none"
    THEN /\ sd' = [sd EXCEPT ![n] = IF local THEN "notify" ELSE "spawn"]
         /\ code' = [code EXCEPT ![n] = c]
    ELSE UNCHANGED <<sd, code>>

\* Runtime::shutdown, called by a main task (by an init task when there is no
\* main task): at once, or when the node's main tasks end.
RuntimeShutdown(n, wait_on) ==
  /\ n \in Callers \ called
  /\ \E t \in done : /\ NodeOfProc(t[2]) = n
                     /\ t[1] = "main" \/ style = "NO_MAIN"
  /\ called' = called \cup {n}
  /\ IF wait_on \subseteq done
       THEN Begin(n, TRUE, CodeOf[n]) /\ UNCHANGED waiters
       ELSE waiters' = waiters \cup {<<n, wait_on>>} /\ UNCHANGED <<sd, code>>
  /\ UNCHANGED <<style, pc, net, startVars, run_method_called, spawnVars, done,
                 shutdown_requested, shutdown_result_code>>

DeferredShutdown(w) ==
  /\ w[2] \subseteq done
  /\ waiters' = waiters \ {w}
  /\ Begin(w[1], TRUE, CodeOf[w[1]])
  /\ UNCHANGED <<style, pc, net, startVars, run_method_called, spawnVars, done,
                 called, shutdown_requested, shutdown_result_code>>

ForgetCode(m) ==
  /\ m.type = "shutdown"
  /\ Receiving(m.to)
  /\ net' = net \ {m}
  /\ Begin(m.to, FALSE, 0)
  /\ UNCHANGED <<style, pc, startVars, run_method_called, spawnVars, done,
                 waiters, called, shutdown_requested, shutdown_result_code>>
HandleShutdown(m) ==
  /\ m.type = "shutdown"
  /\ Receiving(m.to)
  /\ net' = net \ {m}
  /\ Begin(m.to, FALSE, m.code)
  /\ UNCHANGED <<style, pc, startVars, run_method_called, spawnVars, done,
                 waiters, called, shutdown_requested, shutdown_result_code>>

NotifyNobody(n) ==
  /\ sd[n] = "notify"
  /\ sd' = [sd EXCEPT ![n] = "spawn"]
  /\ UNCHANGED <<style, pc, net, startVars, run_method_called, spawnVars, done,
                 waiters, called, code, shutdown_requested, shutdown_result_code>>
NotifyOthers(n) ==
  /\ sd[n] = "notify"
  /\ net' = net \cup ToOthers("shutdown", n, code[n])
  /\ sd' = [sd EXCEPT ![n] = "spawn"]
  /\ UNCHANGED <<style, pc, startVars, run_method_called, spawnVars, done,
                 waiters, called, code, shutdown_requested, shutdown_result_code>>

\* spawn_on_all of the legacy shutdown task.
SpawnShutdownTasks(n) ==
  /\ sd[n] = "spawn"
  /\ IF run_method_called[n] THEN Spawned("shutdown", ProcsOf(n), {})
                             ELSE UNCHANGED pre
  /\ sd' = [sd EXCEPT ![n] = "flag"]
  /\ UNCHANGED <<style, pc, net, startVars, run_method_called, ev, given, result,
                 done, waiters, called, code, shutdown_requested,
                 shutdown_result_code>>

SetRequested(n) ==
  /\ sd[n] = "flag"
  /\ shutdown_result_code' = [shutdown_result_code EXCEPT ![n] = code[n]]
  /\ shutdown_requested' = [shutdown_requested EXCEPT ![n] = TRUE]
  /\ sd' = [sd EXCEPT ![n] = "end"]
  /\ UNCHANGED <<style, pc, net, startVars, run_method_called, spawnVars, done,
                 waiters, called, code>>

-----------------------------------------------------------------------------
(* RuntimeImpl::wait_for_shutdown.                                         *)

SeeRequest(n) ==
  /\ shutdown_requested[n]
  /\ Step(n, "waiting", "barrier")
  /\ UNCHANGED <<style, net, startVars, run_method_called, spawnVars, done, stopVars>>

\* gasnet_barrier_wait: each node leaves once all have notified.
NoBarrier(n) ==
  /\ Step(n, "barrier", "teardown")
  /\ UNCHANGED <<style, net, startVars, run_method_called, spawnVars, done, stopVars>>
PassBarrier(n) ==
  /\ \A m \in Nodes : pc[m] \in {"barrier", "teardown", "exited"}
  /\ Step(n, "barrier", "teardown")
  /\ UNCHANGED <<style, net, startVars, run_method_called, spawnVars, done, stopVars>>

\* stop_activemsg_threads, after which no handler runs here; the processors
\* are shut down, the tables deleted, and the process exits with the result.
StopAndExit(n) ==
  /\ Step(n, "teardown", "exited")
  /\ UNCHANGED <<style, net, startVars, run_method_called, spawnVars, done, stopVars>>

-----------------------------------------------------------------------------
MainThread(n) ==
  \/ StartPollingThreads(n) \/ StartHandlerThreads(n) \/ SendAnnouncements(n)
  \/ AwaitAnnouncements(n) \/ RunStep(n)
  \/ SeeRequest(n) \/ PassBarrier(n) \/ StopAndExit(n)

ShutdownStep(n) == NotifyOthers(n) \/ SpawnShutdownTasks(n) \/ SetRequested(n)

Deliver(m) == HandleAnnouncement(m) \/ HandleShutdown(m)

MainTasks(n) == {t \in {"main"} \X ProcsOf(n) : pre[t] # Unset}

Next ==
  /\ ~aborted
  /\ \/ AttachBarrier
     \/ RootStep
     \/ \E n \in Nodes : MainThread(n) \/ ShutdownStep(n)
     \/ \E m \in net : Deliver(m)
     \/ \E t \in Tasks : RunTask(t)
     \/ \E n \in Nodes : RuntimeShutdown(n, {}) \/ RuntimeShutdown(n, MainTasks(n))
     \/ \E w \in waiters : DeferredShutdown(w)

Spec == Init /\ [][Next]_vars

\* Every thread keeps running, every message is delivered while its target
\* polls; no task is obliged to ask for a shutdown.
Fairness ==
  /\ WF_vars(~aborted /\ (AttachBarrier \/ RootStep))
  /\ \A n \in Nodes : /\ WF_vars(~aborted /\ MainThread(n))
                      /\ WF_vars(~aborted /\ ShutdownStep(n))
  /\ WF_vars(~aborted /\ \E m \in net : Deliver(m))
  /\ WF_vars(~aborted /\ \E t \in Tasks : RunTask(t))
  /\ WF_vars(~aborted /\ \E w \in waiters : DeferredShutdown(w))

FairSpec == Spec /\ Fairness

-----------------------------------------------------------------------------
(* Properties.                                                             *)

Labels == {"attach", "attached", "polling", "handling", "announced", "ready",
           "init_pre", "init_wait", "init_fin", "init_end", "main_pre",
           "main_wait", "main_fin", "main_end", "waiting", "barrier",
           "teardown", "exited"}
Codes == {CodeOf[n] : n \in Callers} \cup {Unset}

TypeOK ==
  /\ style \in Styles
  /\ pc \in [Nodes -> Labels]
  /\ known \in [Nodes -> SUBSET Nodes]
  /\ net \subseteq [type : {"announce", "shutdown"}, from : Nodes, to : Nodes,
                    code : Codes]
  /\ aborted \in BOOLEAN
  /\ run_method_called \in [Nodes -> BOOLEAN]
  /\ ev \in [Nodes -> Events]
  /\ given \in [Collectives -> [Nodes -> Events \cup {Unset}]]
  /\ result \in [Collectives -> Events \cup {Unset}]
  /\ pre \in [Tasks -> Events \cup {Unset}]
  /\ done \subseteq Tasks
  /\ waiters \subseteq Nodes \X Events
  /\ called \subseteq Callers
  /\ sd \in [Nodes -> {"none", "notify", "spawn", "flag", "end"}]
  /\ code \in [Nodes -> Codes]
  /\ shutdown_requested \in [Nodes -> BOOLEAN]
  /\ shutdown_result_code \in [Nodes -> Codes]

Past(n, labels) == pc[n] \in labels

\* No main task runs before the init task of every processor of every node has
\* finished, whatever the style: the gathers and merges of run()'s collective
\* spawns carry every node's precondition to every node.
MainAfterInit ==
  \A t \in done : t[1] = "main" => ({"init"} \X AllProcs) \subseteq done

\* run() holds the same event on every node when it goes to wait: the main
\* task's finish event, or the init event when there is no main task.
EventsAgree ==
  \A n, m \in Nodes : Past(n, {"waiting"}) /\ Past(m, {"waiting"}) => ev[n] = ev[m]

\* "don't start tearing things down until all processes agree": once a node is
\* past the barrier every node has received or made the request, and a node with
\* the request has given every processor its legacy shutdown task: shutdown()
\* cannot reach a node that has not yet called run(), and the tasks are spawned
\* before the main thread is woken.
ShutdownOrderly ==
  \A n \in Nodes :
    /\ Past(n, {"teardown", "exited"}) => \A m \in Nodes : shutdown_requested[m]
    /\ shutdown_requested[n] => \A p \in ProcsOf(n) : pre[<<"shutdown", p>>] # Unset

\* If the tasks of only one node asked for the shutdown, every node exits with
\* the code given there.
ResultAgreed ==
  \A n \in Callers : called = {n} =>
    \A m \in Nodes : shutdown_requested[m] => shutdown_result_code[m] = CodeOf[n]

\* The assertion that incoming_message_manager exists can fail only during
\* startup: not once some node has heard from all the others.
AbortsOnlyAtStartup ==
  aborted => \A n \in Nodes : Past(n, {"attached", "polling", "handling", "announced"})

\* Once a task has asked for a shutdown every node exits.
EveryNodeExits == (called # {}) ~> (\A n \in Nodes : pc[n] = "exited")

-----------------------------------------------------------------------------
(* Why they hold.                                                          *)

AtMain == {"main_pre", "main_wait", "main_fin", "main_end"}
AtEnd == {"waiting", "barrier", "teardown", "exited"}

\* Where a main thread is once it has announced its node, has called run(), has
\* done its part in a gather, has seen the request.
Announced == Labels \ {"attach", "attached", "polling", "handling"}
InRun == Announced \ {"announced", "ready"}
Beyond == [init_pre |-> {"init_wait", "init_fin", "init_end"} \cup AtMain \cup AtEnd,
           init_fin |-> {"init_end"} \cup AtMain \cup AtEnd,
           main_pre |-> (AtMain \ {"main_pre"}) \cup AtEnd,
           main_fin |-> {"main_end"} \cup AtEnd]
Stopping == {"barrier", "teardown", "exited"}

AllCalled == \A n \in Nodes : run_method_called[n]

\* A node that leaves await_all_announcements has heard from all the others, and
\* each of them has its handler threads by then.
StartInv ==
  /\ \A n, m \in Nodes : /\ pc[n] = "attach" => pc[m] = "attach"
                         /\ m \in known[n] => pc[m] \in Announced
  /\ \A n \in Nodes : /\ run_method_called[n] <=> pc[n] \in InRun
                      /\ pc[n] \in InRun \cup {"ready"} => known[n] = Nodes \ {n}
  /\ \A m \in net : m.type = "announce" => m.from # m.to /\ pc[m.from] \in Announced

InitTasks(procs) == {"init"} \X procs
AllInit == InitTasks(AllProcs)
\* The event run() returns everywhere.
Final == IF style = "NO_MAIN" THEN "init_fin" ELSE "main_fin"

\* What each gather and broadcast carries: nothing, then each node's init tasks,
\* all of them, and at last the main tasks.
CarriedInv ==
  /\ \A c \in Collectives, n \in Nodes : given[c][n] # Unset => pc[n] \in Beyond[c]
  /\ \A n \in Nodes :
       /\ pc[n] = "init_fin" => ev[n] = InitTasks(ProcsOf(n))
       /\ given["init_fin"][n] \in {Unset, InitTasks(ProcsOf(n))}
       /\ pc[n] = "main_pre" => ev[n] = AllInit
       /\ given["main_pre"][n] \in {Unset, AllInit}
       /\ pc[n] \in AtMain => style # "NO_MAIN"
       /\ pc[n] = "waiting" => result[Final] # Unset /\ ev[n] = result[Final]
  /\ result["init_fin"] \in {Unset, AllInit}
  /\ result["main_pre"] \in {Unset, AllInit}
  /\ \A p \in AllProcs : pre[<<"main", p>>] \in {Unset, AllInit}

\* No task is spawned before every node has called run(): the first gather
\* waits for all of them.
SpawnInv ==
  /\ \A c \in Collectives : result[c] # Unset => AllCalled
  /\ \A t \in Tasks : t[1] # "shutdown" /\ pre[t] # Unset => AllCalled
  /\ done # {} => AllCalled

\* The request spreads from the callers' nodes, none of which can call before
\* every node is in run(), and stops at the barrier until it is everywhere.
StopInv ==
  /\ called # {} => AllCalled
  /\ \A w \in waiters : w[1] \in called
  /\ \A m \in net : m.type = "shutdown" => called # {}
  /\ \A n \in Nodes :
       /\ sd[n] # "none" => called # {}
       /\ sd[n] \in {"flag", "end"} => \A p \in ProcsOf(n) : pre[<<"shutdown", p>>] # Unset
       /\ shutdown_requested[n] => sd[n] = "end"
       /\ pc[n] \in Stopping => shutdown_requested[n]
       /\ pc[n] \in {"teardown", "exited"} => \A m \in Nodes : pc[m] \in Stopping

\* As long as one node's tasks have called, only their code is about.
CodeInv ==
  \A c \in Callers : called = {c} =>
    /\ \A m \in net : m.type = "shutdown" => m.code = CodeOf[c]
    /\ \A n \in Nodes : /\ sd[n] # "none" => code[n] = CodeOf[c]
                        /\ shutdown_requested[n] => shutdown_result_code[n] = CodeOf[c]

(* What every node can rely on through startup, run and shutdown: types,   *)
(* the event that the collectives agree on, that the assertion on the      *)
(* incoming message manager can only fire during startup, and the facts    *)
(* above, which make the whole inductive.                                  *)
RuntimeInv ==
  /\ TypeOK /\ EventsAgree /\ AbortsOnlyAtStartup /\ MainAfterInit
  /\ StartInv /\ CarriedInv /\ SpawnInv /\ StopInv /\ CodeInv
=============================================================================
