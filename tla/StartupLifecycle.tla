------------------------- MODULE StartupLifecycle ---------------------------
(***************************************************************************)
(* Startup seen from the model of the whole run.  RuntimeLifecycle starts  *)
(* a node in five steps and sends announcements without contents; here its *)
(* variables are those of the detailed startup, and what only happens      *)
(* after startup has its initial value.                                    *)
(***************************************************************************)
EXTENDS Startup

LifecyclePc(n) ==
  IF pc[n] = "laid_out" THEN "attached"
  ELSE IF pc[n] \in {"attach", "attached", "polling", "announced", "ready"} THEN pc[n]
  ELSE "handling"

LifecyclePcs == [n \in Nodes |-> LifecyclePc(n)]
Known == [n \in Nodes |-> Heard(n)]
AnnouncementsIn(msgs) ==
  {[type |-> "announce", from |-> a.what.from, to |-> a.to, code |-> Unset] : a \in msgs}
LifecycleNet == AnnouncementsIn(net)
OnNode(x) == [n \in Nodes |-> x]
NoGather == [c \in {"init_pre", "init_fin", "main_pre", "main_fin"} |-> OnNode(Unset)]
NoResult == [c \in {"init_pre", "init_fin", "main_pre", "main_fin"} |-> Unset]
NoTask == [t \in {"init", "main", "shutdown"} \X Nodes |-> Unset]
OneProc == [n \in Nodes |-> <<n>>]
NoCodes == [n \in {} |-> 0]

Lifecycle ==
  INSTANCE RuntimeLifecycle WITH
    Procs <- OneProc, Callers <- {}, CodeOf <- NoCodes, style <- "NO_MAIN",
    pc <- LifecyclePcs, known <- Known, net <- LifecycleNet,
    run_method_called <- OnNode(FALSE), ev <- OnNode({}),
    given <- NoGather, result <- NoResult, pre <- NoTask,
    done <- {}, waiters <- {}, called <- {}, sd <- OnNode("none"), code <- OnNode(Unset),
    shutdown_requested <- OnNode(FALSE), shutdown_result_code <- OnNode(Unset)

(* Building the machine is invisible to the other nodes: startup in detail *)
(* implements the startup that the model of the whole run assumes.         *)
ImplementsLifecycle == Lifecycle!Spec
=============================================================================
