---------------------- MODULE RuntimeLifecycleProofs ----------------------
(***************************************************************************)
(* The theorems about the life of the runtime, for any number of nodes,    *)
(* any processors on each of them and any callers of Runtime::shutdown.    *)
(***************************************************************************)
EXTENDS RuntimeLifecycle, TLAPS

(* A processor belongs to its node; the first one exists where any does.   *)
LEMMA ProcFacts ==
  /\ \A n \in Nodes : ProcsOf(n) \subseteq AllProcs
  /\ Procs[0][1] \in AllProcs
  /\ \A n \in Nodes, b \in BOOLEAN : Reached(n, b) \subseteq ProcsOf(n)
<1>1. \A n \in Nodes : ProcsOf(n) \subseteq AllProcs
  BY DEF AllProcs
<1>2. \A n \in Nodes : Procs[n] # <<>> => Procs[n][1] \in ProcsOf(n)
  <2> TAKE n \in Nodes
  <2>1. Procs[n] \in Seq(ProcsOf(n))
    BY RuntimeAssumption DEF ProcsOf
  <2>2. QED
    BY <2>1
<1>3. Procs[0][1] \in AllProcs
  BY <1>1, <1>2, RuntimeAssumption
<1>4. QED
  BY <1>1, <1>2, <1>3 DEF Reached

(* What an event can be.                                                   *)
LEMMA EventFacts ==
  /\ {} \in Events /\ AllInit \in Events /\ Unset \notin Events
  /\ \A n \in Nodes : InitTasks(ProcsOf(n)) \in Events
  /\ \A S \in SUBSET Events : UNION S \in Events
  /\ \A kind \in {"init", "main"}, ps \in SUBSET AllProcs : {kind} \X ps \in Events
BY ProcFacts, UnsetAssumption DEF Events, AllInit, InitTasks

(* Step moves one main thread.                                             *)
LEMMA Moved ==
  ASSUME TypeOK, NEW n \in Nodes, NEW from \in Labels, NEW to \in Labels, Step(n, from, to)
  PROVE  /\ pc' \in [Nodes -> Labels]
         /\ pc[n] = from /\ pc'[n] = to
         /\ \A m \in Nodes : m # n => pc'[m] = pc[m]
BY DEF TypeOK, Step

(* Spawning keeps preconditions well typed, and sets exactly those of the  *)
(* tasks it names.                                                         *)
LEMMA SpawnedFacts ==
  ASSUME TypeOK, NEW kind, NEW ps, NEW e \in Events, Spawned(kind, ps, e)
  PROVE  /\ pre' \in [Tasks -> Events \cup {Unset}]
         /\ \A t \in Tasks : \/ t[1] = kind /\ t[2] \in ps /\ pre'[t] = e
                             \/ ~(t[1] = kind /\ t[2] \in ps) /\ pre'[t] = pre[t]
BY DEF TypeOK, Spawned

(* The tasks of a kind.                                                    *)
LEMMA TaskFacts ==
  \A k \in {"init", "main", "shutdown"}, p \in AllProcs :
    <<k, p>> \in Tasks /\ <<k, p>>[1] = k /\ <<k, p>>[2] = p
BY DEF Tasks
-----------------------------------------------------------------------------
(* Types.                                                                  *)

(* Messages to the others.                                                 *)
LEMMA ToOthersType ==
  ASSUME NEW kind \in {"announce", "shutdown"}, NEW n \in Nodes, NEW c \in Codes
  PROVE  ToOthers(kind, n, c) \subseteq
           [type : {"announce", "shutdown"}, from : Nodes, to : Nodes, code : Codes]
BY DEF ToOthers, Message

LEMMA ToOthersFields ==
  ASSUME NEW kind, NEW n, NEW c, NEW m \in ToOthers(kind, n, c)
  PROVE  m.type = kind /\ m.from = n /\ m.to # n /\ m.code = c
BY SMTT(30) DEF ToOthers, Message

LEMMA GatherType ==
  ASSUME TypeOK, NEW c \in Collectives, Gathered(c)
  PROVE  Merged(c) \in Events
<1>1. \A n \in Nodes : given[c][n] \in Events
  BY DEF TypeOK, Gathered
<1>2. {given[c][n] : n \in Nodes} \in SUBSET Events
  BY <1>1
<1>3. QED
  BY <1>2, EventFacts, Zenon DEF Merged

LEMMA TypeStart ==
  ASSUME TypeOK, NEW n \in Nodes,
         \/ AttachBarrier \/ StartPollingThreads(n) \/ StartHandlerThreads(n)
         \/ SendAnnouncements(n) \/ AwaitAnnouncements(n)
         \/ SeeRequest(n) \/ PassBarrier(n) \/ StopAndExit(n)
  PROVE  TypeOK'
<1>1. pc' \in [Nodes -> Labels]
  BY DEF TypeOK, Labels, Step, AttachBarrier, StartPollingThreads, StartHandlerThreads,
         SendAnnouncements, AwaitAnnouncements, SeeRequest, PassBarrier, StopAndExit
<1>2. net' \subseteq [type : {"announce", "shutdown"}, from : Nodes, to : Nodes, code : Codes]
  <2>1. ToOthers("announce", n, Unset) \subseteq
           [type : {"announce", "shutdown"}, from : Nodes, to : Nodes, code : Codes]
    BY ToOthersType DEF Codes
  <2>2. QED
    BY <2>1 DEF TypeOK, AttachBarrier, StartPollingThreads, StartHandlerThreads,
         SendAnnouncements, AwaitAnnouncements, SeeRequest, PassBarrier, StopAndExit
<1>3. UNCHANGED <<style, startVars, run_method_called, spawnVars, done, stopVars>>
  BY DEF AttachBarrier, StartPollingThreads, StartHandlerThreads,
         SendAnnouncements, AwaitAnnouncements, SeeRequest, PassBarrier, StopAndExit
<1>4. QED
  BY <1>1, <1>2, <1>3 DEF TypeOK, startVars, spawnVars, stopVars

LEMMA TypeHandleAnnouncement ==
  ASSUME TypeOK, NEW m \in net, HandleAnnouncement(m)
  PROVE  TypeOK'
<1>1. m.to \in Nodes /\ m.from \in Nodes
  BY DEF TypeOK
<1>2. aborted' \in BOOLEAN
  BY Zenon DEF TypeOK, HandleAnnouncement
<1>3. known' \in [Nodes -> SUBSET Nodes]
  <2>1. [known EXCEPT ![m.to] = @ \cup {m.from}] \in [Nodes -> SUBSET Nodes]
    BY <1>1 DEF TypeOK
  <2>2. QED
    BY <2>1, Zenon DEF TypeOK, HandleAnnouncement
<1>4. UNCHANGED <<style, pc, run_method_called, spawnVars, done, stopVars>> /\ net' \subseteq net
  BY DEF HandleAnnouncement
<1>5. QED
  BY <1>2, <1>3, <1>4 DEF TypeOK, spawnVars, stopVars

LEMMA TypeRun ==
  ASSUME TypeOK, NEW n \in Nodes, Run(n)
  PROVE  TypeOK'
BY Moved, EventFacts, Zenon DEF TypeOK, Run, startVars, stopVars, Labels

LEMMA TypeContribute ==
  ASSUME TypeOK, NEW n \in Nodes, NEW c \in Collectives, Contribute(n, c)
  PROVE  TypeOK'
<1>1. pc' \in [Nodes -> Labels]
  BY DEF TypeOK, Contribute, Step, After, Labels, Collectives
<1>2. given' \in [Collectives -> [Nodes -> Events \cup {Unset}]]
  BY DEF TypeOK, Contribute
<1>3. QED
  BY <1>1, <1>2 DEF TypeOK, Contribute, startVars, stopVars

LEMMA TypeRoot ==
  ASSUME TypeOK, RootStep
  PROVE  TypeOK'
<1>1. ASSUME NEW c \in Collectives, MergeAndBroadcast(c)
      PROVE  TypeOK'
  BY <1>1, GatherType DEF TypeOK, MergeAndBroadcast, startVars, stopVars
<1>2. ASSUME CollectiveSpawnRoot
      PROVE  TypeOK'
  <2>1. Merged("main_pre") \in Events
    BY <1>2, GatherType, Zenon DEF CollectiveSpawnRoot, Collectives
  <2>2. pre' \in [Tasks -> Events \cup {Unset}]
    BY <1>2, <2>1, SpawnedFacts, Zenon DEF CollectiveSpawnRoot
  <2>3. {<<"main", Procs[0][1]>>} \in Events
    BY ProcFacts DEF Events
  <2>4. QED
    BY <1>2, <2>2, <2>3, Zenon DEF TypeOK, CollectiveSpawnRoot, startVars, stopVars
<1>3. QED
  BY <1>1, <1>2 DEF RootStep, Collectives

LEMMA TypeSpawn ==
  ASSUME TypeOK, NEW n \in Nodes, NEW kind \in {"init", "main"}, NEW one \in BOOLEAN,
         SpawnByKind(n, kind, one)
  PROVE  TypeOK'
<1> DEFINE c == IF kind = "init" THEN "init_pre" ELSE "main_pre"
<1>1. c \in Collectives /\ result[c] \in Events
  BY DEF TypeOK, SpawnByKind, Collectives
<1>2. pc' \in [Nodes -> Labels]
  BY DEF TypeOK, SpawnByKind, Step, Labels
<1>3. pre' \in [Tasks -> Events \cup {Unset}]
  BY <1>1, SpawnedFacts DEF SpawnByKind
<1>4. {kind} \X Reached(n, one) \in Events
  BY ProcFacts, EventFacts, Zenon
<1>5. QED
  BY <1>2, <1>3, <1>4, Zenon DEF TypeOK, SpawnByKind, startVars, stopVars

LEMMA TypeReceive ==
  ASSUME TypeOK, NEW n \in Nodes, NEW c \in Collectives, NEW from \in Labels,
         NEW to \in Labels, ReceiveEvent(n, c, from, to)
  PROVE  TypeOK'
<1>1. result[c] \in Events
  BY DEF TypeOK, ReceiveEvent
<1>2. pc' \in [Nodes -> Labels]
  BY Moved DEF ReceiveEvent
<1>3. QED
  BY <1>1, <1>2, Zenon DEF TypeOK, ReceiveEvent, startVars, stopVars

LEMMA TypeTask ==
  ASSUME TypeOK, NEW t \in Tasks, RunTask(t)
  PROVE  TypeOK'
BY DEF TypeOK, RunTask, startVars, spawnVars, stopVars

LEMMA TypeBegin ==
  ASSUME TypeOK, NEW n \in Nodes, NEW local \in BOOLEAN, NEW c \in Codes, Begin(n, local, c)
  PROVE  /\ sd' \in [Nodes -> {"none", "notify", "spawn", "flag", "end"}]
         /\ code' \in [Nodes -> Codes]
BY SMTT(90) DEF TypeOK, Begin

LEMMA TypeStop ==
  ASSUME TypeOK, StopInv, NEW n \in Nodes,
         \/ RuntimeShutdown(n, {}) \/ RuntimeShutdown(n, MainTasks(n))
         \/ ShutdownStep(n)
         \/ \E m \in net : HandleShutdown(m)
         \/ \E w \in waiters : DeferredShutdown(w)
  PROVE  TypeOK'
<1>0. \A c \in Callers : CodeOf[c] \in Codes
  BY DEF Codes
<1>1. ASSUME NEW e \in Events, RuntimeShutdown(n, e)
      PROVE  TypeOK'
  <2>1. /\ sd' \in [Nodes -> {"none", "notify", "spawn", "flag", "end"}]
        /\ code' \in [Nodes -> Codes]
    BY <1>0, <1>1, TypeBegin, Zenon DEF RuntimeShutdown, TypeOK
  <2>2. waiters' \subseteq Nodes \X Events
    <3>1. <<n, e>> \in Nodes \X Events
      BY <1>1
    <3>2. waiters' \subseteq waiters \cup {<<n, e>>}
      BY <1>1, Zenon DEF RuntimeShutdown
    <3>3. QED
      BY <3>1, <3>2 DEF TypeOK
  <2>3. called' \subseteq Callers
    BY <1>1, Zenon DEF RuntimeShutdown, TypeOK
  <2>4. QED
    BY <1>1, <2>1, <2>2, <2>3, Zenon DEF RuntimeShutdown, TypeOK, startVars, spawnVars
<1>2. MainTasks(n) \in Events
  BY ProcFacts, Zenon DEF MainTasks, Events
<1>3. ASSUME NEW m \in net, HandleShutdown(m)
      PROVE  TypeOK'
  <2>1. m.to \in Nodes /\ m.code \in Codes
    BY DEF TypeOK
  <2>2. /\ sd' \in [Nodes -> {"none", "notify", "spawn", "flag", "end"}]
        /\ code' \in [Nodes -> Codes]
    BY <1>3, <2>1, TypeBegin, Zenon DEF HandleShutdown
  <2>3. QED
    BY <1>3, <2>2, Zenon DEF HandleShutdown, TypeOK, startVars, spawnVars
<1>4. ASSUME NEW w \in waiters, DeferredShutdown(w)
      PROVE  TypeOK'
  <2>1. w[1] \in Nodes /\ w[1] \in Callers
    BY DEF TypeOK, StopInv
  <2>2. /\ sd' \in [Nodes -> {"none", "notify", "spawn", "flag", "end"}]
        /\ code' \in [Nodes -> Codes]
    BY <1>0, <1>4, <2>1, TypeBegin, Zenon DEF DeferredShutdown
  <2>3. QED
    BY <1>4, <2>2, Zenon DEF DeferredShutdown, TypeOK, startVars, spawnVars
<1>5. ASSUME NotifyOthers(n)
      PROVE  TypeOK'
  <2>1. code[n] \in Codes
    BY DEF TypeOK
  <2>2. net' \subseteq [type : {"announce", "shutdown"}, from : Nodes, to : Nodes, code : Codes]
    BY <1>5, <2>1, ToOthersType DEF NotifyOthers, TypeOK
  <2>3. QED
    BY <1>5, <2>2, Zenon DEF NotifyOthers, TypeOK, startVars, spawnVars
<1>6. ASSUME SpawnShutdownTasks(n)
      PROVE  TypeOK'
  <2>1. pre' \in [Tasks -> Events \cup {Unset}]
    BY <1>6, SpawnedFacts, EventFacts, Zenon DEF SpawnShutdownTasks, TypeOK
  <2>2. QED
    BY <1>6, <2>1, Zenon DEF SpawnShutdownTasks, TypeOK, startVars
<1>7. ASSUME SetRequested(n)
      PROVE  TypeOK'
  BY <1>7, Zenon DEF SetRequested, TypeOK, startVars, spawnVars
<1>8. QED
  BY <1>1, <1>2, <1>3, <1>4, <1>5, <1>6, <1>7, EventFacts DEF ShutdownStep
-----------------------------------------------------------------------------
(* Startup.                                                                *)

(* A main thread that has called run() only moves on within it; handled    *)
(* announcements are no longer under way.                                  *)
LEMMA StartFrame ==
  ASSUME TypeOK, StartInv,
         \A n \in Nodes : pc'[n] = pc[n] \/ (pc[n] \in InRun /\ pc'[n] \in InRun),
         \A m \in net' : m.type = "announce" => m \in net,
         UNCHANGED <<known, run_method_called>>
  PROVE  StartInv'
<1>1. \A m \in net : m.from \in Nodes
  BY DEF TypeOK
<1>2. InRun \subseteq Announced /\ "attach" \notin InRun
  BY DEF InRun, Announced
<1>3. \A n \in Nodes : /\ pc'[n] = "attach" <=> pc[n] = "attach"
                       /\ pc[n] \in Announced => pc'[n] \in Announced
                       /\ pc'[n] \in InRun <=> pc[n] \in InRun
                       /\ pc'[n] = "ready" <=> pc[n] = "ready"
  BY <1>2 DEF InRun
<1>4. QED
  BY <1>1, <1>3, Zenon DEF StartInv

LEMMA StartAttach ==
  ASSUME TypeOK, StartInv, AttachBarrier
  PROVE  StartInv'
<1>1. \A n \in Nodes : pc[n] = "attach" /\ pc'[n] = "attached"
  BY DEF AttachBarrier
<1>2. \A m \in net : m.from \in Nodes
  BY DEF TypeOK
<1>3. UNCHANGED <<known, net, run_method_called>>
  BY DEF AttachBarrier, startVars
<1>4. QED
  BY <1>1, <1>2, <1>3, Zenon DEF StartInv, InRun, Announced, Labels

LEMMA StartThreads ==
  ASSUME TypeOK, StartInv, NEW n \in Nodes,
         StartPollingThreads(n) \/ StartHandlerThreads(n)
  PROVE  StartInv'
<1>1. /\ \A m \in Nodes : m # n => pc'[m] = pc[m]
      /\ pc[n] \in {"attached", "polling"} /\ pc'[n] \in {"polling", "handling"}
  BY Moved, Zenon DEF StartPollingThreads, StartHandlerThreads, Labels
<1>2. \A m \in net : m.from \in Nodes
  BY DEF TypeOK
<1>3. UNCHANGED <<known, net, run_method_called>>
  BY DEF StartPollingThreads, StartHandlerThreads, startVars
<1>4. QED
  BY <1>1, <1>2, <1>3, SMTT(30) DEF StartInv, InRun, Announced, Labels

LEMMA StartAnnounce ==
  ASSUME TypeOK, StartInv, NEW n \in Nodes,
         SendAnnouncements(n)
  PROVE  StartInv'
<1>1. /\ \A m \in Nodes : m # n => pc'[m] = pc[m]
      /\ pc[n] = "handling" /\ pc'[n] = "announced"
  BY Moved DEF SendAnnouncements, Labels
<1>2. \A m \in net' : m \in net \/ (m.from = n /\ m.to # n)
  <2>1. \A m \in ToOthers("announce", n, Unset) : m.from = n /\ m.to # n
    BY ToOthersFields
  <2>2. QED
    BY <2>1 DEF SendAnnouncements
<1>3. UNCHANGED <<known, run_method_called>> /\ \A m \in net : m.from \in Nodes
  BY DEF SendAnnouncements, startVars, TypeOK
<1>4. QED
  BY <1>1, <1>2, <1>3, SMTT(30) DEF StartInv, InRun, Announced, Labels

LEMMA StartHandle ==
  ASSUME TypeOK, StartInv, NEW m \in net, HandleAnnouncement(m)
  PROVE  /\ StartInv'
         /\ aborted' = aborted \/ pc[m.to] = "polling"
<1>1. m.from \in Nodes /\ m.to \in Nodes /\ m.from # m.to /\ pc[m.from] \in Announced
  BY Zenon DEF TypeOK, StartInv, HandleAnnouncement
<1>2. \A k, j \in Nodes : j \in known'[k] => j \in known[k] \/ j = m.from
  <2>1. \A k \in Nodes : [known EXCEPT ![m.to] = @ \cup {m.from}][k] \subseteq known[k] \cup {m.from}
    BY <1>1 DEF TypeOK
  <2>2. QED
    BY <2>1, Zenon DEF HandleAnnouncement
<1>3. \A k \in Nodes : pc[k] \in InRun \cup {"ready"} => known'[k] = known[k]
  <2> SUFFICES ASSUME NEW k \in Nodes, pc[k] \in InRun \cup {"ready"}, known' # known
               PROVE  known'[k] = known[k]
    OBVIOUS
  <2>1. known' = [known EXCEPT ![m.to] = @ \cup {m.from}]
    BY DEF HandleAnnouncement
  <2>2. known[k] = Nodes \ {k}
    BY DEF StartInv
  <2>3. CASE m.to = k
    BY <1>1, <2>1, <2>2, <2>3 DEF TypeOK
  <2>4. CASE m.to # k
    BY <1>1, <2>1, <2>4, Zenon DEF TypeOK
  <2>5. QED
    BY <2>3, <2>4
<1>4. UNCHANGED <<pc, run_method_called>> /\ net' \subseteq net
  BY DEF HandleAnnouncement
<1>5. StartInv'
  BY <1>1, <1>2, <1>3, <1>4, Zenon DEF StartInv
<1>6. QED
  BY <1>5 DEF HandleAnnouncement

LEMMA StartAwait ==
  ASSUME TypeOK, StartInv, NEW n \in Nodes, AwaitAnnouncements(n)
  PROVE  StartInv'
<1>1. /\ \A m \in Nodes : m # n => pc'[m] = pc[m]
      /\ pc[n] = "announced" /\ pc'[n] = "ready" /\ known[n] = Nodes \ {n}
  <2>1. "announced" \in Labels /\ "ready" \in Labels
    BY Zenon DEF Labels
  <2>2. QED
    BY <2>1, Moved, Zenon DEF AwaitAnnouncements
<1>2. UNCHANGED <<known, net, run_method_called>> /\ \A m \in net : m.from \in Nodes
  BY DEF AwaitAnnouncements, startVars, TypeOK
<1>3. QED
  BY <1>1, <1>2 DEF StartInv, InRun, Announced, Labels

LEMMA StartRun ==
  ASSUME TypeOK, StartInv, NEW n \in Nodes, Run(n)
  PROVE  StartInv'
<1>1. /\ \A m \in Nodes : m # n => pc'[m] = pc[m]
      /\ pc[n] = "ready" /\ pc'[n] = "init_pre"
  BY Moved, ZenonT(60) DEF Run, Labels
<1>2. UNCHANGED <<known, net>> /\ \A m \in net : m.from \in Nodes
  BY Zenon DEF Run, startVars, TypeOK
<1>3. run_method_called'[n] /\ \A m \in Nodes : m # n => run_method_called'[m] = run_method_called[m]
  BY Zenon DEF Run, TypeOK
<1>4. "init_pre" \in InRun /\ "ready" \notin InRun /\ {"init_pre", "ready"} \subseteq Announced
  BY DEF InRun, Announced, Labels
<1>5. QED
  BY <1>1, <1>2, <1>3, <1>4 DEF StartInv
-----------------------------------------------------------------------------
(* The collectives of run().                                               *)

(* The labels after each gather.                                           *)
LEMMA BeyondFacts ==
  /\ Collectives = {"init_pre", "init_fin", "main_pre", "main_fin"}
  /\ Beyond["init_pre"] = {"init_wait", "init_fin", "init_end"} \cup AtMain \cup AtEnd
  /\ Beyond["init_fin"] = {"init_end"} \cup AtMain \cup AtEnd
  /\ Beyond["main_pre"] = {"main_wait", "main_fin", "main_end"} \cup AtEnd
  /\ Beyond["main_fin"] = {"main_end"} \cup AtEnd
  /\ \A c \in Collectives : Beyond[c] \subseteq InRun /\ c \notin Beyond[c] /\ After(c) \in Beyond[c]
<1>1. /\ Beyond["init_pre"] = {"init_wait", "init_fin", "init_end"} \cup AtMain \cup AtEnd
      /\ Beyond["init_fin"] = {"init_end"} \cup AtMain \cup AtEnd
      /\ Beyond["main_pre"] = {"main_wait", "main_fin", "main_end"} \cup AtEnd
      /\ Beyond["main_fin"] = {"main_end"} \cup AtEnd
  BY Zenon DEF Beyond, AtMain
<1>2. /\ After("init_pre") = "init_wait" /\ After("init_fin") = "init_end"
      /\ After("main_pre") = "main_wait" /\ After("main_fin") = "main_end"
  BY DEF After
<1>3. QED
  BY <1>1, <1>2 DEF Collectives, AtMain, AtEnd, InRun, Announced, Labels

(* A main thread that does not enter a new phase of run(), and tasks whose *)
(* preconditions are not changed.                                          *)
LEMMA CarriedFrame ==
  ASSUME TypeOK, CarriedInv,
         \A n \in Nodes : \/ pc'[n] = pc[n]
                          \/ /\ \A c \in Collectives : pc[n] \notin Beyond[c] \/ pc'[n] \in Beyond[c]
                             /\ pc'[n] \notin {"init_fin", "waiting"} \cup AtMain,
         UNCHANGED <<style, ev, given, result>>,
         \A p \in AllProcs : pre'[<<"main", p>>] = pre[<<"main", p>>]
  PROVE  CarriedInv'
<1>1. "main_pre" \in AtMain
  BY DEF AtMain
<1>2. \A c \in Collectives, n \in Nodes : given'[c][n] # Unset => pc'[n] \in Beyond[c]
  BY Zenon DEF CarriedInv
<1>3. \A m \in Nodes :
       /\ pc'[m] = "init_fin" => pc[m] = "init_fin"
       /\ pc'[m] = "main_pre" => pc[m] = "main_pre"
       /\ pc'[m] = "waiting" => pc[m] = "waiting"
       /\ pc'[m] \in AtMain => pc[m] \in AtMain
  BY <1>1, Zenon
<1>4. UNCHANGED <<style, ev, given, result, Final>>
  BY DEF Final
<1>5. QED
  BY <1>2, <1>3, <1>4 DEF CarriedInv

LEMMA CarriedRun ==
  ASSUME TypeOK, CarriedInv, NEW n \in Nodes, Run(n)
  PROVE  CarriedInv'
<1>0. /\ \A m \in Nodes : m # n => pc'[m] = pc[m]
      /\ pc[n] = "ready" /\ pc'[n] = "init_pre"
  BY Moved, ZenonT(60) DEF Run, Labels
<1>1. \A m \in Nodes : m # n => ev'[m] = ev[m]
  BY Zenon DEF Run, TypeOK
<1>2. UNCHANGED <<style, given, result, pre, Final>>
  BY DEF Run, Final
<1>3. \A c \in Collectives : "ready" \notin Beyond[c]
  BY BeyondFacts DEF AtMain, AtEnd
<1>4. \A c \in Collectives, m \in Nodes : given'[c][m] # Unset => pc'[m] \in Beyond[c]
  BY <1>0, <1>2, <1>3, Zenon DEF CarriedInv
<1>5. \A m \in Nodes :
       /\ pc'[m] = "init_fin" => pc[m] = "init_fin" /\ ev'[m] = ev[m]
       /\ pc'[m] = "main_pre" => pc[m] = "main_pre" /\ ev'[m] = ev[m]
       /\ pc'[m] = "waiting" => pc[m] = "waiting" /\ ev'[m] = ev[m]
       /\ pc'[m] \in AtMain => pc[m] \in AtMain
  BY <1>0, <1>1, Zenon DEF AtMain
<1>6. QED
  BY <1>2, <1>4, <1>5, Zenon DEF CarriedInv

(* What a contribution is, and that nothing of it is lost.                 *)
LEMMA CarriedContribute ==
  ASSUME TypeOK, CarriedInv, NEW n \in Nodes, NEW d \in Collectives, Contribute(n, d)
  PROVE  CarriedInv'
<1>1. /\ \A m \in Nodes : m # n => pc'[m] = pc[m]
      /\ pc[n] = d /\ pc'[n] = After(d)
  <2>1. d \in Labels /\ After(d) \in Labels
    BY DEF Labels, After, Collectives
  <2>2. QED
    BY <2>1, Moved DEF Contribute
<1>2. /\ \A c \in Collectives, m \in Nodes : c # d \/ m # n => given'[c][m] = given[c][m]
      /\ given'[d][n] = ev[n]
  BY Zenon DEF Contribute, TypeOK
<1>3. UNCHANGED <<style, ev, result, pre, Final>>
  BY DEF Contribute, Final
<1>4. \A c \in Collectives, m \in Nodes : given'[c][m] # Unset => pc'[m] \in Beyond[c]
  <2> TAKE c \in Collectives, m \in Nodes
  <2>1. CASE m # n
    BY <1>1, <1>2, <2>1, Zenon DEF CarriedInv
  <2>2. CASE m = n /\ c = d
    BY <1>1, <2>2, BeyondFacts
  <2>3. CASE m = n /\ c # d
    <3>1. d \in Beyond[c] => After(d) \in Beyond[c]
      BY <2>3, BeyondFacts, Zenon DEF AtMain, AtEnd, After
    <3>2. QED
      BY <1>1, <1>2, <2>3, <3>1, Zenon DEF CarriedInv
  <2>4. QED
    BY <2>1, <2>2, <2>3, Zenon
<1>5. \A m \in Nodes :
       /\ pc'[m] = "init_fin" => pc[m] = "init_fin"
       /\ pc'[m] = "main_pre" => pc[m] = "main_pre"
       /\ pc'[m] = "waiting" => pc[m] = "waiting"
       /\ pc'[m] \in AtMain => pc[m] \in AtMain
  BY <1>1 DEF After, Collectives, AtMain
<1>6. \A m \in Nodes : given'["init_fin"][m] \in {Unset, InitTasks(ProcsOf(m))}
  BY <1>1, <1>2, Zenon DEF CarriedInv, Collectives
<1>7. \A m \in Nodes : given'["main_pre"][m] \in {Unset, AllInit}
  BY <1>1, <1>2, Zenon DEF CarriedInv, Collectives
<1>8. QED
  BY <1>3, <1>4, <1>5, <1>6, <1>7, Zenon DEF CarriedInv

(* What the root merges.                                                   *)
LEMMA MergedFacts ==
  ASSUME CarriedInv
  PROVE  /\ Gathered("init_fin") => Merged("init_fin") = AllInit
         /\ Gathered("main_pre") => Merged("main_pre") = AllInit
<1>1. ASSUME Gathered("init_fin")
      PROVE  Merged("init_fin") = AllInit
  <2>1. \A n \in Nodes : given["init_fin"][n] = InitTasks(ProcsOf(n))
    BY <1>1, Zenon DEF Gathered, CarriedInv
  <2>2. QED
    BY <2>1 DEF Merged, AllInit, AllProcs, InitTasks
<1>2. ASSUME Gathered("main_pre")
      PROVE  Merged("main_pre") = AllInit
  <2>1. \A n \in Nodes : given["main_pre"][n] = AllInit
    BY <1>2, Zenon DEF Gathered, CarriedInv
  <2>2. QED
    BY <2>1, RuntimeAssumption, Zenon DEF Merged
<1>3. QED
  BY <1>1, <1>2

LEMMA CarriedMerge ==
  ASSUME TypeOK, CarriedInv, NEW d \in Collectives, MergeAndBroadcast(d)
  PROVE  CarriedInv'
<1>1. /\ \A c \in Collectives : c # d => result'[c] = result[c]
      /\ result'[d] = Merged(d) /\ result[d] = Unset
  BY Zenon DEF MergeAndBroadcast, TypeOK
<1>2. UNCHANGED <<style, pc, ev, given, pre, Final>>
  BY DEF MergeAndBroadcast, Final
<1>3. /\ result'["init_fin"] \in {Unset, AllInit}
      /\ result'["main_pre"] \in {Unset, AllInit}
  BY <1>1, MergedFacts, Zenon DEF CarriedInv, MergeAndBroadcast, Collectives
<1>4. Final \in Collectives /\ (result[Final] # Unset => result'[Final] = result[Final])
  BY <1>1 DEF Final, Collectives
<1>5. QED
  BY <1>2, <1>3, <1>4, Zenon DEF CarriedInv

LEMMA CarriedSpawnRoot ==
  ASSUME TypeOK, CarriedInv, CollectiveSpawnRoot
  PROVE  CarriedInv'
<1>1. /\ \A c \in Collectives : c # "main_fin" => result'[c] = result[c]
      /\ result["main_fin"] = Unset
  BY Zenon DEF CollectiveSpawnRoot, TypeOK
<1>2. UNCHANGED <<style, pc, ev, given, Final>>
  BY Zenon DEF CollectiveSpawnRoot, Final
<1>3. Merged("main_pre") = AllInit
  BY MergedFacts DEF CollectiveSpawnRoot
<1>4. \A p \in AllProcs : pre'[<<"main", p>>] \in {Unset, AllInit}
  <2>1. Spawned("main", {Procs[0][1]}, AllInit) /\ AllInit \in Events
    BY <1>3, EventFacts, Zenon DEF CollectiveSpawnRoot
  <2>2. \A p \in AllProcs : \/ pre'[<<"main", p>>] = AllInit
                            \/ pre'[<<"main", p>>] = pre[<<"main", p>>]
    <3>1. \A t \in Tasks : pre'[t] = AllInit \/ pre'[t] = pre[t]
      BY <2>1, SpawnedFacts
    <3>2. QED
      BY <3>1, TaskFacts, Zenon
  <2>3. QED
    BY <2>2, Zenon DEF CarriedInv
<1>5. Final \in Collectives /\ (result[Final] # Unset => result'[Final] = result[Final])
  BY <1>1, Zenon DEF Final, Collectives
<1>6. QED
  BY <1>1, <1>2, <1>4, <1>5, Zenon DEF CarriedInv, Collectives

LEMMA CarriedSpawn ==
  ASSUME TypeOK, CarriedInv, NEW n \in Nodes, NEW kind \in {"init", "main"}, NEW one \in BOOLEAN,
         SpawnByKind(n, kind, one), kind = "init" => ~one
  PROVE  CarriedInv'
<1> DEFINE d == IF kind = "init" THEN "init_pre" ELSE "main_pre"
<1>1. d \in Collectives /\ result[d] \in Events
  BY Zenon DEF TypeOK, SpawnByKind, Collectives
<1>2. /\ \A m \in Nodes : m # n => pc'[m] = pc[m]
      /\ kind = "init" => pc[n] = "init_wait" /\ pc'[n] = "init_fin"
      /\ kind = "main" => pc[n] = "main_wait" /\ pc'[n] = "main_fin"
  BY Moved, ZenonT(60) DEF SpawnByKind, Labels, After
<1>3. /\ \A m \in Nodes : m # n => ev'[m] = ev[m]
      /\ kind = "init" => ev'[n] = InitTasks(ProcsOf(n))
  BY Zenon DEF SpawnByKind, TypeOK, InitTasks, Reached
<1>4. UNCHANGED <<style, given, result, Final>>
  BY DEF SpawnByKind, Final
<1>5. \A p \in AllProcs : pre'[<<"main", p>>] \in {Unset, AllInit}
  <2>1. kind = "main" => result[d] = AllInit
    BY Zenon DEF CarriedInv, SpawnByKind
  <2>2. \A p \in AllProcs : \/ kind = "main" /\ pre'[<<"main", p>>] = result[d]
                            \/ pre'[<<"main", p>>] = pre[<<"main", p>>]
    <3>1. Spawned(kind, Reached(n, one), result[d])
      BY Zenon DEF SpawnByKind
    <3>2. QED
      <4>1. \A t \in Tasks : (t[1] = kind /\ pre'[t] = result[d]) \/ pre'[t] = pre[t]
        BY <1>1, <3>1, SpawnedFacts
      <4>2. QED
        BY <4>1, TaskFacts, ZenonT(60)
  <2>3. QED
    BY <2>1, <2>2, Zenon DEF CarriedInv
<1>6. \A c \in Collectives, m \in Nodes : given'[c][m] # Unset => pc'[m] \in Beyond[c]
  <2>1. \A c \in Collectives : /\ "init_wait" \in Beyond[c] => "init_fin" \in Beyond[c]
                               /\ "main_wait" \in Beyond[c] => "main_fin" \in Beyond[c]
    BY BeyondFacts DEF AtMain, AtEnd
  <2>2. QED
    BY <1>2, <1>4, <2>1 DEF CarriedInv
<1>7. \A m \in Nodes :
       /\ pc'[m] = "init_fin" => ev'[m] = InitTasks(ProcsOf(m))
       /\ pc'[m] = "main_pre" => pc[m] = "main_pre" /\ ev'[m] = ev[m]
       /\ pc'[m] = "waiting" => pc[m] = "waiting" /\ ev'[m] = ev[m]
       /\ pc'[m] \in AtMain => pc[m] \in AtMain
  BY <1>2, <1>3, Zenon DEF AtMain, CarriedInv
<1>8. QED
  BY <1>4, <1>5, <1>6, <1>7, Zenon DEF CarriedInv

(* Everyone goes on with what the root broadcast.                          *)
LEMMA CarriedReceive ==
  ASSUME TypeOK, CarriedInv, NEW n \in Nodes,
         \/ style = "NO_MAIN" /\ ReceiveEvent(n, "init_fin", "init_end", "waiting")
         \/ style # "NO_MAIN" /\ ReceiveEvent(n, "init_fin", "init_end", "main_pre")
         \/ style = "ONE_TASK_ONLY" /\ ReceiveEvent(n, "main_fin", "main_wait", "waiting")
         \/ ReceiveEvent(n, "main_fin", "main_end", "waiting")
  PROVE  CarriedInv'
<1>1. PICK d \in {"init_fin", "main_fin"}, from \in {"init_end", "main_wait", "main_end"},
           to \in {"waiting", "main_pre"} :
        /\ ReceiveEvent(n, d, from, to)
        /\ to = "main_pre" => d = "init_fin" /\ from = "init_end" /\ style # "NO_MAIN"
        /\ to = "waiting" => d = Final
  BY Zenon DEF ReceiveEvent, Step, CarriedInv, AtMain, Final
<1>2. /\ \A m \in Nodes : m # n => pc'[m] = pc[m]
      /\ pc[n] = from /\ pc'[n] = to
  <2>1. from \in Labels /\ to \in Labels
    BY DEF Labels
  <2>2. QED
    BY <1>1, <2>1, Moved DEF ReceiveEvent
<1>3. /\ \A m \in Nodes : m # n => ev'[m] = ev[m]
      /\ ev'[n] = result[d] /\ result[d] # Unset
  BY <1>1, Zenon DEF ReceiveEvent, TypeOK
<1>4. UNCHANGED <<style, given, result, pre, Final>>
  BY <1>1, Zenon DEF ReceiveEvent, Final
<1>5. \A c \in Collectives, m \in Nodes : given'[c][m] # Unset => pc'[m] \in Beyond[c]
  <2>1. \A c \in Collectives : from \in Beyond[c] => to \in Beyond[c]
    BY <1>1, BeyondFacts, Zenon DEF AtMain, AtEnd
  <2>2. QED
    BY <1>2, <1>4, <2>1, Zenon DEF CarriedInv
<1>6. \A m \in Nodes :
       /\ pc'[m] = "init_fin" => pc[m] = "init_fin" /\ ev'[m] = ev[m]
       /\ pc'[m] = "main_pre" => ev'[m] = AllInit
       /\ pc'[m] = "waiting" => result[Final] # Unset /\ ev'[m] = result[Final]
       /\ pc'[m] \in AtMain => style # "NO_MAIN"
  BY <1>1, <1>2, <1>3, Zenon DEF AtMain, CarriedInv
<1>7. QED
  BY <1>4, <1>5, <1>6, Zenon DEF CarriedInv

-----------------------------------------------------------------------------
(* Tasks and shutdown.                                                     *)

LEMMA GatheredMeansAll ==
  ASSUME StartInv, CarriedInv, NEW c \in Collectives, Gathered(c)
  PROVE  AllCalled
BY BeyondFacts, Zenon DEF StartInv, CarriedInv, Gathered, AllCalled

(* What a step of the main threads before the shutdown preserves: results  *)
(* and preconditions appear only when every node is in run().              *)
LEMMA RestFrame ==
  ASSUME SpawnInv, StopInv, CodeInv, MainAfterInit,
         AllCalled => AllCalled',
         \A c \in Collectives : result'[c] # Unset => result[c] # Unset \/ AllCalled,
         \A t \in Tasks : /\ pre'[t] # Unset => pre[t] # Unset \/ AllCalled
                          /\ pre[t] # Unset => pre'[t] # Unset,
         \A m \in net' : m.type = "shutdown" => m \in net,
         \A n \in Nodes : /\ pc'[n] \in Stopping <=> pc[n] \in Stopping
                          /\ pc'[n] \in {"teardown", "exited"} => pc[n] \in {"teardown", "exited"},
         UNCHANGED <<done, stopVars>>
  PROVE  SpawnInv' /\ StopInv' /\ CodeInv' /\ MainAfterInit'
<1>1. SpawnInv'
  BY Zenon DEF SpawnInv
<1>2. UNCHANGED <<done, waiters, called, sd, code, shutdown_requested, shutdown_result_code>>
  BY Zenon DEF stopVars
<1>3. StopInv'
  <2>1. \A n \in Nodes : \A p \in ProcsOf(n) :
           pre[<<"shutdown", p>>] # Unset => pre'[<<"shutdown", p>>] # Unset
    BY ProcFacts, TaskFacts, Zenon
  <2>2. QED
    BY <1>2, <2>1, Zenon DEF StopInv
<1>4. CodeInv'
  BY <1>2, Zenon DEF CodeInv
<1>5. MainAfterInit'
  BY <1>2 DEF MainAfterInit
<1>6. QED
  BY <1>1, <1>3, <1>4, <1>5, Zenon

LEMMA RestSeeRequest ==
  ASSUME TypeOK, SpawnInv, StopInv, CodeInv, MainAfterInit, NEW n \in Nodes, SeeRequest(n)
  PROVE  SpawnInv' /\ StopInv' /\ CodeInv' /\ MainAfterInit'
<1>1. /\ \A m \in Nodes : m # n => pc'[m] = pc[m]
      /\ pc[n] = "waiting" /\ pc'[n] = "barrier" /\ shutdown_requested[n]
  BY Moved, Zenon DEF SeeRequest, Labels
<1>2. UNCHANGED <<net, run_method_called, result, pre, done, waiters, called, sd, code,
                  shutdown_requested, shutdown_result_code>>
  BY DEF SeeRequest, spawnVars, stopVars
<1>3. StopInv'
  BY <1>1, <1>2, Zenon DEF StopInv, AllCalled, Stopping
<1>4. QED
  BY <1>2, <1>3, Zenon DEF SpawnInv, CodeInv, MainAfterInit, AllCalled

LEMMA RestPassBarrier ==
  ASSUME TypeOK, SpawnInv, StopInv, CodeInv, MainAfterInit, NEW n \in Nodes, PassBarrier(n)
  PROVE  SpawnInv' /\ StopInv' /\ CodeInv' /\ MainAfterInit'
<1>1. /\ \A m \in Nodes : m # n => pc'[m] = pc[m]
      /\ pc[n] = "barrier" /\ pc'[n] = "teardown"
      /\ \A m \in Nodes : pc[m] \in Stopping
  BY Moved, Zenon DEF PassBarrier, Labels, Stopping
<1>2. UNCHANGED <<net, run_method_called, result, pre, done, waiters, called, sd, code,
                  shutdown_requested, shutdown_result_code>>
  BY DEF PassBarrier, spawnVars, stopVars
<1>3. StopInv'
  BY <1>1, <1>2, Zenon DEF StopInv, AllCalled, Stopping
<1>4. QED
  BY <1>2, <1>3, Zenon DEF SpawnInv, CodeInv, MainAfterInit, AllCalled

(* A main task waits for every init task.                                  *)
LEMMA RestTask ==
  ASSUME TypeOK, CarriedInv, SpawnInv, StopInv, CodeInv, MainAfterInit, NEW t \in Tasks, RunTask(t)
  PROVE  SpawnInv' /\ StopInv' /\ CodeInv' /\ MainAfterInit'
<1>1. UNCHANGED <<pc, net, run_method_called, result, pre, waiters, called, sd, code,
                  shutdown_requested, shutdown_result_code>>
  BY Zenon DEF RunTask, spawnVars, stopVars
<1>2. AllCalled /\ done' = done \cup {t}
  BY Zenon DEF RunTask, SpawnInv
<1>3. SpawnInv'
  BY <1>1, <1>2, Zenon DEF SpawnInv, AllCalled
<1>4. MainAfterInit'
  <2>1. ASSUME t[1] = "main"
        PROVE  AllInit \subseteq done
    <3>1. PICK p \in AllProcs : t = <<"main", p>>
      BY <2>1 DEF Tasks
    <3>2. pre[t] = AllInit
      BY <3>1, Zenon DEF CarriedInv, RunTask
    <3>3. QED
      BY <3>2, Zenon DEF RunTask
  <2>2. QED
    BY <1>2, <2>1 DEF MainAfterInit, AllInit, InitTasks
<1>5. QED
  BY <1>1, <1>3, <1>4, Zenon DEF StopInv, CodeInv, AllCalled

(* Some node's request: every node is in run(), and the state of the       *)
(* shutdown changes only where it has not begun.                           *)
LEMMA StopBegin ==
  ASSUME StopInv, AllCalled, called' # {}, called \subseteq called',
         UNCHANGED <<pc, run_method_called, pre, shutdown_requested>>,
         \A w \in waiters' : w[1] \in called',
         \A m \in Nodes : \/ sd'[m] = sd[m]
                          \/ sd[m] = "none" /\ sd'[m] \in {"notify", "spawn"}
  PROVE  StopInv'
BY Zenon DEF StopInv, AllCalled

LEMMA StopRuntimeShutdown ==
  ASSUME TypeOK, SpawnInv, StopInv, CodeInv, NEW n \in Nodes, NEW e, RuntimeShutdown(n, e)
  PROVE  StopInv' /\ CodeInv'
<1>1. /\ n \in Callers /\ n \notin called /\ called' = called \cup {n} /\ done # {}
      /\ UNCHANGED <<pc, net, run_method_called, pre, shutdown_requested, shutdown_result_code>>
  BY Zenon DEF RuntimeShutdown, spawnVars
<1>2. AllCalled
  BY <1>1, Zenon DEF SpawnInv
<1>3. \A m \in Nodes :
           \/ sd'[m] = sd[m] /\ code'[m] = code[m]
           \/ m = n /\ sd[m] = "none" /\ sd'[m] \in {"notify", "spawn"} /\ code'[m] = CodeOf[n]
  BY Zenon DEF RuntimeShutdown, Begin, TypeOK
<1>4. \A w \in waiters' : w[1] \in called'
  <2>1. waiters' \subseteq waiters \cup {<<n, e>>}
    BY Zenon DEF RuntimeShutdown
  <2>2. (\A w \in waiters : w[1] \in called) /\ <<n, e>>[1] = n
    BY Zenon DEF StopInv
  <2>3. QED
    BY <1>1, <2>1, <2>2
<1>5. StopInv'
  BY <1>1, <1>2, <1>3, <1>4, StopBegin, Zenon
<1>6. CodeInv'
  <2> SUFFICES ASSUME NEW c \in Callers, called' = {c}
               PROVE  /\ \A m \in net' : m.type = "shutdown" => m.code = CodeOf[c]
                      /\ \A k \in Nodes :
                           /\ sd'[k] # "none" => code'[k] = CodeOf[c]
                           /\ shutdown_requested'[k] => shutdown_result_code'[k] = CodeOf[c]
    BY Zenon DEF CodeInv
  <2>1. called = {} /\ c = n
    BY <1>1
  <2>2. /\ \A m \in net : m.type # "shutdown"
        /\ \A k \in Nodes : sd[k] = "none" /\ ~shutdown_requested[k]
    BY <2>1, Zenon DEF StopInv
  <2>3. QED
    BY <1>1, <1>3, <2>1, <2>2, Zenon
<1>7. QED
  BY <1>5, <1>6

LEMMA StopDeferred ==
  ASSUME TypeOK, StopInv, CodeInv, NEW w \in waiters, DeferredShutdown(w)
  PROVE  StopInv' /\ CodeInv'
<1>1. /\ w[1] \in Nodes /\ w[1] \in called /\ waiters' \subseteq waiters
      /\ UNCHANGED <<pc, net, run_method_called, pre, called, shutdown_requested,
                     shutdown_result_code>>
  BY Zenon DEF DeferredShutdown, spawnVars, StopInv, TypeOK
<1>2. \A m \in Nodes :
           \/ sd'[m] = sd[m] /\ code'[m] = code[m]
           \/ sd[m] = "none" /\ sd'[m] \in {"notify", "spawn"} /\ code'[m] = CodeOf[w[1]]
  BY <1>1, Zenon DEF DeferredShutdown, Begin, TypeOK
<1>3. StopInv'
  BY <1>1, <1>2, StopBegin, Zenon DEF StopInv
<1>4. CodeInv'
  BY <1>1, <1>2 DEF CodeInv
<1>5. QED
  BY <1>3, <1>4

LEMMA StopHandle ==
  ASSUME TypeOK, StopInv, CodeInv, NEW m \in net, HandleShutdown(m)
  PROVE  StopInv' /\ CodeInv'
<1>1. /\ m.to \in Nodes /\ m.type = "shutdown" /\ net' \subseteq net
      /\ UNCHANGED <<pc, run_method_called, pre, waiters, called, shutdown_requested,
                     shutdown_result_code>>
  BY Zenon DEF HandleShutdown, spawnVars, TypeOK
<1>2. \A k \in Nodes :
           \/ sd'[k] = sd[k] /\ code'[k] = code[k]
           \/ sd[k] = "none" /\ sd'[k] \in {"notify", "spawn"} /\ code'[k] = m.code
  BY <1>1, Zenon DEF HandleShutdown, Begin, TypeOK
<1>3. StopInv'
  BY <1>1, <1>2, StopBegin, Zenon DEF StopInv
<1>4. CodeInv'
  BY <1>1, <1>2 DEF CodeInv
<1>5. QED
  BY <1>3, <1>4

LEMMA StopNotify ==
  ASSUME TypeOK, StopInv, CodeInv, NEW n \in Nodes, NotifyOthers(n)
  PROVE  StopInv' /\ CodeInv'
<1>1. /\ sd[n] = "notify" /\ sd'[n] = "spawn"
      /\ \A k \in Nodes : k # n => sd'[k] = sd[k]
      /\ UNCHANGED <<pc, run_method_called, pre, waiters, called, code, shutdown_requested,
                     shutdown_result_code>>
  BY Zenon DEF NotifyOthers, spawnVars, TypeOK
<1>2. \A m \in net' : m \in net \/ m.code = code[n]
  <2>1. \A m \in ToOthers("shutdown", n, code[n]) : m.code = code[n]
    BY ToOthersFields
  <2>2. QED
    BY <2>1, Zenon DEF NotifyOthers
<1>3. called # {}
  BY <1>1, Zenon DEF StopInv
<1>4. StopInv'
  BY <1>1, <1>3, Zenon DEF StopInv, AllCalled
<1>5. CodeInv'
  BY <1>1, <1>2, ZenonT(60) DEF CodeInv
<1>6. QED
  BY <1>4, <1>5

(* The legacy shutdown tasks are spawned, since run() has been called.     *)
LEMMA StopSpawn ==
  ASSUME TypeOK, StopInv, CodeInv, NEW n \in Nodes, SpawnShutdownTasks(n)
  PROVE  /\ StopInv' /\ CodeInv'
         /\ \A t \in Tasks : t[1] # "shutdown" => pre'[t] = pre[t]
<1>1. /\ sd[n] = "spawn" /\ sd'[n] = "flag"
      /\ \A k \in Nodes : k # n => sd'[k] = sd[k]
      /\ UNCHANGED <<pc, net, run_method_called, waiters, called, code, shutdown_requested,
                     shutdown_result_code>>
  BY Zenon DEF SpawnShutdownTasks, TypeOK
<1>2. called # {} /\ AllCalled
  BY <1>1, Zenon DEF StopInv
<1>3. Spawned("shutdown", ProcsOf(n), {})
  BY <1>2 DEF SpawnShutdownTasks, AllCalled
<1>4. \A t \in Tasks :
         \/ t[1] = "shutdown" /\ t[2] \in ProcsOf(n) /\ pre'[t] = {}
         \/ ~(t[1] = "shutdown" /\ t[2] \in ProcsOf(n)) /\ pre'[t] = pre[t]
  BY <1>3, SpawnedFacts, EventFacts, Zenon
<1>5. \A p \in AllProcs : /\ p \in ProcsOf(n) => pre'[<<"shutdown", p>>] # Unset
                          /\ pre[<<"shutdown", p>>] # Unset => pre'[<<"shutdown", p>>] # Unset
  <2>1. {} # Unset
    BY EventFacts
  <2>2. QED
    BY <1>4, <2>1, TaskFacts, Zenon
<1>6. StopInv'
  BY <1>1, <1>2, <1>5, ProcFacts, Zenon DEF StopInv, AllCalled
<1>7. CodeInv'
  BY <1>1, Zenon DEF CodeInv
<1>8. QED
  BY <1>4, <1>6, <1>7, Zenon

LEMMA StopRequested ==
  ASSUME TypeOK, StopInv, CodeInv, NEW n \in Nodes, SetRequested(n)
  PROVE  StopInv' /\ CodeInv'
<1>1. /\ sd[n] = "flag" /\ sd'[n] = "end"
      /\ shutdown_requested'[n] /\ shutdown_result_code'[n] = code[n]
      /\ \A k \in Nodes : k # n => /\ sd'[k] = sd[k]
                                   /\ shutdown_requested'[k] = shutdown_requested[k]
                                   /\ shutdown_result_code'[k] = shutdown_result_code[k]
  BY Zenon DEF SetRequested, TypeOK
<1>2. UNCHANGED <<pc, net, run_method_called, pre, waiters, called, code>>
  BY Zenon DEF SetRequested, spawnVars
<1>3. StopInv'
  BY <1>1, <1>2, Zenon DEF StopInv, AllCalled
<1>4. CodeInv'
  BY <1>1, <1>2 DEF CodeInv
<1>5. QED
  BY <1>3, <1>4
-----------------------------------------------------------------------------
(* The invariant.                                                          *)

(* RuntimeInv but for what follows from the rest of it.                    *)
Core ==
  /\ TypeOK /\ StartInv /\ CarriedInv
  /\ SpawnInv /\ StopInv /\ CodeInv /\ MainAfterInit

(* Starting and stopping a node.                                           *)
LEMMA CoreStartup ==
  ASSUME Core, NEW n \in Nodes,
         \/ AttachBarrier \/ StartPollingThreads(n) \/ StartHandlerThreads(n)
         \/ SendAnnouncements(n) \/ AwaitAnnouncements(n) \/ StopAndExit(n)
  PROVE  Core' /\ aborted' = aborted
<1> USE DEF Core
<1>1. TypeOK'
  BY TypeStart, SMTT(30)
<1>2. \A m \in Nodes :
        \/ pc'[m] = pc[m]
        \/ pc[m] = "attach" /\ pc'[m] = "attached"
        \/ pc[m] = "attached" /\ pc'[m] = "polling"
        \/ pc[m] = "polling" /\ pc'[m] = "handling"
        \/ pc[m] = "handling" /\ pc'[m] = "announced"
        \/ pc[m] = "announced" /\ pc'[m] = "ready"
        \/ pc[m] = "teardown" /\ pc'[m] = "exited"
  BY Zenon DEF TypeOK, AttachBarrier, StartPollingThreads, StartHandlerThreads,
         SendAnnouncements, AwaitAnnouncements, StopAndExit, Step
<1>3. /\ UNCHANGED <<style, aborted, known, run_method_called, ev, given, result, pre, done, stopVars>>
      /\ \A m \in net' : m.type = "shutdown" => m \in net
  <2>1. \A m \in ToOthers("announce", n, Unset) : m.type # "shutdown"
    BY ToOthersFields, SMTT(30)
  <2>2. QED
    BY <2>1, Zenon DEF AttachBarrier, StartPollingThreads, StartHandlerThreads,
         SendAnnouncements, AwaitAnnouncements, StopAndExit, startVars, spawnVars
<1>4. StartInv'
  <2>1. CASE StopAndExit(n)
    <3>1. net' = net
      BY <2>1 DEF StopAndExit
    <3>2. \A m \in Nodes : pc'[m] = pc[m] \/ (pc[m] \in InRun /\ pc'[m] \in InRun)
      BY <2>1, Zenon DEF StopAndExit, Step, TypeOK, InRun, Announced, Labels
    <3>3. QED
      BY <1>3, <3>1, <3>2, StartFrame, Zenon
  <2>2. QED
    BY <2>1, StartAttach, StartThreads, StartAnnounce, StartAwait
<1>5. CarriedInv'
  <2>1. \A m \in Nodes :
          \/ pc'[m] = pc[m]
          \/ /\ \A c \in Collectives : pc[m] \notin Beyond[c] \/ pc'[m] \in Beyond[c]
             /\ pc'[m] \notin {"init_fin", "waiting"} \cup AtMain
    BY <1>2, BeyondFacts DEF AtMain, AtEnd
  <2>2. QED
    BY <1>3, <2>1, CarriedFrame, Zenon
<1>6. SpawnInv' /\ StopInv' /\ CodeInv' /\ MainAfterInit'
  <2>1. \A m \in Nodes :
          /\ pc'[m] \in Stopping <=> pc[m] \in Stopping
          /\ pc'[m] \in {"teardown", "exited"} => pc[m] \in {"teardown", "exited"}
    BY <1>2, Zenon DEF Stopping
  <2>2. AllCalled' = AllCalled
    BY <1>3, Zenon DEF AllCalled
  <2>3. QED
    BY <1>3, <2>1, <2>2, RestFrame, Zenon
<1>7. QED
  BY <1>1, <1>3, <1>4, <1>5, <1>6

(* The assertion can fail only while every node is still starting.         *)
LEMMA CoreAnnouncement ==
  ASSUME Core, ~aborted, NEW m \in net, HandleAnnouncement(m)
  PROVE  Core' /\ AbortsOnlyAtStartup'
<1> USE DEF Core
<1>1. /\ UNCHANGED <<style, pc, run_method_called, ev, given, result, pre, done, stopVars>>
      /\ net' \subseteq net
  BY Zenon DEF HandleAnnouncement, spawnVars
<1>2. CarriedInv'
  BY <1>1, CarriedFrame, Zenon
<1>3. SpawnInv' /\ StopInv' /\ CodeInv' /\ MainAfterInit'
  <2>1. AllCalled' = AllCalled
    BY <1>1, Zenon DEF AllCalled
  <2>2. QED
    BY <1>1, <2>1, RestFrame, Zenon
<1>4. ASSUME aborted', NEW n \in Nodes
      PROVE  pc[n] \in {"attached", "polling", "handling", "announced"}
  <2>1. m.to \in Nodes /\ pc[m.to] = "polling"
    BY <1>4, StartHandle, Zenon DEF TypeOK
  <2>2. pc[n] # "attach"
    BY <2>1, Zenon DEF StartInv
  <2>3. pc[n] \notin InRun \cup {"ready"}
    BY <2>1, Zenon DEF StartInv, Announced, InRun
  <2>4. QED
    BY <2>2, <2>3, Zenon DEF TypeOK, InRun, Announced, Labels
<1>5. QED
  BY <1>1, <1>2, <1>3, <1>4, TypeHandleAnnouncement, StartHandle, Zenon DEF AbortsOnlyAtStartup, Past

(* The steps of run() move a main thread within it, and leave what the     *)
(* shutdown looks at alone.                                                *)
LEMMA CoreRunFrame ==
  ASSUME Core, TypeOK', StartInv', CarriedInv',
         \A m \in Nodes : /\ pc'[m] \in Stopping <=> pc[m] \in Stopping
                          /\ pc'[m] \in {"teardown", "exited"} => pc[m] \in {"teardown", "exited"},
         AllCalled => AllCalled',
         UNCHANGED <<net, startVars, done, stopVars>>,
         \A c \in Collectives : result'[c] # Unset => result[c] # Unset \/ AllCalled,
         \A t \in Tasks : /\ pre'[t] # Unset => pre[t] # Unset \/ AllCalled
                          /\ pre[t] # Unset => pre'[t] # Unset
  PROVE  Core' /\ aborted' = aborted
<1>1. SpawnInv' /\ StopInv' /\ CodeInv' /\ MainAfterInit'
  BY RestFrame, Zenon DEF Core
<1>2. QED
  BY <1>1, Zenon DEF Core, startVars

LEMMA CoreRun ==
  ASSUME Core, NEW n \in Nodes, Run(n)
  PROVE  Core' /\ aborted' = aborted
<1>1. TypeOK' /\ StartInv' /\ CarriedInv'
  BY TypeRun, StartRun, CarriedRun DEF Core
<1>2. /\ \A m \in Nodes : m # n => pc'[m] = pc[m]
      /\ pc[n] = "ready" /\ pc'[n] = "init_pre"
  BY Moved, ZenonT(60) DEF Run, Labels, Core
<1>3. AllCalled => AllCalled'
  BY Zenon DEF Run, AllCalled, Core, TypeOK
<1>4. QED
  BY <1>1, <1>2, <1>3, CoreRunFrame, Zenon DEF Run, Stopping

LEMMA CoreContribute ==
  ASSUME Core, NEW n \in Nodes, NEW c \in Collectives, Contribute(n, c)
  PROVE  Core' /\ aborted' = aborted
<1>0. {c, After(c)} \subseteq InRun \ Stopping /\ InRun \subseteq Labels
  BY DEF After, Collectives, InRun, Announced, Labels, Stopping
<1>1. /\ \A m \in Nodes : m # n => pc'[m] = pc[m]
      /\ pc[n] = c /\ pc'[n] = After(c)
  BY <1>0, Moved, Zenon DEF Contribute, Core
<1>2. UNCHANGED <<net, startVars, run_method_called, result, pre, done, stopVars>>
  BY Zenon DEF Contribute
<1>3. TypeOK' /\ CarriedInv'
  BY TypeContribute, CarriedContribute DEF Core
<1>4. StartInv'
  BY <1>0, <1>1, <1>2, StartFrame, Zenon DEF Core, startVars
<1>5. AllCalled' = AllCalled
  BY <1>2, Zenon DEF AllCalled
<1>6. \A m \in Nodes : /\ pc'[m] \in Stopping <=> pc[m] \in Stopping
                       /\ pc'[m] \in {"teardown", "exited"} => pc[m] \in {"teardown", "exited"}
  BY <1>0, <1>1, Zenon DEF Stopping
<1>7. QED
  BY <1>2, <1>3, <1>4, <1>5, <1>6, CoreRunFrame, Zenon

LEMMA CoreRoot ==
  ASSUME Core, RootStep
  PROVE  Core' /\ aborted' = aborted
<1>0. TypeOK'
  BY TypeRoot DEF Core
<1>1. ASSUME NEW c \in Collectives, MergeAndBroadcast(c)
      PROVE  Core' /\ aborted' = aborted
  <2>1. UNCHANGED <<pc, net, startVars, run_method_called, pre, done, stopVars>>
    BY <1>1, Zenon DEF MergeAndBroadcast
  <2>2. AllCalled /\ AllCalled' = AllCalled
    BY <1>1, <2>1, GatheredMeansAll, Zenon DEF MergeAndBroadcast, Core, AllCalled
  <2>3. StartInv' /\ CarriedInv'
    BY <1>1, <2>1, StartFrame, CarriedMerge, Zenon DEF Core, startVars
  <2>4. QED
    BY <1>0, <2>1, <2>2, <2>3, CoreRunFrame, Zenon
<1>2. ASSUME CollectiveSpawnRoot
      PROVE  Core' /\ aborted' = aborted
  <2>1. UNCHANGED <<pc, net, startVars, run_method_called, done, stopVars>>
    BY <1>2, Zenon DEF CollectiveSpawnRoot
  <2>2. AllCalled /\ AllCalled' = AllCalled
    BY <1>2, <2>1, GatheredMeansAll, Zenon DEF CollectiveSpawnRoot, Core, AllCalled, Collectives
  <2>3. StartInv' /\ CarriedInv'
    BY <1>2, <2>1, StartFrame, CarriedSpawnRoot, Zenon DEF Core, startVars
  <2>4. Merged("main_pre") \in Events /\ Spawned("main", {Procs[0][1]}, Merged("main_pre"))
    BY <1>2, GatherType, Zenon DEF CollectiveSpawnRoot, Collectives, Core
  <2>5. \A t \in Tasks : pre'[t] = Merged("main_pre") \/ pre'[t] = pre[t]
    BY <2>4, SpawnedFacts DEF Core
  <2>6. \A t \in Tasks : pre[t] # Unset => pre'[t] # Unset
    BY <2>4, <2>5, EventFacts, Zenon
  <2>7. QED
    BY <1>0, <2>1, <2>2, <2>3, <2>6, CoreRunFrame, Zenon
<1>3. QED
  BY <1>1, <1>2 DEF RootStep, Collectives

LEMMA CoreSpawn ==
  ASSUME Core, NEW n \in Nodes, NEW kind \in {"init", "main"}, NEW one \in BOOLEAN,
         SpawnByKind(n, kind, one), kind = "init" => ~one
  PROVE  Core' /\ aborted' = aborted
<1> DEFINE d == IF kind = "init" THEN "init_pre" ELSE "main_pre"
<1>1. /\ \A m \in Nodes : m # n => pc'[m] = pc[m]
      /\ pc[n] \in {"init_wait", "main_wait"} /\ pc'[n] \in {"init_fin", "main_fin"}
  BY Moved, ZenonT(60) DEF SpawnByKind, Labels, After, Core
<1>2. UNCHANGED <<net, startVars, run_method_called, result, done, stopVars>>
  BY Zenon DEF SpawnByKind
<1>3. d \in Collectives /\ result[d] \in Events /\ result[d] # Unset
  BY Zenon DEF TypeOK, SpawnByKind, Collectives, Core
<1>4. AllCalled /\ AllCalled' = AllCalled
  BY <1>2, <1>3, Zenon DEF AllCalled, Core, SpawnInv
<1>5. TypeOK' /\ CarriedInv'
  BY TypeSpawn, CarriedSpawn DEF Core
<1>6. StartInv'
  <2>1. \A m \in Nodes : pc'[m] = pc[m] \/ (pc[m] \in InRun /\ pc'[m] \in InRun)
    BY <1>1, Zenon DEF InRun, Announced, Labels
  <2>2. QED
    BY <1>2, <2>1, StartFrame, Zenon DEF Core, startVars
<1>7. \A t \in Tasks : pre[t] # Unset => pre'[t] # Unset
  <2>1. Spawned(kind, Reached(n, one), result[d])
    BY Zenon DEF SpawnByKind
  <2>2. \A t \in Tasks : pre'[t] = result[d] \/ pre'[t] = pre[t]
    BY <1>3, <2>1, SpawnedFacts DEF Core
  <2>3. QED
    BY <1>3, <2>2, Zenon
<1>8. \A m \in Nodes : /\ pc'[m] \in Stopping <=> pc[m] \in Stopping
                       /\ pc'[m] \in {"teardown", "exited"} => pc[m] \in {"teardown", "exited"}
  BY <1>1, Zenon DEF Stopping
<1>9. QED
  BY <1>2, <1>4, <1>5, <1>6, <1>7, <1>8, CoreRunFrame, Zenon

LEMMA CoreReceive ==
  ASSUME Core, NEW n \in Nodes,
         \/ style = "NO_MAIN" /\ ReceiveEvent(n, "init_fin", "init_end", "waiting")
         \/ style # "NO_MAIN" /\ ReceiveEvent(n, "init_fin", "init_end", "main_pre")
         \/ style = "ONE_TASK_ONLY" /\ ReceiveEvent(n, "main_fin", "main_wait", "waiting")
         \/ ReceiveEvent(n, "main_fin", "main_end", "waiting")
  PROVE  Core' /\ aborted' = aborted
<1>1. CarriedInv'
  BY CarriedReceive, Zenon DEF Core
<1>2. PICK c \in {"init_fin", "main_fin"}, from \in {"init_end", "main_wait", "main_end"},
           to \in {"waiting", "main_pre"} : ReceiveEvent(n, c, from, to)
  OBVIOUS
<1>3. c \in Collectives /\ {from, to} \subseteq InRun \ Stopping /\ InRun \subseteq Labels
  BY Zenon DEF Collectives, InRun, Announced, Labels, Stopping
<1>4. /\ \A m \in Nodes : m # n => pc'[m] = pc[m]
      /\ pc[n] = from /\ pc'[n] = to
  BY <1>2, <1>3, Moved, Zenon DEF ReceiveEvent, Core
<1>5. UNCHANGED <<net, startVars, run_method_called, result, pre, done, stopVars>>
  BY <1>2, Zenon DEF ReceiveEvent
<1>6. TypeOK'
  BY <1>2, <1>3, TypeReceive, Zenon DEF Core
<1>7. StartInv'
  BY <1>3, <1>4, <1>5, StartFrame, Zenon DEF Core, startVars
<1>8. AllCalled' = AllCalled
  BY <1>5, Zenon DEF AllCalled
<1>9. \A m \in Nodes : /\ pc'[m] \in Stopping <=> pc[m] \in Stopping
                       /\ pc'[m] \in {"teardown", "exited"} => pc[m] \in {"teardown", "exited"}
  BY <1>3, <1>4, Zenon DEF Stopping
<1>10. QED
  BY <1>1, <1>5, <1>6, <1>7, <1>8, <1>9, CoreRunFrame, Zenon

(* Seeing the request and passing the barrier.                             *)
LEMMA CoreWait ==
  ASSUME Core, NEW n \in Nodes, SeeRequest(n) \/ PassBarrier(n)
  PROVE  Core' /\ aborted' = aborted
<1>1. /\ \A m \in Nodes : m # n => pc'[m] = pc[m]
      /\ pc[n] \in {"waiting", "barrier"} /\ pc'[n] \in {"barrier", "teardown"}
  BY Moved, ZenonT(60) DEF SeeRequest, PassBarrier, Labels, Core
<1>2. UNCHANGED <<style, net, startVars, run_method_called, spawnVars>>
  BY Zenon DEF SeeRequest, PassBarrier
<1>3. StartInv'
  <2>1. \A m \in Nodes : pc'[m] = pc[m] \/ (pc[m] \in InRun /\ pc'[m] \in InRun)
    BY <1>1, Zenon DEF InRun, Announced, Labels
  <2>2. QED
    BY <1>2, <2>1, StartFrame, Zenon DEF Core, startVars
<1>4. CarriedInv'
  <2>1. \A m \in Nodes :
          \/ pc'[m] = pc[m]
          \/ /\ \A c \in Collectives : pc[m] \notin Beyond[c] \/ pc'[m] \in Beyond[c]
             /\ pc'[m] \notin {"init_fin", "waiting"} \cup AtMain
    BY <1>1, BeyondFacts, Zenon DEF AtMain, AtEnd
  <2>2. QED
    BY <1>2, <2>1, CarriedFrame, Zenon DEF Core, spawnVars
<1>5. QED
  BY <1>2, <1>3, <1>4, TypeStart, RestSeeRequest, RestPassBarrier, Zenon DEF Core, startVars

LEMMA CoreTask ==
  ASSUME Core, NEW t \in Tasks, RunTask(t)
  PROVE  Core' /\ aborted' = aborted
<1>1. UNCHANGED <<style, pc, net, startVars, run_method_called, ev, given, result, pre>>
  BY Zenon DEF RunTask, spawnVars
<1>2. StartInv' /\ CarriedInv'
  BY <1>1, StartFrame, CarriedFrame, Zenon DEF Core, startVars
<1>3. QED
  BY <1>1, <1>2, TypeTask, RestTask, Zenon DEF Core, startVars

(* RuntimeImpl::shutdown.                                                  *)
LEMMA CoreShutdown ==
  ASSUME Core, NEW n \in Nodes,
         \/ RuntimeShutdown(n, {}) \/ RuntimeShutdown(n, MainTasks(n))
         \/ ShutdownStep(n)
         \/ \E m \in net : HandleShutdown(m)
         \/ \E w \in waiters : DeferredShutdown(w)
  PROVE  Core' /\ aborted' = aborted
<1>1. TypeOK'
  BY TypeStop, Zenon DEF Core
<1>2. StopInv' /\ CodeInv'
  BY StopRuntimeShutdown, StopDeferred, StopHandle, StopNotify, StopSpawn, StopRequested, Zenon
     DEF Core, ShutdownStep
<1>3. UNCHANGED <<style, pc, startVars, run_method_called, ev, given, result, done>>
  BY Zenon DEF RuntimeShutdown, ShutdownStep, HandleShutdown, DeferredShutdown, NotifyOthers,
         SpawnShutdownTasks, SetRequested, spawnVars
<1>4. \A m \in net' : m.type = "announce" => m \in net
  <2>1. \A m \in ToOthers("shutdown", n, code[n]) : m.type # "announce"
    BY ToOthersFields
  <2>2. QED
    BY <2>1, Zenon DEF RuntimeShutdown, ShutdownStep, HandleShutdown, DeferredShutdown, NotifyOthers,
                SpawnShutdownTasks, SetRequested
<1>5. \A t \in Tasks : t[1] # "shutdown" => pre'[t] = pre[t]
  BY StopSpawn, Zenon DEF Core, RuntimeShutdown, ShutdownStep, HandleShutdown, DeferredShutdown, NotifyOthers,
                   SetRequested, spawnVars
<1>6. StartInv'
  BY <1>3, <1>4, StartFrame, Zenon DEF Core, startVars
<1>7. CarriedInv'
  <2>1. \A p \in AllProcs : pre'[<<"main", p>>] = pre[<<"main", p>>]
    BY <1>5, TaskFacts, Zenon
  <2>2. QED
    BY <1>3, <2>1, CarriedFrame, Zenon DEF Core
<1>8. SpawnInv' /\ MainAfterInit'
  BY <1>3, <1>5, Zenon DEF Core, SpawnInv, MainAfterInit, AllCalled
<1>9. QED
  BY <1>1, <1>2, <1>3, <1>6, <1>7, <1>8, Zenon DEF Core, startVars

LEMMA InitCore == Init => Core
<1> SUFFICES ASSUME Init
             PROVE  Core
  OBVIOUS
<1>1. TypeOK
  BY EventFacts, Zenon DEF Init, TypeOK, Labels, Codes, Tasks
<1>2. StartInv
  BY Zenon DEF Init, StartInv, InRun, Announced
<1>3. CarriedInv
  BY TaskFacts, Zenon DEF Init, CarriedInv, Collectives, AtMain
<1>4. SpawnInv /\ MainAfterInit
  BY Zenon DEF Init, SpawnInv, MainAfterInit
<1>5. StopInv /\ CodeInv
  BY Zenon DEF Init, StopInv, CodeInv, Stopping
<1>6. QED
  BY <1>1, <1>2, <1>3, <1>4, <1>5 DEF Core

(* When two nodes wait, each carries the broadcast result.                 *)
LEMMA CoreAgrees == Core => EventsAgree
BY Zenon DEF Core, CarriedInv, EventsAgree, Past

LEMMA RuntimeStep == RuntimeInv /\ [Next]_vars => RuntimeInv'
<1> SUFFICES ASSUME RuntimeInv, [Next]_vars
             PROVE  RuntimeInv'
  OBVIOUS
<1>0. Core
  BY DEF RuntimeInv, Core
<1> SUFFICES Core' /\ AbortsOnlyAtStartup'
  <2>1. Core => EventsAgree
    BY CoreAgrees
  <2>2. (Core => EventsAgree)'
    BY CoreAgrees, PTL
  <2>3. QED
    BY <2>2, Zenon DEF RuntimeInv, Core
<1>1. CASE Next
  <2>0. ~aborted
    BY <1>1, Zenon DEF Next
  <2>1. ASSUME aborted' = aborted
        PROVE  AbortsOnlyAtStartup'
    BY <2>0, <2>1 DEF AbortsOnlyAtStartup
  <2>2. ASSUME NEW n \in Nodes, MainThread(n)
        PROVE  Core' /\ aborted' = aborted
    <3>1. ASSUME NEW c \in Collectives, Contribute(n, c)
          PROVE  Core' /\ aborted' = aborted
      BY <1>0, <3>1, CoreContribute, Zenon
    <3>2. CASE RunStep(n)
      BY <1>0, <3>1, <3>2, CoreRun, CoreSpawn, CoreReceive, Zenon DEF RunStep, Collectives
    <3>3. QED
      BY <1>0, <2>2, <3>2, CoreStartup, CoreWait, Zenon DEF MainThread
  <2>3. ASSUME NEW n \in Nodes, ShutdownStep(n) \/ RuntimeShutdown(n, {}) \/ RuntimeShutdown(n, MainTasks(n))
        PROVE  Core' /\ aborted' = aborted
    BY <1>0, <2>3, CoreShutdown, Zenon
  <2>4. ASSUME NEW m \in net, Deliver(m)
        PROVE  Core' /\ AbortsOnlyAtStartup'
    BY <1>0, <2>0, <2>1, <2>4, CoreAnnouncement, CoreShutdown, RuntimeAssumption, Zenon DEF Deliver
  <2>5. ASSUME NEW w \in waiters, DeferredShutdown(w)
        PROVE  Core' /\ aborted' = aborted
    BY <1>0, <2>5, CoreShutdown, RuntimeAssumption, Zenon
  <2>6. CASE AttachBarrier
    BY <1>0, <2>1, <2>6, CoreStartup, RuntimeAssumption, Zenon
  <2>7. CASE RootStep
    BY <1>0, <2>1, <2>7, CoreRoot, Zenon
  <2>8. ASSUME NEW t \in Tasks, RunTask(t)
        PROVE  Core' /\ aborted' = aborted
    BY <1>0, <2>8, CoreTask, Zenon
  <2>9. QED
    BY <1>1, <2>1, <2>2, <2>3, <2>4, <2>5, <2>6, <2>7, <2>8, Zenon DEF Next
<1>2. CASE UNCHANGED vars
  <2>1. TypeOK' /\ StartInv' /\ AbortsOnlyAtStartup'
    BY <1>2, Zenon DEF vars, RuntimeInv, TypeOK, StartInv, AbortsOnlyAtStartup, Past
  <2>2. CarriedInv'
    BY <1>0, <1>2, CarriedFrame, Zenon DEF vars, Core
  <2>3. SpawnInv' /\ StopInv' /\ CodeInv' /\ MainAfterInit'
    BY <1>0, <1>2, ZenonT(60) DEF vars, Core, SpawnInv, StopInv, CodeInv, MainAfterInit, AllCalled
  <2>4. QED
    BY <2>1, <2>2, <2>3, Zenon DEF Core
<1>3. QED
  BY <1>1, <1>2

(***************************************************************************)
(* RuntimeInv is inductive: it holds through startup, run and shutdown for *)
(* any number of nodes, any processors and any callers.                    *)
(***************************************************************************)
THEOREM RuntimeInvariant == Spec => []RuntimeInv
<1>1. Init => RuntimeInv
  <2>1. Init => AbortsOnlyAtStartup
    BY DEF Init, AbortsOnlyAtStartup
  <2>2. QED
    BY <2>1, InitCore, CoreAgrees DEF RuntimeInv, Core
<1>2. QED
  BY <1>1, RuntimeStep, PTL DEF Spec

(***************************************************************************)
(* run() starts no main task anywhere before the init task of every        *)
(* processor of every node has finished.                                   *)
(***************************************************************************)
THEOREM MainTasksWait == Spec => []MainAfterInit
<1>1. RuntimeInv => MainAfterInit
  BY DEF RuntimeInv
<1>2. QED
  BY <1>1, RuntimeInvariant, PTL

(***************************************************************************)
(* wait_for_shutdown tears nothing down before every node has the request, *)
(* and a node that has it has spawned its legacy shutdown tasks.           *)
(***************************************************************************)
THEOREM TeardownWaits == Spec => []ShutdownOrderly
<1>1. RuntimeInv => ShutdownOrderly
  BY Zenon DEF RuntimeInv, StopInv, ShutdownOrderly, Past, Stopping
<1>2. QED
  BY <1>1, RuntimeInvariant, PTL

(***************************************************************************)
(* While the tasks of one node have asked for the shutdown, every node     *)
(* that has the request will exit with the code given there.               *)
(***************************************************************************)
THEOREM OneResultCode == Spec => []ResultAgreed
<1>1. RuntimeInv => ResultAgreed
  BY Zenon DEF RuntimeInv, CodeInv, ResultAgreed
<1>2. QED
  BY <1>1, RuntimeInvariant, PTL
=============================================================================
