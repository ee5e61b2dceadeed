------------------------ MODULE NodeDeployerProofs ------------------------
(***************************************************************************)
(* Proofs that the reconciler keeps its types and the inductive invariant  *)
(* IInv of module NodeDeployer, for every number of Nodes, Pods, versions  *)
(* in flight, edits and faults.                                            *)
(***************************************************************************)
EXTENDS NodeDeployer, SequenceTheorems, TLAPS

-----------------------------------------------------------------------------
(* Type correctness.                                                       *)

\* A write appends a version of the right kind to one log.
LEMMA NodeWriteType ==
    ASSUME TypeOK, NEW n \in Nodes, NEW o \in NodeObj \cup {None},
           NodeWrite(n, o)
    PROVE  /\ node' \in [Nodes -> NodeObj \cup {None}]
           /\ nodeLog' \in [Nodes -> Seq(NodeObj \cup {None})]
           /\ current' \in SUBSET Nodes
  BY DEF TypeOK, ClusterTypeOK, NodeWrite

LEMMA PodWriteType ==
    ASSUME TypeOK, NEW n \in Nodes, NEW p \in PodObj \cup {None},
           PodWrite(n, p)
    PROVE  /\ pod' \in [Nodes -> PodObj \cup {None}]
           /\ podLog' \in [Nodes -> Seq(PodObj \cup {None})]
  BY DEF TypeOK, ClusterTypeOK, PodWrite

LEMMA PodRemoveType ==
    ASSUME TypeOK, NEW n \in Nodes, pod[n] # None, PodRemove(n)
    PROVE  /\ pod' \in [Nodes -> PodObj \cup {None}]
           /\ podLog' \in [Nodes -> Seq(PodObj \cup {None})]
           /\ device' \in [Nodes -> DeviceStates]
  <1>1. pod[n] \in PodObj
    BY DEF TypeOK, ClusterTypeOK
  <1>2. [pod[n] EXCEPT !.terminating = TRUE] \in PodObj
    BY <1>1 DEF PodObj
  <1>3. CASE PodWrite(n, None) /\ device' = [device EXCEPT ![n] = "down"]
    BY <1>3, PodWriteType DEF TypeOK, ClusterTypeOK, DeviceStates
  <1>4. CASE PodWrite(n, [pod[n] EXCEPT !.terminating = TRUE]) /\ UNCHANGED device
    BY <1>2, <1>4, PodWriteType DEF TypeOK, ClusterTypeOK
  <1>5. CASE UNCHANGED <<pod, podLog, device>>
    BY <1>5 DEF TypeOK, ClusterTypeOK
  <1> QED
    BY <1>3, <1>4, <1>5 DEF PodRemove

LEMMA BudgetType ==
    ASSUME TypeOK, Edit \/ Fault \/ NoBudget
    PROVE  /\ edits' \in 0..MaxEdits
           /\ faults' \in 0..MaxFaults
           /\ strangers' \in SUBSET (Nodes \X (Revisions \cup {None}))
           /\ faults <= faults' /\ UNCHANGED strangers
  BY BoundAssumption DEF TypeOK, ClusterTypeOK, Edit, Fault, NoBudget, budget

LEMMA IdleType == Idle \in Worker
  BY DEF Idle, Worker, Steps, Conditions

\* The operators of module Cluster and NodeDeployer that a step leaves alone.
LEMMA FrameType ==
    ASSUME TypeOK, UNCHANGED vars
    PROVE  TypeOK'
  BY DEF TypeOK, ClusterTypeOK, vars, nodeVars, podVars, extVars, budget

LEMMA UsersType ==
    ASSUME TypeOK, Users, UNCHANGED <<worker, nadOn>>
    PROVE  TypeOK'
  <1> USE DEF TypeOK, ClusterTypeOK, nodeVars, podVars, extVars, budget
  <1>1. ASSUME NEW n \in Nodes, NEW u \in Uids, NEW s \in Specs,
               NEW fs \in FinalizerSets, CreateNode(n, u, s, fs)
        PROVE  TypeOK'
    <2>1. [uid |-> u, spec |-> s, deleting |-> FALSE, finalizers |-> fs,
           status |-> "Unknown"] \in NodeObj
      BY FinalizersAssumption DEF NodeObj, Conditions
    <2> QED
      BY <1>1, <2>1, NodeWriteType, BudgetType DEF CreateNode
  <1>2. ASSUME NEW n \in Nodes, NEW s \in Specs, EditNode(n, s)
        PROVE  TypeOK'
    <2>1. [node[n] EXCEPT !.spec = s] \in NodeObj
      BY <1>2 DEF EditNode, NodeObj
    <2> QED
      BY <1>2, <2>1, NodeWriteType, BudgetType DEF EditNode
  <1>3. ASSUME NEW n \in Nodes, DeleteNode(n)
        PROVE  TypeOK'
    <2>1. [node[n] EXCEPT !.deleting = TRUE] \in NodeObj
      BY <1>3 DEF DeleteNode, NodeObj
    <2> QED
      BY <1>3, <2>1, NodeWriteType, BudgetType DEF DeleteNode
  <1>4. ASSUME NEW n \in Nodes, ReleaseNode(n)
        PROVE  TypeOK'
    <2>1. WithoutFinalizer(node[n], "other") \in NodeObj \cup {None}
      BY <1>4 DEF ReleaseNode, WithoutFinalizer, NodeObj
    <2> QED
      BY <1>4, <2>1, NodeWriteType, BudgetType DEF ReleaseNode
  <1>5. ASSUME NEW s \in Specs, NEW r \in Revisions \cup {None}, EditConfig(s, r)
        PROVE  TypeOK'
    BY <1>5, BudgetType DEF EditConfig
  <1>6. ASSUME NEW n \in Nodes, UserDeletesPod(n)
        PROVE  TypeOK'
    BY <1>6, PodRemoveType, BudgetType DEF UserDeletesPod
  <1>7. ASSUME NEW n \in Nodes, NEW p \in PodIds, NEW h \in ForeignHashes,
               UserCreatesPod(n, p, h)
        PROVE  TypeOK'
    <2>1. h \in Revisions \cup {None}
      BY ForeignAssumption
    <2>2. [id |-> p, owner |-> None, hash |-> h, state |-> "empty",
           terminating |-> FALSE] \in PodObj
      BY <2>1 DEF PodObj, PodStates
    <2>3. edits' \in 0..MaxEdits
      BY <1>7, BoundAssumption DEF UserCreatesPod
    <2>4. strangers' \in SUBSET (Nodes \X (Revisions \cup {None}))
      BY <1>7, <2>1 DEF UserCreatesPod
    <2> QED
      BY <1>7, <2>2, <2>3, <2>4, PodWriteType DEF UserCreatesPod
  <1> QED
    BY <1>1, <1>2, <1>3, <1>4, <1>5, <1>6, <1>7 DEF Users

LEMMA PlatformType ==
    ASSUME TypeOK, Platform, UNCHANGED <<worker, nadOn>>
    PROVE  TypeOK'
  <1> USE DEF TypeOK, ClusterTypeOK, nodeVars, podVars, extVars, budget
  <1>1. ASSUME NEW n \in Nodes, DeviceCrash(n)
        PROVE  TypeOK'
    BY <1>1, BudgetType DEF DeviceCrash, DeviceStates
  <1>2. ASSUME NEW n \in Nodes, KubeletReports(n)
        PROVE  TypeOK'
    <2>1. device' \in [Nodes -> DeviceStates]
      BY <1>2 DEF KubeletReports, DeviceStates
    <2>2. PICK s \in PodStates : PodWrite(n, [pod[n] EXCEPT !.state = s])
      <3>1. LaterStates(pod[n].state) \subseteq PodStates
        BY DEF LaterStates, PodStates
      <3> QED
        BY <1>2, <3>1 DEF KubeletReports, PodStates
    <2>3. [pod[n] EXCEPT !.state = s] \in PodObj
      BY <1>2 DEF KubeletReports, PodObj
    <2> QED
      BY <1>2, <2>1, <2>2, <2>3, PodWriteType, BudgetType DEF KubeletReports
  <1>3. ASSUME NEW n \in Nodes, KubeletRemovesPod(n)
        PROVE  TypeOK'
    BY <1>3, PodWriteType, BudgetType DEF KubeletRemovesPod, DeviceStates
  <1>4. ASSUME NEW n \in Nodes, CollectPod(n)
        PROVE  TypeOK'
    BY <1>4, PodRemoveType, BudgetType DEF CollectPod
  <1>5. ASSUME NEW n \in Nodes, NEW i \in Interfaces, CollectNad(n, i)
        PROVE  TypeOK'
    BY <1>5, BudgetType DEF CollectNad
  <1> QED
    BY <1>1, <1>2, <1>3, <1>4, <1>5 DEF Platform

LEMMA InformersType ==
    ASSUME TypeOK, Informers
    PROVE  TypeOK'
  <1> USE DEF TypeOK, ClusterTypeOK, nodeVars, podVars, extVars, budget
  <1>1. ASSUME NEW n \in Nodes, DeliverNode(n)
        PROVE  TypeOK'
    BY <1>1, HeadTailProperties DEF DeliverNode, For
  <1>2. ASSUME NEW n \in Nodes, DeliverPod(n)
        PROVE  TypeOK'
    BY <1>2, HeadTailProperties DEF DeliverPod, Owns
  <1>3. ASSUME NEW n \in Nodes, Resync(n)
        PROVE  TypeOK'
    BY <1>3 DEF Resync
  <1> QED
    BY <1>1, <1>2, <1>3 DEF Informers

LEMMA RestartType ==
    ASSUME TypeOK, Restart
    PROVE  TypeOK'
  <1> USE DEF TypeOK, ClusterTypeOK, nodeVars, podVars, extVars, budget
  <1>1. [n \in Nodes |-> <<>>] \in [Nodes -> Seq(NodeObj \cup {None})]
    OBVIOUS
  <1>2. [n \in Nodes |-> <<>>] \in [Nodes -> Seq(PodObj \cup {None})]
    OBVIOUS
  <1> QED
    BY <1>1, <1>2, IdleType, BudgetType DEF Restart

\* Inside Reconcile the request and what was read of it have values.
LEMMA WorkerTyped ==
    ASSUME TypeOK, WorkerKnows, worker.pc # "idle"
    PROVE  /\ worker.node \in Nodes
           /\ worker.uid \in Uids
           /\ worker.spec \in Specs
           /\ worker.pc \in PodSteps => worker.want \in Revisions
  BY DEF TypeOK, WorkerKnows, Worker

LEMMA ReportType ==
    ASSUME TypeOK, NEW c \in Conditions, NEW q \in BOOLEAN, Report(c, q)
    PROVE  worker' \in Worker
  BY DEF TypeOK, Report, Worker, Steps

LEMMA OutcomesType ==
    ASSUME NEW d \in DeviceStates, NEW r \in Outcomes(d)
    PROVE  /\ r.left \in DeviceStates
           /\ r.ok \in BOOLEAN
           /\ r.ok => r.left \in {"saved", "pushed"}
  BY DEF Outcomes, DeviceStates, Pushed

LEMMA FinishType ==
    ASSUME TypeOK, WorkerKnows, worker.pc # "idle", NEW q, Finish(q)
    PROVE  worker' \in Worker /\ queue' \in SUBSET Nodes
  BY WorkerTyped, IdleType DEF TypeOK, ClusterTypeOK, Finish

LEMMA BeginType ==
    ASSUME TypeOK, NEW n \in Nodes, Begin(n)
    PROVE  TypeOK'
  <1>1. worker' \in Worker
    <2>1. CASE UNCHANGED worker
      BY <2>1 DEF TypeOK
    <2>2. CASE ~UNCHANGED worker
      <3>1. cNode[n] \in NodeObj
        BY <2>2 DEF Begin, TypeOK, ClusterTypeOK
      <3>2. cNode[n].uid \in Uids /\ cNode[n].spec \in Specs
        BY <3>1 DEF NodeObj
      <3>3. PICK pc \in {"finalize", "config", "status"},
                 c \in {"Unknown", "FailedProvider"} : Take(n, pc, c)
        BY <2>2 DEF Begin
      <3> QED
        BY <3>2, <3>3 DEF Take, Idle, Worker, Steps, Conditions
    <2> QED
      BY <2>1, <2>2
  <1> QED
    BY <1>1 DEF Begin, TypeOK, ClusterTypeOK, nodeVars, podVars, extVars, budget

\* The steps of Reconcile keep the types.
LEMMA ReconcileType ==
    ASSUME TypeOK, WorkerKnows, CurrentIsRead, Reconcile
    PROVE  TypeOK'
  <1> USE DEF nodeVars, podVars, extVars, budget
  <1>1. ASSUME NEW n \in Nodes, Begin(n)
        PROVE  TypeOK'
    BY <1>1, BeginType
  <1>2. CASE RemoveFinalizer
    <2>1. worker.node \in Nodes
      BY <1>2, WorkerTyped DEF RemoveFinalizer
    <2>2. CASE /\ worker.node \in current
               /\ NodeWrite(worker.node,
                            WithoutFinalizer(node[worker.node], "nodedeployer"))
               /\ Finish(FALSE) /\ NoBudget
      <3>1. node[worker.node] \in NodeObj
        BY <2>1, <2>2 DEF CurrentIsRead, TypeOK, ClusterTypeOK
      <3>2. WithoutFinalizer(node[worker.node], "nodedeployer") \in NodeObj \cup {None}
        BY <3>1 DEF WithoutFinalizer, NodeObj
      <3> QED
        BY <1>2, <2>1, <2>2, <3>2, NodeWriteType, FinishType
           DEF RemoveFinalizer, TypeOK, ClusterTypeOK, NoBudget
    <2>3. CASE /\ Finish(FALSE) /\ NoBudget /\ UNCHANGED <<node, nodeLog, current>>
      BY <1>2, <2>3, FinishType DEF RemoveFinalizer, TypeOK, ClusterTypeOK, NoBudget
    <2>4. CASE /\ IF worker.node \in current THEN Fault ELSE NoBudget
               /\ Report("FailedFinalizer", TRUE)
               /\ UNCHANGED <<node, nodeLog, queue, current>>
      BY <1>2, <2>4, ReportType, BudgetType
         DEF RemoveFinalizer, TypeOK, ClusterTypeOK, Conditions
    <2> QED
      BY <1>2, <2>2, <2>3, <2>4 DEF RemoveFinalizer
  <1>3. CASE GetNodeConfig
    <2>1. worker' \in Worker
      <3>1. CASE configs[worker.spec] = None
        BY <1>3, <3>1, ReportType DEF GetNodeConfig, Conditions
      <3>2. CASE configs[worker.spec] # None
        <4>1. configs[worker.spec] \in Revisions
          BY <1>3, <3>2, WorkerTyped DEF GetNodeConfig, TypeOK, ClusterTypeOK
        <4>2. NadsToApply(worker.node, worker.uid) \in SUBSET Interfaces
          BY DEF NadsToApply
        <4> QED
          BY <1>3, <3>2, <4>1, <4>2 DEF GetNodeConfig, TypeOK, Worker, Steps
      <3> QED
        BY <3>1, <3>2
    <2> QED
      BY <1>3, <2>1 DEF GetNodeConfig, TypeOK, ClusterTypeOK
  <1>4. ASSUME NEW i \in Interfaces, ApplyNad(i)
        PROVE  TypeOK'
    <2>1. worker.node \in Nodes /\ worker.uid \in Uids
      BY <1>4, WorkerTyped DEF ApplyNad
    <2>2. nads' \in [Nodes -> [Interfaces -> Uids \cup {None}]]
      <3>1. CASE UNCHANGED nads
        BY <3>1 DEF TypeOK, ClusterTypeOK
      <3>2. CASE nads' = [nads EXCEPT ![worker.node][i] =
                            IF nadOn THEN worker.uid ELSE None]
        <4> DEFINE row == nads[worker.node]
        <4>1. row \in [Interfaces -> Uids \cup {None}]
          BY <2>1 DEF TypeOK, ClusterTypeOK
        <4>2. [row EXCEPT ![i] = IF nadOn THEN worker.uid ELSE None]
                \in [Interfaces -> Uids \cup {None}]
          BY <2>1, <4>1
        <4>3. nads' = [nads EXCEPT ![worker.node] =
                         [row EXCEPT ![i] = IF nadOn THEN worker.uid ELSE None]]
          BY <3>2
        <4> QED
          BY <2>1, <4>2, <4>3 DEF TypeOK, ClusterTypeOK
      <3> QED
        BY <1>4, <3>1, <3>2 DEF ApplyNad
    <2>3. worker' \in Worker
      <3>1. CASE Report("FailedNad", FALSE)
        BY <3>1, ReportType DEF Conditions
      <3>2. CASE worker' = [worker EXCEPT !.todo = @ \ {i}]
        BY <3>2 DEF TypeOK, Worker
      <3> QED
        BY <1>4, <3>1, <3>2 DEF ApplyNad
    <2> QED
      BY <1>4, <2>2, <2>3, BudgetType DEF ApplyNad, TypeOK, ClusterTypeOK
  <1>5. CASE ComparePod
    BY <1>5 DEF ComparePod, TypeOK, ClusterTypeOK, Worker, Steps
  <1>6. CASE DeletePod
    <2>1. worker.node \in Nodes
      BY <1>6, WorkerTyped DEF DeletePod
    <2>2. worker' \in Worker
      <3>1. CASE worker' = [worker EXCEPT !.pc = "create"]
        BY <3>1 DEF TypeOK, Worker, Steps
      <3>2. CASE \E c \in {"FailedPodGone", "FailedPodApi"} : Report(c, FALSE)
        BY <3>2, ReportType DEF Conditions
      <3> QED
        BY <1>6, <3>1, <3>2 DEF DeletePod
    <2> QED
      BY <1>6, <2>1, <2>2, PodRemoveType, BudgetType DEF DeletePod, TypeOK, ClusterTypeOK
  <1>7. CASE CreatePod
    <2>1. worker.node \in Nodes /\ worker.uid \in Uids /\ worker.want \in Revisions
      BY <1>7, WorkerTyped DEF CreatePod, PodSteps
    <2>2. worker' \in Worker
      <3>1. CASE worker' = [worker EXCEPT !.pc = "get"]
        BY <3>1 DEF TypeOK, Worker, Steps
      <3>2. CASE \E c \in {"FailedPodExists", "FailedPodApi"} : Report(c, FALSE)
        BY <3>2, ReportType DEF Conditions
      <3> QED
        BY <1>7, <3>1, <3>2 DEF CreatePod
    <2>3. CASE UNCHANGED <<pod, podLog>>
      BY <1>7, <2>2, <2>3, BudgetType DEF CreatePod, TypeOK, ClusterTypeOK
    <2>4. ASSUME NEW p \in PodIds,
                 PodWrite(worker.node,
                          [id |-> p, owner |-> worker.uid, hash |-> worker.want,
                           state |-> "empty", terminating |-> FALSE])
          PROVE  TypeOK'
      <3>1. [id |-> p, owner |-> worker.uid, hash |-> worker.want,
             state |-> "empty", terminating |-> FALSE] \in PodObj
        BY <2>1 DEF PodObj, PodStates
      <3> QED
        BY <1>7, <2>1, <2>2, <2>4, <3>1, PodWriteType, BudgetType
           DEF CreatePod, TypeOK, ClusterTypeOK
    <2> QED
      BY <1>7, <2>3, <2>4 DEF CreatePod
  <1>8. CASE GetPod
    <2>1. worker.node \in Nodes
      BY <1>8, WorkerTyped DEF GetPod
    <2>2. worker' \in Worker
      <3>1. CASE Report("FailedPodUnseen", FALSE)
        BY <3>1, ReportType DEF Conditions
      <3>2. CASE /\ cPod[worker.node] # None
                 /\ cPod[worker.node].state # "ready"
                 /\ Report(PodCondition(cPod[worker.node]), TRUE)
        <4>1. cPod[worker.node] \in PodObj
          BY <2>1, <3>2 DEF TypeOK, ClusterTypeOK
        <4>2. PodCondition(cPod[worker.node]) \in Conditions
          BY <3>2, <4>1 DEF PodObj, PodStates, PodCondition, Conditions
        <4> QED
          BY <3>2, <4>2, ReportType
      <3>3. CASE /\ cPod[worker.node] # None
                 /\ worker' = [worker EXCEPT !.pc = "init",
                                             !.seen = cPod[worker.node].id]
        <4>1. cPod[worker.node].id \in PodIds
          BY <2>1, <3>3 DEF TypeOK, ClusterTypeOK, PodObj
        <4> QED
          BY <3>3, <4>1 DEF TypeOK, Worker, Steps
      <3> QED
        BY <1>8, <3>1, <3>2, <3>3 DEF GetPod
    <2> QED
      BY <1>8, <2>2 DEF GetPod, TypeOK, ClusterTypeOK
  <1>9. CASE SetInitialConfig
    <2>1. worker.node \in Nodes
      BY <1>9, WorkerTyped DEF SetInitialConfig
    <2>2. worker' \in Worker
      BY <1>9, ReportType DEF SetInitialConfig, Conditions
    <2>3. device[worker.node] \in DeviceStates
      BY <2>1 DEF TypeOK, ClusterTypeOK
    <2>4. /\ device' \in [Nodes -> DeviceStates]
          /\ Fault \/ NoBudget
      BY <1>9, <2>1, <2>3, OutcomesType DEF SetInitialConfig, TypeOK, ClusterTypeOK
    <2> QED
      BY <1>9, <2>2, <2>4, BudgetType DEF SetInitialConfig, TypeOK, ClusterTypeOK
  <1>10. CASE UpdateStatus
    <2>1. worker.node \in Nodes /\ worker' \in Worker /\ queue' \in SUBSET Nodes
      BY <1>10, WorkerTyped, FinishType DEF UpdateStatus, Refused
    <2>2. /\ edits' \in 0..MaxEdits /\ faults' \in 0..MaxFaults
          /\ strangers' \in SUBSET (Nodes \X (Revisions \cup {None}))
      BY <1>10, BudgetType DEF UpdateStatus
    <2>3. CASE UNCHANGED <<node, nodeLog>> /\ current' = {}
      BY <1>10, <2>1, <2>2, <2>3 DEF UpdateStatus, TypeOK, ClusterTypeOK
    <2>4. CASE /\ worker.node \in current
               /\ NodeWrite(worker.node, [node[worker.node] EXCEPT !.status = worker.cond])
      <3>1. [node[worker.node] EXCEPT !.status = worker.cond] \in NodeObj
        <4>1. node[worker.node] \in NodeObj
          BY <2>1, <2>4 DEF CurrentIsRead, TypeOK, ClusterTypeOK
        <4>2. worker.cond \in Conditions
          BY DEF TypeOK, Worker
        <4> QED
          BY <4>1, <4>2 DEF NodeObj
      <3> QED
        BY <1>10, <2>1, <2>2, <2>4, <3>1, NodeWriteType
           DEF UpdateStatus, TypeOK, ClusterTypeOK
    <2> QED
      BY <1>10, <2>3, <2>4 DEF UpdateStatus, Accepted, Refused
  <1> QED
    BY <1>1, <1>2, <1>3, <1>4, <1>5, <1>6, <1>7, <1>8, <1>9, <1>10 DEF Reconcile

-----------------------------------------------------------------------------
(* The caches catch up.                                                    *)

LEMMA LatestAppend ==
    ASSUME NEW S, NEW log \in Seq(S), NEW v \in S, NEW c
    PROVE  Latest(Append(log, v), c) = v /\ Append(log, v) # <<>>
  BY AppendProperties DEF Latest

LEMMA LatestTail ==
    ASSUME NEW S, NEW log \in Seq(S), log # <<>>, NEW c
    PROVE  Latest(Tail(log), Head(log)) = Latest(log, c)
  <1>1. Tail(log) \in Seq(S) /\ Len(Tail(log)) = Len(log) - 1
    BY HeadTailProperties
  <1>2. CASE Tail(log) = <<>>
    <2>1. Len(log) = 1 /\ Head(log) = log[1]
      BY <1>1, <1>2, EmptySeq, LenProperties, HeadTailProperties
    <2> QED
      BY <1>2, <2>1 DEF Latest
  <1>3. CASE Tail(log) # <<>>
    <2>1. Len(log) \in Nat /\ Len(log) >= 2
      BY <1>1, <1>3, EmptySeq, LenProperties
    <2>2. Tail(log)[Len(log) - 1] = log[Len(log)]
      BY <1>1, <2>1, HeadTailProperties
    <2> QED
      BY <1>1, <1>3, <2>2 DEF Latest
  <1> QED
    BY <1>2, <1>3

\* What a step other than a restart may do to Nodes, to Pods, and to the rest
\* while the worker stands still.
NodeStep ==
    \/ UNCHANGED nodeVars
    \/ \E n \in Nodes : NodeWrite(n, node'[n]) /\ UNCHANGED cNode
    \/ \E n \in Nodes : DeliverNode(n)

PodStep ==
    \/ UNCHANGED podVars
    \/ \E n \in Nodes : PodWrite(n, pod'[n]) /\ UNCHANGED cPod
    \/ \E n \in Nodes : DeliverPod(n)

\* A Pod without an owner is on record.
RecordStep ==
    /\ strangers \subseteq strangers'
    /\ \A n \in Nodes : pod'[n] # None /\ pod'[n].owner = None =>
                          <<n, pod'[n].hash>> \in strangers'

\* What any step, of a worker or not, may do to what all share.
SharedStep ==
    /\ \/ UNCHANGED node
       \/ \E n \in Nodes : \A m \in Nodes \ {n} : node'[m] = node[m]
    /\ \/ UNCHANGED pod
       \/ \E n \in Nodes : \A m \in Nodes \ {n} : pod'[m] = pod[m]
    /\ RecordStep
    /\ faults <= faults'
    /\ \A n \in Nodes : node'[n] # None /\ node'[n].status \in ApiFailures =>
         \/ node[n] # None /\ node'[n].status = node[n].status
         \/ faults' >= 1
    /\ \A s \in Fixed : configs'[s] = configs[s]
    /\ \A n \in Nodes : \/ device'[n] \in {device[n], "down"}
                        \/ device[n] # "down" /\ device'[n] \in {"pushed", "saved"}
                        \/ pod'[n] # pod[n]
                        \/ ~Owned(pod[n])

\* What a step of anybody but the worker is to the worker.
EnvStep ==
    /\ NodeStep
    /\ PodStep
    /\ SharedStep
    /\ UNCHANGED worker
    /\ queue \subseteq queue'
    /\ current' \subseteq current
    /\ \A n \in current' : node'[n] = node[n]

LEMMA CachesKept ==
    ASSUME TypeOK, TypeOK', CachesCatchUp, NodeStep, PodStep
    PROVE  CachesCatchUp'
  <1> USE DEF TypeOK, ClusterTypeOK, CachesCatchUp
  <1>1. ASSUME NEW m \in Nodes
        PROVE  (Latest(nodeLog[m], cNode[m]) = node[m])'
    <2>1. CASE UNCHANGED nodeVars
      BY <2>1 DEF nodeVars
    <2>2. ASSUME NEW n \in Nodes, NodeWrite(n, node'[n]), UNCHANGED cNode
          PROVE  (Latest(nodeLog[m], cNode[m]) = node[m])'
      <3>1. CASE m = n
        <4>1. /\ nodeLog'[n] = Append(nodeLog[n], node'[n])
              /\ cNode'[n] = cNode[n]
          BY <2>2 DEF NodeWrite
        <4>2. /\ nodeLog[n] \in Seq(NodeObj \cup {None})
              /\ node'[n] \in NodeObj \cup {None}
          OBVIOUS
        <4>3. Latest(Append(nodeLog[n], node'[n]), cNode[n]) = node'[n]
          BY ONLY <4>2, LatestAppend
        <4> QED
          BY <3>1, <4>1, <4>3
      <3>2. CASE m # n
        BY <2>2, <3>2 DEF NodeWrite
      <3> QED
        BY <3>1, <3>2
    <2>3. ASSUME NEW n \in Nodes, DeliverNode(n)
          PROVE  (Latest(nodeLog[m], cNode[m]) = node[m])'
      <3>1. CASE m = n
        <4>1. /\ nodeLog'[n] = Tail(nodeLog[n]) /\ cNode'[n] = Head(nodeLog[n])
              /\ node'[n] = node[n]
          BY <2>3 DEF DeliverNode, nodeVars
        <4>2. nodeLog[n] \in Seq(NodeObj \cup {None}) /\ nodeLog[n] # <<>>
          BY <2>3 DEF DeliverNode
        <4>3. Latest(Tail(nodeLog[n]), Head(nodeLog[n])) = Latest(nodeLog[n], cNode[n])
          BY <4>2, LatestTail
        <4> QED
          BY <3>1, <4>1, <4>3
      <3>2. CASE m # n
        BY <2>3, <3>2 DEF DeliverNode
      <3> QED
        BY <3>1, <3>2
    <2> QED
      BY <2>1, <2>2, <2>3 DEF NodeStep
  <1>2. ASSUME NEW m \in Nodes
        PROVE  (Latest(podLog[m], cPod[m]) = pod[m])'
    <2>1. CASE UNCHANGED podVars
      BY <2>1 DEF podVars
    <2>2. ASSUME NEW n \in Nodes, PodWrite(n, pod'[n]), UNCHANGED cPod
          PROVE  (Latest(podLog[m], cPod[m]) = pod[m])'
      <3>1. CASE m = n
        <4>1. /\ podLog'[n] = Append(podLog[n], pod'[n])
              /\ cPod'[n] = cPod[n]
          BY <2>2 DEF PodWrite
        <4>2. /\ podLog[n] \in Seq(PodObj \cup {None})
              /\ pod'[n] \in PodObj \cup {None}
          OBVIOUS
        <4>3. Latest(Append(podLog[n], pod'[n]), cPod[n]) = pod'[n]
          BY ONLY <4>2, LatestAppend
        <4> QED
          BY <3>1, <4>1, <4>3
      <3>2. CASE m # n
        BY <2>2, <3>2 DEF PodWrite
      <3> QED
        BY <3>1, <3>2
    <2>3. ASSUME NEW n \in Nodes, DeliverPod(n)
          PROVE  (Latest(podLog[m], cPod[m]) = pod[m])'
      <3>1. CASE m = n
        <4>1. podLog'[n] = Tail(podLog[n]) /\ cPod'[n] = Head(podLog[n]) /\ pod'[n] = pod[n]
          BY <2>3 DEF DeliverPod, podVars
        <4>2. podLog[n] \in Seq(PodObj \cup {None}) /\ podLog[n] # <<>>
          BY <2>3 DEF DeliverPod
        <4>3. Latest(Tail(podLog[n]), Head(podLog[n])) = Latest(podLog[n], cPod[n])
          BY <4>2, LatestTail
        <4> QED
          BY <3>1, <4>1, <4>3
      <3>2. CASE m # n
        BY <2>3, <3>2 DEF DeliverPod
      <3> QED
        BY <3>1, <3>2
    <2> QED
      BY <2>1, <2>2, <2>3 DEF PodStep
  <1> QED
    BY <1>1, <1>2

LEMMA AppendEntries ==
    ASSUME NEW S, NEW log \in Seq(S), NEW v, NEW k \in DOMAIN Append(log, v)
    PROVE  \/ Append(log, v)[k] = v
           \/ k \in DOMAIN log /\ Append(log, v)[k] = log[k]
  OBVIOUS

LEMMA AppendKeeps ==
    ASSUME NEW S, NEW log \in Seq(S), NEW v
    PROVE  /\ Append(log, v) # <<>>
           /\ \A k \in DOMAIN log :
                k \in DOMAIN Append(log, v) /\ Append(log, v)[k] = log[k]
           /\ Len(log) + 1 \in DOMAIN Append(log, v)
           /\ Append(log, v)[Len(log) + 1] = v
  OBVIOUS

LEMMA TailEntries ==
    ASSUME NEW S, NEW log \in Seq(S), log # <<>>
    PROVE  /\ 1 \in DOMAIN log /\ Head(log) = log[1]
           /\ \A k \in DOMAIN Tail(log) :
                k + 1 \in DOMAIN log /\ Tail(log)[k] = log[k + 1]
           /\ \A k \in DOMAIN log : k = 1 \/ k - 1 \in DOMAIN Tail(log)
  OBVIOUS

\* A write, or a step that leaves a Pod's owner and revision alone, is on record.
LEMMA RecordSame ==
    ASSUME PodsOnRecord, strangers \subseteq strangers',
           \A n \in Nodes : \/ pod'[n] = None
                            \/ /\ pod[n] # None
                               /\ pod'[n].owner = pod[n].owner
                               /\ pod'[n].hash = pod[n].hash
    PROVE  RecordStep
  BY DEF PodsOnRecord, PodVersions, RecordStep

LEMMA RecordKept ==
    ASSUME TypeOK, PodsOnRecord, PodStep, RecordStep
    PROVE  PodsOnRecord'
  <1> SUFFICES ASSUME NEW n \in Nodes, NEW p \in PodVersions(n)', p.owner = None
               PROVE  <<n, p.hash>> \in strangers'
    BY DEF PodsOnRecord
  <1> USE DEF TypeOK, ClusterTypeOK
  <1>1. CASE p = pod'[n]
    BY <1>1 DEF PodVersions, RecordStep
  <1>2. CASE p \in PodVersions(n)
    BY <1>2 DEF PodsOnRecord, RecordStep
  <1>3. p = pod'[n] \/ p \in PodVersions(n)
    <2>1. CASE UNCHANGED podVars
      BY <2>1 DEF podVars, PodVersions
    <2>2. ASSUME NEW m \in Nodes, PodWrite(m, pod'[m]), UNCHANGED cPod
          PROVE  p = pod'[n] \/ p \in PodVersions(n)
      <3>1. CASE m = n
        <4>1. podLog[n] \in Seq(PodObj \cup {None}) /\ podLog'[n] = Append(podLog[n], pod'[n])
          BY <2>2, <3>1 DEF PodWrite
        <4>2. \A k \in DOMAIN podLog'[n] :
                \/ podLog'[n][k] = pod'[n]
                \/ k \in DOMAIN podLog[n] /\ podLog'[n][k] = podLog[n][k]
          BY <4>1, AppendEntries
        <4> QED
          <5>1. CASE p = cPod'[n]
            BY <2>2, <5>1 DEF PodVersions
          <5>2. ASSUME NEW k \in DOMAIN podLog'[n], p = podLog'[n][k]
                PROVE  p = pod'[n] \/ p \in PodVersions(n)
            BY <4>2, <5>2 DEF PodVersions
          <5> QED
            BY <5>1, <5>2 DEF PodVersions
      <3>2. CASE m # n
        BY <2>2, <3>2 DEF PodWrite, PodVersions
      <3> QED
        BY <3>1, <3>2
    <2>3. ASSUME NEW m \in Nodes, DeliverPod(m)
          PROVE  p = pod'[n] \/ p \in PodVersions(n)
      <3>1. CASE m = n
        <4>1. /\ podLog[n] \in Seq(PodObj \cup {None}) /\ podLog[n] # <<>>
              /\ podLog'[n] = Tail(podLog[n]) /\ cPod'[n] = Head(podLog[n])
          BY <2>3, <3>1 DEF DeliverPod
        <4>2. /\ 1 \in DOMAIN podLog[n] /\ Head(podLog[n]) = podLog[n][1]
              /\ \A k \in DOMAIN Tail(podLog[n]) :
                   k + 1 \in DOMAIN podLog[n] /\ Tail(podLog[n])[k] = podLog[n][k + 1]
          BY <4>1, TailEntries
        <4> QED
          BY <4>1, <4>2 DEF PodVersions
      <3>2. CASE m # n
        BY <2>3, <3>2 DEF DeliverPod, PodVersions
      <3> QED
        BY <3>1, <3>2
    <2> QED
      BY <2>1, <2>2, <2>3 DEF PodStep
  <1> QED
    BY <1>1, <1>2, <1>3

\* A Pod's removal is a write, or changes nothing.
LEMMA PodRemoveStep ==
    ASSUME TypeOK, TypeOK', PodsOnRecord, NEW n \in Nodes, pod[n] # None, PodRemove(n),
           UNCHANGED <<cPod, strangers>>
    PROVE  /\ PodStep
           /\ \A m \in Nodes \ {n} : pod'[m] = pod[m]
           /\ RecordStep
           /\ \A m \in Nodes : device'[m] \in {device[m], "down"}
  <1> USE DEF TypeOK, ClusterTypeOK
  <1>1. PodStep /\ \A m \in Nodes : device'[m] \in {device[m], "down"}
    BY DEF PodRemove, PodWrite, PodStep, podVars
  <1>2. \A m \in Nodes : \/ pod'[m] = None
                         \/ pod'[m] = pod[m]
                         \/ m = n /\ pod'[m] = [pod[n] EXCEPT !.terminating = TRUE]
    BY DEF PodRemove, PodWrite
  <1>3. pod[n] \in PodObj
    OBVIOUS
  <1>5. \A m \in Nodes \ {n} : pod'[m] = pod[m]
    BY DEF PodRemove, PodWrite
  <1>4. [pod[n] EXCEPT !.terminating = TRUE].owner = pod[n].owner
        /\ [pod[n] EXCEPT !.terminating = TRUE].hash = pod[n].hash
    BY <1>3 DEF PodObj
  <1> QED
    BY <1>1, <1>2, <1>4, <1>5, RecordSame

LEMMA UsersStep ==
    ASSUME TypeOK, TypeOK', PodsOnRecord, Users, UNCHANGED <<worker, nadOn>>
    PROVE  EnvStep
  <1> USE DEF TypeOK, ClusterTypeOK, nodeVars, podVars, extVars
  <1>1. ASSUME NEW n \in Nodes, NEW u \in Uids \ {worker.uid}, NEW s \in Specs,
               NEW fs \in FinalizerSets, CreateNode(n, u, s, fs)
        PROVE  EnvStep
    <2>1. UNCHANGED strangers /\ faults <= faults'
      BY <1>1, BudgetType DEF CreateNode
    <2>2. RecordStep
      BY <1>1, <2>1, RecordSame DEF CreateNode
    <2>3. /\ node'[n].status \notin ApiFailures
          /\ \A m \in Nodes \ {n} : node'[m] = node[m]
          /\ NodeWrite(n, node'[n])
      BY <1>1 DEF CreateNode, NodeWrite, ApiFailures
    <2> QED
      BY <1>1, <2>1, <2>2, <2>3
         DEF CreateNode, EnvStep, SharedStep, NodeStep, PodStep, NodeWrite
  <1>2. ASSUME NEW n \in Nodes, NEW s \in Specs, EditNode(n, s)
        PROVE  EnvStep
    <2>1. /\ node[n] \in NodeObj
          /\ node'[n].uid = node[n].uid /\ node'[n].status = node[n].status
      BY <1>2 DEF EditNode, NodeWrite, NodeObj
    <2>2. UNCHANGED strangers /\ faults <= faults'
      BY <1>2, BudgetType DEF EditNode
    <2>3. RecordStep
      BY <1>2, <2>2, RecordSame DEF EditNode
    <2> QED
      BY <1>2, <2>1, <2>2, <2>3
         DEF EditNode, EnvStep, SharedStep, NodeStep, PodStep, NodeWrite
  <1>3. ASSUME NEW n \in Nodes, DeleteNode(n)
        PROVE  EnvStep
    <2>1. /\ node[n] \in NodeObj
          /\ node'[n] # None =>
               node'[n].uid = node[n].uid /\ node'[n].status = node[n].status
      BY <1>3 DEF DeleteNode, NodeWrite, NodeObj
    <2>2. UNCHANGED strangers /\ faults <= faults'
      BY <1>3, BudgetType DEF DeleteNode
    <2>3. RecordStep
      BY <1>3, <2>2, RecordSame DEF DeleteNode
    <2> QED
      BY <1>3, <2>1, <2>2, <2>3
         DEF DeleteNode, EnvStep, SharedStep, NodeStep, PodStep, NodeWrite
  <1>4. ASSUME NEW n \in Nodes, ReleaseNode(n)
        PROVE  EnvStep
    <2>1. /\ node[n] \in NodeObj
          /\ node'[n] # None =>
               node'[n].uid = node[n].uid /\ node'[n].status = node[n].status
      BY <1>4 DEF ReleaseNode, WithoutFinalizer, NodeWrite, NodeObj
    <2>2. UNCHANGED strangers /\ faults <= faults'
      BY <1>4, BudgetType DEF ReleaseNode
    <2>3. RecordStep
      BY <1>4, <2>2, RecordSame DEF ReleaseNode
    <2> QED
      BY <1>4, <2>1, <2>2, <2>3
         DEF ReleaseNode, EnvStep, SharedStep, NodeStep, PodStep, NodeWrite
  <1>5. ASSUME NEW s \in Specs \ Fixed, NEW r \in Revisions \cup {None},
               EditConfig(s, r)
        PROVE  EnvStep
    <2>1. UNCHANGED strangers /\ faults <= faults'
      BY <1>5, BudgetType DEF EditConfig
    <2>2. RecordStep
      BY <1>5, <2>1, RecordSame DEF EditConfig
    <2> QED
      BY <1>5, <2>1, <2>2, DeployAssumption
         DEF EditConfig, EnvStep, SharedStep, NodeStep, PodStep
  <1>6. ASSUME NEW n \in Nodes, UserDeletesPod(n)
        PROVE  EnvStep
    <2>1. UNCHANGED strangers /\ faults <= faults'
      BY <1>6, BudgetType DEF UserDeletesPod
    <2>2. /\ PodStep /\ RecordStep
          /\ \A m \in Nodes \ {n} : pod'[m] = pod[m]
          /\ \A m \in Nodes : device'[m] \in {device[m], "down"}
      BY <1>6, <2>1, PodRemoveStep DEF UserDeletesPod
    <2> QED
      BY <1>6, <2>1, <2>2 DEF UserDeletesPod, EnvStep, SharedStep, NodeStep
  <1>7. ASSUME NEW n \in Nodes, NEW p \in PodIds, NEW h \in ForeignHashes,
               UserCreatesPod(n, p, h)
        PROVE  EnvStep
    <2> DEFINE o == [id |-> p, owner |-> None, hash |-> h, state |-> "empty",
                     terminating |-> FALSE]
    <2>1. pod' = [pod EXCEPT ![n] = o] /\ strangers' = strangers \cup {<<n, h>>}
      BY <1>7 DEF UserCreatesPod, PodWrite
    <2>2. /\ strangers \subseteq strangers' /\ <<n, h>> \in strangers'
          /\ pod'[n] = o /\ o.hash = h /\ \A m \in Nodes \ {n} : pod'[m] = pod[m]
      BY <2>1
    <2>3. RecordStep
      BY <2>2 DEF RecordStep, PodsOnRecord, PodVersions
    <2>4. PodWrite(n, pod'[n])
      BY <1>7, <2>2 DEF UserCreatesPod, PodWrite
    <2>5. PodStep /\ SharedStep
      <3>1. UNCHANGED <<node, configs, device>> /\ faults <= faults'
        BY <1>7, BoundAssumption DEF UserCreatesPod
      <3> QED
        BY <1>7, <2>2, <2>3, <2>4, <3>1, DeployAssumption
           DEF UserCreatesPod, SharedStep, PodStep
    <2> QED
      BY <1>7, <2>5 DEF UserCreatesPod, EnvStep, NodeStep
  <1> QED
    BY <1>1, <1>2, <1>3, <1>4, <1>5, <1>6, <1>7 DEF Users

LEMMA PlatformStep ==
    ASSUME TypeOK, TypeOK', PodsOnRecord, Platform, UNCHANGED <<worker, nadOn>>
    PROVE  EnvStep
  <1> USE DEF TypeOK, ClusterTypeOK, nodeVars, podVars, extVars
  <1>1. ASSUME NEW n \in Nodes, DeviceCrash(n)
        PROVE  EnvStep
    <2>1. UNCHANGED strangers /\ faults <= faults'
      BY <1>1, BudgetType DEF DeviceCrash
    <2>2. RecordStep
      BY <1>1, <2>1, RecordSame DEF DeviceCrash
    <2> QED
      BY <1>1, <2>1, <2>2 DEF DeviceCrash, EnvStep, SharedStep, NodeStep, PodStep
  <1>2. ASSUME NEW n \in Nodes, KubeletReports(n)
        PROVE  EnvStep
    <2>0. pod[n] \in PodObj
      BY <1>2 DEF KubeletReports
    <2>1. PICK st \in PodStates : /\ PodWrite(n, [pod[n] EXCEPT !.state = st])
                                  /\ device'[n] = device[n] \/ st # pod[n].state
      <3>1. LaterStates(pod[n].state) \subseteq PodStates \ {pod[n].state}
        BY DEF LaterStates, PodStates
      <3> QED
        BY <1>2, <3>1 DEF KubeletReports, PodStates
    <2>2. /\ PodWrite(n, pod'[n])
          /\ pod'[n] = [pod[n] EXCEPT !.state = st]
          /\ \A m \in Nodes \ {n} : pod'[m] = pod[m]
      BY <2>1 DEF PodWrite
    <2>3. UNCHANGED strangers /\ faults <= faults'
      BY <1>2, BudgetType DEF KubeletReports
    <2>4. \A m \in Nodes \ {n} : device'[m] = device[m]
      BY <1>2 DEF KubeletReports
    <2>5. /\ pod'[n].owner = pod[n].owner /\ pod'[n].hash = pod[n].hash
          /\ pod'[n] # None /\ pod[n] # None
      <3>1. [pod[n] EXCEPT !.state = st] \in PodObj
        BY <2>0 DEF PodObj
      <3>2. pod'[n].owner = pod[n].owner /\ pod'[n].hash = pod[n].hash
        BY <2>0, <2>2 DEF PodObj
      <3>3. pod'[n] # None
        BY <2>2, <3>1, NoneAssumption
      <3>4. pod[n] # None
        BY <2>0, NoneAssumption
      <3> QED
        BY <3>2, <3>3, <3>4
    <2>6. RecordStep
      <3>1. ASSUME NEW m \in Nodes
            PROVE  \/ pod'[m] = None
                   \/ /\ pod[m] # None
                      /\ pod'[m].owner = pod[m].owner
                      /\ pod'[m].hash = pod[m].hash
        BY <2>2, <2>5
      <3> QED
        BY <2>3, <3>1, RecordSame
    <2>7. device'[n] = device[n] \/ pod'[n] # pod[n]
      BY <2>0, <2>1, <2>2 DEF PodObj
    <2> QED
      BY <1>2, <2>2, <2>3, <2>4, <2>6, <2>7
         DEF KubeletReports, EnvStep, SharedStep, NodeStep, PodStep
  <1>3. ASSUME NEW n \in Nodes, KubeletRemovesPod(n)
        PROVE  EnvStep
    <2>1. UNCHANGED strangers /\ faults <= faults'
      BY <1>3, BudgetType DEF KubeletRemovesPod
    <2>2. /\ PodWrite(n, pod'[n]) /\ \A m \in Nodes : pod'[m] = None \/ pod'[m] = pod[m]
          /\ \A m \in Nodes \ {n} : pod'[m] = pod[m]
      BY <1>3 DEF KubeletRemovesPod, PodWrite
    <2>3. RecordStep
      BY <2>1, <2>2, RecordSame
    <2> QED
      BY <1>3, <2>1, <2>2, <2>3 DEF KubeletRemovesPod, EnvStep, SharedStep, NodeStep, PodStep
  <1>4. ASSUME NEW n \in Nodes, CollectPod(n)
        PROVE  EnvStep
    <2>1. UNCHANGED strangers /\ faults <= faults'
      BY <1>4, BudgetType DEF CollectPod
    <2>2. /\ PodStep /\ RecordStep
          /\ \A m \in Nodes \ {n} : pod'[m] = pod[m]
          /\ \A m \in Nodes : device'[m] \in {device[m], "down"}
      BY <1>4, <2>1, PodRemoveStep DEF CollectPod
    <2> QED
      BY <1>4, <2>1, <2>2 DEF CollectPod, EnvStep, SharedStep, NodeStep
  <1>5. ASSUME NEW n \in Nodes, NEW i \in Interfaces, CollectNad(n, i)
        PROVE  EnvStep
    <2>1. UNCHANGED strangers /\ faults <= faults'
      BY <1>5, BudgetType DEF CollectNad
    <2>2. RecordStep
      BY <1>5, <2>1, RecordSame DEF CollectNad
    <2> QED
      BY <1>5, <2>1, <2>2 DEF CollectNad, EnvStep, SharedStep, NodeStep, PodStep
  <1> QED
    BY <1>1, <1>2, <1>3, <1>4, <1>5 DEF Platform

LEMMA InformersStep ==
    ASSUME TypeOK, TypeOK', PodsOnRecord, Informers
    PROVE  EnvStep
  <1> USE DEF TypeOK, ClusterTypeOK, nodeVars, podVars, extVars, budget
  <1>1. UNCHANGED <<pod, faults, strangers>>
    BY DEF Informers, DeliverNode, DeliverPod, Resync
  <1>2. RecordStep /\ faults <= faults'
    BY <1>1, RecordSame, BoundAssumption
  <1>3. ASSUME NEW n \in Nodes, DeliverNode(n)
        PROVE  EnvStep
    BY <1>2, <1>3 DEF DeliverNode, For, EnvStep, SharedStep, NodeStep, PodStep
  <1>4. ASSUME NEW n \in Nodes, DeliverPod(n)
        PROVE  EnvStep
    BY <1>2, <1>4 DEF DeliverPod, Owns, EnvStep, SharedStep, NodeStep, PodStep
  <1>5. ASSUME NEW n \in Nodes, Resync(n)
        PROVE  EnvStep
    BY <1>2, <1>5 DEF Resync, EnvStep, SharedStep, NodeStep, PodStep
  <1> QED
    BY <1>3, <1>4, <1>5 DEF Informers

-----------------------------------------------------------------------------
(* Steps of the environment keep the invariant.                            *)

\* A write leaves a version to be delivered.
LEMMA NodeWriteLogged ==
    ASSUME TypeOK, TypeOK', NEW n \in Nodes, NodeWrite(n, node'[n])
    PROVE  nodeLog'[n] # <<>>
  <1>1. /\ nodeLog[n] \in Seq(NodeObj \cup {None})
        /\ node'[n] \in NodeObj \cup {None}
        /\ nodeLog'[n] = Append(nodeLog[n], node'[n])
    BY DEF TypeOK, ClusterTypeOK, NodeWrite
  <1> QED
    BY ONLY <1>1, LatestAppend

LEMMA PodWriteLogged ==
    ASSUME TypeOK, TypeOK', NEW n \in Nodes, PodWrite(n, pod'[n])
    PROVE  podLog'[n] # <<>>
  <1>1. /\ podLog[n] \in Seq(PodObj \cup {None})
        /\ pod'[n] \in PodObj \cup {None}
        /\ podLog'[n] = Append(podLog[n], pod'[n])
    BY DEF TypeOK, ClusterTypeOK, PodWrite
  <1> QED
    BY ONLY <1>1, LatestAppend

\* A name that is not woken after a step has not been touched by it.
LEMMA NodeUntouched ==
    ASSUME TypeOK, TypeOK', NodeStep, NEW n \in Nodes,
           n \notin queue', nodeLog'[n] = <<>>
    PROVE  nodeLog[n] = <<>> /\ node'[n] = node[n]
  <1> USE DEF TypeOK, ClusterTypeOK
  <1>1. CASE UNCHANGED nodeVars
    BY <1>1 DEF nodeVars
  <1>2. ASSUME NEW m \in Nodes, NodeWrite(m, node'[m])
        PROVE  nodeLog[n] = <<>> /\ node'[n] = node[n]
    <2>1. nodeLog'[m] # <<>>
      BY <1>2, NodeWriteLogged
    <2> QED
      BY <1>2, <2>1 DEF NodeWrite
  <1>3. ASSUME NEW m \in Nodes, DeliverNode(m)
        PROVE  nodeLog[n] = <<>> /\ node'[n] = node[n]
    BY <1>3 DEF DeliverNode, For
  <1> QED
    BY <1>1, <1>2, <1>3 DEF NodeStep

\* With no owned Pod on its way to the cache, the cache is right about any.
LEMMA NotInFlight ==
    ASSUME CachesCatchUp, NEW n \in Nodes, ~OwnInFlight(n)
    PROVE  cPod[n] = pod[n] \/ (~Owned(cPod[n]) /\ ~Owned(pod[n]))
  <1>1. CASE podLog[n] = <<>>
    BY <1>1 DEF CachesCatchUp, Latest
  <1>2. CASE podLog[n] # <<>> /\ Len(podLog[n]) \in DOMAIN podLog[n]
    BY <1>2 DEF CachesCatchUp, Latest, OwnInFlight
  <1> QED
    BY <1>1, <1>2

\* Pods under a name no stranger has used are owned, and so are those with a
\* revision unless a stranger's has one.
LEMMA Familiar ==
    ASSUME PodsOnRecord, TypeOK, NEW n \in Nodes, NEW p \in {pod[n], cPod[n]}
    PROVE  /\ ~Visited(n) => p = None \/ Owned(p)
           /\ ~Mistakable(n) /\ p # None /\ p.hash # None => Owned(p)
  <1>1. CASE p = None
    BY <1>1
  <1>2. CASE p # None
    <2>1. p.hash \in Revisions \cup {None}
      BY <1>2 DEF TypeOK, ClusterTypeOK, PodObj
    <2>2. p.owner = None => <<n, p.hash>> \in strangers
      BY <1>2 DEF PodsOnRecord, PodVersions
    <2> QED
      BY <1>2, <2>1, <2>2 DEF Visited, Mistakable, Owned
  <1> QED
    BY <1>1, <1>2

LEMMA VisitsKept ==
    ASSUME RecordStep, NEW n
    PROVE  /\ ~Visited(n)' => ~Visited(n)
           /\ ~Mistakable(n)' => ~Mistakable(n)
  BY DEF RecordStep, Visited, Mistakable

\* A delivery that queues nobody is of Pods that nobody owns.
LEMMA OwnsQuiet ==
    ASSUME NEW n, Owns(n), n \notin queue'
    PROVE  ~Owned(cPod[n]) /\ ~Owned(Head(podLog[n]))
  <1> DEFINE seen == {cPod[n], Head(podLog[n])} \ {None}
  <1>1. {p.owner : p \in seen} \subseteq {None}
    BY DEF Owns
  <1>2. \A p \in seen : p.owner = None
    BY <1>1
  <1> QED
    BY <1>2 DEF Owned

LEMMA PodUntouched ==
    ASSUME TypeOK, TypeOK', CachesCatchUp, PodsOnRecord, PodStep, RecordStep,
           NEW n \in Nodes, ~PodNews(n)'
    PROVE  /\ ~OwnInFlight(n)
           /\ pod'[n] = pod[n] \/ (~Owned(pod[n]) /\ ~Owned(pod'[n]))
           /\ ~Visited(n)' => pod'[n] = pod[n]
  <1> USE DEF TypeOK, ClusterTypeOK
  <1>1. ~OwnInFlight(n) /\ (pod'[n] = pod[n] \/ (~Owned(pod[n]) /\ ~Owned(pod'[n])))
    <2>1. CASE UNCHANGED podVars
      BY <2>1 DEF podVars, PodNews, OwnInFlight
    <2>2. ASSUME NEW m \in Nodes, PodWrite(m, pod'[m]), UNCHANGED cPod
          PROVE  ~OwnInFlight(n) /\ (pod'[n] = pod[n] \/ (~Owned(pod[n]) /\ ~Owned(pod'[n])))
      <3>1. CASE m = n
        <4>1. /\ podLog[n] \in Seq(PodObj \cup {None})
              /\ pod'[n] \in PodObj \cup {None}
              /\ podLog'[n] = Append(podLog[n], pod'[n])
              /\ cPod'[n] = cPod[n]
          BY <2>2, <3>1 DEF PodWrite
        <4>2. /\ podLog'[n] # <<>>
              /\ \A k \in DOMAIN podLog[n] :
                   k \in DOMAIN podLog'[n] /\ podLog'[n][k] = podLog[n][k]
              /\ Len(podLog[n]) + 1 \in DOMAIN podLog'[n]
              /\ podLog'[n][Len(podLog[n]) + 1] = pod'[n]
          BY ONLY <4>1, AppendKeeps
        <4>3. /\ ~Owned(cPod[n]) /\ ~Owned(pod'[n])
              /\ \A k \in DOMAIN podLog[n] : ~Owned(podLog[n][k])
          BY <4>1, <4>2 DEF PodNews, OwnInFlight, Owned
        <4>4. ~OwnInFlight(n)
          BY <4>3 DEF OwnInFlight
        <4> QED
          BY <4>3, <4>4, NotInFlight
      <3>2. CASE m # n
        BY <2>2, <3>2 DEF PodWrite, PodNews, OwnInFlight
      <3> QED
        BY <3>1, <3>2
    <2>3. ASSUME NEW m \in Nodes, DeliverPod(m)
          PROVE  ~OwnInFlight(n) /\ (pod'[n] = pod[n] \/ (~Owned(pod[n]) /\ ~Owned(pod'[n])))
      <3>1. CASE m = n
        <4>1. /\ podLog[n] \in Seq(PodObj \cup {None}) /\ podLog[n] # <<>>
              /\ podLog'[n] = Tail(podLog[n]) /\ cPod'[n] = Head(podLog[n])
              /\ pod'[n] = pod[n]
          BY <2>3, <3>1 DEF DeliverPod
        <4>2. /\ 1 \in DOMAIN podLog[n] /\ Head(podLog[n]) = podLog[n][1]
              /\ \A k \in DOMAIN Tail(podLog[n]) :
                   k + 1 \in DOMAIN podLog[n] /\ Tail(podLog[n])[k] = podLog[n][k + 1]
              /\ \A k \in DOMAIN podLog[n] : k = 1 \/ k - 1 \in DOMAIN Tail(podLog[n])
          BY ONLY <4>1, TailEntries
        <4>3. ~Owned(cPod[n]) /\ ~Owned(Head(podLog[n]))
          BY <2>3, <3>1, OwnsQuiet DEF DeliverPod, PodNews
        <4>4. ASSUME NEW k \in DOMAIN podLog[n], Owned(podLog[n][k])
              PROVE  FALSE
          <5>1. k # 1
            BY <4>2, <4>3, <4>4
          <5>2. k \in Nat
            BY <4>1
          <5>3. /\ k - 1 \in DOMAIN Tail(podLog[n])
                /\ Tail(podLog[n])[k - 1] = podLog[n][k]
            BY <4>2, <5>1, <5>2
          <5>4. Tail(podLog[n]) # <<>>
            BY <4>1, <5>3
          <5> QED
            BY <4>1, <4>4, <5>3, <5>4 DEF PodNews, OwnInFlight, Owned
        <4> QED
          BY <4>1, <4>3, <4>4 DEF OwnInFlight
      <3>2. CASE m # n
        BY <2>3, <3>2 DEF DeliverPod, PodNews, OwnInFlight
      <3> QED
        BY <3>1, <3>2
    <2> QED
      BY <2>1, <2>2, <2>3 DEF PodStep
  <1>2. PodsOnRecord'
    BY RecordKept
  <1>3. ASSUME ~Visited(n)'
        PROVE  pod'[n] = pod[n]
    <2>1. pod[n] = None \/ Owned(pod[n])
      BY <1>3, VisitsKept, Familiar
    <2>2. pod'[n] # None /\ pod'[n].owner = None => FALSE
      <3>1. pod'[n] # None => pod'[n].hash \in Revisions \cup {None}
        BY DEF PodObj
      <3> QED
        BY <1>3, <3>1 DEF RecordStep, Visited
    <2> QED
      BY <1>1, <2>1, <2>2 DEF Owned
  <1> QED
    BY <1>1, <1>3

LEMMA EnvKeeps ==
    ASSUME IInv, TypeOK', EnvStep
    PROVE  IInv'
  <1>1. CachesCatchUp' /\ PodsOnRecord'
    BY CachesKept, RecordKept DEF IInv, EnvStep, SharedStep
  <1>2. WorkerKnows'
    BY DEF IInv, EnvStep, SharedStep, WorkerKnows
  <1>3. CurrentIsRead'
    BY DEF IInv, EnvStep, CurrentIsRead
  <1>4. PodAsSeen'
    <2> SUFFICES ASSUME worker.node # None, ~PodNews(worker.node)'
                 PROVE  PodAsSeen'
      BY DEF EnvStep, PodAsSeen
    <2> DEFINE n == worker.node
    <2>1. n \in Nodes
      BY DEF IInv, TypeOK, Worker
    <2>2. /\ ~PodNews(n)
          /\ pod'[n] = pod[n] \/ (~Owned(pod[n]) /\ ~Owned(pod'[n]))
          /\ ~Visited(n)' => pod'[n] = pod[n] /\ ~Visited(n)
          /\ ~Mistakable(n)' => ~Mistakable(n)
      BY <2>1, PodUntouched, VisitsKept DEF IInv, EnvStep, SharedStep, PodNews
    <2>3. \/ device'[n] \in {device[n], "down"}
          \/ device[n] # "down" /\ device'[n] \in {"pushed", "saved"}
          \/ ~Owned(pod[n])
      BY <2>1, <2>2 DEF EnvStep, SharedStep
    <2>4. worker' = worker /\ \A s \in Fixed : configs'[s] = configs[s]
      BY DEF EnvStep, SharedStep
    <2>5. ASSUME ~Visited(n)'
          PROVE  /\ worker.pc = "delete" => pod'[n] # None
                 /\ worker.pc = "create" => pod'[n] = None \/ pod'[n].terminating
                 /\ worker.pc = "status" =>
                      /\ worker.cond \notin {"FailedPodGone", "FailedPodUnseen"}
                      /\ worker.cond = "FailedPodExists" =>
                           pod'[n] # None /\ pod'[n].terminating
      BY <2>2, <2>5 DEF IInv, PodAsSeen
    <2>6. ASSUME ~Mistakable(n)'
          PROVE  /\ worker.pc \in {"get", "init"} =>
                      Owned(pod'[n]) /\ pod'[n].hash = worker.want
                 /\ worker.pc = "init" =>
                      pod'[n].state = "ready" /\ pod'[n].id = worker.seen
                 /\ worker.pc = "status" /\ worker.cond = "Ready" =>
                      /\ Owned(pod'[n])
                      /\ device'[n] # "empty"
                      /\ worker.spec \in Registered
                      /\ worker.spec \in Fixed => pod'[n].hash = configs'[worker.spec]
      BY <2>2, <2>3, <2>4, <2>6 DEF IInv, PodAsSeen
    <2> QED
      BY <2>4, <2>5, <2>6 DEF PodAsSeen, Owned
  <1>5. FailuresCounted'
    <2>1. faults \in Nat /\ faults' \in Nat /\ faults <= faults'
      BY BoundAssumption DEF IInv, TypeOK, ClusterTypeOK, EnvStep, SharedStep
    <2>2. ASSUME NEW n \in Nodes, node'[n] # None, node'[n].status \in ApiFailures
          PROVE  faults' >= 1
      BY <2>1, <2>2 DEF IInv, EnvStep, SharedStep, FailuresCounted
    <2>3. worker.node \in current' =>
            worker.node \in current /\ node'[worker.node] = node[worker.node]
      BY DEF EnvStep
    <2> QED
      BY <2>1, <2>2, <2>3 DEF IInv, EnvStep, FailuresCounted
  <1>6. ASSUME NEW n \in Nodes, node'[n] # None, ~Woken(n)'
        PROVE  /\ ~Woken(n)
               /\ node'[n] = node[n]
               /\ pod'[n] = pod[n] \/ (~Owned(pod[n]) /\ ~Owned(pod'[n]))
               /\ ~Visited(n)' => pod'[n] = pod[n] /\ ~Visited(n)
               /\ ~Mistakable(n)' => ~Mistakable(n)
               /\ \/ device'[n] \in {device[n], "down"}
                  \/ device[n] # "down" /\ device'[n] \in {"pushed", "saved"}
                  \/ ~Owned(pod[n])
    BY <1>6, NodeUntouched, PodUntouched, VisitsKept
       DEF IInv, EnvStep, SharedStep, Woken, PodNews
  <1>7. NoLostWakeup'
    BY <1>6 DEF IInv, NoLostWakeup, LeftWell, Due, Owned, OwnerGone
  <1>8. ReadyIsTrue'
    <2> SUFFICES ASSUME NEW n \in Nodes, Live(n)', ~Woken(n)', ~Due(n)',
                        node'[n].status = "Ready", ~Mistakable(n)'
                 PROVE  /\ node'[n].spec \in Registered
                        /\ pod'[n] # None
                        /\ pod'[n].owner = node'[n].uid
                        /\ device'[n] \in {"pushed", "saved"}
                        /\ node'[n].spec \in Fixed => pod'[n].hash = configs'[node'[n].spec]
      BY DEF ReadyIsTrue, ReadyWell
    <2>1. /\ ~Woken(n) /\ node'[n] = node[n] /\ node[n] # None /\ ~Mistakable(n)
          /\ pod'[n] = pod[n] \/ (~Owned(pod[n]) /\ ~Owned(pod'[n]))
          /\ \/ device'[n] \in {device[n], "down"}
             \/ device[n] # "down" /\ device'[n] \in {"pushed", "saved"}
             \/ ~Owned(pod[n])
      BY <1>6 DEF Live
    <2>2. ~Due(n)
      BY <2>1 DEF Due, OwnerGone
    <2>3. /\ node[n].spec \in Registered
          /\ pod[n] # None
          /\ pod[n].owner = node[n].uid
          /\ device[n] \in {"pushed", "saved"}
          /\ node[n].spec \in Fixed => pod[n].hash = configs[node[n].spec]
      BY <2>1, <2>2 DEF IInv, ReadyIsTrue, ReadyWell, Live
    <2>4. node[n].uid # None
      BY <2>1, NoneAssumption DEF IInv, TypeOK, ClusterTypeOK, NodeObj
    <2>5. Owned(pod[n])
      BY <2>3, <2>4 DEF Owned
    <2>6. device'[n] \in {"pushed", "saved"}
      BY <2>1, <2>3, <2>5 DEF Due
    <2> QED
      BY <2>1, <2>3, <2>5, <2>6 DEF EnvStep, SharedStep
  <1>9. FailuresAreReal'
    <2>1. faults \in Nat /\ faults' \in Nat /\ faults <= faults'
      BY BoundAssumption DEF IInv, TypeOK, ClusterTypeOK, EnvStep, SharedStep
    <2> QED
      BY <1>6, <2>1 DEF IInv, EnvStep, SharedStep, FailuresAreReal, Live
  <1> QED
    BY <1>1, <1>2, <1>3, <1>4, <1>5, <1>7, <1>8, <1>9 DEF IInv

-----------------------------------------------------------------------------
(* Steps of the worker keep the invariant.                                 *)

\* What the invariant says of a Node and of the worker.
RestsWell(n) ==
    node[n] # None /\ ~Woken(n) =>
      /\ LeftWell(n)
      /\ ~node[n].deleting =>
           /\ node[n].status = "FailedProvider" => node[n].spec \notin Registered
           /\ node[n].status = "FailedConfig" /\ node[n].spec \in Fixed =>
                configs[node[n].spec] = None
           /\ node[n].status \in ApiFailures => faults >= 2
      /\ ~node[n].deleting /\ node[n].status = "Ready" =>
           (~Due(n) /\ ~Mistakable(n) => ReadyWell(n))

NodesRestWell == \A n \in Nodes : RestsWell(n)

WorkerInv == WorkerKnows /\ CurrentIsRead /\ PodAsSeen /\ FailuresCounted

LEMMA RestParts ==
    NodesRestWell <=> NoLostWakeup /\ ReadyIsTrue /\ FailuresAreReal
  BY DEF NodesRestWell, RestsWell, NoLostWakeup, ReadyIsTrue, FailuresAreReal,
         Live

LEMMA Parts ==
    IInv <=> TypeOK /\ CachesCatchUp /\ PodsOnRecord /\ WorkerInv /\ NodesRestWell
  BY RestParts DEF IInv, WorkerInv

LEMMA RestPartsPrimed ==
    NodesRestWell' <=> (NoLostWakeup /\ ReadyIsTrue /\ FailuresAreReal)'
  BY DEF NodesRestWell, RestsWell, NoLostWakeup, ReadyIsTrue, FailuresAreReal,
         Live

LEMMA PartsPrimed ==
    IInv' <=> TypeOK' /\ CachesCatchUp' /\ PodsOnRecord' /\ WorkerInv' /\ NodesRestWell'
  BY RestPartsPrimed DEF IInv, WorkerInv

\* A step that leaves Node n and its Pod alone and drops it from no queue.
LEMMA OthersRest ==
    ASSUME IInv, TypeOK', NodeStep, PodStep, RecordStep, UNCHANGED configs,
           faults <= faults',
           NEW n \in Nodes, n # worker.node,
           n \in queue => n \in queue' \/ worker'.node = n,
           UNCHANGED device[n]
    PROVE  RestsWell(n)'
  <1> SUFFICES ASSUME node'[n] # None, ~Woken(n)'
               PROVE  RestsWell(n)'
    BY DEF RestsWell
  <1>1. /\ ~Woken(n) /\ node'[n] = node[n]
        /\ pod'[n] = pod[n] \/ (~Owned(pod[n]) /\ ~Owned(pod'[n]))
        /\ ~Visited(n)' => pod'[n] = pod[n] /\ ~Visited(n)
        /\ ~Mistakable(n)' => ~Mistakable(n)
    BY NodeUntouched, PodUntouched, VisitsKept DEF IInv, Woken, PodNews
  <1>2. RestsWell(n) /\ node[n] # None /\ ~Woken(n)
    BY <1>1, Parts DEF NodesRestWell
  <1>3. faults \in Nat /\ faults' \in Nat
    BY BoundAssumption DEF IInv, TypeOK, ClusterTypeOK
  <1>4. node[n].uid # None
    BY <1>2, NoneAssumption DEF IInv, TypeOK, ClusterTypeOK, NodeObj
  <1>5. CASE pod'[n] = pod[n]
    BY <1>1, <1>2, <1>3, <1>5 DEF RestsWell, LeftWell, ReadyWell, Due, OwnerGone
  <1>6. CASE ~Owned(pod[n]) /\ ~Owned(pod'[n])
    <2>1. ~Due(n) /\ ~Due(n)'
      BY <1>6 DEF Due, Owned
    <2>2. ~(pod[n] # None /\ pod[n].owner = node[n].uid)
      BY <1>4, <1>6 DEF Owned
    <2> QED
      BY <1>1, <1>2, <1>3, <2>1, <2>2 DEF RestsWell, LeftWell, ReadyWell
  <1> QED
    BY <1>1, <1>5, <1>6

\* A step inside Reconcile: the Nodes stay, at most one Pod is written.
MidStep ==
    /\ worker.pc # "idle"
    /\ worker'.node = worker.node
    /\ UNCHANGED <<nodeVars, queue, current, configs>>
    /\ PodStep
    /\ RecordStep
    /\ faults <= faults'
    /\ \A n \in Nodes \ {worker.node} : UNCHANGED device[n]

LEMMA MidKeeps ==
    ASSUME IInv, TypeOK', MidStep, WorkerInv'
    PROVE  IInv'
  <1>1. NodeStep
    BY DEF MidStep, NodeStep
  <1>2. CachesCatchUp' /\ PodsOnRecord'
    BY <1>1, CachesKept, RecordKept DEF IInv, MidStep
  <1>3. ASSUME NEW n \in Nodes
        PROVE  RestsWell(n)'
    <2>1. CASE n = worker.node
      BY <2>1 DEF MidStep, RestsWell, Woken
    <2>2. CASE n # worker.node
      BY <1>1, <2>2, OthersRest DEF MidStep
    <2> QED
      BY <2>1, <2>2
  <1> QED
    BY <1>2, <1>3, PartsPrimed DEF NodesRestWell

\* A call that fails costs a fault, anything else costs nothing.
LEMMA FaultCount ==
    ASSUME IInv, TypeOK', Fault \/ NoBudget
    PROVE  /\ faults' \in Nat /\ faults <= faults'
           /\ UNCHANGED strangers
           /\ Fault => faults' = faults + 1
  BY BudgetType, BoundAssumption DEF IInv, TypeOK, ClusterTypeOK, Fault

LEMMA NoPodWritten ==
    ASSUME IInv, UNCHANGED <<podVars, strangers>>
    PROVE  PodStep /\ RecordStep
  BY RecordSame DEF podVars, PodStep, IInv

\* Only a failed call adds to the failures, and it costs a fault.
LEMMA CountKept ==
    ASSUME IInv, UNCHANGED <<node, current>>, faults <= faults',
           faults' \in Nat,
           worker'.node = worker.node,
           worker'.pc = "status" /\ worker'.cond \in ApiFailures => faults' = faults + 1
    PROVE  FailuresCounted'
  <1>1. faults \in Nat
    BY BoundAssumption DEF IInv, TypeOK, ClusterTypeOK
  <1>2. \A n \in Nodes : node[n] # None /\ node[n].status \in ApiFailures => faults >= 1
    BY DEF IInv, FailuresCounted
  <1>3. worker.node \in current => worker.node \in Nodes /\ node[worker.node] # None
    BY DEF IInv, CurrentIsRead, TypeOK, ClusterTypeOK
  <1> QED
    BY <1>1, <1>2, <1>3 DEF FailuresCounted

\* The steps of Reconcile that store no Node.
Inside ==
    \/ GetNodeConfig
    \/ \E i \in Interfaces : ApplyNad(i)
    \/ ComparePod
    \/ DeletePod
    \/ CreatePod
    \/ GetPod
    \/ SetInitialConfig

LEMMA InsideIsMid ==
    ASSUME IInv, TypeOK', Inside
    PROVE  /\ MidStep
           /\ worker'.uid = worker.uid /\ worker'.spec = worker.spec
           /\ faults' \in Nat /\ UNCHANGED strangers
           /\ Fault => faults' = faults + 1
  <1> DEFINE n == worker.node
  <1>1. /\ worker.pc \in PodSteps \cup {"config"}
        /\ UNCHANGED <<nodeVars, cPod, queue, current, configs>>
        /\ Fault \/ NoBudget
    BY DEF Inside, GetNodeConfig, ApplyNad, ComparePod, DeletePod, CreatePod, GetPod,
           SetInitialConfig, PodSteps, NoBudget, budget, podVars, extVars
  <1>2. n \in Nodes /\ worker.pc # "idle" /\ worker.uid \in Uids
    BY <1>1, WorkerTyped DEF IInv, PodSteps
  <1>3. /\ faults' \in Nat /\ faults <= faults' /\ UNCHANGED strangers
        /\ Fault => faults' = faults + 1
    BY <1>1, FaultCount
  <1>4. worker'.node = worker.node /\ worker'.uid = worker.uid /\ worker'.spec = worker.spec
    <2>1. CASE \E c \in Conditions, q \in BOOLEAN : Report(c, q)
      BY <2>1 DEF Report, IInv, TypeOK, Worker
    <2>2. CASE ~\E c \in Conditions, q \in BOOLEAN : Report(c, q)
      <3>1. cPod[n] # None /\ cPod[n].state # "ready" => PodCondition(cPod[n]) \in Conditions
        BY <1>2 DEF PodCondition, Conditions, IInv, TypeOK, ClusterTypeOK, PodObj, PodStates
      <3> QED
        BY <1>2, <2>2, <3>1 DEF Inside, GetNodeConfig, ApplyNad, ComparePod, DeletePod, CreatePod,
               GetPod, SetInitialConfig, Conditions, IInv, TypeOK, Worker
    <2> QED
      BY <2>1, <2>2
  <1>5. \A m \in Nodes \ {n} : device'[m] = device[m]
    BY <1>2 DEF Inside, GetNodeConfig, ApplyNad, ComparePod, DeletePod, CreatePod,
           GetPod, SetInitialConfig, PodRemove, extVars, IInv, TypeOK, ClusterTypeOK
  <1>6. PodStep /\ RecordStep
    <2>1. CASE UNCHANGED podVars
      BY <1>3, <2>1, NoPodWritten
    <2>2. CASE pod[n] # None /\ PodRemove(n)
      BY <1>1, <1>2, <1>3, <2>2, PodRemoveStep DEF IInv
    <2>3. ASSUME NEW p \in PodIds,
                 PodWrite(n, [id |-> p, owner |-> worker.uid, hash |-> worker.want,
                              state |-> "empty", terminating |-> FALSE])
          PROVE  PodStep /\ RecordStep
      <3> DEFINE o == [id |-> p, owner |-> worker.uid, hash |-> worker.want,
                       state |-> "empty", terminating |-> FALSE]
      <3>1. /\ PodWrite(n, pod'[n]) /\ pod'[n] = o
            /\ \A m \in Nodes \ {n} : pod'[m] = pod[m]
        BY <1>2, <2>3 DEF PodWrite, IInv, TypeOK, ClusterTypeOK
      <3>2. o.owner # None
        BY <1>2, NoneAssumption
      <3>3. RecordStep
        BY <1>3, <3>1, <3>2 DEF RecordStep, IInv, PodsOnRecord, PodVersions
      <3> QED
        BY <1>1, <1>2, <3>1, <3>3 DEF PodStep
    <2> QED
      BY <2>1, <2>2, <2>3 DEF Inside, GetNodeConfig, ApplyNad, ComparePod, DeletePod,
             CreatePod, GetPod, SetInitialConfig, podVars
  <1> QED
    BY <1>1, <1>2, <1>3, <1>4, <1>5, <1>6 DEF MidStep

\* What the cache tells of a Pod that there is no news of.
LEMMA CacheTrue ==
    ASSUME IInv, NEW n \in Nodes, ~PodNews(n)
    PROVE  /\ cPod[n] = pod[n] \/ (~Owned(cPod[n]) /\ ~Owned(pod[n]))
           /\ ~Visited(n) => /\ cPod[n] = None \/ Owned(cPod[n])
                             /\ pod[n] = None \/ Owned(pod[n])
                             /\ ~Mistakable(n)
           /\ ~Mistakable(n) /\ cPod[n] # None /\ cPod[n].hash # None => Owned(cPod[n])
  <1>1. cPod[n] = pod[n] \/ (~Owned(cPod[n]) /\ ~Owned(pod[n]))
    BY NotInFlight DEF IInv, PodNews
  <1>2. ~Visited(n) => ~Mistakable(n)
    BY DEF Visited, Mistakable
  <1>3. ~Visited(n) => cPod[n] = None \/ Owned(cPod[n])
    BY Familiar DEF IInv
  <1>4. ~Visited(n) => pod[n] = None \/ Owned(pod[n])
    BY Familiar DEF IInv
  <1>5. ~Mistakable(n) /\ cPod[n] # None /\ cPod[n].hash # None => Owned(cPod[n])
    BY Familiar DEF IInv
  <1> QED
    BY <1>1, <1>2, <1>3, <1>4, <1>5

\* To report a condition that says nothing of the Pod or the NADs.
LEMMA ReportKeeps ==
    ASSUME IInv, TypeOK', MidStep, UNCHANGED strangers,
           NEW c \in {"FailedConfig", "FailedNad", "FailedPodApi"},
           Report(c, FALSE),
           faults' \in Nat,
           c # "FailedConfig" => faults' = faults + 1,
           c = "FailedConfig" => worker.pc = "config" /\ configs[worker.spec] = None,
           worker.pc \notin {"finalize", "status"}
    PROVE  IInv'
  <1>1. /\ worker'.pc = "status" /\ worker'.cond = c /\ ~worker'.requeue
        /\ worker'.node = worker.node /\ worker'.uid = worker.uid
        /\ worker'.spec = worker.spec
    BY DEF Report, IInv, TypeOK, Worker
  <1>2. WorkerKnows'
    BY <1>1 DEF IInv, MidStep, WorkerKnows, PodSteps
  <1>3. CurrentIsRead'
    BY <1>1 DEF IInv, MidStep, CurrentIsRead, nodeVars
  <1>4. PodAsSeen'
    BY <1>1 DEF PodAsSeen, PodSteps
  <1>5. FailuresCounted'
    BY <1>1, CountKept DEF MidStep, nodeVars, ApiFailures
  <1> QED
    BY <1>2, <1>3, <1>4, <1>5, MidKeeps DEF WorkerInv

LEMMA GetNodeConfigKeeps ==
    ASSUME IInv, TypeOK', GetNodeConfig
    PROVE  IInv'
  <1> DEFINE n == worker.node
  <1>0. n \in Nodes /\ worker.uid \in Uids /\ worker.spec \in Specs
    BY WorkerTyped DEF IInv, GetNodeConfig
  <1>1. MidStep /\ faults' \in Nat /\ faults <= faults' /\ UNCHANGED strangers
    BY InsideIsMid DEF Inside, MidStep
  <1>3. CASE configs[worker.spec] = None
    BY <1>1, <1>3, ReportKeeps DEF GetNodeConfig, extVars
  <1>4. CASE configs[worker.spec] # None
    <2>1. worker' = [worker EXCEPT !.pc = "nads", !.want = configs[worker.spec],
                                   !.todo = NadsToApply(n, worker.uid)]
      BY <1>4 DEF GetNodeConfig
    <2>2. WorkerKnows' /\ CurrentIsRead' /\ PodAsSeen'
      BY <1>4, <2>1
         DEF IInv, GetNodeConfig, WorkerKnows, CurrentIsRead, PodAsSeen, PodSteps,
             TypeOK, Worker, nodeVars, extVars
    <2>3. worker'.pc = "nads" /\ worker'.node = worker.node
      BY <2>1 DEF IInv, TypeOK, Worker
    <2>4. FailuresCounted'
      BY <1>1, <2>3, CountKept DEF GetNodeConfig, nodeVars
    <2> QED
      BY <1>1, <2>2, <2>4, MidKeeps DEF WorkerInv
  <1> QED
    BY <1>3, <1>4

LEMMA ApplyNadKeeps ==
    ASSUME IInv, TypeOK', NEW i \in Interfaces, ApplyNad(i)
    PROVE  IInv'
  <1> DEFINE n == worker.node
  <1>0. n \in Nodes /\ worker.uid \in Uids
    BY WorkerTyped DEF IInv, ApplyNad
  <1>1. /\ MidStep /\ faults' \in Nat /\ faults <= faults' /\ UNCHANGED strangers
        /\ Fault => faults' = faults + 1
    BY InsideIsMid DEF Inside, MidStep
  <1>3. CASE Fault /\ Report("FailedNad", FALSE) /\ UNCHANGED nads
    BY <1>1, <1>3, ReportKeeps DEF ApplyNad
  <1>4. CASE /\ nads' = [nads EXCEPT ![n][i] = IF nadOn THEN worker.uid ELSE None]
             /\ worker' = [worker EXCEPT !.todo = @ \ {i}]
    <2>1. WorkerKnows' /\ CurrentIsRead' /\ PodAsSeen'
      BY <1>4 DEF IInv, ApplyNad, WorkerKnows, CurrentIsRead, PodAsSeen, PodSteps,
                  TypeOK, Worker, nodeVars
    <2>2. worker'.pc = "nads" /\ worker'.node = worker.node
      BY <1>4 DEF ApplyNad, IInv, TypeOK, Worker
    <2>3. FailuresCounted'
      BY <1>1, <2>2, CountKept DEF ApplyNad, nodeVars
    <2> QED
      BY <1>1, <2>1, <2>3, MidKeeps DEF WorkerInv
  <1> QED
    BY <1>3, <1>4 DEF ApplyNad

LEMMA ComparePodKeeps ==
    ASSUME IInv, TypeOK', ComparePod
    PROVE  IInv'
  <1> DEFINE n == worker.node
  <1>0. n \in Nodes /\ worker.want # None
    BY WorkerTyped DEF IInv, ComparePod, WorkerKnows, PodSteps
  <1>1. MidStep /\ faults' \in Nat /\ faults <= faults' /\ UNCHANGED strangers
    BY InsideIsMid DEF Inside, MidStep
  <1>2. PICK pc \in {"create", "delete", "get"} :
          /\ worker' = [worker EXCEPT !.pc = pc]
          /\ pc = "create" => cPod[n] = None
          /\ pc = "delete" => cPod[n] # None
          /\ pc = "get" => cPod[n] # None /\ cPod[n].hash = worker.want
    BY DEF ComparePod, IsRevision
  <1>3. worker'.pc = pc /\ worker'.node = n /\ worker'.want = worker.want
    BY <1>2 DEF IInv, TypeOK, Worker
  <1>5. WorkerKnows' /\ CurrentIsRead'
    BY <1>2 DEF IInv, ComparePod, WorkerKnows, CurrentIsRead, PodSteps, 
                OwnerGone, TypeOK, Worker, nodeVars, extVars
  <1>6. FailuresCounted'
    BY <1>1, <1>3, CountKept DEF ComparePod, nodeVars
  <1>7. PodAsSeen'
    <2> SUFFICES ASSUME ~PodNews(n)'
                 PROVE  PodAsSeen'
      BY <1>3 DEF PodAsSeen
    <2>1. ~PodNews(n) /\ pod'[n] = pod[n] /\ (Visited(n)' <=> Visited(n))
          /\ (Mistakable(n)' <=> Mistakable(n))
      BY <1>1 DEF ComparePod, PodNews, OwnInFlight, podVars, Visited, Mistakable
    <2>2. pc = "get" /\ ~Mistakable(n) => Owned(pod[n]) /\ pod[n].hash = worker.want
      BY <1>0, <1>2, <2>1, CacheTrue
    <2>3. pc = "delete" /\ ~Visited(n) => pod[n] # None
      BY <1>0, <1>2, <2>1, CacheTrue
    <2>4. pc = "create" /\ ~Visited(n) => pod[n] = None
      BY <1>0, <1>2, <2>1, CacheTrue
    <2> QED
      BY <1>2, <1>3, <2>1, <2>2, <2>3, <2>4 DEF PodAsSeen, Owned
  <1> QED
    BY <1>1, <1>5, <1>6, <1>7, MidKeeps DEF WorkerInv

LEMMA DeletePodKeeps ==
    ASSUME IInv, TypeOK', DeletePod
    PROVE  IInv'
  <1> DEFINE n == worker.node
  <1>0. n \in Nodes
    BY WorkerTyped DEF IInv, DeletePod
  <1>1. worker'.node = worker.node
    BY DEF DeletePod, Report, IInv, TypeOK, Worker
  <1>2. UNCHANGED <<nodeVars, queue, current, configs, nads, nadOn>>
    BY DEF DeletePod, nodeVars
  <1>3. /\ MidStep /\ faults' \in Nat /\ faults <= faults' /\ UNCHANGED strangers
        /\ Fault => faults' = faults + 1
    BY InsideIsMid DEF Inside, MidStep
  <1>4. CASE pod[n] # None /\ PodRemove(n) /\ worker' = [worker EXCEPT !.pc = "create"]
    <2>3. WorkerKnows' /\ CurrentIsRead'
      BY <1>2, <1>4 DEF IInv, DeletePod, WorkerKnows, CurrentIsRead, PodSteps, TypeOK,
                        Worker, nodeVars
    <2>4. pod'[n] = None \/ pod'[n].terminating
      <3>1. CASE pod' = [pod EXCEPT ![n] = None]
        BY <1>0, <3>1 DEF IInv, TypeOK, ClusterTypeOK
      <3>2. CASE pod' = [pod EXCEPT ![n] = [pod[n] EXCEPT !.terminating = TRUE]]
        <4>1. pod[n] \in PodObj
          BY <1>0, <1>4 DEF IInv, TypeOK, ClusterTypeOK
        <4> QED
          BY <1>0, <3>2, <4>1 DEF IInv, TypeOK, ClusterTypeOK, PodObj
      <3>3. CASE UNCHANGED pod /\ pod[n].terminating
        BY <3>3
      <3> QED
        BY <1>4, <3>1, <3>2, <3>3 DEF PodRemove, PodWrite
    <2>5. worker'.pc = "create"
      BY <1>4 DEF IInv, TypeOK, Worker
    <2>6. PodAsSeen'
      BY <1>1, <2>4, <2>5 DEF PodAsSeen
    <2>7. FailuresCounted'
      BY <1>1, <1>2, <1>3, <2>5, CountKept DEF nodeVars
    <2> QED
      BY <1>3, <2>3, <2>6, <2>7, MidKeeps DEF WorkerInv
  <1>6. CASE Fault /\ Report("FailedPodApi", FALSE) /\ UNCHANGED <<pod, podLog, device>>
    BY <1>2, <1>3, <1>6, ReportKeeps DEF DeletePod
  <1>7. CASE /\ pod[n] = None /\ Report("FailedPodGone", FALSE)
             /\ UNCHANGED <<pod, podLog, device>>
    <2>1. worker' = [worker EXCEPT !.pc = "status", !.cond = "FailedPodGone",
                                   !.requeue = FALSE]
      BY <1>7 DEF Report
    <2>2. WorkerKnows' /\ CurrentIsRead'
      BY <1>2, <2>1 DEF IInv, DeletePod, WorkerKnows, CurrentIsRead, PodSteps, TypeOK,
                        Worker, nodeVars
    <2>3. worker'.pc = "status" /\ worker'.cond = "FailedPodGone"
      BY <2>1 DEF IInv, TypeOK, Worker
    <2>4. PodAsSeen'
      BY <1>1, <1>2, <1>3, <1>7, <2>3
         DEF IInv, DeletePod, PodAsSeen, PodNews, OwnInFlight, Visited
    <2>5. FailuresCounted'
      BY <1>1, <1>2, <1>3, <2>3, CountKept DEF nodeVars, ApiFailures
    <2> QED
      BY <1>3, <2>2, <2>4, <2>5, MidKeeps DEF WorkerInv
  <1> QED
    BY <1>4, <1>6, <1>7 DEF DeletePod

LEMMA CreatePodKeeps ==
    ASSUME IInv, TypeOK', CreatePod
    PROVE  IInv'
  <1> DEFINE n == worker.node
  <1>0. n \in Nodes /\ worker.uid \in Uids /\ worker.want \in Revisions
    BY WorkerTyped DEF IInv, CreatePod, PodSteps
  <1>1. worker'.node = worker.node
    BY DEF CreatePod, Report, IInv, TypeOK, Worker
  <1>2. UNCHANGED <<nodeVars, queue, current, extVars, nadOn>>
    BY DEF CreatePod, nodeVars, extVars
  <1>3. /\ MidStep /\ faults' \in Nat /\ faults <= faults' /\ UNCHANGED strangers
        /\ Fault => faults' = faults + 1
    BY InsideIsMid DEF Inside, MidStep
  <1>4. ASSUME NEW p \in PodIds,
               PodWrite(n, [id |-> p, owner |-> worker.uid, hash |-> worker.want,
                            state |-> "empty", terminating |-> FALSE]),
               worker' = [worker EXCEPT !.pc = "get"]
        PROVE  IInv'
    <2> DEFINE o == [id |-> p, owner |-> worker.uid, hash |-> worker.want,
                     state |-> "empty", terminating |-> FALSE]
    <2>1. /\ PodWrite(n, pod'[n]) /\ pod'[n] = o
          /\ \A m \in Nodes \ {n} : pod'[m] = pod[m]
      BY <1>0, <1>4 DEF PodWrite, IInv, TypeOK, ClusterTypeOK
    <2>2. Owned(o)
      <3>1. o \in PodObj
        BY <1>0 DEF PodObj, PodStates
      <3> QED
        BY <1>0, <3>1, NoneAssumption DEF Owned
    <2>5. WorkerKnows' /\ CurrentIsRead'
      BY <1>2, <1>4 DEF IInv, CreatePod, WorkerKnows, CurrentIsRead, PodSteps, TypeOK,
                        Worker, nodeVars, extVars
    <2>6. OwnInFlight(n)'
      <3>1. /\ podLog[n] \in Seq(PodObj \cup {None})
            /\ podLog'[n] = Append(podLog[n], pod'[n])
        BY <1>0, <2>1 DEF PodWrite, IInv, TypeOK, ClusterTypeOK
      <3>2. /\ podLog'[n] # <<>>
            /\ Len(podLog[n]) + 1 \in DOMAIN podLog'[n]
            /\ podLog'[n][Len(podLog[n]) + 1] = pod'[n]
        BY ONLY <3>1, AppendKeeps
      <3>3. Owned(pod'[n])
        BY <2>1, <2>2
      <3> QED
        BY <1>1, <3>2, <3>3 DEF OwnInFlight, Owned
    <2>7. PodAsSeen'
      BY <1>1, <2>6 DEF PodAsSeen, PodNews
    <2>8. worker'.pc = "get"
      BY <1>4 DEF IInv, TypeOK, Worker
    <2>9. FailuresCounted'
      BY <1>1, <1>2, <1>3, <2>8, CountKept DEF nodeVars
    <2> QED
      BY <1>3, <2>5, <2>7, <2>9, MidKeeps DEF WorkerInv
  <1>6. CASE Fault /\ Report("FailedPodApi", FALSE) /\ UNCHANGED <<pod, podLog>>
    BY <1>2, <1>3, <1>6, ReportKeeps DEF CreatePod, extVars
  <1>7. CASE pod[n] # None /\ Report("FailedPodExists", FALSE) /\ UNCHANGED <<pod, podLog>>
    <2>1. worker' = [worker EXCEPT !.pc = "status", !.cond = "FailedPodExists",
                                   !.requeue = FALSE]
      BY <1>7 DEF Report
    <2>2. WorkerKnows' /\ CurrentIsRead'
      BY <1>2, <2>1 DEF IInv, CreatePod, WorkerKnows, CurrentIsRead, PodSteps, TypeOK,
                        Worker, nodeVars, extVars
    <2>3. worker'.pc = "status" /\ worker'.cond = "FailedPodExists"
      BY <2>1 DEF IInv, TypeOK, Worker
    <2>4. PodAsSeen'
      BY <1>1, <1>2, <1>3, <1>7, <2>3
         DEF IInv, CreatePod, PodAsSeen, PodNews, OwnInFlight, Visited
    <2>5. FailuresCounted'
      BY <1>1, <1>2, <1>3, <2>3, CountKept DEF nodeVars, ApiFailures
    <2> QED
      BY <1>3, <2>2, <2>4, <2>5, MidKeeps DEF WorkerInv
  <1> QED
    BY <1>4, <1>6, <1>7 DEF CreatePod

LEMMA GetPodKeeps ==
    ASSUME IInv, TypeOK', GetPod
    PROVE  IInv'
  <1> DEFINE n == worker.node
  <1>0. n \in Nodes
    BY WorkerTyped DEF IInv, GetPod
  <1>1. MidStep /\ faults' \in Nat /\ faults <= faults' /\ UNCHANGED strangers
    BY InsideIsMid DEF Inside, MidStep
  \* With no news, the Pod that was read is the one there is.
  <1>3. ASSUME ~PodNews(n)', ~Mistakable(n)'
        PROVE  cPod[n] = pod[n] /\ Owned(pod[n]) /\ pod[n].hash = worker.want
    <2>1. ~PodNews(n) /\ ~Mistakable(n)
      BY <1>1, <1>3 DEF MidStep, GetPod, PodNews, OwnInFlight, podVars, Mistakable
    <2>2. Owned(pod[n]) /\ pod[n].hash = worker.want
      BY <1>0, <2>1, NoneAssumption DEF IInv, GetPod, PodAsSeen
    <2> QED
      BY <1>0, <2>1, <2>2, CacheTrue
  <1>4. ~Visited(n)' => ~Mistakable(n)'
    BY DEF Visited, Mistakable
  <1>5. CASE cPod[n] = None /\ Report("FailedPodUnseen", FALSE)
    <2>1. worker' = [worker EXCEPT !.pc = "status", !.cond = "FailedPodUnseen",
                                   !.requeue = FALSE]
      BY <1>5 DEF Report
    <2>2. WorkerKnows' /\ CurrentIsRead'
      BY <2>1 DEF IInv, GetPod, WorkerKnows, CurrentIsRead, PodSteps, 
                  TypeOK, Worker, nodeVars, extVars
    <2>3. /\ worker'.pc = "status" /\ worker'.cond = "FailedPodUnseen"
          /\ worker'.node = n
      BY <2>1 DEF IInv, TypeOK, Worker
    <2>4. PodAsSeen'
      BY <1>3, <1>4, <1>5, <2>3 DEF PodAsSeen, Owned
    <2>5. FailuresCounted'
      BY <1>1, <2>3, CountKept DEF GetPod, nodeVars, ApiFailures
    <2> QED
      BY <1>1, <2>2, <2>4, <2>5, MidKeeps DEF WorkerInv
  <1>6. CASE /\ cPod[n] # None /\ cPod[n].state # "ready"
             /\ Report(PodCondition(cPod[n]), TRUE)
    <2>1. PICK c \in {"NotReadyEmpty", "NotReadyContainer", "NotReadyAddress"} :
            worker' = [worker EXCEPT !.pc = "status", !.cond = c, !.requeue = TRUE]
      <3>1. cPod[n] \in PodObj
        BY <1>0, <1>6 DEF IInv, TypeOK, ClusterTypeOK
      <3> QED
        BY <1>6, <3>1 DEF Report, PodCondition, PodObj, PodStates
    <2>2. /\ worker'.pc = "status" /\ worker'.cond = c /\ worker'.requeue
          /\ worker'.node = n /\ worker'.uid = worker.uid /\ worker'.spec = worker.spec
      BY <2>1 DEF IInv, TypeOK, Worker
    <2>3. WorkerKnows' /\ CurrentIsRead' /\ PodAsSeen'
      BY <2>2 DEF IInv, GetPod, WorkerKnows, CurrentIsRead, PodAsSeen,
                  PodSteps, nodeVars, extVars
    <2>4. FailuresCounted'
      BY <1>1, <2>2, CountKept DEF GetPod, nodeVars, ApiFailures
    <2> QED
      BY <1>1, <2>3, <2>4, MidKeeps DEF WorkerInv
  <1>7. CASE /\ cPod[n] # None /\ cPod[n].state = "ready"
             /\ worker' = [worker EXCEPT !.pc = "init", !.seen = cPod[n].id]
    <2>1. WorkerKnows' /\ CurrentIsRead'
      BY <1>7 DEF IInv, GetPod, WorkerKnows, CurrentIsRead, PodSteps, 
                  OwnerGone, TypeOK, Worker, nodeVars, extVars
    <2>2. /\ worker'.pc = "init" /\ worker'.node = n /\ worker'.want = worker.want
          /\ worker'.seen = cPod[n].id
      BY <1>7 DEF IInv, TypeOK, Worker
    <2>3. pod'[n] = pod[n]
      BY DEF GetPod, podVars
    <2>4. PodAsSeen'
      BY <1>3, <1>7, <2>2, <2>3 DEF PodAsSeen, Owned
    <2>5. FailuresCounted'
      BY <1>1, <2>2, CountKept DEF GetPod, nodeVars
    <2> QED
      BY <1>1, <2>1, <2>4, <2>5, MidKeeps DEF WorkerInv
  <1> QED
    BY <1>5, <1>6, <1>7 DEF GetPod

LEMMA SetInitialConfigKeeps ==
    ASSUME IInv, TypeOK', SetInitialConfig
    PROVE  IInv'
  <1> DEFINE n == worker.node
  <1>0. n \in Nodes
    BY WorkerTyped DEF IInv, SetInitialConfig
  <1>1. MidStep /\ faults' \in Nat /\ faults <= faults' /\ UNCHANGED strangers
    BY InsideIsMid DEF Inside, MidStep
  <1>3. PICK c \in {"Ready", "FailedInitialConfig"}, q \in BOOLEAN :
          /\ worker' = [worker EXCEPT !.pc = "status", !.cond = c, !.requeue = q]
          /\ c = "FailedInitialConfig" => q
          /\ c = "Ready" /\ pod[n] # None /\ pod[n].id = worker.seen =>
               device'[n] \in {"saved", "pushed"}
    <2>1. device[n] \in DeviceStates /\ device \in [Nodes -> DeviceStates]
      BY <1>0 DEF IInv, TypeOK, ClusterTypeOK
    <2>2. CASE pod[n] # None /\ pod[n].id = worker.seen
      <3>1. PICK r \in Outcomes(device[n]) :
              /\ device' = [device EXCEPT ![n] = r.left]
              /\ IF r.ok THEN Report("Ready", FALSE)
                 ELSE Report("FailedInitialConfig", TRUE)
        BY <2>2 DEF SetInitialConfig
      <3>2. r.ok => device'[n] \in {"saved", "pushed"}
        BY <1>0, <2>1, <3>1, OutcomesType
      <3> QED
        BY <3>1, <3>2 DEF Report
    <2>3. CASE ~(pod[n] # None /\ pod[n].id = worker.seen)
      BY <2>3 DEF SetInitialConfig, Report
    <2> QED
      BY <2>2, <2>3
  <1>4. /\ worker'.pc = "status" /\ worker'.cond = c /\ worker'.requeue = q
        /\ worker'.node = n /\ worker'.spec = worker.spec /\ worker'.want = worker.want
    BY <1>3 DEF IInv, TypeOK, Worker
  <1>5. WorkerKnows' /\ CurrentIsRead'
    BY <1>3 DEF IInv, SetInitialConfig, WorkerKnows, CurrentIsRead, PodSteps, TypeOK,
                Worker, nodeVars
  <1>7. PodAsSeen'
    <2> SUFFICES ASSUME c = "Ready", ~PodNews(n)', ~Mistakable(n)'
                 PROVE  /\ Owned(pod[n])
                        /\ device'[n] # "empty"
                        /\ worker.spec \in Registered
                        /\ worker.spec \in Fixed => pod[n].hash = configs[worker.spec]
      BY <1>3, <1>4 DEF PodAsSeen, SetInitialConfig, podVars
    <2>1. ~PodNews(n) /\ ~Mistakable(n)
      BY <1>1, <1>4 DEF SetInitialConfig, PodNews, OwnInFlight, podVars, Mistakable
    <2>2. Owned(pod[n]) /\ pod[n].hash = worker.want /\ pod[n].id = worker.seen
      BY <1>0, <2>1, NoneAssumption DEF IInv, SetInitialConfig, PodAsSeen
    <2>3. /\ worker.spec \in Registered
          /\ worker.spec \in Fixed => worker.want = configs[worker.spec]
      BY DEF IInv, WorkerKnows, SetInitialConfig, PodSteps
    <2> QED
      BY <1>3, <2>2, <2>3 DEF Owned
  <1>8. FailuresCounted'
    BY <1>1, <1>4, CountKept DEF SetInitialConfig, nodeVars, ApiFailures
  <1> QED
    BY <1>1, <1>5, <1>7, <1>8, MidKeeps DEF WorkerInv

\* Reconcile returns: the worker is idle, and a failure it stored is counted.
LEMMA IdleInv ==
    ASSUME IInv, TypeOK', worker' = Idle, Fault \/ NoBudget,
           \A n \in Nodes :
              node'[n] # None /\ node'[n].status \in ApiFailures =>
                \/ node[n] # None /\ node'[n].status = node[n].status
                \/ faults >= 1
    PROVE  WorkerInv'
  <1>1. None \notin current'
    BY NoneAssumption DEF TypeOK, ClusterTypeOK
  <1>2. WorkerKnows' /\ CurrentIsRead' /\ PodAsSeen'
    BY <1>1 DEF Idle, WorkerKnows, CurrentIsRead, PodAsSeen, PodSteps
  <1>3. faults \in Nat /\ faults' \in Nat /\ faults <= faults'
    BY FaultCount, BoundAssumption DEF IInv, TypeOK, ClusterTypeOK
  <1>4. FailuresCounted'
    BY <1>3 DEF Idle, IInv, FailuresCounted
  <1> QED
    BY <1>2, <1>4 DEF WorkerInv

LEMMA RemoveFinalizerKeeps ==
    ASSUME IInv, TypeOK', RemoveFinalizer
    PROVE  IInv'
  <1> DEFINE n == worker.node
  <1>0. n \in Nodes
    BY WorkerTyped DEF IInv, RemoveFinalizer
  <1>1. UNCHANGED <<cNode, podVars, extVars, nadOn>> /\ (Fault \/ NoBudget)
    BY DEF RemoveFinalizer
  <1>2. /\ faults' \in Nat /\ faults <= faults' /\ UNCHANGED strangers
        /\ PodStep /\ RecordStep
    BY <1>1, FaultCount, NoPodWritten
  <1>3. CASE Report("FailedFinalizer", TRUE) /\ UNCHANGED <<node, nodeLog, queue, current>>
    <2>1. worker' = [worker EXCEPT !.pc = "status", !.cond = "FailedFinalizer",
                                   !.requeue = TRUE]
      BY <1>3 DEF Report
    <2>2. /\ worker'.pc = "status" /\ worker'.cond = "FailedFinalizer"
          /\ worker'.requeue /\ worker'.node = n
          /\ worker'.uid = worker.uid /\ worker'.spec = worker.spec
      BY <2>1 DEF IInv, TypeOK, Worker
    <2>3. MidStep
      BY <1>1, <1>2, <1>3, <2>2 DEF MidStep, RemoveFinalizer, nodeVars, extVars
    <2>4. WorkerKnows' /\ CurrentIsRead' /\ PodAsSeen'
      BY <1>3, <2>2 DEF IInv, RemoveFinalizer, WorkerKnows, CurrentIsRead,
                        PodAsSeen, PodSteps
    <2>5. FailuresCounted'
      BY <1>2, <1>3, <2>2, CountKept DEF ApiFailures
    <2> QED
      BY <2>3, <2>4, <2>5, MidKeeps DEF WorkerInv
  <1>4. CASE /\ Finish(FALSE) /\ NodeStep
             /\ node'[n] # None => nodeLog'[n] # <<>> /\ node'[n].status = node[n].status
                                   /\ node[n] # None
             /\ \A m \in Nodes \ {n} : node'[m] = node[m]
    <2>1. worker' = Idle /\ queue' = queue
      BY <1>4 DEF Finish
    <2>2. WorkerInv'
      BY <1>1, <1>4, <2>1, IdleInv
    <2>3. CachesCatchUp' /\ PodsOnRecord'
      BY <1>2, <1>4, CachesKept, RecordKept DEF IInv
    <2>4. ASSUME NEW m \in Nodes
          PROVE  RestsWell(m)'
      <3>1. CASE m = n
        BY <1>4, <3>1 DEF RestsWell, Woken
      <3>2. CASE m # n
        BY <1>1, <1>2, <1>4, <2>1, <3>2, OthersRest DEF extVars
      <3> QED
        BY <3>1, <3>2
    <2> QED
      BY <2>2, <2>3, <2>4, PartsPrimed DEF NodesRestWell
  <1>5. CASE node[n] = None /\ Finish(FALSE) /\ UNCHANGED <<node, nodeLog, current>>
    BY <1>1, <1>4, <1>5 DEF NodeStep, nodeVars
  <1>6. CASE /\ n \in current
             /\ NodeWrite(n, WithoutFinalizer(node[n], "nodedeployer"))
             /\ Finish(FALSE)
    <2>1. NodeWrite(n, node'[n]) /\ node'[n] = WithoutFinalizer(node[n], "nodedeployer")
      BY <1>0, <1>6 DEF NodeWrite, IInv, TypeOK, ClusterTypeOK
    <2>2. nodeLog'[n] # <<>> /\ \A m \in Nodes \ {n} : node'[m] = node[m]
      BY <1>0, <2>1, NodeWriteLogged DEF IInv, NodeWrite, TypeOK, ClusterTypeOK
    <2>3. node[n] \in NodeObj /\ node[n] # None
      BY <1>0, <1>6 DEF IInv, CurrentIsRead, TypeOK, ClusterTypeOK
    <2>4. node'[n] # None => node'[n].status = node[n].status
      BY <2>1, <2>3 DEF WithoutFinalizer, NodeObj
    <2> QED
      BY <1>0, <1>1, <1>4, <1>6, <2>1, <2>2, <2>3, <2>4 DEF NodeStep
  <1> QED
    BY <1>3, <1>5, <1>6 DEF RemoveFinalizer

LEMMA UpdateStatusKeeps ==
    ASSUME IInv, TypeOK', UpdateStatus
    PROVE  IInv'
  <1>0. PICK n \in Nodes : n = worker.node
    BY WorkerTyped DEF IInv, UpdateStatus
  <1>1. /\ UNCHANGED <<cNode, podVars, extVars, nadOn>> /\ worker' = Idle
        /\ Fault \/ NoBudget
    BY DEF UpdateStatus, Finish, Refused
  <1>2. queue \subseteq queue'
    BY DEF UpdateStatus, Finish, Refused
  <1>3. /\ faults' \in Nat /\ faults <= faults' /\ UNCHANGED strangers
        /\ PodStep /\ RecordStep
    BY <1>1, FaultCount, NoPodWritten
  <1>4. \/ n \in queue' /\ UNCHANGED <<node, nodeLog>>
        \/ n \in current /\ NodeWrite(n, [node[n] EXCEPT !.status = worker.cond])
        \/ /\ n \in current
           /\ node[n].status = worker.cond
           /\ UNCHANGED <<node, nodeLog>>
           /\ Finish(worker.requeue)
    BY <1>0 DEF UpdateStatus, Accepted, Stored, Finish, Refused
  <1>5. node[n] \in NodeObj \cup {None} /\ (n \in current => node[n] # None)
    BY <1>0 DEF IInv, CurrentIsRead, TypeOK, ClusterTypeOK
  <1>6. WorkerInv'
    <2>1. CASE UNCHANGED node
      BY <1>1, <2>1, IdleInv
    <2>2. CASE n \in current /\ NodeWrite(n, [node[n] EXCEPT !.status = worker.cond])
      <3>1. node'[n].status = worker.cond /\ \A m \in Nodes \ {n} : node'[m] = node[m]
        BY <1>0, <1>5, <2>2 DEF NodeWrite, NodeObj, IInv, TypeOK, ClusterTypeOK
      <3>2. worker.cond \in ApiFailures => faults >= 1
        BY DEF UpdateStatus, IInv, FailuresCounted
      <3> QED
        BY <1>1, <3>1, <3>2, IdleInv
    <2> QED
      BY <1>4, <2>1, <2>2
  <1>7. NodeStep /\ RestsWell(n)'
    <2>1. CASE n \in queue' /\ UNCHANGED <<node, nodeLog>>
      BY <1>1, <2>1 DEF NodeStep, nodeVars, RestsWell, Woken, PodNews
    <2>2. CASE NodeWrite(n, [node[n] EXCEPT !.status = worker.cond])
      <3>1. NodeWrite(n, node'[n])
        BY <1>0, <2>2 DEF NodeWrite, IInv, TypeOK, ClusterTypeOK
      <3>2. nodeLog'[n] # <<>>
        BY <1>0, <3>1, NodeWriteLogged DEF IInv
      <3> QED
        BY <1>0, <1>1, <3>1, <3>2 DEF NodeStep, RestsWell, Woken
    <2>3. CASE /\ n \in current
               /\ node[n].status = worker.cond
               /\ UNCHANGED <<node, nodeLog>>
               /\ Finish(worker.requeue)
      <3>1. NodeStep
        BY <1>1, <2>3 DEF NodeStep, nodeVars
      <3>2. CASE PodNews(n)'
        BY <3>1, <3>2 DEF RestsWell, Woken
      <3>3. CASE ~PodNews(n)'
        <4>1. ~worker.requeue /\ ~PodNews(n) /\ n # None
          BY <1>0, <1>1, <1>2, <2>3, <3>3, NoneAssumption
             DEF Finish, PodNews, OwnInFlight, podVars
        <4>2. /\ node[n] # None
              /\ node[n].spec = worker.spec /\ node[n].uid = worker.uid
              /\ ~node[n].deleting
          BY <1>0, <2>3, <4>1 DEF IInv, CurrentIsRead, UpdateStatus, WorkerKnows
        <4>3. worker.cond \notin {"Unknown", "NotReadyEmpty", "NotReadyContainer",
                    "NotReadyAddress", "FailedFinalizer", "FailedInitialConfig"}
          BY <4>1 DEF IInv, WorkerKnows, UpdateStatus
        <4>4. ~Visited(n) =>
                /\ worker.cond \notin {"FailedPodGone", "FailedPodUnseen"}
                /\ worker.cond = "FailedPodExists" =>
                     pod[n] # None /\ pod[n].terminating /\ Owned(pod[n])
          <5>1. ~Visited(n) => pod[n] = None \/ Owned(pod[n])
            BY Familiar DEF IInv
          <5> QED
            BY <1>0, <4>1, <5>1 DEF IInv, PodAsSeen, UpdateStatus
        <4>5. worker.cond = "Ready" /\ ~Mistakable(n) =>
                /\ Owned(pod[n])
                /\ device[n] # "empty"
                /\ worker.spec \in Registered
                /\ worker.spec \in Fixed => pod[n].hash = configs[worker.spec]
          BY <1>0, <4>1 DEF IInv, PodAsSeen, UpdateStatus
        <4>6. device[n] \in DeviceStates
          BY <1>0 DEF IInv, TypeOK, ClusterTypeOK
        <4>7. /\ worker.cond = "FailedProvider" => worker.spec \notin Registered
              /\ worker.cond = "FailedConfig" /\ worker.spec \in Fixed =>
                   configs[worker.spec] = None
          BY DEF IInv, WorkerKnows, UpdateStatus
        <4>8. worker.cond \in ApiFailures => faults' >= 2
          <5>1. faults \in Nat
            BY BoundAssumption DEF IInv, TypeOK, ClusterTypeOK
          <5>2. worker.cond \in ApiFailures => faults >= 2
            BY <1>0, <2>3 DEF IInv, FailuresCounted, UpdateStatus
          <5> QED
            BY <1>3, <5>1, <5>2
        <4>9. /\ node'[n] = node[n] /\ pod'[n] = pod[n] /\ UNCHANGED extVars
              /\ Visited(n)' <=> Visited(n)
              /\ Mistakable(n)' <=> Mistakable(n)
          BY <1>1, <1>3, <2>3 DEF podVars, Visited, Mistakable
        <4>10. /\ ~Due(n)' /\ Owned(pod[n]) => /\ device[n] # "down"
                                               /\ pod[n].owner = node[n].uid
               /\ pod[n].terminating /\ Owned(pod[n]) => Due(n)'
          BY <4>9 DEF Due, OwnerGone, extVars
        <4>11. worker.cond = "Ready" /\ ~Due(n)' /\ ~Mistakable(n) =>
                 /\ worker.spec \in Registered
                 /\ pod[n] # None
                 /\ pod[n].owner = node[n].uid
                 /\ device[n] \in {"pushed", "saved"}
                 /\ worker.spec \in Fixed => pod[n].hash = configs[worker.spec]
          BY <4>5, <4>6, <4>10 DEF DeviceStates, Owned
        <4>12. configs' = configs /\ device' = device
          BY <4>9 DEF extVars
        <4>13. ~Visited(n) /\ worker.cond = "FailedPodExists" => Due(n)'
          BY <4>4, <4>10
        <4> DEFINE o == node'[n]
        <4>14. /\ o.spec = worker.spec /\ o.uid = node[n].uid /\ ~o.deleting
               /\ o.status = worker.cond
          BY <2>3, <4>2, <4>9
        <4>15. /\ o.status \notin
                     {"Unknown", "NotReadyEmpty", "NotReadyContainer",
                      "NotReadyAddress", "FailedFinalizer", "FailedInitialConfig"}
               /\ ~Visited(n)' =>
                    /\ o.status \notin {"FailedPodGone", "FailedPodUnseen"}
                    /\ o.status = "FailedPodExists" => Due(n)'
          BY <4>3, <4>4, <4>9, <4>13, <4>14
        <4>16. /\ o.status = "FailedProvider" => o.spec \notin Registered
               /\ o.status = "FailedConfig" /\ o.spec \in Fixed => configs'[o.spec] = None
               /\ o.status \in ApiFailures => faults' >= 2
          BY <4>7, <4>8, <4>12, <4>14
        <4>17. o.status = "Ready" /\ ~Due(n)' /\ ~Mistakable(n)' =>
                 /\ o.spec \in Registered
                 /\ pod'[n] # None
                 /\ pod'[n].owner = o.uid
                 /\ device'[n] \in {"pushed", "saved"}
                 /\ o.spec \in Fixed => pod'[n].hash = configs'[o.spec]
          BY <4>9, <4>11, <4>12, <4>14
        <4> QED
          BY <3>1, <4>14, <4>15, <4>16, <4>17 DEF RestsWell, LeftWell, ReadyWell
      <3> QED
        BY <3>1, <3>2, <3>3
    <2> QED
      BY <1>4, <2>1, <2>2, <2>3
  <1>8. CachesCatchUp' /\ PodsOnRecord'
    BY <1>3, <1>7, CachesKept, RecordKept DEF IInv
  <1>9. ASSUME NEW m \in Nodes, m # n
        PROVE  RestsWell(m)'
    BY <1>0, <1>1, <1>2, <1>3, <1>7, <1>9, OthersRest DEF extVars
  <1>10. NodesRestWell'
    BY <1>7, <1>9 DEF NodesRestWell
  <1> QED
    BY <1>6, <1>8, <1>10, PartsPrimed

\* Reconcile returns at once.
DoneWith(n) ==
    \/ cNode[n] = None
    \/ cNode[n].deleting /\ "nodedeployer" \notin cNode[n].finalizers

LEMMA TakeFields ==
    ASSUME NEW n, NEW step, NEW c, Take(n, step, c)
    PROVE  /\ worker'.pc = step
           /\ worker'.cond = c
           /\ worker'.node = n
           /\ worker'.uid = cNode[n].uid
           /\ worker'.spec = cNode[n].spec
  BY DEF Take, Idle

LEMMA BeginKeeps ==
    ASSUME IInv, TypeOK', NEW n \in Nodes, Begin(n)
    PROVE  IInv'
  <1>1. UNCHANGED <<nodeVars, podVars, extVars, nadOn>>
    BY DEF Begin
  <1>2. /\ NodeStep /\ PodStep /\ RecordStep
        /\ faults' \in Nat /\ faults <= faults' /\ faults' = faults
    BY <1>1, FaultCount, NoPodWritten DEF NodeStep, Begin, budget, NoBudget
  <1>3. CachesCatchUp' /\ PodsOnRecord'
    BY <1>2, CachesKept, RecordKept DEF IInv
  <1>4. worker = [worker EXCEPT !.node = None] /\ worker.node = None
    BY DEF Begin, IInv, WorkerKnows, TypeOK, Worker
  <1>5. nodeLog[n] = <<>> => node[n] = cNode[n]
    BY DEF IInv, CachesCatchUp, Latest
  <1>6. \/ UNCHANGED worker /\ DoneWith(n)
        \/ /\ cNode[n] \in NodeObj
           /\ \/ Take(n, "finalize", "Unknown") /\ cNode[n].deleting
              \/ /\ Take(n, "config", "Unknown")
                 /\ ~cNode[n].deleting /\ cNode[n].spec \in Registered
              \/ /\ Take(n, "status", "FailedProvider")
                 /\ ~cNode[n].deleting /\ cNode[n].spec \notin Registered
    <2>1. cNode[n] \in NodeObj \cup {None}
      BY DEF IInv, TypeOK, ClusterTypeOK
    <2>2. CASE cNode[n] = None
      <3>1. UNCHANGED worker
        BY <2>2 DEF Begin
      <3> QED
        BY <2>2, <3>1 DEF DoneWith
    <2>3. CASE cNode[n] # None /\ cNode[n].deleting
      <3>1. CASE "nodedeployer" \in cNode[n].finalizers
        BY <2>1, <2>3, <3>1 DEF Begin, DoneWith
      <3>2. CASE "nodedeployer" \notin cNode[n].finalizers
        BY <2>1, <2>3, <3>2 DEF Begin, DoneWith
      <3> QED
        BY <3>1, <3>2
    <2>4. CASE cNode[n] # None /\ ~cNode[n].deleting
      <3>1. CASE cNode[n].spec \in Registered
        BY <2>1, <2>4, <3>1 DEF Begin, NewNodeOfProvider, DoneWith
      <3>2. CASE cNode[n].spec \notin Registered
        BY <2>1, <2>4, <3>2 DEF Begin, NewNodeOfProvider, DoneWith
      <3> QED
        BY <3>1, <3>2
    <2> QED
      BY <2>2, <2>3, <2>4
  <1>7. CASE UNCHANGED worker /\ DoneWith(n)
    <2>1. WorkerInv'
      <3>1. worker'.pc = "idle" /\ worker'.node = None
        BY <1>4, <1>7 DEF Begin
      <3>2. None \notin current'
        BY NoneAssumption DEF TypeOK, ClusterTypeOK
      <3>3. WorkerKnows' /\ CurrentIsRead' /\ PodAsSeen'
        BY <3>1, <3>2 DEF WorkerKnows, CurrentIsRead, PodAsSeen, PodSteps
      <3>4. FailuresCounted'
        BY <1>1, <1>2, <3>1 DEF IInv, FailuresCounted, nodeVars
      <3> QED
        BY <3>3, <3>4 DEF WorkerInv
    <2>2. RestsWell(n)'
      BY <1>1, <1>5, <1>7 DEF DoneWith, RestsWell, LeftWell, Woken, nodeVars
    <2>3. ASSUME NEW m \in Nodes, m # n
          PROVE  RestsWell(m)'
      BY <1>1, <1>2, <1>4, <2>3, OthersRest, NoneAssumption DEF Begin, extVars
    <2> QED
      BY <1>3, <2>1, <2>2, <2>3, PartsPrimed DEF NodesRestWell
  <1>8. CASE /\ cNode[n] \in NodeObj
             /\ \/ Take(n, "finalize", "Unknown") /\ cNode[n].deleting
                \/ /\ Take(n, "config", "Unknown")
                   /\ ~cNode[n].deleting /\ cNode[n].spec \in Registered
                \/ /\ Take(n, "status", "FailedProvider")
                   /\ ~cNode[n].deleting /\ cNode[n].spec \notin Registered
    <2>1. cNode[n].uid \in Uids /\ cNode[n].spec \in Specs /\ cNode[n] # None
      BY <1>8, NoneAssumption DEF NodeObj
    <2>2. worker'.node = n /\ worker'.uid = cNode[n].uid /\ worker'.spec = cNode[n].spec
      BY <1>8, TakeFields
    <2>7. \/ worker'.pc \in {"finalize", "config"}
          \/ /\ worker'.pc = "status" /\ worker'.cond = "FailedProvider"
             /\ worker'.spec \notin Registered
      BY <1>8, TakeFields
    <2>8. worker'.pc = "config" => worker'.spec \in Registered
      BY <1>8, TakeFields
    <2>3. WorkerKnows'
      BY <2>1, <2>2, <2>7, <2>8, NoneAssumption DEF WorkerKnows, PodSteps
    <2>4. CurrentIsRead'
      BY <1>1, <1>5, <1>8, <2>1, <2>2 DEF Begin, Take, Idle, CurrentIsRead, nodeVars
    <2>5. PodAsSeen' /\ FailuresCounted'
      <3>1. PodAsSeen'
        BY <2>7 DEF PodAsSeen, PodSteps
      <3>2. FailuresCounted'
        BY <1>1, <1>2, <2>7 DEF IInv, FailuresCounted, ApiFailures, nodeVars
      <3> QED
        BY <3>1, <3>2
    <2>6. ASSUME NEW m \in Nodes
          PROVE  RestsWell(m)'
      <3>1. CASE m = n
        BY <2>2, <3>1 DEF RestsWell, Woken
      <3>2. CASE m # n
        BY <1>1, <1>2, <1>4, <3>2, OthersRest, NoneAssumption DEF Begin, extVars
      <3> QED
        BY <3>1, <3>2
    <2> QED
      BY <1>3, <2>3, <2>4, <2>5, <2>6, PartsPrimed DEF WorkerInv, NodesRestWell
  <1> QED
    BY <1>6, <1>7, <1>8

\* A new process has every Node and every owned Pod in its queue.
LEMMA RestartKeeps ==
    ASSUME IInv, TypeOK', Restart
    PROVE  IInv'
  <1>1. CachesCatchUp'
    BY DEF Restart, CachesCatchUp, Latest
  <1>2. WorkerInv'
    BY IdleInv DEF Restart
  <1>3. ASSUME NEW n \in Nodes
        PROVE  RestsWell(n)'
    BY DEF Restart, RestsWell, Woken, PodNews
  <1>4. PodsOnRecord'
    <2>1. UNCHANGED strangers
      BY FaultCount DEF Restart
    <2>2. ASSUME NEW n \in Nodes
          PROVE  PodVersions(n)' = {pod[n]} \ {None}
      BY DEF Restart, PodVersions
    <2> QED
      BY <2>1, <2>2 DEF IInv, PodsOnRecord, PodVersions
  <1> QED
    BY <1>1, <1>2, <1>3, <1>4, PartsPrimed DEF NodesRestWell

LEMMA ReconcileKeeps ==
    ASSUME IInv, Reconcile
    PROVE  IInv'
  <1>1. TypeOK'
    BY ReconcileType DEF IInv
  <1> QED
    BY <1>1, BeginKeeps, RemoveFinalizerKeeps, GetNodeConfigKeeps, ApplyNadKeeps,
       ComparePodKeeps, DeletePodKeeps, CreatePodKeeps, GetPodKeeps,
       SetInitialConfigKeeps, UpdateStatusKeeps
       DEF Reconcile

LEMMA StutterStep ==
    ASSUME IInv, UNCHANGED vars
    PROVE  TypeOK' /\ EnvStep
  <1>1. TypeOK' /\ UNCHANGED strangers /\ faults <= faults'
    <2>1. NoBudget
      BY DEF vars, NoBudget
    <2>2. TypeOK'
      BY FrameType DEF IInv
    <2> QED
      BY <2>1, <2>2, FaultCount
  <1>2. NodeStep /\ PodStep /\ RecordStep
    BY <1>1, NoPodWritten DEF NodeStep, vars
  <1> QED
    BY <1>1, <1>2 DEF EnvStep, SharedStep, vars, extVars, nodeVars, podVars

LEMMA StutterKeeps ==
    ASSUME IInv, UNCHANGED vars
    PROVE  IInv'
  BY StutterStep, EnvKeeps

LEMMA NextKeeps ==
    ASSUME IInv, [Next]_vars
    PROVE  IInv'
  <1>1. CASE Reconcile
    BY <1>1, ReconcileKeeps
  <1>2. CASE Users /\ UNCHANGED <<worker, nadOn>>
    BY <1>2, UsersType, UsersStep, EnvKeeps DEF IInv
  <1>3. CASE Platform /\ UNCHANGED <<worker, nadOn>>
    BY <1>3, PlatformType, PlatformStep, EnvKeeps DEF IInv
  <1>4. CASE Informers
    BY <1>4, InformersType, InformersStep, EnvKeeps DEF IInv
  <1>5. CASE Restart
    BY <1>5, RestartType, RestartKeeps DEF IInv
  <1>6. CASE UNCHANGED vars
    BY <1>6, StutterKeeps
  <1> QED
    BY <1>1, <1>2, <1>3, <1>4, <1>5, <1>6 DEF Next

LEMMA InitIInv ==
    ASSUME Init
    PROVE  IInv
  <1> USE DEF Init, ClusterInit
  <1>1. TypeOK
    <2>1. \A n \in Nodes : nodeLog[n] = <<>> /\ podLog[n] = <<>>
      OBVIOUS
    <2> QED
      BY IdleType, BoundAssumption, <2>1 DEF TypeOK, ClusterTypeOK, DeviceStates
  <1>2. CachesCatchUp
    BY DEF CachesCatchUp, Latest
  <1>3. WorkerInv
    BY DEF WorkerInv, Idle, WorkerKnows, CurrentIsRead, PodAsSeen, FailuresCounted,
           PodSteps
  <1>4. NodesRestWell /\ PodsOnRecord
    BY DEF NodesRestWell, RestsWell, PodsOnRecord, PodVersions
  <1> QED
    BY <1>1, <1>2, <1>3, <1>4, Parts

\* What Next may do to a stored condition, and what users do to it: nothing.  The
\* write is the worker's last step.
Faithful ==
    \A n \in Nodes :
      node[n] # None /\ node'[n] # None /\ node'[n].uid = node[n].uid
      /\ node'[n].status # node[n].status =>
        /\ worker' # worker
        /\ worker.node = n
        /\ worker.uid = node[n].uid
        /\ worker.spec = node[n].spec
        /\ node[n].deleting => node'[n].status = "FailedFinalizer"

LEMMA FaithfulStep ==
    ASSUME IInv, [Next]_vars
    PROVE  Faithful
  <1> DEFINE Kept == \A n \in Nodes :
               node[n] # None /\ node'[n] # None => node'[n].status = node[n].status
  <1> USE DEF Faithful
  <1> USE DEF IInv, TypeOK, ClusterTypeOK
  <1>1. CASE UNCHANGED node
    BY <1>1
  <1>2. CASE Users
    <2>1. ASSUME NEW n \in Nodes, NEW u \in Uids, NEW s \in Specs,
                 NEW fs \in FinalizerSets, CreateNode(n, u, s, fs)
          PROVE  Kept
      BY <2>1 DEF CreateNode, NodeWrite
    <2>2. ASSUME NEW n \in Nodes, NEW s \in Specs, EditNode(n, s)
          PROVE  Kept
      <3>1. node[n] \in NodeObj
        BY <2>2 DEF EditNode
      <3> QED
        BY <2>2, <3>1 DEF EditNode, NodeWrite, NodeObj
    <2>3. ASSUME NEW n \in Nodes, DeleteNode(n)
          PROVE  Kept
      <3>1. node[n] \in NodeObj
        BY <2>3 DEF DeleteNode
      <3> QED
        BY <2>3, <3>1 DEF DeleteNode, NodeWrite, NodeObj
    <2>4. ASSUME NEW n \in Nodes, ReleaseNode(n)
          PROVE  Kept
      <3>1. node[n] \in NodeObj
        BY <2>4 DEF ReleaseNode
      <3> QED
        BY <2>4, <3>1 DEF ReleaseNode, NodeWrite, WithoutFinalizer, NodeObj
    <2>5. CASE UNCHANGED node
      BY <2>5
    <2> QED
      BY <1>2, <2>1, <2>2, <2>3, <2>4, <2>5
         DEF Users, EditConfig, UserDeletesPod, UserCreatesPod, nodeVars
  <1>3. CASE RemoveFinalizer
    <2>1. worker.node \in Nodes
      BY <1>3, WorkerTyped DEF RemoveFinalizer
    <2>2. CASE UNCHANGED node
      BY <2>2
    <2>3. CASE /\ worker.node \in current
               /\ NodeWrite(worker.node,
                            WithoutFinalizer(node[worker.node], "nodedeployer"))
      <3>1. node[worker.node] \in NodeObj
        BY <2>1, <2>3 DEF CurrentIsRead
      <3>2. Kept
        BY <2>1, <2>3, <3>1 DEF NodeWrite, WithoutFinalizer, NodeObj
      <3> QED
        BY <3>2
    <2> QED
      BY <1>3, <2>2, <2>3 DEF RemoveFinalizer
  <1>4. CASE UpdateStatus
    <2>1. worker.node \in Nodes
      BY <1>4, WorkerTyped DEF UpdateStatus
    <2>2. CASE UNCHANGED node
      BY <2>2
    <2>3. CASE /\ worker.node \in current
               /\ NodeWrite(worker.node, [node[worker.node] EXCEPT !.status = worker.cond])
      <3>1. node[worker.node] \in NodeObj
        BY <2>1, <2>3 DEF CurrentIsRead
      <3>2. node'[worker.node].status = worker.cond
        BY <2>1, <2>3, <3>1 DEF NodeWrite, NodeObj
      <3>3. \A n \in Nodes \ {worker.node} : node'[n] = node[n]
        BY <2>1, <2>3 DEF NodeWrite
      <3>4. worker' # worker
        BY <1>4 DEF UpdateStatus, Refused, Finish, Idle
      <3> QED
        BY <1>4, <2>3, <3>2, <3>3, <3>4 DEF UpdateStatus, CurrentIsRead
    <2> QED
      BY <1>4, <2>2, <2>3 DEF UpdateStatus, Accepted, Refused
  <1>5. Users \/ RemoveFinalizer \/ UpdateStatus \/ UNCHANGED node
    BY DEF Next, Reconcile, Platform, Informers, Restart, Begin, GetNodeConfig,
           ApplyNad, ComparePod, DeletePod, CreatePod, GetPod, SetInitialConfig,
           DeviceCrash, KubeletReports, KubeletRemovesPod, CollectPod, CollectNad,
           DeliverNode, DeliverPod, Resync, vars, nodeVars
  <1> QED
    BY <1>1, <1>2, <1>3, <1>4, <1>5

\* An operator that has just listed everything, and is about to look at it.
LEMMA StartIInv ==
    ASSUME TypeOK, PodsOnRecord, worker = Idle, current = {}, queue = Nodes,
           cNode = node, cPod = pod,
           \A n \in Nodes : nodeLog[n] = <<>> /\ podLog[n] = <<>>,
           \A n \in Nodes : node[n] # None => node[n].status \notin ApiFailures
    PROVE  IInv
  <1>1. CachesCatchUp
    BY DEF CachesCatchUp, Latest
  <1>2. WorkerInv
    BY DEF WorkerInv, Idle, WorkerKnows, CurrentIsRead, PodAsSeen, FailuresCounted,
           PodSteps
  <1>3. NodesRestWell
    BY DEF NodesRestWell, RestsWell, Woken, PodNews
  <1> QED
    BY <1>1, <1>2, <1>3, Parts

-----------------------------------------------------------------------------
(* What one operator does to another (module Replicas).                    *)

LEMMA NodeWriteShares ==
    ASSUME IInv, TypeOK', NEW n \in Nodes, NodeWrite(n, node'[n]),
           node'[n] # None /\ node'[n].status \in ApiFailures =>
             \/ node[n] # None /\ node'[n].status = node[n].status
             \/ faults >= 1,
           UNCHANGED <<podVars, extVars>>, Fault \/ NoBudget
    PROVE  SharedStep
  <1>1. \A m \in Nodes \ {n} : node'[m] = node[m]
    BY DEF IInv, TypeOK, ClusterTypeOK, NodeWrite
  <1>2. faults' \in Nat /\ faults <= faults' /\ UNCHANGED strangers
    BY FaultCount
  <1>3. RecordStep
    BY <1>2, NoPodWritten
  <1>4. faults \in Nat
    BY BoundAssumption DEF IInv, TypeOK, ClusterTypeOK
  <1> QED
    BY <1>1, <1>2, <1>3, <1>4, DeployAssumption DEF SharedStep, podVars, extVars

LEMMA NothingShared ==
    ASSUME IInv, TypeOK', UNCHANGED <<node, pod, extVars>>, Fault \/ NoBudget
    PROVE  SharedStep
  <1>1. UNCHANGED strangers /\ faults <= faults'
    BY FaultCount
  <1>2. RecordStep
    BY <1>1, RecordSame DEF IInv
  <1> QED
    BY <1>1, <1>2, DeployAssumption DEF SharedStep, extVars

LEMMA ReconcileShares ==
    ASSUME IInv, TypeOK', Reconcile
    PROVE  SharedStep
  <1> DEFINE n == worker.node
  <1>1. ASSUME NEW m \in Nodes, Begin(m)
        PROVE  SharedStep
    BY <1>1, NothingShared DEF Begin, nodeVars, podVars, NoBudget
  <1>2. CASE Inside
    <2>1. MidStep
      BY <1>2, InsideIsMid
    <2>2. worker.pc \in PodSteps \cup {"config"}
      BY <1>2 DEF Inside, GetNodeConfig, ApplyNad, ComparePod, DeletePod, CreatePod,
                  GetPod, SetInitialConfig, PodSteps
    <2>3. n \in Nodes
      BY <2>2, WorkerTyped DEF IInv, PodSteps
    <2>4. \/ device'[n] \in {device[n], "down"}
          \/ device[n] # "down" /\ device'[n] \in {"pushed", "saved"}
      <3>1. CASE SetInitialConfig
        <4>1. CASE UNCHANGED device
          BY <4>1
        <4>2. ASSUME NEW r \in Outcomes(device[n]), device' = [device EXCEPT ![n] = r.left]
              PROVE  \/ device'[n] \in {device[n], "down"}
                     \/ device[n] # "down" /\ device'[n] \in {"pushed", "saved"}
          <5>1. device'[n] = r.left
            BY <2>3, <4>2 DEF IInv, TypeOK, ClusterTypeOK
          <5> QED
            BY <5>1 DEF Outcomes, Pushed
        <4> QED
          BY <3>1, <4>1, <4>2 DEF SetInitialConfig
      <3>2. CASE DeletePod
        BY <2>3, <3>2 DEF DeletePod, PodRemove, IInv, TypeOK, ClusterTypeOK
      <3>3. CASE UNCHANGED device
        BY <3>3
      <3> QED
        BY <1>2, <3>1, <3>2, <3>3
           DEF Inside, GetNodeConfig, ApplyNad, ComparePod, CreatePod, GetPod, extVars
    <2>5. \/ UNCHANGED pod
          \/ \E k \in Nodes : \A m \in Nodes \ {k} : pod'[m] = pod[m]
      BY <2>1 DEF MidStep, PodStep, PodWrite, DeliverPod, podVars, IInv, TypeOK, ClusterTypeOK
    <2>6. \A m \in Nodes : \/ device'[m] \in {device[m], "down"}
                           \/ device[m] # "down" /\ device'[m] \in {"pushed", "saved"}
      BY <2>1, <2>4 DEF MidStep
    <2>7. UNCHANGED <<node, configs>> /\ RecordStep /\ faults <= faults'
      BY <2>1 DEF MidStep, nodeVars
    <2> QED
      BY <2>5, <2>6, <2>7, DeployAssumption DEF SharedStep
  <1>3. CASE RemoveFinalizer
    <2>1. n \in Nodes /\ (Fault \/ NoBudget) /\ UNCHANGED <<podVars, extVars>>
      BY <1>3, WorkerTyped DEF IInv, RemoveFinalizer
    <2>2. CASE UNCHANGED node
      BY <2>1, <2>2, NothingShared DEF podVars
    <2>3. CASE n \in current /\ NodeWrite(n, WithoutFinalizer(node[n], "nodedeployer"))
      <3>1. node[n] \in NodeObj /\ node[n] # None
        BY <2>1, <2>3 DEF IInv, CurrentIsRead, TypeOK, ClusterTypeOK
      <3>2. node'[n] # None => node'[n].status = node[n].status
        BY <2>1, <2>3, <3>1 DEF NodeWrite, WithoutFinalizer, NodeObj, IInv, TypeOK,
                                ClusterTypeOK
      <3>3. NodeWrite(n, node'[n])
        BY <2>1, <2>3 DEF NodeWrite, IInv, TypeOK, ClusterTypeOK
      <3> QED
        BY <2>1, <3>1, <3>2, <3>3, NodeWriteShares
    <2> QED
      BY <1>3, <2>2, <2>3 DEF RemoveFinalizer
  <1>4. CASE UpdateStatus
    <2>1. n \in Nodes /\ (Fault \/ NoBudget) /\ UNCHANGED <<podVars, extVars>>
      BY <1>4, WorkerTyped DEF IInv, UpdateStatus
    <2>2. CASE UNCHANGED node
      BY <2>1, <2>2, NothingShared DEF podVars
    <2>3. CASE n \in current /\ NodeWrite(n, [node[n] EXCEPT !.status = worker.cond])
      <3>1. node[n] \in NodeObj
        BY <2>1, <2>3 DEF IInv, CurrentIsRead, TypeOK, ClusterTypeOK
      <3>2. node'[n].status = worker.cond /\ NodeWrite(n, node'[n])
        BY <2>1, <2>3, <3>1 DEF NodeWrite, NodeObj, IInv, TypeOK, ClusterTypeOK
      <3>3. worker.cond \in ApiFailures => faults >= 1
        BY <1>4 DEF UpdateStatus, IInv, FailuresCounted
      <3> QED
        BY <2>1, <3>2, <3>3, NodeWriteShares
    <2> QED
      BY <1>4, <2>2, <2>3 DEF UpdateStatus, Accepted, Refused
  <1> QED
    BY <1>1, <1>2, <1>3, <1>4 DEF Reconcile, Inside

LEMMA RestartShares ==
    ASSUME IInv, TypeOK', Restart
    PROVE  SharedStep
  BY NothingShared DEF Restart

\* An operator that somebody else's step reaches only through its watches.
Hears ==
    /\ nodeLog' = [n \in Nodes |-> IF node'[n] = node[n] THEN nodeLog[n]
                                   ELSE Append(nodeLog[n], node'[n])]
    /\ podLog' = [n \in Nodes |-> IF pod'[n] = pod[n] THEN podLog[n]
                                  ELSE Append(podLog[n], pod'[n])]
    /\ \A n \in Nodes : Len(nodeLog'[n]) <= MaxLag /\ Len(podLog'[n]) <= MaxLag
    /\ current' = {n \in current : node'[n] = node[n]}
    /\ UNCHANGED <<cNode, cPod, queue, worker, nadOn>>

SharedTypeOK ==
    /\ node \in [Nodes -> NodeObj \cup {None}]
    /\ pod \in [Nodes -> PodObj \cup {None}]
    /\ nads \in [Nodes -> [Interfaces -> Uids \cup {None}]]
    /\ configs \in [Specs -> Revisions \cup {None}]
    /\ device \in [Nodes -> DeviceStates]
    /\ edits \in 0..MaxEdits
    /\ faults \in 0..MaxFaults
    /\ strangers \in SUBSET (Nodes \X (Revisions \cup {None}))

\* Whatever step an operator has a part in.
LEMMA NextShares ==
    ASSUME IInv, Next
    PROVE  SharedTypeOK' /\ SharedStep
  <1>1. TypeOK'
    BY NextKeeps DEF IInv
  <1>2. SharedTypeOK'
    BY <1>1 DEF TypeOK, ClusterTypeOK, SharedTypeOK
  <1>3. SharedStep
    BY <1>1, UsersStep, PlatformStep, InformersStep, ReconcileShares, RestartShares
       DEF Next, EnvStep, IInv
  <1> QED
    BY <1>2, <1>3

LEMMA HearsType ==
    ASSUME TypeOK, SharedTypeOK', Hears
    PROVE  TypeOK'
  <1>1. ASSUME NEW n \in Nodes
        PROVE  /\ nodeLog'[n] \in Seq(NodeObj \cup {None})
               /\ podLog'[n] \in Seq(PodObj \cup {None})
    <2>1. /\ nodeLog[n] \in Seq(NodeObj \cup {None}) /\ podLog[n] \in Seq(PodObj \cup {None})
          /\ node'[n] \in NodeObj \cup {None} /\ pod'[n] \in PodObj \cup {None}
      BY DEF TypeOK, ClusterTypeOK, SharedTypeOK
    <2>2. /\ Append(nodeLog[n], node'[n]) \in Seq(NodeObj \cup {None})
          /\ Append(podLog[n], pod'[n]) \in Seq(PodObj \cup {None})
      BY ONLY <2>1, AppendProperties
    <2> QED
      BY <2>1, <2>2 DEF Hears
  <1>2. /\ nodeLog' \in [Nodes -> Seq(NodeObj \cup {None})]
        /\ podLog' \in [Nodes -> Seq(PodObj \cup {None})]
    BY <1>1 DEF Hears
  <1> QED
    BY <1>2 DEF Hears, TypeOK, ClusterTypeOK, SharedTypeOK

\* A step that respects what is shared is one of the environment's.
LEMMA HearsIsEnv ==
    ASSUME TypeOK, TypeOK', SharedStep, Hears
    PROVE  EnvStep
  <1> USE DEF TypeOK, ClusterTypeOK
  <1>1. NodeStep
    <2>1. CASE \A n \in Nodes : node'[n] = node[n]
      <3>1. nodeLog' = nodeLog
        BY <2>1 DEF Hears
      <3>2. node' = node
        BY <2>1
      <3> QED
        BY <3>1, <3>2 DEF Hears, NodeStep, nodeVars
    <2>2. ASSUME NEW n \in Nodes, node'[n] # node[n]
          PROVE  NodeStep
      <3>1. \A m \in Nodes \ {n} : node'[m] = node[m]
        BY <2>2 DEF SharedStep
      <3>2. /\ node' = [node EXCEPT ![n] = node'[n]]
            /\ nodeLog' = [nodeLog EXCEPT ![n] = Append(@, node'[n])]
            /\ current' = current \ {n}
        <4>1. node' = [node EXCEPT ![n] = node'[n]]
          BY <3>1
        <4>2. /\ nodeLog'[n] = Append(nodeLog[n], node'[n])
              /\ \A m \in Nodes \ {n} : nodeLog'[m] = nodeLog[m]
          BY <2>2, <3>1 DEF Hears
        <4>3. nodeLog' = [nodeLog EXCEPT ![n] = Append(@, node'[n])]
          BY <4>2
        <4>4. current' = current \ {n}
          BY <2>2, <3>1 DEF Hears
        <4> QED
          BY <4>1, <4>3, <4>4
      <3>3. Len(nodeLog[n]) < MaxLag
        <4>1. /\ nodeLog[n] \in Seq(NodeObj \cup {None})
              /\ node'[n] \in NodeObj \cup {None}
              /\ nodeLog'[n] = Append(nodeLog[n], node'[n])
              /\ Len(nodeLog'[n]) <= MaxLag
          BY <2>2 DEF Hears
        <4>2. Len(nodeLog'[n]) = Len(nodeLog[n]) + 1 /\ Len(nodeLog[n]) \in Nat
          BY ONLY <4>1, AppendProperties, LenProperties
        <4> QED
          BY <4>1, <4>2, BoundAssumption
      <3>4. NodeWrite(n, node'[n]) /\ UNCHANGED cNode
        BY <3>2, <3>3 DEF NodeWrite, Hears
      <3> QED
        BY <3>4 DEF NodeStep
    <2> QED
      BY <2>1, <2>2
  <1>2. PodStep
    <2>1. CASE \A n \in Nodes : pod'[n] = pod[n]
      <3>1. podLog' = podLog
        BY <2>1 DEF Hears
      <3>2. pod' = pod
        BY <2>1
      <3> QED
        BY <3>1, <3>2 DEF Hears, PodStep, podVars
    <2>2. ASSUME NEW n \in Nodes, pod'[n] # pod[n]
          PROVE  PodStep
      <3>1. \A m \in Nodes \ {n} : pod'[m] = pod[m]
        BY <2>2 DEF SharedStep
      <3>2. /\ pod' = [pod EXCEPT ![n] = pod'[n]]
            /\ podLog' = [podLog EXCEPT ![n] = Append(@, pod'[n])]
        <4>1. pod' = [pod EXCEPT ![n] = pod'[n]]
          BY <3>1
        <4>2. /\ podLog'[n] = Append(podLog[n], pod'[n])
              /\ \A m \in Nodes \ {n} : podLog'[m] = podLog[m]
          BY <2>2, <3>1 DEF Hears
        <4>3. podLog' = [podLog EXCEPT ![n] = Append(@, pod'[n])]
          BY <4>2
        <4> QED
          BY <4>1, <4>3
      <3>3. Len(podLog[n]) < MaxLag
        <4>1. /\ podLog[n] \in Seq(PodObj \cup {None})
              /\ pod'[n] \in PodObj \cup {None}
              /\ podLog'[n] = Append(podLog[n], pod'[n])
              /\ Len(podLog'[n]) <= MaxLag
          BY <2>2 DEF Hears
        <4>2. Len(podLog'[n]) = Len(podLog[n]) + 1 /\ Len(podLog[n]) \in Nat
          BY ONLY <4>1, AppendProperties, LenProperties
        <4> QED
          BY <4>1, <4>2, BoundAssumption
      <3>4. PodWrite(n, pod'[n]) /\ UNCHANGED cPod
        BY <3>2, <3>3 DEF PodWrite, Hears
      <3> QED
        BY <3>4 DEF PodStep
    <2> QED
      BY <2>1, <2>2
  <1> QED
    BY <1>1, <1>2 DEF Hears, EnvStep

LEMMA HearsKeeps ==
    ASSUME IInv, SharedTypeOK', SharedStep, Hears
    PROVE  IInv'
  <1>1. TypeOK /\ TypeOK'
    BY HearsType DEF IInv
  <1> QED
    BY <1>1, HearsIsEnv, EnvKeeps

-----------------------------------------------------------------------------
(* Theorems.                                                               *)

\* The inductive invariant holds in every reachable state.
THEOREM Invariance == Spec => []IInv
  <1>1. Init => IInv
    BY InitIInv
  <1>2. IInv /\ [Next]_vars => IInv'
    BY NextKeeps
  <1> QED
    BY <1>1, <1>2, PTL DEF Spec

\* Every variable keeps its type: no object is stored without its parts, and no
\* Pod is created without a revision.
THEOREM TypeCorrect == Spec => []TypeOK
  <1>1. IInv => TypeOK
    BY DEF IInv
  <1> QED
    BY <1>1, Invariance, PTL

\* The operator loses no wake-up: a Node that still needs Reconcile gets it.
THEOREM NoWakeupIsLost == Spec => []NoLostWakeup
  <1>1. IInv => NoLostWakeup
    BY DEF IInv
  <1> QED
    BY <1>1, Invariance, PTL

\* A Ready condition that nothing is about to revise is true.
THEOREM ReadyCanBeTrusted == Spec => []ReadyIsTrue
  <1>1. IInv => ReadyIsTrue
    BY DEF IInv
  <1> QED
    BY <1>1, Invariance, PTL

\* A failure that a Node at rest reports is real: its spec asks for the
\* impossible, or a call to the API server failed, which was not the only fault.
THEOREM FailuresCanBeTrusted == Spec => []FailuresAreReal
  <1>1. IInv => FailuresAreReal
    BY DEF IInv
  <1> QED
    BY <1>1, Invariance, PTL

\* A stored condition is the one of the Node incarnation and spec it was worked
\* out for.
THEOREM ConditionsAreForTheReadNode == Spec => StatusForReadNode
  <1> DEFINE ForRead == \A n \in Nodes :
               node[n] # None /\ node'[n] # None /\ node'[n].uid = node[n].uid
               /\ node'[n].status # node[n].status =>
                 /\ worker.node = n
                 /\ worker.uid = node[n].uid
                 /\ worker.spec = node[n].spec
                 /\ node[n].deleting => node'[n].status = "FailedFinalizer"
  <1>1. IInv /\ [Next]_vars => [ForRead]_vars
    BY FaithfulStep DEF Faithful
  <1> QED
    BY <1>1, Invariance, PTL DEF Spec, StatusForReadNode

=============================================================================
