------------------------------ MODULE NadProofs ------------------------------
(***************************************************************************)
(* Proofs that the NetworkAttachmentDefinitions are as ENABLE_NAD says,    *)
(* before a Pod is created and while a Ready Node rests: NadInv of module  *)
(* NodeDeployer is inductive given IInv.  The lemmas on steps speak of the *)
(* operator that takes one and of one that does not, for two of them       *)
(* (module ReplicasProofs).                                                *)
(***************************************************************************)
EXTENDS NodeDeployerProofs

-----------------------------------------------------------------------------
(* Steps of anybody but the worker.                                        *)

\* Nobody makes a Node incarnation that the worker has read come back.
NoReturn == \A n \in Nodes : OwnerGone(n, worker.uid) => OwnerGone(n, worker.uid)'

\* What they do to the NADs: those whose owner is gone go as well.
NadStep ==
    /\ UNCHANGED nadOn
    /\ \A n \in Nodes, i \in Interfaces :
         \/ nads'[n][i] = nads[n][i]
         \/ nads'[n][i] = None /\ OwnerGone(n, nads[n][i])
    /\ NoReturn

LEMMA UsersNads ==
    ASSUME TypeOK, Users, UNCHANGED <<worker, nadOn>>
    PROVE  NadStep
  <1> USE DEF TypeOK, ClusterTypeOK, nodeVars, podVars, extVars
  <1>1. ASSUME NEW n \in Nodes, NEW u \in Uids \ {worker.uid}, NEW s \in Specs,
               NEW fs \in FinalizerSets, CreateNode(n, u, s, fs)
        PROVE  NadStep
    <2>1. node'[n].uid # worker.uid /\ \A m \in Nodes \ {n} : node'[m] = node[m]
      BY <1>1 DEF CreateNode, NodeWrite
    <2> QED
      BY <1>1, <2>1 DEF CreateNode, NadStep, NoReturn, OwnerGone
  <1>2. ASSUME NEW n \in Nodes, NodeWrite(n, node'[n]), UNCHANGED nads,
               node'[n] # None => node[n] # None /\ node'[n].uid = node[n].uid
        PROVE  NadStep
    BY <1>2 DEF NadStep, NoReturn, NodeWrite, OwnerGone
  <1>3. ASSUME NEW n \in Nodes, NEW s \in Specs, EditNode(n, s)
        PROVE  NadStep
    <2>1. node[n] \in NodeObj /\ NodeWrite(n, node'[n])
          /\ node'[n] = [node[n] EXCEPT !.spec = s]
      BY <1>3 DEF EditNode, NodeWrite
    <2> QED
      BY <1>2, <1>3, <2>1 DEF EditNode, NodeObj
  <1>4. ASSUME NEW n \in Nodes, DeleteNode(n)
        PROVE  NadStep
    <2>1. node[n] \in NodeObj /\ NodeWrite(n, node'[n])
          /\ (node'[n] = None \/ node'[n] = [node[n] EXCEPT !.deleting = TRUE])
      BY <1>4 DEF DeleteNode, NodeWrite
    <2> QED
      BY <1>2, <1>4, <2>1 DEF DeleteNode, NodeObj
  <1>5. ASSUME NEW n \in Nodes, ReleaseNode(n)
        PROVE  NadStep
    <2>1. node[n] \in NodeObj /\ NodeWrite(n, node'[n])
          /\ \/ node'[n] = None
             \/ node'[n] = [node[n] EXCEPT !.finalizers = @ \ {"other"}]
      BY <1>5 DEF ReleaseNode, WithoutFinalizer, NodeWrite
    <2> QED
      BY <1>2, <1>5, <2>1 DEF ReleaseNode, NodeObj
  <1>6. CASE UNCHANGED <<node, nads>>
    BY <1>6 DEF NadStep, NoReturn, OwnerGone
  <1> QED
    BY <1>1, <1>3, <1>4, <1>5, <1>6
       DEF Users, EditConfig, UserDeletesPod, UserCreatesPod

LEMMA OthersNads ==
    ASSUME TypeOK,
           \/ Users /\ UNCHANGED <<worker, nadOn>>
           \/ Platform /\ UNCHANGED <<worker, nadOn>>
           \/ Informers
           \/ UNCHANGED vars
    PROVE  NadStep
  <1>1. CASE Users /\ UNCHANGED <<worker, nadOn>>
    BY <1>1, UsersNads
  <1>2. CASE UNCHANGED <<node, nads, worker, nadOn>>
    BY <1>2 DEF NadStep, NoReturn, OwnerGone
  <1>3. ASSUME UNCHANGED <<worker, nadOn>>,
               NEW n \in Nodes, NEW i \in Interfaces, CollectNad(n, i)
        PROVE  NadStep
    <2>1. /\ \A m \in Nodes \ {n} : nads'[m] = nads[m]
          /\ \A j \in Interfaces \ {i} : nads'[n][j] = nads[n][j]
          /\ nads'[n][i] = None /\ OwnerGone(n, nads[n][i]) /\ node' = node
      BY <1>3 DEF CollectNad, nodeVars, TypeOK, ClusterTypeOK
    <2>2. \A m \in Nodes, j \in Interfaces :
            \/ nads'[m][j] = nads[m][j]
            \/ nads'[m][j] = None /\ OwnerGone(m, nads[m][j])
      BY <2>1
    <2> QED
      BY <1>3, <2>1, <2>2 DEF NadStep, NoReturn, OwnerGone
  <1> QED
    BY <1>1, <1>2, <1>3
       DEF Platform, DeviceCrash, KubeletReports, KubeletRemovesPod, CollectPod,
           Informers, DeliverNode, DeliverPod, Resync, vars, nodeVars, podVars, extVars

\* The NAD says the same of the same Node incarnation, or was put right.
NadKept(n, i) ==
    /\ node[n] # None /\ node'[n].uid = node[n].uid
    /\ (nads'[n][i] = node[n].uid) <=> (nads[n][i] = node[n].uid)
    /\ nadOn' = nadOn

Settled(n, i) == NadRight(n, i)' \/ (NadDone(n, i) /\ NadKept(n, i))

\* A step of somebody else makes no operator be done with an interface.
LEMMA EnvDone ==
    ASSUME IInv, TypeOK', EnvStep, NoReturn, NEW n \in Nodes, NEW i \in Interfaces,
           node'[n] # None, NadDone(n, i)'
    PROVE  NadDone(n, i) /\ node[n] # None /\ node'[n].uid = node[n].uid
  <1>1. CASE /\ worker.node = n /\ worker.uid = node'[n].uid
             /\ \/ worker.pc \in PodSteps
                \/ worker.pc = "status" /\ worker.cond = "Ready"
             /\ i \notin worker.todo
    BY <1>1 DEF NoReturn, OwnerGone, EnvStep, NadDone
  <1>2. CASE Live(n)' /\ ~Woken(n)' /\ node'[n].status = "Ready"
    <2>1. ~Woken(n) /\ node'[n] = node[n]
      BY <1>2, NodeUntouched, PodUntouched
         DEF IInv, EnvStep, SharedStep, Woken, PodNews
    <2> QED
      BY <1>2, <2>1 DEF NadDone, Live
  <1> QED
    BY <1>1, <1>2 DEF NadDone, EnvStep

LEMMA EnvSettles ==
    ASSUME IInv, TypeOK', EnvStep, NadStep, NEW n \in Nodes, NEW i \in Interfaces,
           node'[n] # None, NadDone(n, i)'
    PROVE  Settled(n, i)
  <1>1. NadDone(n, i) /\ node[n] # None /\ node'[n].uid = node[n].uid
    BY EnvDone DEF NadStep
  <1>2. node[n].uid # None
    BY <1>1, NoneAssumption DEF IInv, TypeOK, ClusterTypeOK, NodeObj
  <1>3. nads'[n][i] # nads[n][i] => nads'[n][i] = None /\ nads[n][i] # node[n].uid
    BY <1>1 DEF NadStep, OwnerGone
  <1>4. (nads'[n][i] = node[n].uid) <=> (nads[n][i] = node[n].uid)
    BY <1>2, <1>3
  <1> QED
    BY <1>1, <1>4 DEF Settled, NadKept, NadStep

-----------------------------------------------------------------------------
(* Steps of the worker.                                                    *)

\* A Node that Reconcile does not work for keeps what is said of its NADs.
LEMMA OtherSettles ==
    ASSUME IInv, TypeOK', NodeStep, PodStep, RecordStep, UNCHANGED nadOn,
           NEW n \in Nodes, n # worker.node, n # worker'.node,
           n \in queue => n \in queue',
           UNCHANGED nads[n], NEW i \in Interfaces, node'[n] # None, NadDone(n, i)'
    PROVE  Settled(n, i)
  <1>1. Live(n)' /\ ~Woken(n)' /\ node'[n].status = "Ready"
    BY DEF NadDone
  <1>2. ~Woken(n) /\ node'[n] = node[n]
    BY <1>1, NodeUntouched, PodUntouched DEF IInv, Woken, PodNews
  <1> QED
    BY <1>1, <1>2 DEF Settled, NadDone, NadKept, Live

LEMMA BeginSettles ==
    ASSUME IInv, TypeOK', NEW m \in Nodes, Begin(m),
           NEW n \in Nodes, NEW i \in Interfaces, node'[n] # None, NadDone(n, i)'
    PROVE  Settled(n, i)
  <1>0. worker.pc = "idle" /\ worker.node = None
    BY DEF Begin, IInv, WorkerKnows
  <1>1. /\ UNCHANGED <<nodeVars, podVars, extVars, budget, nadOn>>
        /\ queue' = queue \ {m}
    BY DEF Begin
  <1>2. NodeStep /\ PodStep /\ RecordStep
    BY <1>1, NoPodWritten DEF NodeStep, budget
  <1>3. \/ UNCHANGED worker
        \/ Take(m, "finalize", "Unknown")
        \/ Take(m, "config", "Unknown")
        \/ Take(m, "status", "FailedProvider")
    <2>1. CASE cNode[m] # None /\ cNode[m].deleting
      BY <2>1 DEF Begin
    <2>2. CASE cNode[m] # None /\ ~cNode[m].deleting
      BY <2>2 DEF Begin
    <2>3. CASE cNode[m] = None
      BY <2>3 DEF Begin
    <2> QED
      BY <2>1, <2>2, <2>3
  <1>4. /\ worker'.pc \notin PodSteps
        /\ ~(worker'.pc = "status" /\ worker'.cond = "Ready")
        /\ UNCHANGED worker \/ worker'.node = m
    BY <1>0, <1>3, TakeFields DEF PodSteps
  <1>5. Live(n)' /\ ~Woken(n)' /\ node'[n].status = "Ready"
    BY <1>4 DEF NadDone
  <1>6. CASE n # m
    <2>1. n # worker.node /\ n # worker'.node /\ UNCHANGED nads[n]
          /\ (n \in queue => n \in queue')
      BY <1>0, <1>1, <1>4, <1>6, NoneAssumption DEF extVars
    <2> QED
      BY <1>1, <1>2, <2>1, OtherSettles
  <1>7. CASE n = m
    <2>1. nodeLog[n] = <<>> /\ node'[n] = node[n]
      BY <1>1, <1>5 DEF Woken, nodeVars
    <2>2. cNode[n] = node[n]
      BY <2>1 DEF IInv, CachesCatchUp, Latest
    <2>3. cNode[n] # None /\ ~cNode[n].deleting
      BY <1>5, <2>1, <2>2 DEF Live
    <2>4. worker'.node = n
      BY <1>7, <2>3 DEF Begin, Take, Idle
    <2> QED
      BY <1>5, <2>4 DEF Woken
  <1> QED
    BY <1>6, <1>7

LEMMA InsideSettles ==
    ASSUME IInv, TypeOK', Inside,
           NEW n \in Nodes, NEW i \in Interfaces, node'[n] # None, NadDone(n, i)'
    PROVE  Settled(n, i)
  <1> DEFINE w == worker.node
  <1>1. /\ MidStep /\ worker'.uid = worker.uid
        /\ UNCHANGED nadOn
    BY InsideIsMid
       DEF Inside, GetNodeConfig, ApplyNad, ComparePod, DeletePod, CreatePod, GetPod,
           SetInitialConfig
  <1>2. w \in Nodes /\ worker.uid \in Uids /\ worker'.node = w
    <2>1. worker.pc # "idle"
      BY <1>1 DEF MidStep
    <2> QED
      BY <1>1, <2>1, WorkerTyped DEF IInv, MidStep
  <1>3. NodeStep /\ PodStep /\ RecordStep /\ UNCHANGED <<node, queue>>
    BY <1>1 DEF MidStep, NodeStep, nodeVars
  <1>4. \A m \in Nodes \ {w} : nads'[m] = nads[m]
    BY <1>2 DEF Inside, GetNodeConfig, ApplyNad, ComparePod, DeletePod, CreatePod,
           GetPod, SetInitialConfig, extVars, IInv, TypeOK, ClusterTypeOK
  <1>5. CASE n # w
    BY <1>1, <1>2, <1>3, <1>4, <1>5, OtherSettles
  <1>6. CASE n = w
    <2>1. /\ worker.uid = node[n].uid
          /\ worker'.pc \in PodSteps \/ (worker'.pc = "status" /\ worker'.cond = "Ready")
          /\ i \notin worker'.todo
      BY <1>1, <1>2, <1>3, <1>6 DEF NadDone, Woken
    <2>2. CASE GetNodeConfig
      <3>1. configs[worker.spec] # None
        <4>1. Report("FailedConfig", FALSE) =>
                worker'.pc = "status" /\ worker'.cond = "FailedConfig"
          BY DEF Report, IInv, TypeOK, Worker
        <4> QED
          BY <2>1, <2>2, <4>1 DEF GetNodeConfig, PodSteps
      <3>2. worker' = [worker EXCEPT !.pc = "nads", !.want = configs[worker.spec],
                                     !.todo = NadsToApply(w, worker.uid)]
        BY <2>2, <3>1 DEF GetNodeConfig
      <3>3. worker'.todo = NadsToApply(w, worker.uid)
        BY <3>2 DEF IInv, TypeOK, Worker
      <3>4. UNCHANGED nads
        BY <2>2 DEF GetNodeConfig, extVars
      <3>5. (nads[n][i] = worker.uid) <=> nadOn
        BY <1>6, <2>1, <3>3 DEF NadsToApply
      <3> QED
        BY <1>1, <1>3, <2>1, <3>4, <3>5 DEF Settled, NadRight
    <2>3. ASSUME NEW j \in Interfaces, ApplyNad(j)
          PROVE  Settled(n, i)
      <3>1. /\ nads' = [nads EXCEPT ![w][j] = IF nadOn THEN worker.uid ELSE None]
            /\ worker' = [worker EXCEPT !.todo = @ \ {j}]
        <4>1. Report("FailedNad", FALSE) =>
                worker'.pc = "status" /\ worker'.cond = "FailedNad"
          BY DEF Report, IInv, TypeOK, Worker
        <4> QED
          BY <2>1, <2>3, <4>1 DEF ApplyNad, PodSteps
      <3>2. nads'[n] = [nads[n] EXCEPT ![j] = IF nadOn THEN worker.uid ELSE None]
        BY <1>2, <1>6, <3>1 DEF IInv, TypeOK, ClusterTypeOK
      <3>3. CASE i = j
        <4>1. nads'[n][i] = (IF nadOn THEN worker.uid ELSE None)
          BY <1>2, <1>6, <3>2, <3>3 DEF IInv, TypeOK, ClusterTypeOK
        <4>2. (nads'[n][i] = worker.uid) <=> nadOn
          BY <1>2, <4>1, NoneAssumption
        <4> QED
          BY <1>1, <1>3, <2>1, <4>2 DEF Settled, NadRight
      <3>4. CASE i # j
        <4>1. nads'[n][i] = nads[n][i]
          BY <1>2, <1>6, <3>2, <3>4 DEF IInv, TypeOK, ClusterTypeOK
        <4>2. i \notin worker.todo /\ worker.pc = "nads"
          BY <2>1, <2>3, <3>1, <3>4 DEF ApplyNad, IInv, TypeOK, Worker
        <4> QED
          BY <1>1, <1>3, <1>6, <2>1, <4>1, <4>2
             DEF Settled, NadDone, NadKept, PodSteps
      <3> QED
        BY <3>3, <3>4
    <2>4. CASE ~GetNodeConfig /\ ~\E j \in Interfaces : ApplyNad(j)
      <3>1. UNCHANGED nads /\ worker.pc \in PodSteps
        BY <2>4 DEF Inside, ComparePod, DeletePod, CreatePod, GetPod, SetInitialConfig,
                    extVars, PodSteps
      <3>2. worker'.todo = worker.todo
        BY <2>4 DEF Inside, ComparePod, DeletePod, CreatePod, GetPod, SetInitialConfig,
                    Report, IInv, TypeOK, Worker
      <3> QED
        BY <1>1, <1>3, <1>6, <2>1, <3>1, <3>2 DEF Settled, NadDone, NadKept
    <2> QED
      BY <2>2, <2>3, <2>4
  <1> QED
    BY <1>5, <1>6

\* Reconcile returns.  A Node it leaves at rest and Ready it reported Ready.
LEMMA LastSettles ==
    ASSUME IInv, TypeOK', RemoveFinalizer \/ UpdateStatus,
           NEW n \in Nodes, NEW i \in Interfaces, node'[n] # None, NadDone(n, i)'
    PROVE  Settled(n, i)
  <1> DEFINE w == worker.node
  <1>1. /\ UNCHANGED <<cNode, podVars, extVars, nadOn>> /\ (Fault \/ NoBudget)
        /\ worker.pc \in {"finalize", "status"}
    BY DEF RemoveFinalizer, UpdateStatus
  <1>2. w \in Nodes /\ w # None
    BY <1>1, WorkerTyped, NoneAssumption DEF IInv
  <1>3. PodStep /\ RecordStep /\ UNCHANGED nads
    <2>1. UNCHANGED strangers
      BY <1>1, FaultCount
    <2> QED
      BY <1>1, <2>1, NoPodWritten DEF podVars, extVars
  <1>4. \/ worker' = Idle
        \/ /\ worker'.pc = "status" /\ worker'.cond = "FailedFinalizer"
           /\ worker'.node = w
    BY DEF RemoveFinalizer, UpdateStatus, Finish, Refused, Report, IInv, TypeOK, Worker
  <1>5. Live(n)' /\ ~Woken(n)' /\ node'[n].status = "Ready"
    BY <1>4 DEF NadDone, PodSteps, Idle
  <1>6. queue \subseteq queue'
    BY DEF RemoveFinalizer, UpdateStatus, Finish, Refused, Report
  <1>7. \/ UNCHANGED <<node, nodeLog>>
        \/ w \in current /\ NodeWrite(w, node'[w])
    <2>1. ASSUME NEW o, NodeWrite(w, o)
          PROVE  NodeWrite(w, node'[w])
      BY <1>2, <2>1 DEF NodeWrite, IInv, TypeOK, ClusterTypeOK
    <2> QED
      BY <2>1 DEF RemoveFinalizer, UpdateStatus, Accepted, Refused
  <1>8. NodeStep
    BY <1>1, <1>2, <1>7 DEF NodeStep, nodeVars
  <1>9. CASE n # w
    <2>1. n # worker'.node
      BY <1>4, <1>9, NoneAssumption DEF Idle
    <2> QED
      BY <1>1, <1>3, <1>6, <1>8, <1>9, <2>1, OtherSettles
  <1>10. CASE n = w
    <2>1. UNCHANGED <<node, nodeLog>>
      <3>1. NodeWrite(w, node'[w]) => nodeLog'[w] # <<>>
        BY <1>2, NodeWriteLogged DEF IInv
      <3> QED
        BY <1>5, <1>7, <1>10, <3>1 DEF Woken
    <2>2. w \notin queue' /\ worker'.node # w
      BY <1>5, <1>10 DEF Woken, PodNews
    <2>3. node[w] \in NodeObj /\ ~node[w].deleting /\ node[w] # None
      BY <1>2, <1>5, <1>10, <2>1 DEF Live, IInv, TypeOK, ClusterTypeOK
    <2>4. UpdateStatus /\ Accepted(w) /\ node[w].status = worker.cond
      <3>1. CASE RemoveFinalizer
        <4>1. w \in current => node[w].deleting
          BY <3>1 DEF RemoveFinalizer, IInv, CurrentIsRead
        <4>2. Report("FailedFinalizer", TRUE) => worker'.node = w
          BY DEF Report, IInv, TypeOK, Worker
        <4> QED
          BY <2>2, <2>3, <3>1, <4>1, <4>2 DEF RemoveFinalizer
      <3>2. CASE UpdateStatus
        <4>1. Accepted(w)
          BY <2>2, <3>2 DEF UpdateStatus, Refused, Finish
        <4>2. NodeWrite(w, [node[w] EXCEPT !.status = worker.cond]) =>
                node[w].status = worker.cond
          <5>1. [node[w] EXCEPT !.status = worker.cond].status = worker.cond
            BY <2>3 DEF NodeObj
          <5> QED
            BY <1>2, <2>1, <5>1 DEF NodeWrite, IInv, TypeOK, ClusterTypeOK
        <4> QED
          BY <2>2, <3>2, <4>1, <4>2 DEF UpdateStatus, Refused, Finish, Stored
      <3> QED
        BY <3>1, <3>2
    <2>5. /\ node[w].uid = worker.uid /\ worker.pc = "status"
          /\ worker.cond = "Ready"
      BY <1>5, <1>10, <2>1, <2>4 DEF IInv, CurrentIsRead, Accepted, UpdateStatus
    <2>6. worker.todo = {}
      BY <2>5 DEF IInv, WorkerKnows
    <2> QED
      BY <1>1, <1>3, <1>10, <2>1, <2>3, <2>5, <2>6 DEF Settled, NadDone, NadKept
  <1> QED
    BY <1>9, <1>10

LEMMA NextSettles ==
    ASSUME IInv, [Next]_vars,
           NEW n \in Nodes, NEW i \in Interfaces, node'[n] # None, NadDone(n, i)'
    PROVE  Settled(n, i)
  <1>1. TypeOK'
    BY NextKeeps DEF IInv
  <1>2. CASE Reconcile
    BY <1>1, <1>2, BeginSettles, InsideSettles, LastSettles DEF Reconcile, Inside
  <1>3. CASE Restart
    <2>1. n \in queue' /\ worker' = Idle
      BY <1>3 DEF Restart
    <2> QED
      BY <2>1 DEF NadDone, Woken, PodNews, Idle, PodSteps
  <1>4. CASE ~Reconcile /\ ~Restart
    <2>1. NadStep
      BY <1>4, OthersNads DEF Next, IInv
    <2>2. EnvStep
      <3>1. UNCHANGED vars => EnvStep
        BY StutterStep
      <3> QED
        BY <1>1, <1>4, <3>1, UsersStep, PlatformStep, InformersStep DEF Next, IInv
    <2> QED
      BY <1>1, <2>1, <2>2, EnvSettles
  <1> QED
    BY <1>2, <1>3, <1>4

-----------------------------------------------------------------------------
(* Theorems.                                                               *)

LEMMA NadInvariance == Spec => [](IInv /\ NadInv)
  <1>1. Init => NadInv
    BY DEF Init, ClusterInit, NadInv
  <1>2. IInv /\ NadInv /\ [Next]_vars => NadInv'
    <2> SUFFICES ASSUME IInv, NadInv, [Next]_vars,
                        NEW n \in Nodes, NEW i \in Interfaces,
                        node'[n] # None, NadDone(n, i)'
                 PROVE  NadRight(n, i)'
      BY DEF NadInv
    <2>1. Settled(n, i)
      BY NextSettles
    <2> QED
      BY <2>1 DEF Settled, NadKept, NadInv, NadRight
  <1> QED
    BY <1>1, <1>2, Invariance, PTL DEF Spec

\* The NADs of a Ready Node at rest follow ENABLE_NAD.
THEOREM ReadyNodesHaveTheirNads == Spec => []ReadyNads
  <1>1. IInv /\ NadInv => ReadyNads
    BY DEF NadInv, NadDone, NadRight, ReadyNads, Live
  <1> QED
    BY <1>1, NadInvariance, PTL

\* A Pod is only created once the NADs it attaches to are there.
THEOREM NadsComeFirst == Spec => []NadsBeforePod
  <1>1. IInv /\ NadInv => NadsBeforePod
    <2> SUFFICES ASSUME IInv, NadInv, worker.pc = "create", nadOn,
                        ~OwnerGone(worker.node, worker.uid), NEW i \in Interfaces
                 PROVE  nads[worker.node][i] = worker.uid
      BY DEF NadsBeforePod
    <2>1. worker.node \in Nodes /\ worker.todo = {}
      BY WorkerTyped DEF IInv, WorkerKnows, PodSteps
    <2>2. node[worker.node] # None /\ NadDone(worker.node, i)
      BY <2>1 DEF NadDone, OwnerGone, PodSteps
    <2> QED
      BY <2>1, <2>2 DEF NadInv, NadRight, OwnerGone
  <1> QED
    BY <1>1, NadInvariance, PTL

=============================================================================
