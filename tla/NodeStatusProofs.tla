-------------------------- MODULE NodeStatusProofs --------------------------
(***************************************************************************)
(* Proof that the reconciler implements module NodeStatus: each of its     *)
(* steps changes, reads, reports on, releases or rests one Node, rouses    *)
(* some, or is not seen at all.                                            *)
(***************************************************************************)
EXTENDS NodeDeployerProofs

\* What a reader of Nodes sees of a step that stores no Node.
Unseen == UNCHANGED node /\ Asleep' \subseteq Asleep

\* A Node asleep is one the operator is done with.
LEMMA AsleepIsDone ==
    ASSUME IInv, NEW n \in Asleep
    PROVE  node[n] # None /\ Promise!Done(node[n])
  <1>1. n \in Nodes /\ node[n] # None /\ ~Woken(n) /\ ~Due(n) /\ ~Visited(n)
    BY DEF Asleep
  <1>2. RestsWell(n)
    BY <1>1, Parts DEF NodesRestWell
  <1> QED
    BY <1>1, <1>2 DEF RestsWell, LeftWell, Promise!Done, Promise!Pending

LEMMA AsleepIsDonePrimed ==
    ASSUME IInv', NEW n \in Asleep'
    PROVE  node'[n] # None /\ Promise!Done(node'[n])
  <1>1. n \in Nodes /\ node'[n] # None /\ ~Woken(n)' /\ ~Due(n)' /\ ~Visited(n)'
    BY DEF Asleep
  <1>2. RestsWell(n)'
    BY <1>1, PartsPrimed DEF NodesRestWell
  <1> QED
    BY <1>1, <1>2 DEF RestsWell, LeftWell, Promise!Done, Promise!Pending

\* A step that drops no name from the queue sends nobody to sleep.
LEMMA StaysAwake ==
    ASSUME IInv, TypeOK', NodeStep, PodStep, RecordStep, NEW n \in Asleep',
           n \in queue => n \in queue',
           worker.node # n,
           pod'[n] = pod[n] /\ Owned(pod[n]) /\ device[n] = "down" => device'[n] = "down"
    PROVE  n \in Asleep /\ node'[n] = node[n]
  <1>1. n \in Nodes /\ node'[n] # None /\ ~Woken(n)' /\ ~Due(n)' /\ ~Visited(n)'
    BY DEF Asleep
  <1>2. /\ ~Woken(n) /\ node'[n] = node[n]
        /\ pod'[n] = pod[n] /\ ~OwnInFlight(n)' /\ ~Visited(n)
    BY <1>1, NodeUntouched, PodUntouched, VisitsKept DEF IInv, Woken, PodNews
  <1>3. ~Due(n)
    BY <1>1, <1>2 DEF Due, OwnerGone
  <1> QED
    BY <1>1, <1>2, <1>3 DEF Asleep

LEMMA EnvUnseen ==
    ASSUME IInv, TypeOK', EnvStep
    PROVE  Asleep' \subseteq Asleep /\ UNCHANGED Reading
  <1>1. ASSUME NEW n \in Asleep'
        PROVE  n \in Asleep
    <2>1. n \in Nodes /\ worker.node # n
      BY DEF Asleep, Woken, EnvStep
    <2>2. pod'[n] = pod[n] /\ Owned(pod[n]) /\ device[n] = "down" => device'[n] = "down"
      BY <2>1 DEF EnvStep, SharedStep
    <2>3. RecordStep
      BY DEF EnvStep, SharedStep
    <2> QED
      BY <2>1, <2>2, <2>3, StaysAwake DEF EnvStep
  <1> QED
    BY <1>1 DEF Reading, EnvStep

\* Somebody else's write to a Node is seen as a change of it.
LEMMA WriteIsChange ==
    ASSUME IInv, TypeOK', EnvStep, NEW n \in Nodes, NodeWrite(n, node'[n]),
           node'[n] # node[n],
           node'[n] # None =>
             /\ node'[n].status = IF node[n] = None THEN "Unknown" ELSE node[n].status
             /\ node[n] # None => node'[n].uid = node[n].uid
    PROVE  Promise!Next
  <1>1. Asleep' \subseteq Asleep /\ UNCHANGED Reading
    BY EnvUnseen
  <1>2. n \notin Asleep'
    BY NodeWriteLogged DEF Asleep, Woken, IInv
  <1>3. \A m \in Nodes \ {n} : node'[m] = node[m]
    BY DEF NodeWrite, IInv, TypeOK, ClusterTypeOK
  <1>4. Promise!Change(n)
    BY <1>1, <1>2, <1>3 DEF Promise!Change, Promise!Shows
  <1> QED
    BY <1>4 DEF Promise!Next

LEMMA RouseStep ==
    ASSUME Unseen, Reading' \in {Reading, None}
    PROVE  Promise!Next
  BY DEF Unseen, Promise!Next, Promise!Rouse

LEMMA UsersPromise ==
    ASSUME IInv, TypeOK', EnvStep, Users, UNCHANGED <<worker, nadOn>>
    PROVE  Promise!Next
  <1> USE DEF IInv, TypeOK, ClusterTypeOK
  <1>1. ASSUME NEW n \in Nodes, NEW u \in Uids, NEW s \in Specs,
               NEW fs \in FinalizerSets, CreateNode(n, u, s, fs)
        PROVE  Promise!Next
    <2> DEFINE o == [uid |-> u, spec |-> s, deleting |-> FALSE, finalizers |-> fs,
                     status |-> "Unknown"]
    <2>1. o # None
      <3>1. o \in NodeObj
        BY FinalizersAssumption DEF NodeObj, Conditions
      <3> QED
        BY <3>1, NoneAssumption
    <2>2. node[n] = None /\ node'[n] = o /\ NodeWrite(n, node'[n])
      BY <1>1 DEF CreateNode, NodeWrite
    <2>3. o.status = "Unknown"
      OBVIOUS
    <2> HIDE DEF o
    <2> QED
      BY <2>1, <2>2, <2>3, WriteIsChange
  <1>2. ASSUME NEW n \in Nodes, NEW s \in Specs, EditNode(n, s)
        PROVE  Promise!Next
    <2>1. node[n] \in NodeObj /\ node[n] # None /\ s # node[n].spec
      BY <1>2 DEF EditNode
    <2>2. NodeWrite(n, node'[n]) /\ node'[n] = [node[n] EXCEPT !.spec = s]
      BY <1>2 DEF EditNode, NodeWrite
    <2>3. /\ node'[n].uid = node[n].uid /\ node'[n].status = node[n].status
          /\ node'[n] # node[n]
      BY <2>1, <2>2 DEF NodeObj
    <2> QED
      BY <2>1, <2>2, <2>3, WriteIsChange
  <1>3. ASSUME NEW n \in Nodes, DeleteNode(n)
        PROVE  Promise!Next
    <2>1. node[n] \in NodeObj /\ node[n] # None /\ ~node[n].deleting
      BY <1>3 DEF DeleteNode
    <2>2. /\ NodeWrite(n, node'[n])
          /\ node'[n] = None \/ node'[n] = [node[n] EXCEPT !.deleting = TRUE]
      BY <1>3 DEF DeleteNode, NodeWrite
    <2>3. /\ node'[n] # None =>
               node'[n].uid = node[n].uid /\ node'[n].status = node[n].status
          /\ node'[n] # node[n]
      BY <2>1, <2>2 DEF NodeObj
    <2> QED
      BY <2>1, <2>2, <2>3, WriteIsChange
  <1>4. ASSUME NEW n \in Nodes, ReleaseNode(n)
        PROVE  Promise!Next
    <2>1. node[n] \in NodeObj /\ node[n] # None /\ "other" \in node[n].finalizers
      BY <1>4 DEF ReleaseNode
    <2>2. /\ NodeWrite(n, node'[n])
          /\ \/ node'[n] = None
             \/ node'[n] = [node[n] EXCEPT !.finalizers = @ \ {"other"}]
      BY <1>4 DEF ReleaseNode, NodeWrite, WithoutFinalizer
    <2>3. /\ node'[n] # None =>
               node'[n].uid = node[n].uid /\ node'[n].status = node[n].status
          /\ node'[n] # node[n]
      BY <2>1, <2>2 DEF NodeObj
    <2> QED
      BY <2>1, <2>2, <2>3, WriteIsChange
  <1>5. CASE UNCHANGED node
    BY <1>5, EnvUnseen, RouseStep DEF Unseen
  <1> QED
    BY <1>1, <1>2, <1>3, <1>4, <1>5
       DEF Users, EditConfig, UserDeletesPod, UserCreatesPod, nodeVars

\* The steps of Reconcile between its first and its last.
LEMMA MidPromise ==
    ASSUME IInv, TypeOK', MidStep,
           worker'.uid = worker.uid, worker'.spec = worker.spec
    PROVE  Promise!Next
  <1>1. ASSUME NEW n \in Asleep'
        PROVE  n \in Asleep
    <2>1. n \in Nodes /\ worker.node # n
      BY DEF Asleep, Woken, MidStep
    <2>2. NodeStep /\ PodStep /\ RecordStep
      BY DEF MidStep, NodeStep
    <2> QED
      BY <2>1, <2>2, StaysAwake DEF MidStep
  <1>2. UNCHANGED node /\ UNCHANGED Reading
    BY DEF MidStep, Reading, nodeVars
  <1> QED
    BY <1>1, <1>2, RouseStep DEF Unseen

\* The end of a run that stores the Node it worked for.
LEMMA WriteIsSaid ==
    ASSUME IInv, TypeOK', worker' = Idle, worker.node \in Nodes,
           worker.node \in current,
           NodeWrite(worker.node, node'[worker.node]), UNCHANGED cNode,
           node'[worker.node] # node[worker.node],
           UNCHANGED <<podVars, extVars, strangers>>, queue \subseteq queue'
    PROVE  /\ Promise!AsRead(worker.node) /\ Promise!Shows(worker.node)
           /\ Reading' = None
  <1> DEFINE n == worker.node
  <1>1. n # None
    BY NoneAssumption
  <1>2. Promise!AsRead(n)
    <2> DEFINE r == [node |-> n, uid |-> worker.uid, spec |-> worker.spec]
    <2>1. Reading = r /\ r.node = n /\ r.uid = worker.uid /\ r.spec = worker.spec
      BY <1>1 DEF Reading
    <2>2. r # None
      <3>1. worker.uid \in Uids /\ worker.spec \in Specs
        BY <1>1, WorkerTyped DEF IInv, WorkerKnows
      <3> QED
        BY <3>1, ReadingAssumption
    <2>3. node[n] # None /\ worker.uid = node[n].uid /\ worker.spec = node[n].spec
      BY DEF IInv, CurrentIsRead
    <2> HIDE DEF r
    <2> QED
      BY <2>1, <2>2, <2>3 DEF Promise!AsRead
  <1>3. \A m \in Nodes \ {n} : node'[m] = node[m]
    BY DEF NodeWrite, IInv, TypeOK, ClusterTypeOK
  <1>4. n \notin Asleep'
    BY NodeWriteLogged DEF Asleep, Woken, IInv
  <1>5. ASSUME NEW m \in Asleep'
        PROVE  m \in Asleep
    <2>1. NodeStep /\ PodStep /\ RecordStep /\ m \in Nodes /\ m # n
      BY <1>4, NoPodWritten DEF NodeStep, Asleep
    <2> QED
      BY <2>1, StaysAwake DEF extVars
  <1>6. Reading' = None
    BY DEF Reading, Idle
  <1> QED
    BY <1>2, <1>3, <1>4, <1>5, <1>6 DEF Promise!Shows

\* The end of a run that leaves the Nodes as they are.
LEMMA RestStep ==
    ASSUME IInv, IInv', worker' = Idle, NEW n \in Nodes, n = worker.node,
           UNCHANGED <<node, nodeLog, cNode, podVars, extVars, strangers>>,
           queue \subseteq queue'
    PROVE  Promise!Next
  <1>1. NodeStep /\ PodStep /\ RecordStep
    BY NoPodWritten DEF NodeStep, nodeVars
  <1>2. ASSUME NEW m \in Asleep', m # n
        PROVE  m \in Asleep
    <2>1. m \in Nodes
      BY DEF Asleep
    <2> QED
      BY <1>1, <1>2, <2>1, StaysAwake DEF extVars, IInv
  <1>3. Reading' = None
    BY DEF Reading, Idle
  <1>4. CASE n \notin Asleep'
    BY <1>2, <1>3, <1>4, RouseStep DEF Unseen
  <1>5. CASE n \in Asleep'
    <2>1. node[n] # None /\ Promise!Done(node[n])
      BY <1>5, AsleepIsDonePrimed
    <2>2. Asleep' \subseteq Asleep \cup {n}
      BY <1>2
    <2>3. Reading # None => Reading.node = n
      BY DEF Reading
    <2>4. Promise!Rest(n)
      BY <1>3, <2>1, <2>2, <2>3 DEF Promise!Rest
    <2> QED
      BY <2>4 DEF Promise!Next
  <1> QED
    BY <1>4, <1>5

LEMMA BeginPromise ==
    ASSUME IInv, IInv', NEW n \in Nodes, Begin(n)
    PROVE  Promise!Next
  <1>1. UNCHANGED <<nodeVars, podVars, extVars, strangers>>
    BY DEF Begin, budget
  <1>2. NodeStep /\ PodStep /\ RecordStep
    BY <1>1, NoPodWritten DEF NodeStep
  <1>3. worker.node = None /\ Reading = None
    BY DEF Begin, IInv, WorkerKnows, Reading
  <1>4. n \notin Asleep
    BY DEF Asleep, Begin, Woken, PodNews
  <1>5. ASSUME NEW m \in Asleep', m # n
        PROVE  m \in Asleep
    <2>1. m \in Nodes /\ worker.node # m
      BY <1>3, NoneAssumption DEF Asleep
    <2> QED
      BY <1>1, <1>2, <1>5, <2>1, StaysAwake DEF Begin, extVars, IInv
  <1>6. CASE UNCHANGED worker
    <2>1. Reading' = None
      BY <1>3, <1>6 DEF Reading
    <2>2. CASE n \notin Asleep'
      BY <1>1, <1>5, <2>1, <2>2, RouseStep DEF Unseen, nodeVars
    <2>3. CASE n \in Asleep'
      <3>1. node[n] # None /\ Promise!Done(node[n])
        BY <1>1, <2>3, AsleepIsDonePrimed DEF nodeVars
      <3>2. Promise!Rest(n)
        BY <1>1, <1>3, <1>5, <2>1, <3>1 DEF Promise!Rest, nodeVars
      <3> QED
        BY <3>2 DEF Promise!Next
    <2> QED
      BY <2>2, <2>3
  <1>7. ASSUME cNode[n] # None, NEW step, NEW c, Take(n, step, c)
        PROVE  Promise!Next
    <2> DEFINE r == [node |-> n, uid |-> cNode[n].uid, spec |-> cNode[n].spec]
    <2>1. worker'.node = n /\ Reading' = r /\ r.node = n
      BY <1>7, TakeFields, NoneAssumption DEF Reading
    <2>2. r # None
      <3>1. cNode[n].uid \in Uids /\ cNode[n].spec \in Specs
        BY <1>7 DEF IInv, TypeOK, ClusterTypeOK, NodeObj
      <3> QED
        BY <3>1, ReadingAssumption
    <2>3. n \notin Asleep'
      BY <2>1 DEF Asleep, Woken
    <2>4. ASSUME NEW m \in Asleep
          PROVE  m \in Asleep'
      <3>1. m \in Nodes /\ m # n
        BY <1>4, <2>4 DEF Asleep
      <3>2. m \notin queue => m \notin queue'
        BY DEF Begin
      <3> QED
        BY <1>1, <2>1, <3>1, <3>2
           DEF Asleep, Woken, PodNews, OwnInFlight, Due, OwnerGone, Visited,
               nodeVars, podVars, extVars
    <2>5. UNCHANGED <<node, Asleep>>
      BY <1>1, <1>5, <2>3, <2>4 DEF nodeVars
    <2> HIDE DEF r
    <2>6. Promise!Look(n)
      BY <1>3, <1>4, <2>1, <2>2, <2>5 DEF Promise!Look
    <2> QED
      BY <2>6 DEF Promise!Next
  <1> QED
    BY <1>6, <1>7 DEF Begin

LEMMA RemoveFinalizerPromise ==
    ASSUME IInv, IInv', RemoveFinalizer
    PROVE  Promise!Next
  <1>0. PICK n \in Nodes : n = worker.node
    BY WorkerTyped DEF IInv, RemoveFinalizer
  <1>1. UNCHANGED <<cNode, podVars, extVars, nadOn>> /\ (Fault \/ NoBudget)
    BY DEF RemoveFinalizer
  <1>2. TypeOK' /\ faults <= faults' /\ UNCHANGED strangers /\ PodStep /\ RecordStep
    BY <1>1, FaultCount, NoPodWritten DEF IInv
  <1>3. CASE Report("FailedFinalizer", TRUE) /\ UNCHANGED <<node, nodeLog, queue, current>>
    <2>1. /\ worker'.node = worker.node
          /\ worker'.uid = worker.uid /\ worker'.spec = worker.spec
      BY <1>3 DEF Report, IInv, TypeOK, Worker
    <2>2. MidStep
      BY <1>1, <1>2, <1>3, <2>1 DEF MidStep, RemoveFinalizer, nodeVars, extVars
    <2> QED
      BY <1>2, <2>1, <2>2, MidPromise
  <1>4. CASE Finish(FALSE) /\ UNCHANGED <<node, nodeLog>>
    BY <1>0, <1>1, <1>2, <1>4, RestStep DEF Finish
  <1>5. CASE /\ n \in current
             /\ NodeWrite(n, WithoutFinalizer(node[n], "nodedeployer"))
             /\ Finish(FALSE)
    <2>1. node[n] \in NodeObj /\ node[n].deleting /\ "nodedeployer" \in node[n].finalizers
      BY <1>0, <1>5 DEF IInv, CurrentIsRead, RemoveFinalizer, TypeOK, ClusterTypeOK
    <2>2. /\ NodeWrite(n, node'[n])
          /\ \/ node'[n] = None
             \/ node'[n] = [node[n] EXCEPT !.finalizers = @ \ {"nodedeployer"}]
      BY <1>5 DEF NodeWrite, WithoutFinalizer, IInv, TypeOK, ClusterTypeOK
    <2>3. node'[n] # node[n]
      BY <2>1, <2>2, NoneAssumption DEF NodeObj
    <2>4. Promise!AsRead(n) /\ Promise!Shows(n) /\ Reading' = None
      BY <1>0, <1>1, <1>2, <1>5, <2>2, <2>3, WriteIsSaid DEF Finish
    <2>5. Promise!Release(n)
      BY <2>1, <2>2, <2>4 DEF Promise!Release
    <2> QED
      BY <2>5 DEF Promise!Next
  <1> QED
    BY <1>0, <1>3, <1>4, <1>5 DEF RemoveFinalizer

LEMMA UpdateStatusPromise ==
    ASSUME IInv, IInv', UpdateStatus
    PROVE  Promise!Next
  <1>0. PICK n \in Nodes : n = worker.node
    BY WorkerTyped DEF IInv, UpdateStatus
  <1>1. /\ UNCHANGED <<cNode, podVars, extVars, nadOn>> /\ worker' = Idle
        /\ queue \subseteq queue' /\ (Fault \/ NoBudget)
    BY DEF UpdateStatus, Finish, Refused
  <1>2. TypeOK' /\ UNCHANGED strangers
    BY <1>1, FaultCount DEF IInv
  <1>3. CASE UNCHANGED <<node, nodeLog>>
    BY <1>0, <1>1, <1>2, <1>3, RestStep
  <1>4. CASE /\ n \in current /\ node[n].status # worker.cond
             /\ NodeWrite(n, [node[n] EXCEPT !.status = worker.cond])
    <2>1. node[n] \in NodeObj /\ (node[n].deleting => worker.cond = "FailedFinalizer")
      BY <1>0, <1>4 DEF IInv, CurrentIsRead, UpdateStatus, TypeOK, ClusterTypeOK
    <2>2. /\ NodeWrite(n, node'[n])
          /\ node'[n] = [node[n] EXCEPT !.status = worker.cond]
      BY <1>4 DEF NodeWrite, IInv, TypeOK, ClusterTypeOK
    <2>3. node'[n].status = worker.cond /\ node'[n] # node[n] /\ node'[n] # None
      <3>1. node'[n].status = worker.cond
        BY <2>1, <2>2 DEF NodeObj
      <3>2. worker.cond \in Conditions
        BY DEF IInv, TypeOK, Worker
      <3>3. [node[n] EXCEPT !.status = worker.cond] \in NodeObj
        BY <2>1, <3>2 DEF NodeObj
      <3> QED
        BY <1>4, <2>2, <3>1, <3>3, NoneAssumption
    <2>4. Promise!AsRead(n) /\ Promise!Shows(n) /\ Reading' = None
      BY <1>0, <1>1, <1>2, <1>4, <2>2, <2>3, WriteIsSaid
    <2>5. Promise!Report(n)
      BY <2>1, <2>2, <2>3, <2>4 DEF Promise!Report
    <2> QED
      BY <2>5 DEF Promise!Next
  <1> QED
    BY <1>0, <1>3, <1>4 DEF UpdateStatus, Accepted, Stored, Refused

LEMMA RestartPromise ==
    ASSUME Restart
    PROVE  Promise!Next
  <1>1. Asleep' = {}
    BY DEF Restart, Asleep, Woken, PodNews
  <1>2. Reading' = None
    BY DEF Restart, Reading, Idle
  <1> QED
    BY <1>1, <1>2, RouseStep DEF Unseen, Restart

LEMMA StepPromise ==
    ASSUME IInv, IInv', Next
    PROVE  Promise!Next
  <1>0. TypeOK' /\ TypeOK /\ PodsOnRecord
    BY DEF IInv
  <1>1. ASSUME NEW n \in Nodes, Begin(n)
        PROVE  Promise!Next
    BY <1>1, BeginPromise
  <1>2. CASE RemoveFinalizer
    BY <1>2, RemoveFinalizerPromise
  <1>3. CASE UpdateStatus
    BY <1>3, UpdateStatusPromise
  <1>4. CASE Inside
    BY <1>0, <1>4, InsideIsMid, MidPromise
  <1>5. CASE Users /\ UNCHANGED <<worker, nadOn>>
    BY <1>0, <1>5, UsersStep, UsersPromise
  <1>6. CASE Platform /\ UNCHANGED <<worker, nadOn>>
    <2>1. EnvStep
      BY <1>0, <1>6, PlatformStep
    <2>2. UNCHANGED node
      BY <1>6 DEF Platform, DeviceCrash, KubeletReports, KubeletRemovesPod, CollectPod,
                  CollectNad, nodeVars
    <2> QED
      BY <1>0, <2>1, <2>2, EnvUnseen, RouseStep DEF Unseen
  <1>7. CASE Informers
    <2>1. EnvStep
      BY <1>0, <1>7, InformersStep
    <2>2. UNCHANGED node
      BY <1>7 DEF Informers, DeliverNode, DeliverPod, Resync, nodeVars
    <2> QED
      BY <1>0, <2>1, <2>2, EnvUnseen, RouseStep DEF Unseen
  <1>8. CASE Restart
    BY <1>8, RestartPromise
  <1> QED
    BY <1>1, <1>2, <1>3, <1>4, <1>5, <1>6, <1>7, <1>8 DEF Next, Reconcile, Inside

\* Read as Nodes alone, whatever the operator does is what module NodeStatus
\* allows: conditions are stored only on what a run has read, and a Node is left
\* asleep only when nothing remains to be done for it.
THEOREM PromiseIsKept == Spec => KeepsPromise
  <1>1. Init => Promise!Init
    <2> SUFFICES ASSUME Init
                 PROVE  Promise!Init
      OBVIOUS
    <2>1. Asleep = {} /\ Reading = None
      BY DEF Init, ClusterInit, Asleep, Reading, Idle
    <2> QED
      BY <2>1 DEF Init, ClusterInit, Promise!Init
  <1>2. IInv /\ IInv' /\ [Next]_vars => [Promise!Next]_(Promise!vars)
    <2> SUFFICES ASSUME IInv, IInv', [Next]_vars
                 PROVE  [Promise!Next]_(Promise!vars)
      OBVIOUS
    <2>1. CASE Next
      BY <2>1, StepPromise
    <2>2. CASE UNCHANGED vars
      <3>1. UNCHANGED <<node, Reading, Asleep>>
        BY <2>2 DEF vars, nodeVars, podVars, extVars, budget, Reading, Asleep, Woken,
                    PodNews, OwnInFlight, Due, OwnerGone, Visited
      <3> QED
        BY <3>1 DEF Promise!vars
    <2> QED
      BY <2>1, <2>2
  <1> QED
    BY <1>1, <1>2, Invariance, PTL DEF Spec, KeepsPromise, Promise!Spec

=============================================================================
