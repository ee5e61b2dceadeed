--------------------------- MODULE ReplicasProofs ---------------------------
(***************************************************************************)
(* Proofs for two operators.  Each one's step is a step of NodeDeployer;   *)
(* for the other it is a step of the environment, which writes Pods that   *)
(* have owners, conditions and NADs: SharedStep says what it still may not *)
(* do.  PA and PB are the two operators with the theorems about them.      *)
(***************************************************************************)
EXTENDS Replicas, TLAPS

PA == INSTANCE NadProofs
        WITH nodeLog <- nodeLogA, podLog <- podLogA, cNode <- cNodeA,
             cPod <- cPodA, queue <- queueA, current <- currentA,
             worker <- workerA, nadOn <- nadOnA

PB == INSTANCE NadProofs
        WITH nodeLog <- nodeLogB, podLog <- podLogB, cNode <- cNodeB,
             cPod <- cPodB, queue <- queueB, current <- currentB,
             worker <- workerB, nadOn <- nadOnB

\* The assumptions, in the terms of either instance.
LEMMA Assumed ==
    /\ None \notin Nodes \cup Specs \cup Revisions \cup Uids \cup PodIds
    /\ None \notin PA!NodeObj \cup PA!PodObj
    /\ None \notin PB!NodeObj \cup PB!PodObj
    /\ None \notin [node : Nodes, uid : Uids, spec : Specs]
    /\ FinalizerSets \subseteq SUBSET PA!Finalizers
    /\ FinalizerSets \subseteq SUBSET PB!Finalizers
    /\ ForeignHashes \subseteq Revisions \cup {None}
    /\ MaxLag \in Nat \ {0} /\ MaxEdits \in Nat /\ MaxFaults \in Nat
    /\ Registered \subseteq Specs /\ Fixed \subseteq Specs
    /\ NadModes \subseteq BOOLEAN /\ NadModes # {}
  BY NoneAssumption, SetsAssumption, BoundAssumption, DeployAssumption
     DEF A!NodeObj, PA!NodeObj, PB!NodeObj, A!PodObj, PA!PodObj, PB!PodObj,
         A!Conditions, PA!Conditions, PB!Conditions,
         A!PodStates, PA!PodStates, PB!PodStates,
         A!Finalizers, PA!Finalizers, PB!Finalizers

-----------------------------------------------------------------------------
(* Operators A and B take the steps of PA and PB.                          *)

LEMMA SameA ==
    /\ A!Reconcile <=> PA!Reconcile
    /\ A!Users <=> PA!Users
    /\ A!Platform <=> PA!Platform
    /\ A!Informers <=> PA!Informers
    /\ A!Restart <=> PA!Restart
  <1>1. A!Reconcile <=> PA!Reconcile
    BY DEF A!Reconcile, PA!Reconcile, A!Begin, PA!Begin, A!RemoveFinalizer,
           PA!RemoveFinalizer, A!GetNodeConfig, PA!GetNodeConfig, A!NadsToApply,
           PA!NadsToApply, A!ApplyNad, PA!ApplyNad, A!ComparePod, PA!ComparePod,
           A!IsRevision, PA!IsRevision, A!DeletePod, PA!DeletePod, A!CreatePod,
           PA!CreatePod, A!GetPod, PA!GetPod, A!PodCondition, PA!PodCondition,
           A!SetInitialConfig, PA!SetInitialConfig, A!UpdateStatus,
           PA!UpdateStatus, A!Accepted, PA!Accepted, A!Stored, PA!Stored,
           A!Refused, PA!Refused, A!Take, PA!Take, A!Idle, PA!Idle,
           A!NewNodeOfProvider, PA!NewNodeOfProvider, A!Finish, PA!Finish,
           A!Report, PA!Report, A!NodeWrite, PA!NodeWrite, A!PodWrite,
           PA!PodWrite, A!PodRemove, PA!PodRemove, A!WithoutFinalizer,
           PA!WithoutFinalizer, A!PodIdsInUse, PA!PodIdsInUse, A!PodVersions,
           PA!PodVersions, A!Outcomes, PA!Outcomes, A!DeviceStates,
           PA!DeviceStates, A!Pushed, PA!Pushed, A!Success, PA!Success, A!Fault,
           PA!Fault, A!NoBudget, PA!NoBudget, A!nodeVars, PA!nodeVars, A!podVars,
           PA!podVars, A!extVars, PA!extVars, A!budget, PA!budget
  <1>2. A!Users <=> PA!Users
    BY DEF A!Users, PA!Users, A!CreateNode, PA!CreateNode, A!EditNode,
           PA!EditNode, A!DeleteNode, PA!DeleteNode, A!ReleaseNode,
           PA!ReleaseNode, A!EditConfig, PA!EditConfig, A!UserDeletesPod,
           PA!UserDeletesPod, A!UserCreatesPod, PA!UserCreatesPod, A!UidsInUse,
           PA!UidsInUse, A!NodeWrite, PA!NodeWrite, A!PodWrite, PA!PodWrite,
           A!PodRemove, PA!PodRemove, A!WithoutFinalizer, PA!WithoutFinalizer,
           A!PodIdsInUse, PA!PodIdsInUse, A!PodVersions, PA!PodVersions, A!Edit,
           PA!Edit, A!NoBudget, PA!NoBudget, A!nodeVars, PA!nodeVars, A!podVars,
           PA!podVars, A!extVars, PA!extVars, A!budget, PA!budget
  <1>3. A!Platform <=> PA!Platform
    BY DEF A!Platform, PA!Platform, A!DeviceCrash, PA!DeviceCrash,
           A!KubeletReports, PA!KubeletReports, A!LaterStates, PA!LaterStates,
           A!KubeletRemovesPod, PA!KubeletRemovesPod, A!CollectPod,
           PA!CollectPod, A!CollectNad, PA!CollectNad, A!OwnerGone, PA!OwnerGone,
           A!PodWrite, PA!PodWrite, A!PodRemove, PA!PodRemove, A!Fault, PA!Fault,
           A!NoBudget, PA!NoBudget, A!nodeVars, PA!nodeVars, A!podVars,
           PA!podVars, A!extVars, PA!extVars, A!budget, PA!budget
  <1>4. A!Informers <=> PA!Informers
    BY DEF A!Informers, PA!Informers, A!DeliverNode, PA!DeliverNode, A!For,
           PA!For, A!DeliverPod, PA!DeliverPod, A!Owns, PA!Owns, A!Resync,
           PA!Resync, A!nodeVars, PA!nodeVars, A!podVars, PA!podVars, A!extVars,
           PA!extVars, A!budget, PA!budget
  <1>5. A!Restart <=> PA!Restart
    BY DEF A!Restart, PA!Restart, A!Idle, PA!Idle, A!Fault, PA!Fault, A!extVars,
           PA!extVars
  <1> QED
    BY <1>1, <1>2, <1>3, <1>4, <1>5

LEMMA SameB ==
    /\ B!Reconcile <=> PB!Reconcile
    /\ B!Users <=> PB!Users
    /\ B!Platform <=> PB!Platform
    /\ B!Informers <=> PB!Informers
    /\ B!Restart <=> PB!Restart
  <1>1. B!Reconcile <=> PB!Reconcile
    BY DEF B!Reconcile, PB!Reconcile, B!Begin, PB!Begin, B!RemoveFinalizer,
           PB!RemoveFinalizer, B!GetNodeConfig, PB!GetNodeConfig, B!NadsToApply,
           PB!NadsToApply, B!ApplyNad, PB!ApplyNad, B!ComparePod, PB!ComparePod,
           B!IsRevision, PB!IsRevision, B!DeletePod, PB!DeletePod, B!CreatePod,
           PB!CreatePod, B!GetPod, PB!GetPod, B!PodCondition, PB!PodCondition,
           B!SetInitialConfig, PB!SetInitialConfig, B!UpdateStatus,
           PB!UpdateStatus, B!Accepted, PB!Accepted, B!Stored, PB!Stored,
           B!Refused, PB!Refused, B!Take, PB!Take, B!Idle, PB!Idle,
           B!NewNodeOfProvider, PB!NewNodeOfProvider, B!Finish, PB!Finish,
           B!Report, PB!Report, B!NodeWrite, PB!NodeWrite, B!PodWrite,
           PB!PodWrite, B!PodRemove, PB!PodRemove, B!WithoutFinalizer,
           PB!WithoutFinalizer, B!PodIdsInUse, PB!PodIdsInUse, B!PodVersions,
           PB!PodVersions, B!Outcomes, PB!Outcomes, B!DeviceStates,
           PB!DeviceStates, B!Pushed, PB!Pushed, B!Success, PB!Success, B!Fault,
           PB!Fault, B!NoBudget, PB!NoBudget, B!nodeVars, PB!nodeVars, B!podVars,
           PB!podVars, B!extVars, PB!extVars, B!budget, PB!budget
  <1>2. B!Users <=> PB!Users
    BY DEF B!Users, PB!Users, B!CreateNode, PB!CreateNode, B!EditNode,
           PB!EditNode, B!DeleteNode, PB!DeleteNode, B!ReleaseNode,
           PB!ReleaseNode, B!EditConfig, PB!EditConfig, B!UserDeletesPod,
           PB!UserDeletesPod, B!UserCreatesPod, PB!UserCreatesPod, B!UidsInUse,
           PB!UidsInUse, B!NodeWrite, PB!NodeWrite, B!PodWrite, PB!PodWrite,
           B!PodRemove, PB!PodRemove, B!WithoutFinalizer, PB!WithoutFinalizer,
           B!PodIdsInUse, PB!PodIdsInUse, B!PodVersions, PB!PodVersions, B!Edit,
           PB!Edit, B!NoBudget, PB!NoBudget, B!nodeVars, PB!nodeVars, B!podVars,
           PB!podVars, B!extVars, PB!extVars, B!budget, PB!budget
  <1>3. B!Platform <=> PB!Platform
    BY DEF B!Platform, PB!Platform, B!DeviceCrash, PB!DeviceCrash,
           B!KubeletReports, PB!KubeletReports, B!LaterStates, PB!LaterStates,
           B!KubeletRemovesPod, PB!KubeletRemovesPod, B!CollectPod,
           PB!CollectPod, B!CollectNad, PB!CollectNad, B!OwnerGone, PB!OwnerGone,
           B!PodWrite, PB!PodWrite, B!PodRemove, PB!PodRemove, B!Fault, PB!Fault,
           B!NoBudget, PB!NoBudget, B!nodeVars, PB!nodeVars, B!podVars,
           PB!podVars, B!extVars, PB!extVars, B!budget, PB!budget
  <1>4. B!Informers <=> PB!Informers
    BY DEF B!Informers, PB!Informers, B!DeliverNode, PB!DeliverNode, B!For,
           PB!For, B!DeliverPod, PB!DeliverPod, B!Owns, PB!Owns, B!Resync,
           PB!Resync, B!nodeVars, PB!nodeVars, B!podVars, PB!podVars, B!extVars,
           PB!extVars, B!budget, PB!budget
  <1>5. B!Restart <=> PB!Restart
    BY DEF B!Restart, PB!Restart, B!Idle, PB!Idle, B!Fault, PB!Fault, B!extVars,
           PB!extVars
  <1> QED
    BY <1>1, <1>2, <1>3, <1>4, <1>5

\* A step is one operator's own, and the other hears of it.
LEMMA NextOfOne ==
    ASSUME Next
    PROVE  \/ PA!Next /\ PB!Hears /\ PB!NoReturn
           \/ PB!Next /\ PA!Hears /\ PA!NoReturn
  <1>1. HeardByA => PA!Hears /\ PA!NoReturn
    BY DEF HeardByA, Heard, New, PA!Hears, PA!NoReturn, PA!OwnerGone
  <1>2. HeardByB => PB!Hears /\ PB!NoReturn
    BY DEF HeardByB, Heard, New, PB!Hears, PB!NoReturn, PB!OwnerGone
  <1> QED
    BY <1>1, <1>2, SameA, SameB DEF Next, PA!Next, PB!Next

-----------------------------------------------------------------------------
(* The invariant of both.                                                  *)

\* Each operator's invariant: what the one does, the other may undergo.
JInv == PA!IInv /\ PB!IInv

\* Of what one operator does, the other's lemmas on its environment speak.
LEMMA AReachesB ==
    ASSUME JInv, PA!Next, PB!Hears
    PROVE  PB!TypeOK' /\ PB!SharedTypeOK' /\ PB!EnvStep
  <1>1. PA!SharedTypeOK' /\ PA!SharedStep
    BY PA!NextShares, Assumed DEF JInv
  <1>2. PB!SharedTypeOK'
    BY <1>1
       DEF PA!SharedTypeOK, PB!SharedTypeOK, PA!NodeObj, PB!NodeObj, PA!PodObj, PB!PodObj,
           PA!Conditions, PB!Conditions, PA!PodStates, PB!PodStates,
           PA!Finalizers, PB!Finalizers, PA!DeviceStates, PB!DeviceStates
  <1>3. PB!SharedStep
    BY <1>1
       DEF PA!SharedStep, PB!SharedStep, PA!RecordStep, PB!RecordStep,
           PA!ApiFailures, PB!ApiFailures, PA!Owned, PB!Owned
  <1>4. PB!TypeOK
    BY DEF JInv, PB!IInv
  <1>5. PB!TypeOK'
    BY <1>2, <1>4, PB!HearsType, Assumed
  <1> QED
    BY <1>2, <1>3, <1>4, <1>5, PB!HearsIsEnv, Assumed

LEMMA AMoves ==
    ASSUME JInv, PA!Next, PB!Hears
    PROVE  JInv'
  <1>1. PA!IInv'
    BY PA!NextKeeps, Assumed DEF JInv
  <1>2. PB!IInv'
    BY AReachesB, PB!EnvKeeps, Assumed DEF JInv
  <1> QED
    BY <1>1, <1>2 DEF JInv

LEMMA BReachesA ==
    ASSUME JInv, PB!Next, PA!Hears
    PROVE  PA!TypeOK' /\ PA!SharedTypeOK' /\ PA!EnvStep
  <1>1. PB!SharedTypeOK' /\ PB!SharedStep
    BY PB!NextShares, Assumed DEF JInv
  <1>2. PA!SharedTypeOK'
    BY <1>1
       DEF PB!SharedTypeOK, PA!SharedTypeOK, PB!NodeObj, PA!NodeObj, PB!PodObj, PA!PodObj,
           PB!Conditions, PA!Conditions, PB!PodStates, PA!PodStates,
           PB!Finalizers, PA!Finalizers, PB!DeviceStates, PA!DeviceStates
  <1>3. PA!SharedStep
    BY <1>1
       DEF PB!SharedStep, PA!SharedStep, PB!RecordStep, PA!RecordStep,
           PB!ApiFailures, PA!ApiFailures, PB!Owned, PA!Owned
  <1>4. PA!TypeOK
    BY DEF JInv, PA!IInv
  <1>5. PA!TypeOK'
    BY <1>2, <1>4, PA!HearsType, Assumed
  <1> QED
    BY <1>2, <1>3, <1>4, <1>5, PA!HearsIsEnv, Assumed

LEMMA BMoves ==
    ASSUME JInv, PB!Next, PA!Hears
    PROVE  JInv'
  <1>1. PB!IInv'
    BY PB!NextKeeps, Assumed DEF JInv
  <1>2. PA!IInv'
    BY BReachesA, PA!EnvKeeps, Assumed DEF JInv
  <1> QED
    BY <1>1, <1>2 DEF JInv

LEMMA NextKeeps ==
    ASSUME JInv, [Next]_vars
    PROVE  JInv'
  <1>1. CASE Next
    BY <1>1, NextOfOne, AMoves, BMoves
  <1>2. CASE UNCHANGED vars
    <2>1. UNCHANGED PA!vars /\ UNCHANGED PB!vars
      BY <1>2
         DEF vars, shared, ownA, ownB,
             PA!vars, PA!nodeVars, PA!podVars, PA!extVars, PA!budget,
             PB!vars, PB!nodeVars, PB!podVars, PB!extVars, PB!budget
    <2>2. PA!IInv'
      BY <2>1, PA!NextKeeps, Assumed DEF JInv
    <2>3. PB!IInv'
      BY <2>1, PB!NextKeeps, Assumed DEF JInv
    <2> QED
      BY <2>2, <2>3 DEF JInv
  <1> QED
    BY <1>1, <1>2

\* Of two operators with the same ENABLE_NAD that are done with an interface, one
\* may have undone what the other did only if it is not done itself.
JointNads ==
    nadOnA = nadOnB =>
      \A n \in Nodes, i \in Interfaces :
        node[n] # None /\ PA!NadDone(n, i) /\ PB!NadDone(n, i) => PA!NadRight(n, i)

LEMMA AKeepsNads ==
    ASSUME JInv, JointNads, PA!Next, PB!Hears, PB!NoReturn
    PROVE  JointNads'
  <1> SUFFICES ASSUME nadOnA' = nadOnB', NEW n \in Nodes, NEW i \in Interfaces,
                      node'[n] # None, PA!NadDone(n, i)', PB!NadDone(n, i)'
               PROVE  PA!NadRight(n, i)'
    BY DEF JointNads
  <1>1. PB!NadDone(n, i)
    BY AReachesB, PB!EnvDone, Assumed DEF JInv
  <1>2. PA!Settled(n, i)
    BY PA!NextSettles, Assumed DEF JInv
  <1>3. UNCHANGED nadOnB
    BY DEF PB!Hears
  <1>4. CASE PA!NadRight(n, i)'
    BY <1>4 DEF PA!NadRight, PB!NadRight
  <1>5. CASE PA!NadDone(n, i) /\ PA!NadKept(n, i)
    <2>1. nadOnA' = nadOnA
      BY <1>5 DEF PA!NadKept
    <2>2. nadOnA' = nadOnA /\ nadOnA = nadOnB
      BY <1>3, <2>1
    <2>3. PA!NadRight(n, i)
      BY <1>1, <1>5, <2>2 DEF JointNads, PA!NadKept
    <2> QED
      BY <1>5, <2>2, <2>3 DEF PA!NadKept, PA!NadRight
  <1> QED
    BY <1>2, <1>4, <1>5 DEF PA!Settled

LEMMA BKeepsNads ==
    ASSUME JInv, JointNads, PB!Next, PA!Hears, PA!NoReturn
    PROVE  JointNads'
  <1> SUFFICES ASSUME nadOnA' = nadOnB', NEW n \in Nodes, NEW i \in Interfaces,
                      node'[n] # None, PA!NadDone(n, i)', PB!NadDone(n, i)'
               PROVE  PA!NadRight(n, i)'
    BY DEF JointNads
  <1>1. PA!NadDone(n, i)
    BY BReachesA, PA!EnvDone, Assumed DEF JInv
  <1>2. PB!Settled(n, i)
    BY PB!NextSettles, Assumed DEF JInv
  <1>3. UNCHANGED nadOnA
    BY DEF PA!Hears
  <1>4. CASE PB!NadRight(n, i)'
    BY <1>4 DEF PA!NadRight, PB!NadRight
  <1>5. CASE PB!NadDone(n, i) /\ PB!NadKept(n, i)
    <2>1. nadOnB' = nadOnB
      BY <1>5 DEF PB!NadKept
    <2>2. nadOnA' = nadOnA /\ nadOnA = nadOnB
      BY <1>3, <2>1
    <2>3. PA!NadRight(n, i)
      BY <1>1, <1>5, <2>2 DEF JointNads, PB!NadKept
    <2> QED
      BY <1>5, <2>2, <2>3 DEF PB!NadKept, PA!NadRight
  <1> QED
    BY <1>2, <1>4, <1>5 DEF PB!Settled

LEMMA NextKeepsNads ==
    ASSUME JInv, JointNads, [Next]_vars
    PROVE  JointNads'
  <1>1. CASE Next
    BY <1>1, NextOfOne, AKeepsNads, BKeepsNads
  <1>2. CASE UNCHANGED vars
    <2> SUFFICES ASSUME nadOnA' = nadOnB', NEW n \in Nodes, NEW i \in Interfaces,
                        node'[n] # None, PA!NadDone(n, i)', PB!NadDone(n, i)'
                 PROVE  PA!NadRight(n, i)'
      BY DEF JointNads
    <2> USE <1>2 DEF vars, shared, ownA, ownB
    <2>1. PA!NadDone(n, i)
      BY DEF PA!NadDone, PA!Live, PA!Woken, PA!PodNews, PA!OwnInFlight
    <2>2. PB!NadDone(n, i)
      BY DEF PB!NadDone, PB!Live, PB!Woken, PB!PodNews, PB!OwnInFlight
    <2>3. nadOnA = nadOnB /\ nadOnA' = nadOnA
      OBVIOUS
    <2>4. PA!NadRight(n, i)
      BY <2>1, <2>2, <2>3 DEF JointNads
    <2> QED
      BY <2>4 DEF PA!NadRight
  <1> QED
    BY <1>1, <1>2

LEMMA InitJInv ==
    ASSUME Init
    PROVE  JInv
  <1>0. \A n \in Nodes : node[n].uid \in Uids /\ pod[n].owner = node[n].uid
    BY DEF Init, A!NodeObj
  <1>1. PA!IInv
    <2>1. PA!TypeOK
      <3>1. /\ nodeLogA \in [Nodes -> Seq(PA!NodeObj \cup {None})]
            /\ podLogA \in [Nodes -> Seq(PA!PodObj \cup {None})]
        BY DEF Init
      <3>2. PA!Idle \in PA!Worker /\ workerA = PA!Idle
        BY PA!IdleType, Assumed DEF Init, A!Idle, B!Idle, PA!Idle
      <3> QED
        BY <1>0, <3>1, <3>2, Assumed
           DEF Init, PA!TypeOK, PA!ClusterTypeOK, PA!DeviceStates,
               A!NodeObj, PA!NodeObj, A!Conditions, PA!Conditions,
               A!PodObj, PA!PodObj, A!PodStates, PA!PodStates,
               A!Finalizers, PA!Finalizers
    <2>2. PA!PodsOnRecord
      <3>1. ASSUME NEW n \in Nodes
            PROVE  PA!PodVersions(n) = {pod[n]} \ {None}
        BY DEF Init, PA!PodVersions
      <3> QED
        BY <1>0, <3>1, Assumed DEF PA!PodsOnRecord
    <2>3. /\ workerA = PA!Idle /\ currentA = {} /\ queueA = Nodes
          /\ cNodeA = node /\ cPodA = pod
          /\ \A n \in Nodes : nodeLogA[n] = <<>> /\ podLogA[n] = <<>>
      BY DEF Init, A!Idle, B!Idle, PA!Idle
    <2>4. \A n \in Nodes : node[n].status \notin PA!ApiFailures
      BY DEF Init, PA!ApiFailures
    <2> QED
      BY <2>1, <2>2, <2>3, <2>4, Assumed, PA!StartIInv
  <1>2. PB!IInv
    <2>1. PB!TypeOK
      <3>1. /\ nodeLogB \in [Nodes -> Seq(PB!NodeObj \cup {None})]
            /\ podLogB \in [Nodes -> Seq(PB!PodObj \cup {None})]
        BY DEF Init
      <3>2. PB!Idle \in PB!Worker /\ workerB = PB!Idle
        BY PB!IdleType, Assumed DEF Init, A!Idle, B!Idle, PB!Idle
      <3> QED
        BY <1>0, <3>1, <3>2, Assumed
           DEF Init, PB!TypeOK, PB!ClusterTypeOK, PB!DeviceStates,
               A!NodeObj, PB!NodeObj, A!Conditions, PB!Conditions,
               A!PodObj, PB!PodObj, A!PodStates, PB!PodStates,
               A!Finalizers, PB!Finalizers
    <2>2. PB!PodsOnRecord
      <3>1. ASSUME NEW n \in Nodes
            PROVE  PB!PodVersions(n) = {pod[n]} \ {None}
        BY DEF Init, PB!PodVersions
      <3> QED
        BY <1>0, <3>1, Assumed DEF PB!PodsOnRecord
    <2>3. /\ workerB = PB!Idle /\ currentB = {} /\ queueB = Nodes
          /\ cNodeB = node /\ cPodB = pod
          /\ \A n \in Nodes : nodeLogB[n] = <<>> /\ podLogB[n] = <<>>
      BY DEF Init, A!Idle, B!Idle, PB!Idle
    <2>4. \A n \in Nodes : node[n].status \notin PB!ApiFailures
      BY DEF Init, PB!ApiFailures
    <2> QED
      BY <2>1, <2>2, <2>3, <2>4, Assumed, PB!StartIInv
  <1> QED
    BY <1>1, <1>2 DEF JInv

-----------------------------------------------------------------------------
(* Theorems.                                                               *)

\* Each operator's invariant holds however the steps of the two mix.
THEOREM JointInvariance == Spec => []JInv
  <1>1. Init => JInv
    BY InitJInv
  <1>2. JInv /\ [Next]_vars => JInv'
    BY NextKeeps
  <1> QED
    BY <1>1, <1>2, PTL DEF Spec

\* Two operators abandon no Node: one that nothing will bring one of them back to
\* is as wanted or has a failure to show, whatever the other is doing.
THEOREM TwoForgetNoNode == Spec => []NoNodeForgotten
  <1>1. JInv => NoNodeForgotten
    <2> SUFFICES ASSUME JInv, NEW n \in Nodes, node[n] # None, AtRest(n)
                 PROVE  A!LeftWell(n)
      BY DEF NoNodeForgotten
    <2> USE DEF AtRest
    <2>1. CASE ~A!Woken(n)
      <3>1. ~PA!Woken(n)
        BY <2>1 DEF A!Woken, PA!Woken, A!PodNews, PA!PodNews, A!OwnInFlight,
               PA!OwnInFlight, A!Owned, PA!Owned
      <3>2. PA!LeftWell(n)
        BY <3>1 DEF JInv, PA!IInv, PA!NoLostWakeup
      <3> QED
        BY <3>2 DEF A!LeftWell, PA!LeftWell, A!Visited, PA!Visited, A!Due, PA!Due,
               A!Owned, PA!Owned, A!OwnerGone, PA!OwnerGone
    <2>2. CASE ~B!Woken(n)
      <3>1. ~PB!Woken(n)
        BY <2>2 DEF B!Woken, PB!Woken, B!PodNews, PB!PodNews, B!OwnInFlight,
               PB!OwnInFlight, B!Owned, PB!Owned
      <3>2. PB!LeftWell(n)
        BY <3>1 DEF JInv, PB!IInv, PB!NoLostWakeup
      <3> QED
        BY <3>2 DEF A!LeftWell, PB!LeftWell, A!Visited, PB!Visited, A!Due, PB!Due,
               A!Owned, PB!Owned, A!OwnerGone, PB!OwnerGone
    <2> QED
      BY <2>1, <2>2
  <1> QED
    BY <1>1, JointInvariance, PTL

\* A Ready Node that one of two operators is not about to look at is as Ready
\* says: neither undoes it without waking the other.
THEOREM TwoReadyCanBeTrusted == Spec => []BothReadyIsTrue
  <1>1. JInv => BothReadyIsTrue
    <2> SUFFICES ASSUME JInv, NEW n \in Nodes, A!Live(n), AtRest(n), ~A!Due(n),
                        node[n].status = "Ready", ~A!Mistakable(n)
                 PROVE  A!ReadyWell(n)
      BY DEF BothReadyIsTrue
    <2> USE DEF AtRest
    <2>1. CASE ~A!Woken(n)
      <3>1. ~PA!Woken(n)
        BY <2>1 DEF A!Woken, PA!Woken, A!PodNews, PA!PodNews, A!OwnInFlight,
               PA!OwnInFlight, A!Owned, PA!Owned
      <3>2. PA!Live(n) /\ ~PA!Due(n) /\ ~PA!Mistakable(n)
        BY DEF A!Live, PA!Live, A!Due, PA!Due, A!Owned, PA!Owned, A!OwnerGone,
               PA!OwnerGone, A!Mistakable, PA!Mistakable
      <3>3. PA!ReadyWell(n)
        BY <3>1, <3>2 DEF JInv, PA!IInv, PA!ReadyIsTrue
      <3> QED
        BY <3>3 DEF A!ReadyWell, PA!ReadyWell
    <2>2. CASE ~B!Woken(n)
      <3>1. ~PB!Woken(n)
        BY <2>2 DEF B!Woken, PB!Woken, B!PodNews, PB!PodNews, B!OwnInFlight,
               PB!OwnInFlight, B!Owned, PB!Owned
      <3>2. PB!Live(n) /\ ~PB!Due(n) /\ ~PB!Mistakable(n)
        BY DEF A!Live, PB!Live, A!Due, PB!Due, A!Owned, PB!Owned,
               A!OwnerGone, PB!OwnerGone, A!Mistakable, PB!Mistakable
      <3>3. PB!ReadyWell(n)
        BY <3>1, <3>2 DEF JInv, PB!IInv, PB!ReadyIsTrue
      <3> QED
        BY <3>3 DEF A!ReadyWell, PB!ReadyWell
    <2> QED
      BY <2>1, <2>2
  <1> QED
    BY <1>1, JointInvariance, PTL

\* Two operators with the same ENABLE_NAD leave a Ready Node with its NADs, also
\* when one of them worked for a former Node of that name.
THEOREM TwoLeaveTheNads == Spec => []BothReadyNads
  <1>1. Init => JointNads
    BY DEF Init, A!Idle, B!Idle, JointNads, PA!NadDone, PA!PodSteps, PA!Woken, PA!PodNews
  <1>2. JInv /\ JointNads /\ [Next]_vars => JointNads'
    BY NextKeepsNads
  <1>3. JointNads => BothReadyNads
    <2> SUFFICES ASSUME JointNads, nadOnA = nadOnB, NEW n \in Nodes, NEW i \in Interfaces,
                        A!Live(n), ~A!Woken(n), ~B!Woken(n), node[n].status = "Ready"
                 PROVE  (nads[n][i] = node[n].uid) <=> nadOnA
      BY DEF BothReadyNads
    <2>1. PA!NadDone(n, i) /\ node[n] # None
      BY DEF PA!NadDone, A!Live, PA!Live, A!Woken, PA!Woken, A!PodNews, PA!PodNews,
             A!OwnInFlight, PA!OwnInFlight, A!Owned, PA!Owned
    <2>2. PB!NadDone(n, i)
      BY DEF PB!NadDone, A!Live, PB!Live, B!Woken, PB!Woken, B!PodNews, PB!PodNews,
             B!OwnInFlight, PB!OwnInFlight, B!Owned, PB!Owned
    <2> QED
      BY <2>1, <2>2 DEF JointNads, PA!NadRight
  <1> QED
    BY <1>1, <1>2, <1>3, JointInvariance, PTL DEF Spec

\* Each of two operators stores a condition only on the Node incarnation and spec
\* that it has read itself.
THEOREM TwoStoreForReadNodes == Spec => StatusForReadNodes
  <1> DEFINE ForRead == \A n \in Nodes :
               node[n] # None /\ node'[n] # None /\ node'[n].uid = node[n].uid
               /\ node'[n].status # node[n].status =>
                 /\ \/ workerA' # workerA /\ workerB' = workerB /\ HasRead(workerA, n)
                    \/ workerB' # workerB /\ workerA' = workerA /\ HasRead(workerB, n)
                 /\ node[n].deleting => node'[n].status = "FailedFinalizer"
  <1>1. JInv /\ [Next]_vars => [ForRead]_vars
    <2> SUFFICES ASSUME JInv, Next
                 PROVE  ForRead
      OBVIOUS
    <2>1. CASE PA!Next /\ PB!Hears
      <3>1. PA!Faithful
        BY <2>1, PA!FaithfulStep, Assumed DEF JInv
      <3> QED
        BY <2>1, <3>1 DEF PA!Faithful, PB!Hears, HasRead
    <2>2. CASE PB!Next /\ PA!Hears
      <3>1. PB!Faithful
        BY <2>2, PB!FaithfulStep, Assumed DEF JInv
      <3> QED
        BY <2>2, <3>1 DEF PB!Faithful, PA!Hears, HasRead
    <2> QED
      BY <2>1, <2>2, NextOfOne
  <1> QED
    BY <1>1, JointInvariance, PTL DEF Spec, StatusForReadNodes

=============================================================================
