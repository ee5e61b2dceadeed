------------------------------ MODULE Replicas ------------------------------
(***************************************************************************)
(* Two operators at once, as main.go runs them without -leader-elect, or   *)
(* for a moment when a Deployment is rolled over.  Each has the caches,    *)
(* the queue and the worker of module NodeDeployer to itself; the API      *)
(* server, the devices and the other writers are shared, and what one      *)
(* operator writes reaches the other only as an event.                     *)
(***************************************************************************)
EXTENDS Naturals, Sequences

CONSTANTS Nodes, Specs, Revisions, Interfaces, Uids, PodIds, None,
          Graceful, FinalizerSets, Resyncs, ForeignHashes,
          MaxLag, MaxEdits, MaxFaults, Registered, Fixed, NadModes

VARIABLES node, pod, nads, configs, device, edits, faults, strangers

VARIABLES nodeLogA, podLogA, cNodeA, cPodA, queueA, currentA, workerA, nadOnA
VARIABLES nodeLogB, podLogB, cNodeB, cPodB, queueB, currentB, workerB, nadOnB

shared == <<node, pod, nads, configs, device, edits, faults, strangers>>
ownA == <<nodeLogA, podLogA, cNodeA, cPodA, queueA, currentA, workerA, nadOnA>>
ownB == <<nodeLogB, podLogB, cNodeB, cPodB, queueB, currentB, workerB, nadOnB>>
vars == <<shared, ownA, ownB>>

A == INSTANCE NodeDeployer
       WITH nodeLog <- nodeLogA, podLog <- podLogA, cNode <- cNodeA,
            cPod <- cPodA, queue <- queueA, current <- currentA,
            worker <- workerA, nadOn <- nadOnA

B == INSTANCE NodeDeployer
       WITH nodeLog <- nodeLogB, podLog <- podLogB, cNode <- cNodeB,
            cPod <- cPodB, queue <- queueB, current <- currentB,
            worker <- workerB, nadOn <- nadOnB

\* What modules Cluster and NodeDeployer assume, of both operators at once.
ASSUME NoneAssumption ==
    /\ None \notin Nodes \cup Specs \cup Revisions \cup Uids \cup PodIds
    /\ None \notin A!NodeObj \cup A!PodObj
    /\ None \notin [node : Nodes, uid : Uids, spec : Specs]

ASSUME SetsAssumption ==
    /\ FinalizerSets \subseteq SUBSET A!Finalizers
    /\ ForeignHashes \subseteq Revisions \cup {None}

ASSUME BoundAssumption ==
    /\ MaxLag \in Nat \ {0}
    /\ MaxEdits \in Nat
    /\ MaxFaults \in Nat

ASSUME DeployAssumption ==
    /\ Registered \subseteq Specs
    /\ Fixed \subseteq Specs
    /\ NadModes \subseteq BOOLEAN
    /\ NadModes # {}

\* The Nodes are up, though their NodeConfigs may have been edited since; both
\* operators have just started, have listed what there is, and are about to
\* look at all of it.  Calls may have failed before.
Init ==
    /\ configs \in [Specs -> Revisions \cup {None}]
    /\ node \in [Nodes -> {o \in A!NodeObj : /\ o.spec \in Registered
                                           /\ o.finalizers \in FinalizerSets
                                           /\ ~o.deleting
                                           /\ o.status = "Ready"}]
    /\ pod \in [Nodes -> {p \in A!PodObj : p.state = "ready" /\ ~p.terminating}]
    /\ \A n \in Nodes : /\ configs[node[n].spec] # None
                        /\ pod[n].hash # None
                        /\ pod[n].owner = node[n].uid
    /\ device = [n \in Nodes |-> "saved"]
    /\ nadOnA \in NadModes /\ nadOnB \in NadModes
    /\ nads = [n \in Nodes |->
                 [i \in Interfaces |-> IF nadOnA THEN node[n].uid ELSE None]]
    /\ cNodeA = node /\ cNodeB = node
    /\ cPodA = pod /\ cPodB = pod
    /\ nodeLogA = [n \in Nodes |-> <<>>] /\ nodeLogB = nodeLogA
    /\ podLogA = nodeLogA /\ podLogB = nodeLogA
    /\ queueA = Nodes /\ queueB = Nodes
    /\ currentA = {} /\ currentB = {}
    /\ workerA = A!Idle /\ workerB = B!Idle
    /\ edits = 0 /\ faults \in 0..MaxFaults /\ strangers = {}

\* A watch gets a version of each object that a step has changed.
Heard(log, stored) ==
    [n \in Nodes |-> IF stored'[n] = stored[n] THEN log[n]
                     ELSE Append(log[n], stored'[n])]

\* New objects have identities that nothing refers to.
New(uids, podIds) ==
    \A n \in Nodes :
      /\ node'[n] # None /\ (node[n] = None \/ node[n].uid # node'[n].uid) =>
           node'[n].uid \notin uids[n]
      /\ pod'[n] # None /\ (pod[n] = None \/ pod[n].id # pod'[n].id) =>
           pod'[n].id \notin podIds[n]

\* What a step of somebody else does to operator A, and to operator B.
HeardByA ==
    /\ New([n \in Nodes |-> A!UidsInUse(n) \cup {workerA.uid}],
           [n \in Nodes |-> A!PodIdsInUse(n) \cup {workerA.seen}])
    /\ nodeLogA' = Heard(nodeLogA, node)
    /\ podLogA' = Heard(podLogA, pod)
    /\ \A n \in Nodes : Len(nodeLogA'[n]) <= MaxLag /\ Len(podLogA'[n]) <= MaxLag
    /\ currentA' = {n \in currentA : node'[n] = node[n]}
    /\ UNCHANGED <<cNodeA, cPodA, queueA, workerA, nadOnA>>

HeardByB ==
    /\ New([n \in Nodes |-> B!UidsInUse(n) \cup {workerB.uid}],
           [n \in Nodes |-> B!PodIdsInUse(n) \cup {workerB.seen}])
    /\ nodeLogB' = Heard(nodeLogB, node)
    /\ podLogB' = Heard(podLogB, pod)
    /\ \A n \in Nodes : Len(nodeLogB'[n]) <= MaxLag /\ Len(podLogB'[n]) <= MaxLag
    /\ currentB' = {n \in currentB : node'[n] = node[n]}
    /\ UNCHANGED <<cNodeB, cPodB, queueB, workerB, nadOnB>>

Next ==
    \/ (A!Reconcile \/ A!Informers \/ A!Restart) /\ HeardByB
    \/ (B!Reconcile \/ B!Informers \/ B!Restart) /\ HeardByA
    \/ (A!Users \/ A!Platform) /\ UNCHANGED <<workerA, nadOnA>> /\ HeardByB

Spec == Init /\ [][Next]_vars

-----------------------------------------------------------------------------
(* Properties.                                                              *)

\* An operator that nothing will bring back to n.
AtRest(n) == ~A!Woken(n) \/ ~B!Woken(n)

\* Two operators that delete and create each other's Pods abandon no Node, and
\* neither counts on the other: one that nothing brings back to one of them is
\* one that nothing is left to be done for, whatever the other is about to do.
NoNodeForgotten == \A n \in Nodes : node[n] # None /\ AtRest(n) => A!LeftWell(n)

\* And a Ready Node that one of them is not about to look at is as Ready says:
\* what the other undoes wakes the one.
BothReadyIsTrue ==
    \A n \in Nodes :
      /\ A!Live(n) /\ AtRest(n) /\ ~A!Due(n) /\ node[n].status = "Ready"
      /\ ~A!Mistakable(n)
      => A!ReadyWell(n)

\* Two operators with the same ENABLE_NAD leave a Ready Node with the NADs it asks
\* for, though one that still works for a former Node of that name may have given
\* it others: that one has yet to hear of the Node, and puts them right.
BothReadyNads ==
    nadOnA = nadOnB =>
      \A n \in Nodes :
        A!Live(n) /\ ~A!Woken(n) /\ ~B!Woken(n) /\ node[n].status = "Ready" =>
          \A i \in Interfaces : (nads[n][i] = node[n].uid) <=> nadOnA

\* The Node as it is stored is the one that worker w has read.
HasRead(w, n) == w.node = n /\ w.uid = node[n].uid /\ w.spec = node[n].spec

\* A condition is stored by one operator, at the end of a run, and for the Node
\* incarnation and spec that this operator has read: that the other has read them
\* does not help.
StatusForReadNodes ==
    [][\A n \in Nodes :
         node[n] # None /\ node'[n] # None /\ node'[n].uid = node[n].uid
         /\ node'[n].status # node[n].status =>
           /\ \/ workerA' # workerA /\ workerB' = workerB /\ HasRead(workerA, n)
              \/ workerB' # workerB /\ workerA' = workerA /\ HasRead(workerB, n)
           /\ node[n].deleting => node'[n].status = "FailedFinalizer"]_vars

=============================================================================
