------------------------------ MODULE Cluster ------------------------------
(***************************************************************************)
(* What the operator sees of Kubernetes: the API server's objects, the two *)
(* watch streams and the informer caches they feed, the work queue, and    *)
(* the other writers of those objects (users, the kubelet, the garbage     *)
(* collector, the containers themselves).  None of it is code of the       *)
(* repository; it is modelled from how controllers/nodedeployer uses it.   *)
(*                                                                         *)
(* A Node and its Pod share a name, so both are functions of Nodes.        *)
(***************************************************************************)
EXTENDS Naturals, Sequences, FiniteSets, DeviceOutcomes

CONSTANTS
    Nodes,       \* names of Node resources
    Specs,       \* a Node's spec: its provider and NodeConfig reference
    Revisions,   \* values of a pod spec's revision hash
    Interfaces,  \* interfaces that get a NetworkAttachmentDefinition (NAD)
    Uids,        \* identities of Node incarnations
    PodIds,      \* identities of Pod instances, which fix their address
    None         \* no object, no owner, no value

CONSTANTS
    Graceful,    \* a deleted Pod stays, terminating, until the kubelet is done
    FinalizerSets, \* the finalizers Nodes are created with
    Resyncs,     \* the informers' periodic resync is switched on
    ForeignHashes, \* revision annotations of Pods others make under a Node's name
    MaxLag,      \* bound: undelivered versions on one object's watch
    MaxEdits,    \* bound: what users do
    MaxFaults    \* bound: failed calls, crashed containers, restarts

\* The Ready condition of a Node: reason, and what tells two messages apart.
Conditions ==
    {"Unknown", "Ready",
     "NotReadyEmpty", "NotReadyContainer", "NotReadyAddress",
     "FailedFinalizer", "FailedProvider", "FailedConfig", "FailedNad",
     "FailedPodExists", "FailedPodGone", "FailedPodApi", "FailedPodUnseen",
     "FailedInitialConfig"}

\* Finalizers a Node may carry: the operator's own, or another controller's.
Finalizers == {"nodedeployer", "other"}

NodeObj == [uid: Uids, spec: Specs, deleting: BOOLEAN,
            finalizers: SUBSET Finalizers, status: Conditions]

\* state: no container statuses, container not ready, no address, all there.
PodStates == {"empty", "unready", "addressless", "ready"}

\* A Pod somebody else made has no Node for its owner, and may lack a hash.
PodObj == [id: PodIds, owner: Uids \cup {None}, hash: Revisions \cup {None},
           state: PodStates, terminating: BOOLEAN]

ASSUME NoneAssumption ==
    /\ None \notin Nodes \cup Specs \cup Revisions \cup Uids \cup PodIds
    /\ None \notin NodeObj \cup PodObj

ASSUME FinalizersAssumption == FinalizerSets \subseteq SUBSET Finalizers

ASSUME ForeignAssumption == ForeignHashes \subseteq Revisions \cup {None}

ASSUME BoundAssumption ==
    /\ MaxLag \in Nat \ {0}
    /\ MaxEdits \in Nat
    /\ MaxFaults \in Nat

VARIABLES
    node,     \* API server: the Node of each name, or None
    pod,      \* API server: the Pod of each name, or None
    nads,     \* API server: owner of each interface's NAD, or None
    configs,  \* what a spec resolves to: a pod revision, or None (an error)
    device,   \* the network OS in the container of pod[n]
    nodeLog,  \* versions of node[n] the informer has yet to deliver
    podLog,   \* the same for pod[n]
    cNode,    \* the informer cache's Node
    cPod,     \* the informer cache's Pod
    queue,    \* names in the work queue, delayed additions included
    current,  \* names still stored at the version the reconciler read
    edits,
    faults,
    strangers \* history: names, with the hash, of which others made a Pod

nodeVars == <<node, nodeLog, cNode>>
podVars == <<pod, podLog, cPod>>
extVars == <<nads, configs, device>>
budget == <<edits, faults, strangers>>

ClusterTypeOK ==
    /\ node \in [Nodes -> NodeObj \cup {None}]
    /\ pod \in [Nodes -> PodObj \cup {None}]
    /\ nads \in [Nodes -> [Interfaces -> Uids \cup {None}]]
    /\ configs \in [Specs -> Revisions \cup {None}]
    /\ device \in [Nodes -> DeviceStates]
    /\ nodeLog \in [Nodes -> Seq(NodeObj \cup {None})]
    /\ podLog \in [Nodes -> Seq(PodObj \cup {None})]
    /\ cNode \in [Nodes -> NodeObj \cup {None}]
    /\ cPod \in [Nodes -> PodObj \cup {None}]
    /\ queue \in SUBSET Nodes
    /\ current \in SUBSET Nodes
    /\ edits \in 0..MaxEdits
    /\ faults \in 0..MaxFaults
    /\ strangers \in SUBSET (Nodes \X (Revisions \cup {None}))

ClusterInit ==
    /\ node = [n \in Nodes |-> None]
    /\ pod = [n \in Nodes |-> None]
    /\ nads = [n \in Nodes |-> [i \in Interfaces |-> None]]
    /\ configs \in [Specs -> Revisions \cup {None}]
    /\ device = [n \in Nodes |-> "down"]
    /\ nodeLog = [n \in Nodes |-> <<>>]
    /\ podLog = [n \in Nodes |-> <<>>]
    /\ cNode = [n \in Nodes |-> None]
    /\ cPod = [n \in Nodes |-> None]
    /\ queue = {}
    /\ current = {}
    /\ edits = 0
    /\ faults = 0
    /\ strangers = {}

-----------------------------------------------------------------------------
(* Writes to the API server.  Each one appends a version to the watch.     *)

NodeWrite(n, o) ==
    /\ Len(nodeLog[n]) < MaxLag
    /\ node' = [node EXCEPT ![n] = o]
    /\ nodeLog' = [nodeLog EXCEPT ![n] = Append(@, o)]
    /\ current' = current \ {n}

PodWrite(n, p) ==
    /\ Len(podLog[n]) < MaxLag
    /\ pod' = [pod EXCEPT ![n] = p]
    /\ podLog' = [podLog EXCEPT ![n] = Append(@, p)]

\* A deletion by name, with no precondition on the instance.  With a grace
\* period a Pod that a kubelet already runs is only marked.
PodRemove(n) ==
    \/ /\ ~Graceful \/ pod[n].state = "empty"
       /\ PodWrite(n, None)
       /\ device' = [device EXCEPT ![n] = "down"]
    \/ /\ Graceful
       /\ ~pod[n].terminating
       /\ PodWrite(n, [pod[n] EXCEPT !.terminating = TRUE])
       /\ UNCHANGED device
    \/ /\ Graceful
       /\ pod[n].terminating
       /\ UNCHANGED <<pod, podLog, device>>

\* The stored Node once finalizer f is gone: the last one takes it along.
WithoutFinalizer(o, f) ==
    IF o.deleting /\ o.finalizers \subseteq {f}
    THEN None
    ELSE [o EXCEPT !.finalizers = @ \ {f}]

Edit == edits < MaxEdits /\ edits' = edits + 1 /\ UNCHANGED <<faults, strangers>>
Fault == faults < MaxFaults /\ faults' = faults + 1 /\ UNCHANGED <<edits, strangers>>
NoBudget == UNCHANGED budget

-----------------------------------------------------------------------------
(* Users and other controllers.                                            *)

\* Node incarnations that something still refers to.
UidsInUse(n) ==
    LET seen == {node[n], cNode[n]} \cup {nodeLog[n][k] : k \in DOMAIN nodeLog[n]}
    IN  {o.uid : o \in seen \ {None}}
        \cup (IF pod[n] = None THEN {} ELSE {pod[n].owner})
        \cup {nads[n][i] : i \in Interfaces}

CreateNode(n, u, s, fs) ==
    /\ Edit
    /\ node[n] = None
    /\ u \notin UidsInUse(n)
    /\ NodeWrite(n, [uid |-> u, spec |-> s, deleting |-> FALSE,
                     finalizers |-> fs, status |-> "Unknown"])
    /\ UNCHANGED <<cNode, podVars, extVars, queue>>

EditNode(n, s) ==
    /\ Edit
    /\ node[n] # None
    /\ s # node[n].spec
    /\ NodeWrite(n, [node[n] EXCEPT !.spec = s])
    /\ UNCHANGED <<cNode, podVars, extVars, queue>>

DeleteNode(n) ==
    /\ Edit
    /\ node[n] # None
    /\ ~node[n].deleting
    /\ NodeWrite(n, IF node[n].finalizers = {}
                    THEN None
                    ELSE [node[n] EXCEPT !.deleting = TRUE])
    /\ UNCHANGED <<cNode, podVars, extVars, queue>>

\* Another controller lets go of a Node that is being deleted.
ReleaseNode(n) ==
    /\ node[n] # None
    /\ node[n].deleting
    /\ "other" \in node[n].finalizers
    /\ NodeWrite(n, WithoutFinalizer(node[n], "other"))
    /\ NoBudget
    /\ UNCHANGED <<cNode, podVars, extVars, queue>>

\* A NodeConfig or variants ConfigMap changes.  Nothing watches either, so
\* no name is queued; the change counts when the client's cache has it.
EditConfig(s, r) ==
    /\ Edit
    /\ r # configs[s]
    /\ configs' = [configs EXCEPT ![s] = r]
    /\ UNCHANGED <<nodeVars, podVars, nads, device, queue, current>>

\* The Pods of that name that are stored, cached, or on their way to the cache.
PodVersions(n) ==
    ({pod[n], cPod[n]} \cup {podLog[n][k] : k \in DOMAIN podLog[n]}) \ {None}

\* Pod instances that something still refers to.
PodIdsInUse(n) == {p.id : p \in PodVersions(n)}

\* Somebody else's Pod under the Node's name, annotated like one of ours or not.
UserCreatesPod(n, p, h) ==
    /\ edits < MaxEdits
    /\ pod[n] = None
    /\ p \notin PodIdsInUse(n)
    /\ PodWrite(n, [id |-> p, owner |-> None, hash |-> h, state |-> "empty",
                    terminating |-> FALSE])
    /\ edits' = edits + 1
    /\ strangers' = strangers \cup {<<n, h>>}
    /\ UNCHANGED <<nodeVars, cPod, extVars, queue, current, faults>>

UserDeletesPod(n) ==
    /\ Edit
    /\ pod[n] # None
    /\ ~pod[n].terminating
    /\ PodRemove(n)
    /\ UNCHANGED <<nodeVars, cPod, nads, configs, queue, current>>

-----------------------------------------------------------------------------
(* The kubelet and the container.  A restarted container starts from its   *)
(* image: what the operator pushed or saved into it is lost.               *)

DeviceCrash(n) ==
    /\ Fault
    /\ pod[n] # None
    /\ device[n] # "down"
    /\ device' = [device EXCEPT ![n] = "down"]
    /\ UNCHANGED <<nodeVars, podVars, nads, configs, queue, current>>

\* Successive reports; the last one comes with the readiness probe.
LaterStates(s) ==
    CASE s = "empty" -> {"unready"}
      [] s = "unready" -> {"addressless", "ready"}
      [] s = "addressless" -> {"ready"}
      [] OTHER -> {}

KubeletReports(n) ==
    /\ pod[n] # None
    /\ ~pod[n].terminating
    /\ \/ \E s \in LaterStates(pod[n].state) :
            /\ PodWrite(n, [pod[n] EXCEPT !.state = s])
            /\ device' = IF s = "unready" THEN device
                         ELSE [device EXCEPT ![n] = IF @ = "down" THEN "empty" ELSE @]
       \/ /\ pod[n].state \in {"addressless", "ready"}
          /\ device[n] = "down"
          /\ PodWrite(n, [pod[n] EXCEPT !.state = "unready"])
          /\ UNCHANGED device
    /\ NoBudget
    /\ UNCHANGED <<nodeVars, cPod, nads, configs, queue, current>>

KubeletRemovesPod(n) ==
    /\ pod[n] # None
    /\ pod[n].terminating
    /\ PodWrite(n, None)
    /\ device' = [device EXCEPT ![n] = "down"]
    /\ NoBudget
    /\ UNCHANGED <<nodeVars, cPod, nads, configs, queue, current>>

-----------------------------------------------------------------------------
(* The garbage collector follows controller references.                    *)

OwnerGone(n, u) == ~(node[n] # None /\ node[n].uid = u)

CollectPod(n) ==
    /\ pod[n] # None
    /\ pod[n].owner # None
    /\ ~pod[n].terminating
    /\ OwnerGone(n, pod[n].owner)
    /\ PodRemove(n)
    /\ NoBudget
    /\ UNCHANGED <<nodeVars, cPod, nads, configs, queue, current>>

CollectNad(n, i) ==
    /\ nads[n][i] # None
    /\ OwnerGone(n, nads[n][i])
    /\ nads' = [nads EXCEPT ![n][i] = None]
    /\ NoBudget
    /\ UNCHANGED <<nodeVars, podVars, configs, device, queue, current>>

=============================================================================
