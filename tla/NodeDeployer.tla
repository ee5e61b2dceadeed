---------------------------- MODULE NodeDeployer ----------------------------
(***************************************************************************)
(* The reconciler of controllers/nodedeployer/reconciler.go, run by the    *)
(* one worker controller-runtime starts for it, over the caches and the    *)
(* API server of module Cluster.  Every call that leaves the process is a  *)
(* step of its own, so every other writer can come between two of them.    *)
(***************************************************************************)
EXTENDS Cluster

CONSTANTS
    Registered,  \* specs whose provider the node registry knows
    Fixed,       \* specs whose NodeConfig and variants nobody edits
    NadModes     \* values of ENABLE_NAD = "true" the operator is deployed with

ASSUME DeployAssumption ==
    /\ Registered \subseteq Specs
    /\ Fixed \subseteq Specs
    /\ NadModes \subseteq BOOLEAN
    /\ NadModes # {}

ASSUME ReadingAssumption == None \notin [node : Nodes, uid : Uids, spec : Specs]

VARIABLES
    worker,  \* where Reconcile is, and its local variables
    nadOn    \* the environment variable of the running process

vars == <<nodeVars, podVars, extVars, queue, current, budget, worker, nadOn>>

Steps == {"idle", "finalize", "config", "nads", "delete", "create", "get",
          "init", "status"}

Worker == [pc: Steps,
           node: Nodes \cup {None},       \* req.NamespacedName
           uid: Uids \cup {None},         \* cr's identity and spec
           spec: Specs \cup {None},
           todo: SUBSET Interfaces,       \* NADs left to apply or to delete
           want: Revisions \cup {None},   \* newPod's revision hash
           seen: PodIds \cup {None},      \* the Pod whose address is used
           cond: Conditions,              \* the condition to be written
           requeue: BOOLEAN]              \* Result.Requeue

Idle == [pc |-> "idle", node |-> None, uid |-> None, spec |-> None,
         todo |-> {}, want |-> None, seen |-> None, cond |-> "Unknown",
         requeue |-> FALSE]

TypeOK ==
    /\ ClusterTypeOK
    /\ worker \in Worker
    /\ nadOn \in NadModes

Init ==
    /\ ClusterInit
    /\ worker = Idle
    /\ nadOn \in NadModes

\* Mutant: the result never asks for a requeue.
ReportOnce(c, q) ==
    worker' = [worker EXCEPT !.pc = "status", !.cond = c, !.requeue = FALSE]

\* cr.SetConditions(c), to be written before Reconcile returns Requeue = q.
Report(c, q) ==
    worker' = [worker EXCEPT !.pc = "status", !.cond = c, !.requeue = q]

\* Reconcile returns; an error and a requeue both put the name back.
Finish(again) ==
    /\ worker' = Idle
    /\ queue' = IF again THEN queue \cup {worker.node} ELSE queue

-----------------------------------------------------------------------------
(* SetupWithManager: informers for Node and for the Pods Nodes own.        *)

\* Mutant: the Pods are not watched.
OwnsNothing(n) == UNCHANGED queue

\* Mutant: whether a Pod has an owner is not looked at.
OwnsNameless(n) ==
    LET owners == {p.owner : p \in {cPod[n], Head(podLog[n])} \ {None}}
    IN  queue' = queue \cup {IF o = None THEN None ELSE n : o \in owners}

\* Mutant: a GenerationChangedPredicate, which leaves status writes out.
ForGenerations(n) ==
    LET old == cNode[n]
        new == Head(nodeLog[n])
    IN  queue' = IF /\ old # None /\ new # None /\ old.uid = new.uid
                    /\ old.spec = new.spec /\ old.deleting = new.deleting
                 THEN queue ELSE queue \cup {n}

\* For(Node): an event queues the name.
For(n) == queue' = queue \cup {n}

\* Owns(Pod): it queues the owner of the old Pod and of the new one, if any.
Owns(n) ==
    LET owners == {p.owner : p \in {cPod[n], Head(podLog[n])} \ {None}}
    IN  queue' = IF owners \subseteq {None} THEN queue ELSE queue \cup {n}

DeliverNode(n) ==
    /\ nodeLog[n] # <<>>
    /\ cNode' = [cNode EXCEPT ![n] = Head(nodeLog[n])]
    /\ nodeLog' = [nodeLog EXCEPT ![n] = Tail(@)]
    /\ For(n)
    /\ UNCHANGED <<node, podVars, extVars, current, budget, worker, nadOn>>

DeliverPod(n) ==
    /\ podLog[n] # <<>>
    /\ cPod' = [cPod EXCEPT ![n] = Head(podLog[n])]
    /\ podLog' = [podLog EXCEPT ![n] = Tail(@)]
    /\ Owns(n)
    /\ UNCHANGED <<nodeVars, pod, extVars, current, budget, worker, nadOn>>

Resync(n) ==
    /\ Resyncs
    /\ cNode[n] # None
    /\ queue' = queue \cup {n}
    /\ UNCHANGED <<nodeVars, podVars, extVars, current, budget, worker,
                   nadOn>>

\* The process dies or loses its lease and a new one lists everything again.
Restart ==
    /\ Fault
    /\ worker' = Idle
    /\ nadOn' \in NadModes
    /\ cNode' = node
    /\ cPod' = pod
    /\ nodeLog' = [n \in Nodes |-> <<>>]
    /\ podLog' = [n \in Nodes |-> <<>>]
    /\ queue' = {n \in Nodes : \/ node[n] # None
                               \/ pod[n] # None /\ pod[n].owner # None}
    /\ current' = {}
    /\ UNCHANGED <<node, pod, extVars>>

-----------------------------------------------------------------------------
(* Reconcile, from the cached Node to the resolved NodeConfig.             *)

\* cr, a copy of the cached Node, is worked on from here.
Take(n, step, c) ==
    worker' = [Idle EXCEPT !.pc = step, !.node = n, !.uid = cNode[n].uid,
                           !.spec = cNode[n].spec, !.cond = c]

\* The registry is filled before the first reconciler is set up.
NewNodeOfProvider(s) == s \in Registered

\* r.Get(req) and what it returns decide how far this run goes.
Begin(n) ==
    LET cr == cNode[n] IN
    /\ worker.pc = "idle"
    /\ n \in queue
    /\ queue' = queue \ {n}
    /\ current' = IF nodeLog[n] = <<>> /\ cr # None THEN {n} ELSE {}
    /\ \/ cr = None /\ UNCHANGED worker
       \/ /\ cr # None
          /\ cr.deleting
          /\ IF "nodedeployer" \in cr.finalizers
             THEN Take(n, "finalize", "Unknown")
             ELSE UNCHANGED worker
       \/ /\ cr # None
          /\ ~cr.deleting
          /\ IF NewNodeOfProvider(cr.spec)
             THEN Take(n, "config", "Unknown")
             ELSE Take(n, "status", "FailedProvider")
    /\ UNCHANGED <<nodeVars, podVars, extVars, budget, nadOn>>

RemoveFinalizer ==
    LET n == worker.node IN
    /\ worker.pc = "finalize"
    /\ \/ /\ node[n] = None
          /\ Finish(FALSE)
          /\ NoBudget
          /\ UNCHANGED <<node, nodeLog, current>>
       \/ /\ n \in current
          /\ NodeWrite(n, WithoutFinalizer(node[n], "nodedeployer"))
          /\ Finish(FALSE)
          /\ NoBudget
       \/ /\ node[n] # None
          /\ IF n \in current THEN Fault ELSE NoBudget
          /\ Report("FailedFinalizer", TRUE)
          /\ UNCHANGED <<node, nodeLog, queue, current>>
    /\ UNCHANGED <<cNode, podVars, extVars, nadOn>>

\* Mutant: nothing is pruned.
NadsToApplyNew(n, u) == IF nadOn THEN Interfaces ELSE {}

\* The NADs APIApply will touch: all of the new ones, or else what it owns.
NadsToApply(n, u) ==
    IF nadOn THEN Interfaces ELSE {i \in Interfaces : nads[n][i] = u}

GetNodeConfig ==
    LET r == configs[worker.spec] IN
    /\ worker.pc = "config"
    /\ IF r = None
       THEN Report("FailedConfig", FALSE)
       ELSE worker' = [worker EXCEPT
                         !.pc = "nads", !.want = r,
                         !.todo = NadsToApply(worker.node, worker.uid)]
    /\ UNCHANGED <<nodeVars, podVars, extVars, queue, current, budget, nadOn>>

-----------------------------------------------------------------------------
(* APIApply, one call per NAD, and handlePodUpdate.                        *)

\* Mutant: the error is not looked at.
ApplyNadUnchecked(i) ==
    /\ worker.pc = "nads"
    /\ i \in worker.todo
    /\ worker' = [worker EXCEPT !.todo = @ \ {i}]
    /\ \/ /\ NoBudget
          /\ nads' = [nads EXCEPT ![worker.node][i] =
                        IF nadOn THEN worker.uid ELSE None]
       \/ Fault /\ UNCHANGED nads
    /\ UNCHANGED <<nodeVars, podVars, configs, device, queue, current, nadOn>>

ApplyNad(i) ==
    /\ worker.pc = "nads"
    /\ i \in worker.todo
    /\ \/ /\ NoBudget
          /\ nads' = [nads EXCEPT ![worker.node][i] =
                        IF nadOn THEN worker.uid ELSE None]
          /\ worker' = [worker EXCEPT !.todo = @ \ {i}]
       \/ /\ Fault
          /\ Report("FailedNad", FALSE)
          /\ UNCHANGED nads
    /\ UNCHANGED <<nodeVars, podVars, configs, device, queue, current, nadOn>>

\* Mutant: any existing Pod will do.
AnyRevision(p, r) == TRUE

IsRevision(p, r) == p.hash = r

\* The existing Pod is the cached one; only its revision hash is compared.
ComparePod ==
    LET existing == cPod[worker.node] IN
    /\ worker.pc = "nads"
    /\ worker.todo = {}
    /\ worker' = [worker EXCEPT !.pc =
                    IF existing = None THEN "create"
                    ELSE IF ~IsRevision(existing, worker.want) THEN "delete"
                    ELSE "get"]
    /\ UNCHANGED <<nodeVars, podVars, extVars, queue, current, budget, nadOn>>

DeletePod ==
    LET n == worker.node IN
    /\ worker.pc = "delete"
    /\ \/ /\ pod[n] # None
          /\ PodRemove(n)
          /\ worker' = [worker EXCEPT !.pc = "create"]
          /\ NoBudget
       \/ /\ pod[n] = None
          /\ Report("FailedPodGone", FALSE)
          /\ NoBudget
          /\ UNCHANGED <<pod, podLog, device>>
       \/ /\ Fault
          /\ Report("FailedPodApi", FALSE)
          /\ UNCHANGED <<pod, podLog, device>>
    /\ UNCHANGED <<nodeVars, cPod, nads, configs, queue, current, nadOn>>

CreatePod ==
    LET n == worker.node IN
    /\ worker.pc = "create"
    /\ \/ /\ pod[n] = None
          /\ \E p \in PodIds \ PodIdsInUse(n) :
               PodWrite(n, [id |-> p, owner |-> worker.uid,
                            hash |-> worker.want, state |-> "empty",
                            terminating |-> FALSE])
          /\ worker' = [worker EXCEPT !.pc = "get"]
          /\ NoBudget
       \/ /\ pod[n] # None
          /\ Report("FailedPodExists", FALSE)
          /\ NoBudget
          /\ UNCHANGED <<pod, podLog>>
       \/ /\ Fault
          /\ Report("FailedPodApi", FALSE)
          /\ UNCHANGED <<pod, podLog>>
    /\ UNCHANGED <<nodeVars, cPod, extVars, queue, current, nadOn>>

-----------------------------------------------------------------------------
(* The Pod's status, the device's initial configuration, the Node's status *)

PodCondition(p) ==
    CASE p.state = "empty" -> "NotReadyEmpty"
      [] p.state = "unready" -> "NotReadyContainer"
      [] p.state = "addressless" -> "NotReadyAddress"

GetPod ==
    LET p == cPod[worker.node] IN
    /\ worker.pc = "get"
    /\ \/ p = None /\ Report("FailedPodUnseen", FALSE)
       \/ p # None /\ p.state # "ready" /\ Report(PodCondition(p), TRUE)
       \/ /\ p # None
          /\ p.state = "ready"
          /\ worker' = [worker EXCEPT !.pc = "init", !.seen = p.id]
    /\ UNCHANGED <<nodeVars, podVars, extVars, queue, current, budget, nadOn>>

\* A session with the device at the address that was read, which may by now
\* be that of a Pod that is gone but whose container still answers.
SetInitialConfig ==
    LET n == worker.node
        reached == pod[n] # None /\ pod[n].id = worker.seen
    IN
    /\ worker.pc = "init"
    /\ \/ /\ reached
          /\ \E r \in Outcomes(device[n]) :
               /\ IF r = Success \/ device[n] = "down" THEN NoBudget ELSE Fault
               /\ device' = [device EXCEPT ![n] = r.left]
               /\ IF r.ok THEN Report("Ready", FALSE)
                  ELSE Report("FailedInitialConfig", TRUE)
       \/ /\ ~reached
          /\ \/ Report("Ready", FALSE)
             \/ Report("FailedInitialConfig", TRUE)
          /\ NoBudget
          /\ UNCHANGED device
    /\ UNCHANGED <<nodeVars, podVars, nads, configs, queue, current, nadOn>>

\* Mutants: a patch without resourceVersion; a write even of the same status.
AcceptedAlways(n) == node[n] # None
NeverStored(o, c) == FALSE

Accepted(n) == n \in current
Stored(o, c) == o.status = c

\* The error of the status write is what Reconcile returns.
Refused == Finish(TRUE) /\ current' = {} /\ UNCHANGED <<node, nodeLog>>

\* r.Status().Update(cr): refused unless cr is the stored version; storing
\* what is there already makes no new version.
UpdateStatus ==
    LET n == worker.node IN
    /\ worker.pc = "status"
    /\ \/ /\ Accepted(n)
          /\ IF Stored(node[n], worker.cond)
             THEN current' = {} /\ UNCHANGED <<node, nodeLog>>
             ELSE NodeWrite(n, [node[n] EXCEPT !.status = worker.cond])
          /\ Finish(worker.requeue)
          /\ NoBudget
       \/ /\ IF Accepted(n) THEN Fault ELSE NoBudget
          /\ Refused
    /\ UNCHANGED <<cNode, podVars, extVars, nadOn>>

-----------------------------------------------------------------------------
Reconcile ==
    \/ \E n \in Nodes : Begin(n)
    \/ RemoveFinalizer
    \/ GetNodeConfig
    \/ \E i \in Interfaces : ApplyNad(i)
    \/ ComparePod
    \/ DeletePod
    \/ CreatePod
    \/ GetPod
    \/ SetInitialConfig
    \/ UpdateStatus

Users ==
    \/ \E n \in Nodes, u \in Uids \ {worker.uid}, s \in Specs,
          fs \in FinalizerSets : CreateNode(n, u, s, fs)
    \/ \E n \in Nodes, s \in Specs : EditNode(n, s)
    \/ \E n \in Nodes : DeleteNode(n)
    \/ \E n \in Nodes : ReleaseNode(n)
    \/ \E s \in Specs \ Fixed, r \in Revisions \cup {None} : EditConfig(s, r)
    \/ \E n \in Nodes : UserDeletesPod(n)
    \/ \E n \in Nodes, p \in PodIds \ {worker.seen}, h \in ForeignHashes :
           UserCreatesPod(n, p, h)

Platform ==
    \/ \E n \in Nodes : DeviceCrash(n)
    \/ \E n \in Nodes : KubeletReports(n)
    \/ \E n \in Nodes : KubeletRemovesPod(n)
    \/ \E n \in Nodes : CollectPod(n)
    \/ \E n \in Nodes, i \in Interfaces : CollectNad(n, i)

Informers ==
    \/ \E n \in Nodes : DeliverNode(n)
    \/ \E n \in Nodes : DeliverPod(n)
    \/ \E n \in Nodes : Resync(n)

Next ==
    \/ Reconcile
    \/ Users /\ UNCHANGED <<worker, nadOn>>
    \/ Platform /\ UNCHANGED <<worker, nadOn>>
    \/ Informers
    \/ Restart

Spec == Init /\ [][Next]_vars

-----------------------------------------------------------------------------
(* Fairness.  The worker takes names from the queue in order, so a queued   *)
(* name comes up again and again; calls return, watches deliver, and the    *)
(* kubelet and the garbage collector finish what they have begun.  Nothing  *)
(* makes users, faults, or "commit save" failures happen or stop.           *)

WorkerRuns == worker.pc # "idle" /\ NoBudget /\ Reconcile

Fairness ==
    /\ WF_vars(WorkerRuns)
    /\ \A n \in Nodes :
         /\ SF_vars(Begin(n))
         /\ WF_vars(DeliverNode(n))
         /\ WF_vars(DeliverPod(n))
         /\ WF_vars(KubeletReports(n) /\ UNCHANGED <<worker, nadOn>>)
         /\ WF_vars(KubeletRemovesPod(n) /\ UNCHANGED <<worker, nadOn>>)
         /\ WF_vars(CollectPod(n) /\ UNCHANGED <<worker, nadOn>>)

FairSpec == Spec /\ Fairness

\* The same, and the periodic resync comes round.
ResyncSpec == FairSpec /\ \A n \in Nodes : WF_vars(Resync(n))

-----------------------------------------------------------------------------
(* Properties.                                                              *)

Live(n) == node[n] # None /\ ~node[n].deleting

\* A Pod that some Node owns, so that its events wake somebody.
Owned(p) == p # None /\ p.owner # None

\* Versions of an owned Pod have yet to reach the cache.
OwnInFlight(n) ==
    /\ podLog[n] # <<>>
    /\ Owned(cPod[n]) \/ \E k \in DOMAIN podLog[n] : Owned(podLog[n][k])

PodNews(n) == n \in queue \/ OwnInFlight(n)

\* Something will make the worker look at n again.
Woken(n) == worker.node = n \/ nodeLog[n] # <<>> \/ PodNews(n)

\* The kubelet or the garbage collector still has a step to take on n's Pod.
Due(n) ==
    /\ Owned(pod[n])
    /\ \/ pod[n].terminating
       \/ pod[n].state # "ready"
       \/ device[n] = "down"
       \/ OwnerGone(n, pod[n].owner)

\* Somebody else has made a Pod of that name, or even one with a revision.
Visited(n) == \E h \in Revisions \cup {None} : <<n, h>> \in strangers
Mistakable(n) == \E r \in Revisions : <<n, r>> \in strangers

\* What a Node that nothing brings back to the operator must be like.
LeftWell(n) ==
    IF node[n].deleting
    THEN "nodedeployer" \notin node[n].finalizers
    ELSE /\ node[n].status \notin
              {"Unknown", "NotReadyEmpty", "NotReadyContainer",
               "NotReadyAddress", "FailedFinalizer", "FailedInitialConfig"}
         /\ ~Visited(n) =>
              /\ node[n].status \notin {"FailedPodGone", "FailedPodUnseen"}
              /\ node[n].status = "FailedPodExists" => Due(n)

\* No Node is abandoned halfway: one that the operator has not looked at, that
\* waits for its Pod, whose initial configuration failed, or whose finalizer
\* is still to go, is always going to be reconciled again.  One that met a Pod
\* in its way waits for the event of that Pod's removal; only a stranger's Pod,
\* whose events wake nobody, can leave it waiting.
NoLostWakeup ==
    \A n \in Nodes : node[n] # None /\ ~Woken(n) => LeftWell(n)

\* What Ready says of a Node.  Its device has been sent a commit, saved or not.
\* Edits of a NodeConfig wake nobody, so the revision is that of the NodeConfig
\* only for specs whose NodeConfig is never edited.
ReadyWell(n) ==
    /\ node[n].spec \in Registered
    /\ pod[n] # None
    /\ pod[n].owner = node[n].uid
    /\ device[n] \in {"pushed", "saved"}
    /\ node[n].spec \in Fixed => pod[n].hash = configs[node[n].spec]

\* A Ready Node that nobody is about to look at has a provider, and a Pod of
\* its own, of the revision its spec asks for (if its NodeConfig is Fixed), whose
\* device was configured: whatever spoils one of these wakes the operator, late
\* or not.  A stranger's Pod passes for the Node's only if it carries a revision.
ReadyIsTrue ==
    \A n \in Nodes :
      /\ Live(n) /\ ~Woken(n) /\ ~Due(n) /\ node[n].status = "Ready"
      /\ ~Mistakable(n)
      => ReadyWell(n)

\* Calls to the API server that failed.
ApiFailures == {"FailedNad", "FailedPodApi"}

\* A failure that a Node at rest reports is one that waking up would not cure:
\* it has no provider, or its NodeConfig is wrong, or an API call failed and it
\* was not the only fault so far: the status write itself wakes the operator, so
\* that one failure by itself never stays.
FailuresAreReal ==
    \A n \in Nodes : Live(n) /\ ~Woken(n) =>
        /\ node[n].status = "FailedProvider" => node[n].spec \notin Registered
        /\ node[n].status = "FailedConfig" /\ node[n].spec \in Fixed =>
             configs[node[n].spec] = None
        /\ node[n].status \in ApiFailures => faults >= 2

\* The NADs of a Ready Node at rest are those ENABLE_NAD asks for, also after
\* a restart of the operator with another value (nobody else changes NADs here).
ReadyNads ==
    \A n \in Nodes :
      Live(n) /\ ~Woken(n) /\ node[n].status = "Ready" =>
        \A i \in Interfaces : (nads[n][i] = node[n].uid) <=> nadOn

\* No Pod is created before the NADs its interfaces attach to.
NadsBeforePod ==
    worker.pc = "create" /\ nadOn /\ ~OwnerGone(worker.node, worker.uid) =>
        \A i \in Interfaces : nads[worker.node][i] = worker.uid

\* A condition is only ever stored on the Node incarnation and spec it was
\* worked out for, however long Reconcile took.
StatusForReadNode ==
    [][\A n \in Nodes :
         node[n] # None /\ node'[n] # None /\ node'[n].uid = node[n].uid
         /\ node'[n].status # node[n].status =>
           /\ worker.node = n
           /\ worker.uid = node[n].uid
           /\ worker.spec = node[n].spec
           /\ node[n].deleting => node'[n].status = "FailedFinalizer"]_vars

\* The promise to readers of Nodes, kept for Nodes that no stranger's Pod has
\* interfered with: a run stores a condition only on what it has read, and leaves
\* a Node asleep, waiting for nothing, only when it is done with it.
Asleep == {n \in Nodes : /\ node[n] # None
                         /\ ~Woken(n) /\ ~Due(n) /\ ~Visited(n)}

Reading == IF worker.node = None THEN None
           ELSE [node |-> worker.node, uid |-> worker.uid, spec |-> worker.spec]

Promise == INSTANCE NodeStatus
             WITH shown <- node, asleep <- Asleep, reading <- Reading

KeepsPromise == Promise!Spec

\* Left alone, the operator stops: no condition it stores and no Pod it makes
\* keeps waking it for ever.
Settles ==
    \A n \in Nodes : <>[](node[n] = None \/ (~Woken(n) /\ ~Due(n)))

\* A stranger's Pod, taken for the operator's for the revision it carries.
Adopted(n) == pod[n].owner = None /\ <<n, pod[n].hash>> \in strangers

\* With resyncs, every Node whose provider is registered and whose NodeConfig
\* resolves ends up, and stays, Ready with a configured Pod of the present
\* revision, whatever failed or changed on the way: a Pod of its own, or one that
\* a stranger has given that very revision.
Converges ==
    \A n \in Nodes :
      <>[](\/ ~Live(n)
           \/ node[n].spec \notin Registered
           \/ configs[node[n].spec] = None
           \/ /\ node[n].status = "Ready"
              /\ pod[n] # None
              /\ pod[n].hash = configs[node[n].spec]
              /\ pod[n].owner = node[n].uid \/ Adopted(n)
              /\ device[n] \in {"pushed", "saved"})

-----------------------------------------------------------------------------
(* The inductive invariant behind them.                                     *)

Latest(log, cached) == IF log = <<>> THEN cached ELSE log[Len(log)]

\* Behind the versions still to be delivered, the caches are right.
CachesCatchUp ==
    \A n \in Nodes : /\ Latest(nodeLog[n], cNode[n]) = node[n]
                     /\ Latest(podLog[n], cPod[n]) = pod[n]

PodSteps == {"nads", "delete", "create", "get", "init"}

\* What Reconcile has found out on its way to where it is.
WorkerKnows ==
    /\ worker.pc = "idle" <=> worker.node = None
    /\ worker.pc # "idle" => worker.uid # None /\ worker.spec # None
    /\ worker.pc \in PodSteps \cup {"config"} => worker.spec \in Registered
    /\ worker.pc \in PodSteps =>
         /\ worker.want # None
         /\ worker.spec \in Fixed => worker.want = configs[worker.spec]
    /\ worker.pc \in PodSteps \ {"nads"} => worker.todo = {}
    /\ worker.pc = "status" /\ worker.cond = "Ready" => worker.todo = {}
    /\ worker.pc = "status" /\ ~worker.requeue =>
         worker.cond \notin {"Unknown", "NotReadyEmpty", "NotReadyContainer",
                             "NotReadyAddress", "FailedFinalizer",
                             "FailedInitialConfig"}
    /\ worker.pc = "status" /\ worker.cond = "FailedProvider" =>
         worker.spec \notin Registered
    /\ worker.pc = "status" /\ worker.cond = "FailedConfig"
       /\ worker.spec \in Fixed => configs[worker.spec] = None

\* A Node still stored as it was read is the one Reconcile works for.
CurrentIsRead ==
    worker.node \in current =>
        LET o == node[worker.node] IN
        /\ o # None
        /\ o.uid = worker.uid
        /\ o.spec = worker.spec
        /\ o.deleting <=> \/ worker.pc = "finalize"
                          \/ worker.pc = "status" /\ worker.cond = "FailedFinalizer"
        /\ worker.pc = "finalize" => "nodedeployer" \in o.finalizers

\* Only strangers make Pods without an owner, and they are on record.
PodsOnRecord ==
    \A n \in Nodes : \A p \in PodVersions(n) :
        p.owner = None => <<n, p.hash>> \in strangers

\* Unless there is news of the Pod, it is as Reconcile last saw or left it.
PodAsSeen ==
    LET n == worker.node
        p == pod[n]
    IN
    n # None /\ ~PodNews(n) =>
        /\ ~Visited(n) =>
             /\ worker.pc = "delete" => p # None
             /\ worker.pc = "create" => p = None \/ p.terminating
             /\ worker.pc = "status" =>
                  /\ worker.cond \notin {"FailedPodGone", "FailedPodUnseen"}
                  /\ worker.cond = "FailedPodExists" => p # None /\ p.terminating
        /\ ~Mistakable(n) =>
             /\ worker.pc \in {"get", "init"} => Owned(p) /\ p.hash = worker.want
             /\ worker.pc = "init" => p.state = "ready" /\ p.id = worker.seen
             /\ worker.pc = "status" /\ worker.cond = "Ready" =>
                  /\ Owned(p)
                  /\ device[n] # "empty"
                  /\ worker.spec \in Registered
                  /\ worker.spec \in Fixed => p.hash = configs[worker.spec]

\* A failed call has cost a fault, and one that is reported again a second one.
FailuresCounted ==
    /\ \A n \in Nodes :
         node[n] # None /\ node[n].status \in ApiFailures => faults >= 1
    /\ worker.pc = "status" /\ worker.cond \in ApiFailures =>
         /\ faults >= 1
         /\ worker.node \in current /\ node[worker.node].status = worker.cond =>
              faults >= 2

\* Inductive, also beside a second operator (module Replicas).
IInv ==
    /\ TypeOK
    /\ CachesCatchUp
    /\ WorkerKnows
    /\ CurrentIsRead
    /\ PodsOnRecord
    /\ PodAsSeen
    /\ FailuresCounted
    /\ NoLostWakeup
    /\ ReadyIsTrue
    /\ FailuresAreReal

\* The operator is done with interface i of the Node that n names now: a run has
\* applied its NAD, or the Node is left alone as Ready.
NadDone(n, i) ==
    \/ /\ worker.node = n /\ worker.uid = node[n].uid
       /\ \/ worker.pc \in PodSteps
          \/ worker.pc = "status" /\ worker.cond = "Ready"
       /\ i \notin worker.todo
    \/ Live(n) /\ ~Woken(n) /\ node[n].status = "Ready"

NadRight(n, i) == (nads[n][i] = node[n].uid) <=> nadOn

\* Inductive given IInv.
NadInv ==
    \A n \in Nodes, i \in Interfaces :
      node[n] # None /\ NadDone(n, i) => NadRight(n, i)

-----------------------------------------------------------------------------
(* What the repository's comments claim.                                    *)

\* reconciler.go: "at this stage the pod should exist".
PodVisible == worker.pc = "get" => cPod[worker.node] # None

\* reconciler.go: "pod spec changed, since pods are immutable we delete and
\* create the pod".
DeletesOnlyChangedPod ==
    worker.pc = "delete" /\ pod[worker.node] # None =>
        pod[worker.node].hash # worker.want

\* srlinux.go sends "commit save": a Ready Node's configuration is saved.
ReadyIsSaved ==
    \A n \in Nodes :
      Live(n) /\ ~Woken(n) /\ ~Due(n) /\ node[n].status = "Ready" =>
        device[n] = "saved"

=============================================================================
