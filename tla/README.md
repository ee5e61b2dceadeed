# Verification of the network-node-operator

A Kubernetes operator that turns a `Node` resource into a Pod that runs a network
operating system (Nokia SR Linux, SR OS, or a plain server), with the
NetworkAttachmentDefinitions (NADs) its interfaces need, and sends the device its
initial configuration. The modules in this directory model the operator and what it
sees of Kubernetes; TLC checks them on small instances, and TLAPS proves the safety
properties and the refinements for every value of the constants.

## The system

| part | source | state | operations | interacts by |
|---|---|---|---|---|
| reconciler | `controllers/nodedeployer/reconciler.go` | the locals of one `Reconcile` | `Reconcile`, `handlePodUpdate`, `getPodStatus`, `SetupWithManager` | cached reads, API writes, watch events |
| node registry | `pkg/node/node_registry.go` | provider name → constructor | `Register`, `NewNodeOfProvider` | called by `main` and the reconciler |
| srlinux provider | `pkg/node/srlinux/srlinux.go` | none | `GetNodeConfig`, `GetNetworkAttachmentDefinitions`, `GetPodSpec`, `SetInitialConfig` | cached reads, an SSH session with the device |
| sros provider | `pkg/node/sros/sros.go` | none | the same, and persistent volumes | the same |
| xserver provider | `pkg/node/xserver/server.go` | none | the same, an empty Pod | cached reads |
| certificate data | `pkg/cert/cert.go` | none | `GetCertificateData` | called by `SetInitialConfig` |
| NAD JSON | `pkg/nad/nad_types.go` | none | `GetNadConfig`, `GetNadAnnotation` | called by the providers |
| start-up | `main.go`, `controllers/` | flags, `ENABLE_*`, `POD_NAMESPACE` | `main` | starts one worker per reconciler |

`main.go` registers the srlinux provider only; the others are code that nothing starts.

What is hard here:

- **Stale reads.** All reads go to informer caches; all writes go to the API server. The
  reconciler reads back what it has just written, and deletes by name what it saw a
  while ago.
- **Wake-ups.** Only Nodes and the Pods they own are watched. Some failures ask for a
  requeue, others rely on an event, others (a bad NodeConfig) on nobody. Each status
  write is itself an event that wakes the operator.
- **Long runs.** A configuration session takes seconds; Node, Pod and device change
  under it.
- **Partial failure.** NADs, Pod deletion, Pod creation and the commands of a session are
  separate calls, and a restart of the operator can fall between any two.
- **Same name, other object.** Node, Pod and NADs are found by name; incarnations differ
  by uid, and a Pod of that name need not be the operator's.
- **Two operators.** Leader election is off unless `-leader-elect` is given (the blueprint
  gives it, and one replica); without it, and while a Deployment is rolled over, two
  processes reconcile the same Nodes.

What makes each part correct: no Node is abandoned half done; Ready means configured,
with a Pod of the wanted revision and the NADs asked for; conditions reach the Node they
are about; the operator comes to rest, and ends at the desired state (reconciler). The
NodeConfig used is the best fitting one; what a Pod mounts was checked and exists; the
revision follows what the Pod depends on (providers). A device never runs a key and a
certificate of different Secrets, and each call keeps the contract the reconciler relies
on (sessions). What is cut out of a file is one whole PEM block (certificates).

## The modules

| module | models | extends |
|---|---|---|
| `DeviceOutcomes` | the possible outcomes of one `SetInitialConfig` call | |
| `Cluster` | API server, watches, caches, queue, users, strangers' Pods, kubelet, garbage collector (all external code) | `DeviceOutcomes` |
| `NodeDeployer` | the reconciler, its properties, the inductive invariants | `Cluster` |
| `NodeDeployerProofs` | its theorems, and what a step of an operator is to another one | `NodeDeployer` |
| `NadProofs` | its theorems on NADs | `NodeDeployerProofs` |
| `NodeStatus` | abstract specification: what the operator promises to readers of Nodes | |
| `NodeStatusProofs` | `NodeDeployer` implements it | `NodeDeployerProofs` |
| `Replicas` | two operators over one API server: two instances of `NodeDeployer` | |
| `ReplicasProofs` | its theorems, from two instances of `NadProofs` | `Replicas` |
| `DeviceSession` | abstract specification: one step per `SetInitialConfig` call | `DeviceOutcomes` |
| `CertData` | `GetCertificateData` over token sequences | |
| `InitialConfig` | both providers' sessions, command by command; implements `DeviceSession` | `CertData`, `DeviceOutcomes` |
| `InitialConfigProofs` | its theorems, the refinement included | `InitialConfig` |
| `Providers` | what one run asks of the three providers, and what becomes of the answers: NADs and Pod | |
| `ProvidersProofs` | its theorems | `Providers` |
| `MC*` | symmetry sets, a view, and constant values for TLC | |

### Cluster and NodeDeployer

`node[n]` and `pod[n]` are what the API server stores under a name; `nodeLog[n]` and
`podLog[n]` the versions its watch has yet to deliver, one per write and in order;
`cNode[n]` and `cPod[n]` the cached objects. A spec is a model value (a provider and a
NodeConfig reference) and `configs` says which Pod revision it resolves to at the moment,
or that resolving fails; `Providers` looks inside that. `queue` is the work queue, delayed
additions included: the queue merges equal names, so time plays no part in what may
happen. The NodeConfig cache has no log of its own: an edit counts when the cache has it,
and since nothing watches NodeConfigs the two cannot be told apart.

`current` stands for `resourceVersion`: the names still stored at the version the worker
read. `Begin` puts a name there if the cache is up to date, every write to the Node
takes it out, and `UpdateStatus` and `RemoveFinalizer` are refused without it. A status
that is the stored one makes no new version (the condition library compares conditions
without their times, and the API server drops an update that changes nothing).

`worker` is the place and the locals of the one running `Reconcile`
(`MaxConcurrentReconciles` is 1 by default). Every call that leaves the process is an
action; straight-line code goes with the action before it:

| action | code in `reconciler.go` |
|---|---|
| `Begin` | `Get`, `WasDeleted`, `NewNodeOfProvider` |
| `RemoveFinalizer` | the deletion branch |
| `GetNodeConfig` | `GetNodeConfig`, choice of NADs |
| `ApplyNad` | `APIApply`, one NAD at a time |
| `ComparePod`, `DeletePod`, `CreatePod` | `handlePodUpdate` |
| `GetPod` | the read back and `getPodStatus` |
| `SetInitialConfig` | the session, its outcome taken from `Outcomes` |
| `UpdateStatus` | `Status().Update` and the return |

`Restart` is a new process: the caches are listed afresh, everything that exists is
queued, and `ENABLE_NAD` may have another value. `Fault` is the budget of failed API
calls, crashed containers, dropped commands and restarts; a missing credentials Secret is
one too.

`UserCreatesPod` is somebody else making a Pod under a Node's name, with or without a
revision annotation (`ForeignHashes`). It has no owner, so its events wake nobody:
`Owns` looks at the owner of the old and of the new version only. `strangers` records the
names and hashes, so that the properties can say which Nodes they exclude. Most are kept
regardless. Three are not: a Node whose `Create` met a stranger's Pod is left Failed once
that Pod has gone (`LeftWell` excludes names somebody else has used, and without the
exclusion TLC finds the behaviour), a stranger's Pod with the right annotation is adopted
(`ReadyIsTrue` excludes it; `Converges` says that such a Pod, `Adopted`, is the only one that
may stand in for the Node's own), and `KeepsPromise` leaves such names out.

Assumptions about external code: `RemoveFinalizer` of the resource library does nothing
if the finalizer is absent and ignores NotFound; `APIApply` creates or updates what was
added and deletes owned objects that were not; garbage collection follows owner uids; a
Pod's address is not given to another Pod while something refers to it (`PodIdsInUse`);
a restarted container starts from its image.

### NodeStatus

What a reader of Nodes may rely on, without Pods, caches or a queue: a run looks at one
Node, and reports on it, lets it go, or rests; a Node is `asleep` when nothing will bring
it back, and only a run that is done with it (`Done`) leaves it so. Changes by others wake
it. In the refinement `shown` is `node`, `asleep` the Nodes with no event, no queue entry
and nobody at work (`Asleep`), `reading` what the worker holds. Deliveries, Pods and NADs
are not seen, or wake somebody. `Report` is only possible for the Node as it was read,
so the refinement contains `StatusForReadNode` and `NoLostWakeup`, and says that nothing
else happens to Nodes.

### Replicas

Two instances `A` and `B` of `NodeDeployer` share the API server's variables and have
their own caches, logs, queue, `current`, worker and `ENABLE_NAD`. A step of one is its own
action and, for the other, an event: `Heard` appends to its logs what changed, and a
changed Node leaves its `current`. New objects get identities that neither refers to
(`New`). The other writers are those of `NodeDeployer`; they reach both operators.

An operator is at rest with a Node (`AtRest`) when nothing will bring it back to it,
whatever the other is doing: the properties ask it of one of the two. Only `BothReadyNads`
asks it of both, since nothing watches NADs, and it needs the same `ENABLE_NAD` of both.
While the settings differ, as during a rollout that changes the variable, each undoes what
the other has applied; if the old operator does so last and goes away, the Node is without
its NADs until the next resync. `Restart` may give either the value of the other, so how the
two come to agree is covered.

Configuration sessions are one step each, so two sessions with a device at once are not
covered. Leader election is not modelled: with it there is one active operator, and a
handover is `Restart`.

### DeviceSession and InitialConfig

`DeviceSession` says of a call: without an error the device is `saved`, or at least
`pushed` (the session came to its commit); with one, it is as before or anything up to
`saved`; one that is down gives an error. `NodeDeployer!SetInitialConfig` takes its
outcomes from the same operator. `InitialConfig` has one action for the Secrets, one for
opening the session and one per command of the two scripts. A command is answered and
done, answered and refused (no error, since answers are not looked at), or not answered,
done or not (an error, but for the `commit save` of srlinux). `running`, `startup` and
the session's private `candidate` are configurations of four parts: key, certificate,
trust anchor, and the servers' settings. The refinement mapping (`KeepsContract`) keeps
the abstract device as it was before the commit until the call returns; `sent` and `was`
are history variables for it. That SR Linux sessions use a private candidate, discarded
when the session ends, is an assumption about the scrapligo library; SR OS enters it by
an explicit command. Neither keeps anything over a restart of its container; an SR OS
with persistent volumes may, and is not modelled.

`FairSpec` is a Node that is reconciled again and again: an informer that resyncs queues
every Node, a Ready one too, and `Reconcile` ends in `SetInitialConfig` whenever the Pod is
ready. It asks for nothing of calls that fail; the budgets are what stops failures.

### Providers

One Node, its changing NodeConfigs, variants ConfigMaps and `ENABLE_NAD`. The actions are
the calls `Reconcile` makes in order: `ResolveConfig`, `CheckVariants`, `APIApply`,
`GetPodSpec`, `handlePodUpdate`; runs follow one another, and any of them may give up. The
list of NodeConfigs comes in every order. `APIApply` may come any part of the way;
`handlePodUpdate` may fail before or after the old Pod is deleted, and the API server
refuses a Pod it cannot validate (`Creatable`: an external rule). Of a Pod the model keeps
what can differ: image, resources, mounts, affinity, volumes, the revision and the network
annotation. `getHash` tags the spec it is given: SHA-256 of canonical JSON tells any two
specs apart. Probes, commands, environment and the wiring annotation are constants of a
provider. Caches, Node incarnations and foreign Pods are `NodeDeployer`'s subject, and are
left out here.

Two things met on the way that no property is about: the anti-affinity of an SR OS Pod
selects the label `topo`, which no code in `src/` sets (`sros.go:430`; SR Linux uses the
label it sets), and the Pod of the xserver provider has no name, so it can never be created.

## What is checked

`run -> module, cfg`; states with the bounds given in the cfg.

| run | question | bounds | states |
|---|---|---|---|
| `Safety` | `TypeOK`, `NoLostWakeup`, `ReadyIsTrue`, `StatusForReadNode` | 1 name, 2 incarnations, 2 specs, 2 revisions, strangers' Pods without a revision, lag 2, 2 edits, 1 fault | 2.3 M |
| `Nads` | `ReadyNads`, `FailuresAreReal`, `NadsBeforePod` | 2 NADs, both values of `ENABLE_NAD`, a spec without a provider, 2 edits, 2 faults | 2.5 M |
| `TwoNodes` | `IInv`, `KeepsPromise`, with graceful deletion | 2 names, strangers' Pods with and without a revision, 2 edits | 0.73 M |
| `Settle` | `Settles` under `FairSpec` | 2 revisions, lag 2, 2 edits, 1 fault, graceful deletion | 0.87 M |
| `Converge` | `Converges` under `ResyncSpec` | 2 revisions, strangers' Pods with a revision, lag 2, 2 edits, 1 fault | 0.98 M |
| `Replicas` | `NoNodeForgotten`, `BothReadyIsTrue`, `BothReadyNads`, `StatusForReadNodes` | 2 operators, 1 Node, lag 1; 2 revisions and 1 deletion, or 2 incarnations, 2 specs and 2 edits, or 1 NAD, both values of `ENABLE_NAD` and 1 fault | 1.2 M |
| `InitialConfig` | `TypeOK`, `BlocksAreWhole`, `OneProfile`, `KeepsContract`, `RotationArrives` | 5 Secrets, 2 rotations, 2 faults | 45 k |
| `Providers` | `TypeOK`, `MountsHaveVolumes`, `NetworksExist`, `BestConfig`, `MountsCheckedVariant`, `RevisionTracksConfig`, `RunLeavesItsPod` | 13 Nodes, 6 NodeConfigs, 2 variants, 2 edits | 0.36 M |

Two edits and a fault suffice for the cases the properties are about: an edit that races
a run begun by an earlier one, a deletion and re-creation, a failure between deleting and
creating a Pod. A lag of two is a cache behind by a version that is itself replaced. Two
Pod identities make stale and present Pod differ; a third is never needed at once with
one worker. `MaxEdits` also counts strangers' Pods and, in `Providers`, switches of
`ENABLE_NAD` and failing calls for the Pod; an event that a property needs (a rotation, a
failure) always has one more to race with. The operator really stops when there is
nothing to do, so runs of `NodeDeployer` do not check deadlock.

`Replicas` starts where two operators can hurt each other: both have just listed a Ready
Node, whose NodeConfig may have been edited since, so each may find the Pod of the wrong
revision and delete the one the other has just made. Its state space is the square of one
operator's; the view of `MCReplicas` makes the two interchangeable (they are variables, so
`SYMMETRY` cannot), and its constraints `OneTrouble` and `OneKind` take one kind of trouble
at a time: with NADs, failing calls and restarts with another `ENABLE_NAD` (`Failing`);
without them, Pods of a former revision and the deletion of the Node (`Replacing`; users do
not delete Pods here, the operators do), or edits of the Node's spec and its re-creation, for
a provider that is not registered (`Editing`), so that either operator may come with a
condition for a spec or an incarnation that is no more. What these bounds leave out (kinds
mixed, several Nodes, a Node re-created for a registered provider, longer lags) is covered
by the proofs below.

`Settle` and `Converge` have a lag of two and two revisions, so that a cached Pod may be one
that the operator has replaced already, and the replacement be deleted for it; in `Settle` the
Pod of the former revision may still be terminating when the new one is created. A Node
that is re-created is beyond what `Converge` exhausts; `ReadyIsTrue` covers it.

`Settles` speaks of Nodes left alone after the budgets are spent; nothing in it excludes
a NodeConfig that stays broken. `Converges` is about Nodes that can run: their provider is
registered and their NodeConfig resolves.

Four runs refute what the repository says:

- `PodVisible`: "at this stage the pod should exist" (`reconciler.go:168`). The Pod is
  read from a cache that a Create a moment before did not reach. The Node is Failed until
  the Pod's event arrives (and `NoLostWakeup` shows that it does).
- `DeletesChanged`: "pod spec changed, since pods are immutable we delete and create the
  pod" (`reconciler.go:211`). The deleted Pod can be a newer one with the wanted spec.
- `ReadySaved`: the error of "commit save" (`srlinux.go:371`) is overwritten two lines
  below; a Node can be Ready with nothing saved on its device. It takes two failures: the
  operator's own status event makes it run the session once more.
- `ListNamespace`: "we list all nodeConfigs in the cr namespace" (`srlinux.go:399`,
  `sros.go:340`). The list is of `POD_NAMESPACE`.

### Fairness

`WF` of the worker's step: calls return. `SF` of `Begin(n)`: the queue is first in, first
out, so a name in it comes up although others are put back again and again; weak
fairness would not do, since `Begin(n)` is disabled while another name is worked on.
`WF` of deliveries, of the kubelet's reports and removals, and of the garbage collector:
each goes on by itself. `Resync(n)` is weakly fair in `ResyncSpec` only, controller-runtime's
default period being ten hours. Users, faults and a successful session are not forced:
fairness is stated for steps without a fault, and the fault budget is what makes failures
stop. In `InitialConfig` it is `WF` of the session's fault-free steps and of the container's
start; `RotationArrives` needs it, since a rotation wakes nobody.

## What is proved

For any sets of Nodes, specs, revisions, Secrets and NodeConfigs, any lag and any budgets,
from the assumptions stated in the modules (`None` and `NotFound` are no values, bounds are
numbers, registered and fixed specs are specs, `NadModes` is a set of Booleans, names and
volumes have the types the API gives them):

| module | theorem | says |
|---|---|---|
| `NodeDeployerProofs` | `Invariance` | `Spec => []IInv` |
| | `TypeCorrect` | `Spec => []TypeOK` |
| | `NoWakeupIsLost` | `Spec => []NoLostWakeup` |
| | `ReadyCanBeTrusted` | `Spec => []ReadyIsTrue` |
| | `FailuresCanBeTrusted` | `Spec => []FailuresAreReal` |
| | `ConditionsAreForTheReadNode` | `Spec => StatusForReadNode` |
| `NadProofs` | `ReadyNodesHaveTheirNads` | `Spec => []ReadyNads` |
| | `NadsComeFirst` | `Spec => []NadsBeforePod` |
| `NodeStatusProofs` | `PromiseIsKept` | `Spec => KeepsPromise` |
| `ReplicasProofs` | `JointInvariance` | `Spec => []JInv` |
| | `TwoForgetNoNode` | `Spec => []NoNodeForgotten` |
| | `TwoReadyCanBeTrusted` | `Spec => []BothReadyIsTrue` |
| | `TwoLeaveTheNads` | `Spec => []BothReadyNads` |
| | `TwoStoreForReadNodes` | `Spec => StatusForReadNodes` |
| `ProvidersProofs` | `Invariance` | `Spec => []IInv` |
| | `TypeCorrect` | `Spec => []TypeOK` |
| | `PodsFindTheirNads` | `Spec => []NetworksExist` |
| | `MountsAreOfVolumes` | `Spec => []MountsHaveVolumes` |
| | `MountedVariantsAreChecked` | `Spec => MountsCheckedVariant` |
| | `PodIsLeft` | `Spec => RunLeavesItsPod` |
| | `BestConfigIsUsed` | `Spec => BestConfig` |
| | `RevisionsTrackConfigs` | `Spec => RevisionTracksConfig` |
| `InitialConfigProofs` | `Invariance` | `Spec => []IInv` |
| | `TypeCorrect` | `Spec => []TypeOK` |
| | `SessionsUseWholeBlocks` | `Spec => []BlocksAreWhole` |
| | `ProfilesAreOfOneSecret` | `Spec => []OneProfile` |
| | `ContractIsKept` | `Spec => KeepsContract` |

### The reconciler

The safety properties are not inductive: they speak of stored conditions, and those come
from what the worker found out steps ago, in caches. The invariant adds, part by part:

- `CachesCatchUp`: a cache with nothing left to deliver is right, else the last version
  under way is. So a decision on stale data always has an event still to come.
- `WorkerKnows`: what the worker's place says about its locals.
- `CurrentIsRead`: a Node still stored at the version read is the one the locals describe;
  this gives `StatusForReadNode`.
- `PodAsSeen`: unless there is news of the Pod (its name is queued or its log is not
  empty), it is as the worker last saw or left it. A condition that will not be requeued
  is therefore true of the Pod, or will be looked at again. This carries `NoLostWakeup`
  and `ReadyIsTrue`.
- `PodsOnRecord`: Pods without an owner are on record as strangers'.
- `FailuresCounted`: a failed call has cost a fault, and a second one if the condition is
  stored already; the first status write wakes the operator, so a failure that stays was not
  the only fault (which faults they were is not recorded).

The proof has a lemma per action. Steps of everyone but the worker go through one lemma
(`EnvKeeps`): whatever they do to a Node or Pod appends to its log or queues its name.
Steps of the worker that write no status go through `MidKeeps`: they leave every other
Node's part of the invariant alone. `StartIInv` is an operator that has just listed
everything, in `Init` and after `Restart`.

The NADs have an invariant of their own, `NadInv`, inductive given `IInv`: those the
operator is done with (`NadDone`: a run has applied them, or the Node rests as Ready) are as
`ENABLE_NAD` says. The argument (`NadProofs`) is about one step: it either leaves the
interface's NAD right, or finds the operator done with it already and leaves it as it was
(`Settled`); users and the garbage collector make no operator be done with anything
(`EnvDone`).

The refinement (`NodeStatusProofs`) follows from the invariant: `NoLostWakeup`'s `LeftWell`
says that a Node asleep is done with, `CurrentIsRead` that a condition is stored on what was
read, and a lemma (`StaysAwake`) that a step which takes no name from the queue puts nobody
to sleep.

### Two operators

The invariant of two is that of each one, `JInv`: no part of `IInv` says that the operator
is alone. For that, `EnvKeeps` makes few demands on the steps of others (`EnvStep`): they
reach the operator through its logs, and (`SharedStep`) touch one Node and one Pod at a
time, keep strangers' Pods on record, store a failure only for a fault, and configure only
devices that are up. `NextShares` proves that each step of an operator with its environment
keeps to `SharedStep`, `HearsIsEnv` that `HeardByA` and `HeardByB` make it an `EnvStep` for
the other. So the other operator may delete and create Pods, store conditions and run
sessions at any time, and what `IInv` says of Pods "unless there is news" is why it does no
harm: all of it is news. `NoNodeForgotten` and `BothReadyIsTrue` are then `NoLostWakeup` and
`ReadyIsTrue` of the operator at rest, and `StatusForReadNodes` follows from the
`CurrentIsRead` of the one that takes the step.

NADs are not watched, so `NadInv` does not survive a second operator: that may still work
for a former Node of the name and have the NADs re-made for it. `JointNads` says what does:
with the same `ENABLE_NAD`, a NAD that both are done with is right. Of two operators done
with it after a step, the one that did not take the step was done before (`EnvDone`), and
the other has put the NAD right or was done and left it alone (`NextSettles`). So a step
that spoils a NAD, as one for a former Node does, is of an operator that is not done: it has
its event still to come (`AKeepsNads`, `BKeepsNads`).

### The providers

`PodAsMade` (the Pod is the function of the NodeConfig on record that its provider
computes) makes properties of Pods properties of functions: that volumes and mounts go
together, position by position, and that two specs are equal just when the relevant fields
of their NodeConfigs are. `RunningAsMade` says that the running Pod's hash is that of its
spec, so a Pod that is kept has the spec wanted. `NadsAsApplied` says that a run on its way
to the Pod has left the NADs its annotation lists, and carries `NetworksExist`.

### The sessions

The lemmas on `IndexOf` and `getStringInBetween` show that what is cut out of any text is a
whole block. `CandidateAsEntered` (unless a command was refused, the candidate holds this
session's material as far as the script has come) gives `OneProfile`: a commit merges one
Secret's three parts at once. `SessionKnows`, `ContainerIsFresh` and `CommitOnRecord` tie
the session to the container, and the history variable `was` to the commit. For the
refinement, a step before the end is not seen, because the abstract device is the one before
the commit; a step that returns has an outcome of `Outcomes`, because no command but the
commit changes what is stored, and a configuration once whole stays whole.

### Only model-checked

Liveness (`Settles`, `Converges`, `RotationArrives`) is out of the prover's reach: it needs
`ENABLED` and fairness. Every other property of a passing run is proved. The four runs that
refute a comment are counterexamples and need no proof.

## What is not modelled

- The manifests and CRDs: no program.
- Users and other controllers that delete or change NADs (nothing watches NADs, so a Ready
  Node would be without them until the next resync: `ReadyNads` and `BothReadyNads` say
  nothing of it), and NADs of a Node's interface names that belong to somebody else.
- Two configuration sessions with one device at a time.
- Claims about the NADs of two operators while their `ENABLE_NAD` differs, which is modelled.
- `GetPersistentVolumeClaims`, `GetNodeModel`, `GetNodeModelConfig`, `GetInterfaces` and
  `GetProviderType`: nothing in `src/` calls them.
- Flags, probes of the process, `ENABLE_<reconciler>`: without the variable nothing runs.
- `TuningPlugin` and the table of plugins: nothing uses them.
- Pods that fail for good, evictions: a Pod's state moves from created to ready, and its
  container may be restarted.
- Time: probe periods, back-off, the 5 s of `RequeueAfter`.
- A hash collision, a reused uid.

## Plan

1. (done) `Cluster`, `NodeDeployer`, their runs, the inductive invariant and its proofs.
2. (done) `DeviceSession`, `InitialConfig`, `CertData`, `Providers`, and their proofs.
3. (done) Strangers' Pods; the abstract `NodeStatus` and the proof that it is implemented;
   two operators; NADs, annotation and creation of the Pod in `Providers`; certificate
   rotation as a liveness property.
4. (done) A proof for `Replicas`, with NADs: two operators as two instances of one.
5. Two SR OS Nodes that share a volume claim.
6. Liveness of two Nodes (no starvation by one that fails for ever).
