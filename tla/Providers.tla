----------------------------- MODULE Providers -----------------------------
(***************************************************************************)
(* What Reconcile asks of the three providers, for one Node whose          *)
(* NodeConfigs and variants ConfigMaps change meanwhile, and what becomes  *)
(* of the answers: which NodeConfig is used, what is checked of it, which  *)
(* NADs and which Pod it makes, which revision that Pod has, and whether   *)
(* it can take the place of the one that runs.                             *)
(***************************************************************************)
EXTENDS Naturals, Sequences, SequencesExt

CONSTANTS
    Crs,          \* Nodes: name, namespace, provider, NodeConfig reference
    Namespaces,
    PodNamespace, \* POD_NAMESPACE, where the operator itself runs
    Names,        \* names of NodeConfigs and Nodes
    Specs,        \* contents of NodeConfigs
    Models,       \* keys of a variants ConfigMap
    DefaultModel, \* a provider's variant when the NodeConfig names none
    None,
    MaxEdits      \* bound: what users change, and calls for the Pod that fail

Providers == {"srlinux", "sros", "xserver"}

ASSUME NamesAssumption ==
    /\ "default" \in Names
    /\ None \notin Names
    /\ IsFiniteSet(Names)
ASSUME NamespaceAssumption == PodNamespace \in Namespaces
ASSUME ModelsAssumption == DefaultModel \in [Providers -> Models]
ASSUME NodesAssumption ==
    Crs \subseteq [name : Names, namespace : Namespaces, provider : Providers,
                   ref : Names \cup {None}]
ASSUME EditsAssumption == MaxEdits \in Nat
ASSUME SpecsAssumption ==
    \A c \in Specs : c.volumes \in Seq([name : STRING, path : STRING])

VARIABLES
    cr,       \* the Node; its name and its spec stay as they are
    configs,  \* API server: the NodeConfig of each namespace and name, or None
    variants, \* API server: keys of the provider's variants ConfigMap, or None
    pc,
    nc,       \* the NodeConfig in use
    pod,      \* the Pod last made
    podConfig, \* the NodeConfig it was made from, or None
    nadOn,    \* ENABLE_NAD = "true" in the operator's environment
    nads,     \* API server: the NADs the Node owns
    running,  \* API server: the Node's Pod, or NoPod
    switched, \* history: nadOn has changed since that Pod was created
    edits

users == <<configs, variants>>
made == <<pod, podConfig>>
stored == <<nads, running, switched>>
vars == <<cr, users, pc, nc, made, nadOn, stored, edits>>

\* Spec fields of a NodeConfig; persistent volumes have a name and a path.
EmptyConfig == [provider |-> None, image |-> None, resources |-> None,
                model |-> None, license |-> None, volumes |-> <<>>]

ASSUME NoneAssumption ==
    /\ None \notin Specs \cup {EmptyConfig}
    /\ None # {}
    /\ \A n \in Names : None # {<<n, "e1-1">>, <<n, "e1-2">>}

\* &corev1.Pod{}: no name, no container, no annotation.
NoPod == [name |-> None, spec |-> None, hash |-> None, networks |-> None]

\* Getters of the inventory API, which are given a default.
GetModel(c) == IF c.model = None THEN DefaultModel[cr.provider] ELSE c.model
GetImage(c) == IF c.image = None THEN "default" ELSE c.image
GetResourceRequirements(c) == IF c.resources = None THEN "default" ELSE c.resources

Init ==
    /\ cr \in Crs
    /\ configs = [s \in Namespaces |-> [n \in Names |-> None]]
    /\ variants \in [Namespaces -> {None, Models}]
    /\ pc = "resolve"
    /\ nc = None
    /\ pod = NoPod
    /\ podConfig = None
    /\ nadOn \in BOOLEAN
    /\ nads = {}
    /\ running = NoPod
    /\ switched = FALSE
    /\ edits = 0

-----------------------------------------------------------------------------
(* Users.                                                                   *)

\* Something of which the model has only so much.
Counted == edits < MaxEdits /\ edits' = edits + 1

EditNodeConfig(s, n, c) ==
    /\ Counted
    /\ c # configs[s][n]
    /\ configs' = [configs EXCEPT ![s][n] = c]
    /\ UNCHANGED <<cr, variants, pc, nc, made, nadOn, stored>>

EditVariants(s, keys) ==
    /\ Counted
    /\ keys # variants[s]
    /\ variants' = [variants EXCEPT ![s] = keys]
    /\ UNCHANGED <<cr, configs, pc, nc, made, nadOn, stored>>

\* The operator is deployed anew with the other value of ENABLE_NAD.
SwitchNad ==
    /\ Counted
    /\ nadOn' = ~nadOn
    /\ switched' = TRUE
    /\ pc' = "resolve"
    /\ nc' = None
    /\ UNCHANGED <<cr, users, made, nads, running>>

-----------------------------------------------------------------------------
(* GetNodeConfig.                                                           *)

\* client.InNamespace of the List call.
SrlinuxListNamespace == PodNamespace
SrosListNamespace == PodNamespace
ServerListNamespace == cr.namespace

ListNamespace ==
    CASE cr.provider = "srlinux" -> SrlinuxListNamespace
      [] cr.provider = "sros" -> SrosListNamespace
      [] cr.provider = "xserver" -> ServerListNamespace

\* The first item of that name and of the Node's provider.
FirstNamed(items, name) ==
    SelectInSeq(items, LAMBDA n :
        n = name /\ configs[ListNamespace][n].provider = cr.provider)

\* Mutant: one loop for both names.
getNodeConfigInOnePass(items) ==
    LET k == SelectInSeq(items, LAMBDA n :
                 /\ n \in {cr.name, "default"}
                 /\ configs[ListNamespace][n].provider = cr.provider)
    IN  IF k = 0 THEN EmptyConfig ELSE configs[ListNamespace][items[k]]

\* Two loops over the list, in whatever order the cache returns it.
getNodeConfig(items) ==
    LET exact == FirstNamed(items, cr.name)
        default == FirstNamed(items, "default")
    IN  IF exact # 0 THEN configs[ListNamespace][items[exact]]
        ELSE IF default # 0 THEN configs[ListNamespace][items[default]]
        ELSE EmptyConfig

Listed == {n \in Names : configs[ListNamespace][n] # None}

\* Reconcile gives up; a later one starts anew.
Fail == pc' = "resolve" /\ nc' = None

\* Mutant: the error of the Get is not looked at.
ResolveConfigUnchecked ==
    /\ pc = "resolve"
    /\ \/ /\ cr.ref = None
          /\ \E items \in SetToSeqs(Listed) : nc' = getNodeConfig(items)
       \/ /\ cr.ref # None
          /\ nc' = configs[PodNamespace][cr.ref]
    /\ pc' = "variants"
    /\ UNCHANGED <<cr, users, made, nadOn, stored, edits>>

ResolveConfig ==
    /\ pc = "resolve"
    /\ \/ /\ cr.ref = None
          /\ \E items \in SetToSeqs(Listed) : nc' = getNodeConfig(items)
          /\ pc' = "variants"
       \/ /\ cr.ref # None
          /\ configs[PodNamespace][cr.ref] # None
          /\ nc' = configs[PodNamespace][cr.ref]
          /\ pc' = "variants"
       \/ /\ cr.ref # None
          /\ configs[PodNamespace][cr.ref] = None
          /\ Fail
    /\ UNCHANGED <<cr, users, made, nadOn, stored, edits>>

\* Mutant: the variants are those of the operator's namespace.
OperatorsVariants == variants[PodNamespace]

SrlinuxVariants == variants[cr.namespace]
ServerVariants == variants[PodNamespace]

Offered(keys) == keys # None /\ GetModel(nc) \in keys

checkVariants ==
    CASE cr.provider = "srlinux" -> Offered(SrlinuxVariants)
      [] cr.provider = "sros" -> TRUE
      [] cr.provider = "xserver" -> Offered(ServerVariants)

CheckVariants ==
    /\ pc = "variants"
    /\ IF checkVariants THEN pc' = "nads" /\ UNCHANGED nc ELSE Fail
    /\ UNCHANGED <<cr, users, made, nadOn, stored, edits>>

-----------------------------------------------------------------------------
(* GetNetworkAttachmentDefinitions and APIApply.                            *)

\* The CNI plugins of a NAD, and its configuration.
WirePlugin(interface) == [type |-> "wire", interfaceName |-> interface]
GetNadConfig(plugins) == [cniVersion |-> "0.3.1", plugins |-> plugins]

\* A NAD, named <Node>-<interface>.
Nad(interface) == [name |-> <<cr.name, interface>>,
                   config |-> GetNadConfig(<<WirePlugin(interface)>>)]

SrlinuxNads == {Nad("e1-1"), Nad("e1-2")}
SrosNads == {}
ServerNads == {}

GetNetworkAttachmentDefinitions ==
    CASE cr.provider = "srlinux" -> SrlinuxNads
      [] cr.provider = "sros" -> SrosNads
      [] cr.provider = "xserver" -> ServerNads

\* Those added with AddNewResource: APIApply deletes the others the Node owns.
NewNads == IF nadOn THEN GetNetworkAttachmentDefinitions ELSE {}

\* It may come any part of the way, and then Reconcile gives up.
APIApply ==
    /\ pc = "nads"
    /\ \/ nads' = NewNads /\ pc' = "build" /\ UNCHANGED nc
       \/ /\ nads' \in SUBSET (nads \cup NewNads)
          /\ nads \cap NewNads \subseteq nads'
          /\ Fail
    /\ UNCHANGED <<cr, users, made, nadOn, running, switched, edits>>

-----------------------------------------------------------------------------
(* GetPodSpec.                                                              *)

\* A volume: its name, the object it is taken from, and the key in it.
Volume(name, object, key) == [name |-> name, object |-> object, key |-> key]
ConfigMap(name) == <<"configMap", name>>
Secret(name) == <<"secret", name>>

SrlinuxLicenseVolume(c) == Volume("license", Secret("licenses.srl.nokia.com"), c.license)
SrosLicenseVolume(c) == Volume("license", Secret("licenses.sros.nokia.com"), c.license)
HugePagesVolume == Volume("hugepages", <<"emptyDir", "HugePages">>, None)
PersistentVolume(name) == Volume(name, <<"pvc", name>>, None)

\* The optional last element of a list.
OnlyIf(condition, element) == IF condition THEN <<element>> ELSE <<>>

\* Mutant: the model of the NodeConfig is not looked at.
SrlinuxVolumesOfDefault(c) ==
    <<Volume("variants", ConfigMap("srlinux.nokia.com-variants"), DefaultModel["srlinux"]),
      Volume("topomac-script", ConfigMap("srlinux.nokia.com-topomac-script"), None),
      Volume("k8s-entrypoint", ConfigMap("srlinux.nokia.com-k8s-entrypoint"), None)>>
    \o OnlyIf(c.license # None, SrlinuxLicenseVolume(c))

SrlinuxVolumes(c) ==
    <<Volume("variants", ConfigMap("srlinux.nokia.com-variants"), GetModel(c)),
      Volume("topomac-script", ConfigMap("srlinux.nokia.com-topomac-script"), None),
      Volume("k8s-entrypoint", ConfigMap("srlinux.nokia.com-k8s-entrypoint"), None)>>
    \o OnlyIf(c.license # None, SrlinuxLicenseVolume(c))

SrosVolumes(c) ==
    <<HugePagesVolume>>
    \o [k \in DOMAIN c.volumes |-> PersistentVolume(c.volumes[k].name)]
    \o OnlyIf(c.license # None, SrosLicenseVolume(c))

\* A volume mount: the volume's name, and where.
Mount(name, path) == [name |-> name, path |-> path]

SrlinuxVolumeMounts(c) ==
    <<Mount("variants", "/tmp/topo"), Mount("topomac-script", "/tmp/topomac"),
      Mount("k8s-entrypoint", "/k8s-entrypoint.sh")>>
    \o OnlyIf(c.license # None, Mount("license", "/opt/srlinux/etc/license.key"))

PersistentVolumeMounts(c) ==
    [k \in DOMAIN c.volumes |-> Mount(c.volumes[k].name, c.volumes[k].path)]

\* Mutant: the license is always mounted.
SrosVolumeMountsLicensed(c) ==
    <<Mount("hugepages", "/dev/hugepages")>> \o PersistentVolumeMounts(c)
    \o <<Mount("license", "/nokia/license/")>>

SrosVolumeMounts(c) ==
    <<Mount("hugepages", "/dev/hugepages")>> \o PersistentVolumeMounts(c)
    \o OnlyIf(c.license # None, Mount("license", "/nokia/license/"))

\* Of the one container, what differs from one NodeConfig to another.
Container(c, mounts) ==
    [image |-> GetImage(c), resources |-> GetResourceRequirements(c),
     mounts |-> mounts]

SrlinuxContainers(c) == Container(c, SrlinuxVolumeMounts(c))
SrosContainers(c) == Container(c, SrosVolumeMounts(c))

\* Which Pods the Pod keeps off: those with this value of this label.
SrlinuxAffinity == <<"NephioTopologyKey", cr.namespace>>
SrosAffinity == <<"topo", cr.namespace>>

SrlinuxSpec(c) == [container |-> SrlinuxContainers(c), affinity |-> SrlinuxAffinity,
                   volumes |-> SrlinuxVolumes(c)]

SrosSpec(c) == [container |-> SrosContainers(c), affinity |-> SrosAffinity,
                volumes |-> SrosVolumes(c)]

\* Mutant: the container is not hashed.
getHashOfVolumes(spec) == <<"sha256", spec.volumes>>

\* SHA-256 of the JSON of the spec: as good as the spec.
getHash(spec) == <<"sha256", spec>>

\* The annotation lists NADs by name.
GetNadAnnotation(list) == {n.name : n \in list}

\* Mutant: the annotation does not depend on ENABLE_NAD.
NetworksAlways == GetNadAnnotation(GetNetworkAttachmentDefinitions)

Networks == IF nadOn THEN GetNadAnnotation(GetNetworkAttachmentDefinitions)
            ELSE None

SrlinuxPod(c) ==
    [name |-> cr.name, spec |-> SrlinuxSpec(c), hash |-> getHash(SrlinuxSpec(c)),
     networks |-> Networks]

SrosPod(c) ==
    [name |-> cr.name, spec |-> SrosSpec(c), hash |-> getHash(SrosSpec(c)),
     networks |-> Networks]

ServerPod == NoPod

GetPodSpec ==
    /\ pc = "build"
    /\ pod' = CASE cr.provider = "srlinux" -> SrlinuxPod(nc)
                [] cr.provider = "sros" -> SrosPod(nc)
                [] cr.provider = "xserver" -> ServerPod
    /\ podConfig' = nc
    /\ pc' = "deploy"
    /\ nc' = None
    /\ UNCHANGED <<cr, users, nadOn, stored, edits>>

-----------------------------------------------------------------------------
(* handlePodUpdate.                                                         *)

NamesOf(s) == [k \in DOMAIN s |-> s[k].name]
PathsOf(s) == [k \in DOMAIN s |-> s[k].path]

\* The API server takes no Pod without a name, with two volumes of one name,
\* two mounts at one path, or a mount of no volume.
Creatable(p) ==
    /\ p.name # None
    /\ IsInjective(NamesOf(p.spec.volumes))
    /\ IsInjective(PathsOf(p.spec.container.mounts))
    /\ ToSet(NamesOf(p.spec.container.mounts)) \subseteq ToSet(NamesOf(p.spec.volumes))

Keeps(existing) == existing # NoPod /\ existing.hash = pod.hash

\* A Pod of another revision is deleted before the new one is tried, and a call
\* may fail before or after that.
handlePodUpdate ==
    /\ pc = "deploy"
    /\ \/ /\ Keeps(running)
          /\ UNCHANGED <<running, switched, edits>>
       \/ /\ ~Keeps(running)
          /\ running' = IF Creatable(pod) THEN pod ELSE NoPod
          /\ switched' = FALSE
          /\ UNCHANGED edits
       \/ /\ Counted
          /\ running' \in IF Keeps(running) THEN {running} ELSE {running, NoPod}
          /\ UNCHANGED switched
    /\ pc' = "resolve"
    /\ UNCHANGED <<cr, users, nc, made, nadOn, nads>>

-----------------------------------------------------------------------------
Users ==
    \/ \E s \in Namespaces, n \in Names, c \in Specs \cup {None} :
           EditNodeConfig(s, n, c)
    \/ \E s \in Namespaces, keys \in (SUBSET Models) \cup {None} :
           EditVariants(s, keys)
    \/ SwitchNad

Next ==
    \/ ResolveConfig
    \/ CheckVariants
    \/ APIApply
    \/ GetPodSpec
    \/ handlePodUpdate
    \/ Users

Spec == Init /\ [][Next]_vars

-----------------------------------------------------------------------------
(* Properties.                                                              *)

Configs == Specs \cup {EmptyConfig}

\* Types: a Pod is only ever made of a NodeConfig there was, or the empty one.
TypeOK ==
    /\ cr \in Crs
    /\ configs \in [Namespaces -> [Names -> Specs \cup {None}]]
    /\ variants \in [Namespaces -> (SUBSET Models) \cup {None}]
    /\ pc \in {"resolve", "variants", "nads", "build", "deploy"}
    /\ nc \in IF pc \in {"resolve", "deploy"} THEN {None} ELSE Configs
    /\ podConfig \in Configs \cup {None}
    /\ podConfig = None => pod = NoPod /\ pc # "deploy"
    /\ {nadOn, switched} \subseteq BOOLEAN
    /\ nads \subseteq GetNetworkAttachmentDefinitions
    /\ edits \in 0..MaxEdits

\* Which NodeConfigs may be used for the Node, by how well they fit: rank 1 is
\* the one it names, 2 the one of its own name, 3 "default".
Fits(rank, s, n) ==
    /\ configs[s][n] # None
    /\ CASE rank = 1 -> s = PodNamespace /\ n = cr.ref
         [] rank = 2 -> /\ s = ListNamespace
                        /\ n = cr.name
                        /\ configs[s][n].provider = cr.provider
         [] rank = 3 -> /\ s = ListNamespace
                        /\ n = "default"
                        /\ configs[s][n].provider = cr.provider

\* The NodeConfig that fits best is used, in whatever order they are listed: a
\* Node that names one never falls back to another, and one that names none
\* never uses another provider's.
BestConfig ==
    [][pc = "resolve" /\ pc' = "variants" =>
         \/ \E rank \in 1..3, s \in Namespaces, n \in Names :
              /\ Fits(rank, s, n)
              /\ nc' = configs[s][n]
              /\ \A better \in 1..(rank - 1), t \in Namespaces, m \in Names :
                     ~Fits(better, t, m)
              /\ cr.ref # None => rank = 1
         \/ /\ nc' = EmptyConfig
            /\ cr.ref = None
            /\ ~\E rank \in 2..3, s \in Namespaces, n \in Names : Fits(rank, s, n)]_vars

\* The variant an SR Linux Pod will mount was, when it was checked, in the
\* ConfigMap of the Pod's own namespace: a Pod can mount no other.
MountsCheckedVariant ==
    [][pc = "variants" /\ pc' = "nads" /\ cr.provider = "srlinux" =>
         \A v \in ToSet(SrlinuxVolumes(nc)) :
             v.object = ConfigMap("srlinux.nokia.com-variants") =>
                 variants[cr.namespace] # None /\ v.key \in variants[cr.namespace]]_vars

\* Every mount is of a volume the Pod has: two functions decide it apart.
MountsHaveVolumes ==
    pod # NoPod =>
        \A m \in ToSet(pod.spec.container.mounts) :
            \E v \in ToSet(pod.spec.volumes) : v.name = m.name

\* The persistent volumes keep off each other and what the provider adds.
WellNamed(c) ==
    /\ IsInjective(NamesOf(c.volumes))
    /\ IsInjective(PathsOf(c.volumes))
    /\ {"hugepages", "license"} \cap ToSet(NamesOf(c.volumes)) = {}
    /\ {"/dev/hugepages", "/nokia/license/"} \cap ToSet(PathsOf(c.volumes)) = {}

\* A run that comes to the Pod, and whose calls are answered, leaves one of the
\* spec it made, replaced or not; only a NodeConfig with badly named volumes
\* can cost the Node its Pod.
RunLeavesItsPod ==
    [][pc = "deploy" /\ pc' = "resolve" /\ edits' = edits
       /\ cr.provider \in {"srlinux", "sros"} /\ WellNamed(podConfig) =>
         running' # NoPod /\ running'.spec = pod.spec]_vars

\* The networks the Pod is attached to are those ENABLE_NAD asks for, and their
\* NADs exist, whichever calls failed on the way.  The annotation is no part of
\* the hash: it is out of date once ENABLE_NAD has been switched.
NetworksExist ==
    running # NoPod /\ ~switched =>
        /\ running.networks = None <=> ~nadOn
        /\ nadOn => running.networks \subseteq GetNadAnnotation(nads)

\* What of a NodeConfig an SR Linux or an SR OS Pod depends on.
Relevant(c) ==
    CASE cr.provider = "srlinux" -> <<GetImage(c), GetResourceRequirements(c), c.license, GetModel(c)>>
      [] cr.provider = "sros" -> <<GetImage(c), GetResourceRequirements(c), c.license, c.volumes>>
      [] cr.provider = "xserver" -> <<>>

\* From one Pod to the next the revision changes when, and only when, what the
\* Pod depends on does: no change is missed, and no Pod replaced for nothing.
RevisionTracksConfig ==
    [][podConfig # None /\ podConfig' # None =>
         (pod'.hash # pod.hash <=> Relevant(podConfig') # Relevant(podConfig))]_vars

-----------------------------------------------------------------------------
(* The inductive invariant behind them.                                     *)

\* The Pod is what the provider makes of the NodeConfig on record.
PodAsMade ==
    IF podConfig = None \/ cr.provider = "xserver" THEN pod = NoPod
    ELSE /\ pod.name = cr.name
         /\ pod.spec = IF cr.provider = "srlinux" THEN SrlinuxSpec(podConfig)
                                                  ELSE SrosSpec(podConfig)
         /\ pod.hash = getHash(pod.spec)

\* The running Pod was made like that once, from whatever NodeConfig.
RunningAsMade == running # NoPod => running.hash = getHash(running.spec)

\* On its way to the Pod, a run has left the NADs the Pod's annotation lists.
NadsAsApplied ==
    /\ pc \in {"build", "deploy"} => nads = NewNads
    /\ pc = "deploy" /\ pod # NoPod => pod.networks = Networks

IInv ==
    /\ TypeOK
    /\ PodAsMade
    /\ RunningAsMade
    /\ NadsAsApplied
    /\ NetworksExist

-----------------------------------------------------------------------------
(* What the repository's comments claim.                                    *)

\* "we list all nodeConfigs in the cr namespace" (srlinux.go, sros.go): a Node
\* that names no NodeConfig gets none of another namespace.
ListsOwnNamespace ==
    [][pc = "resolve" /\ pc' = "variants" /\ cr.ref = None =>
         nc' \in {EmptyConfig} \cup {configs[cr.namespace][n] : n \in Names}]_vars

=============================================================================
