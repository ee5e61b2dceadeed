--------------------------- MODULE ProvidersProofs ---------------------------
(***************************************************************************)
(* Theorems about module Providers, for any Nodes, NodeConfigs, variants   *)
(* and number of edits.                                                    *)
(***************************************************************************)
EXTENDS Providers, TLAPS, SequenceTheorems, FiniteSetTheorems, WellFoundedInduction

(***************************************************************************)
(* NADs and the annotation that lists them.                                *)
(***************************************************************************)

LEMMA CrFields ==
    ASSUME cr \in Crs
    PROVE  /\ cr.name \in Names
           /\ cr.namespace \in Namespaces
           /\ cr.provider \in Providers
           /\ cr.ref \in Names \cup {None}
BY NodesAssumption

\* A longer list of NADs makes an annotation with more names.
LEMMA AnnotationMonotonic ==
    ASSUME NEW S, NEW T, S \subseteq T
    PROVE  GetNadAnnotation(S) \subseteq GetNadAnnotation(T)
BY DEF GetNadAnnotation

\* No annotation is mistaken for its absence.
LEMMA AnnotationIsThere ==
    ASSUME cr \in Crs
    PROVE  GetNadAnnotation(GetNetworkAttachmentDefinitions) # None
<1>1. CASE cr.provider = "srlinux"
  <2>1. GetNetworkAttachmentDefinitions = {Nad("e1-1"), Nad("e1-2")}
    BY <1>1 DEF GetNetworkAttachmentDefinitions, SrlinuxNads
  <2>2. /\ Nad("e1-1").name = <<cr.name, "e1-1">>
        /\ Nad("e1-2").name = <<cr.name, "e1-2">>
    BY DEF Nad
  <2>3. GetNadAnnotation({Nad("e1-1"), Nad("e1-2")})
          = {<<cr.name, "e1-1">>, <<cr.name, "e1-2">>}
    BY <2>2 DEF GetNadAnnotation
  <2> QED  BY <2>1, <2>3, CrFields, NoneAssumption
<1>2. CASE cr.provider # "srlinux"
  <2>1. GetNetworkAttachmentDefinitions = {}
    BY <1>2, CrFields DEF Providers, GetNetworkAttachmentDefinitions, SrosNads,
                          ServerNads
  <2>2. GetNadAnnotation({}) = {}
    BY DEF GetNadAnnotation
  <2> QED  BY <2>1, <2>2, NoneAssumption
<1> QED  BY <1>1, <1>2

LEMMA NetworksFollowNadOn ==
    ASSUME cr \in Crs, nadOn \in BOOLEAN
    PROVE  /\ Networks = None <=> ~nadOn
           /\ nadOn => Networks = GetNadAnnotation(NewNads)
BY AnnotationIsThere DEF Networks, NewNads

(***************************************************************************)
(* Type correctness and the inductive invariant.                           *)
(***************************************************************************)

LEMMA InitInv == Init => IInv
<1> SUFFICES ASSUME Init PROVE IInv
  OBVIOUS
<1>1. TypeOK
  <2>1. /\ cr \in Crs
        /\ configs \in [Namespaces -> [Names -> Specs \cup {None}]]
    BY DEF Init
  <2>2. variants \in [Namespaces -> (SUBSET Models) \cup {None}]
    BY DEF Init
  <2>3. /\ pc \in {"resolve", "variants", "nads", "build", "deploy"}
        /\ nc \in IF pc \in {"resolve", "deploy"} THEN {None} ELSE Configs
    BY DEF Init
  <2>4. /\ podConfig \in Configs \cup {None}
        /\ podConfig = None => pod = NoPod /\ pc # "deploy"
    BY DEF Init
  <2>5. /\ {nadOn, switched} \subseteq BOOLEAN
        /\ nads \subseteq GetNetworkAttachmentDefinitions
    BY DEF Init
  <2>6. edits \in 0..MaxEdits
    BY EditsAssumption DEF Init
  <2> QED  BY <2>1, <2>2, <2>3, <2>4, <2>5, <2>6 DEF TypeOK
<1>2. /\ PodAsMade
      /\ RunningAsMade
      /\ NadsAsApplied
      /\ NetworksExist
  BY DEF Init, PodAsMade, RunningAsMade, NadsAsApplied, NetworksExist
<1> QED  BY <1>1, <1>2 DEF IInv

\* What a provider makes of a NodeConfig depends on the Node alone.
LEMMA NadsOfNode ==
    ASSUME cr' = cr
    PROVE  /\ GetNetworkAttachmentDefinitions' = GetNetworkAttachmentDefinitions
           /\ nadOn' = nadOn => NewNads' = NewNads /\ Networks' = Networks
<1>1. GetNetworkAttachmentDefinitions' = GetNetworkAttachmentDefinitions
  <2>1. SrlinuxNads' = SrlinuxNads
    BY DEF SrlinuxNads, Nad
  <2> QED  BY <2>1 DEF GetNetworkAttachmentDefinitions, SrosNads, ServerNads
<1>2. nadOn' = nadOn => NewNads' = NewNads
  BY <1>1 DEF NewNads
<1>3. nadOn' = nadOn => Networks' = Networks
  BY <1>1 DEF Networks, GetNadAnnotation
<1> QED  BY <1>1, <1>2, <1>3

LEMMA PodAsMadeStays ==
    ASSUME PodAsMade, UNCHANGED <<cr, made>>
    PROVE  PodAsMade'
BY DEF PodAsMade, made, SrlinuxSpec, SrlinuxContainers, SrlinuxAffinity,
       SrosSpec, SrosContainers, SrosAffinity, Container, SrlinuxVolumes,
       SrlinuxVolumeMounts, SrosVolumes, SrosVolumeMounts, PersistentVolumeMounts,
       GetModel, getHash

\* Edits of NodeConfigs and variants, which the invariant says nothing of.
LEMMA EditKeeps ==
    ASSUME IInv,
           configs' \in [Namespaces -> [Names -> Specs \cup {None}]],
           variants' \in [Namespaces -> (SUBSET Models) \cup {None}],
           Counted, UNCHANGED <<cr, pc, nc, made, nadOn, stored>>
    PROVE  IInv'
<1>1. /\ cr' = cr /\ pc' = pc /\ nc' = nc /\ pod' = pod
      /\ podConfig' = podConfig /\ nadOn' = nadOn /\ nads' = nads
      /\ running' = running /\ switched' = switched
  BY DEF made, stored
<1>2. edits' \in 0..MaxEdits
  BY EditsAssumption DEF Counted, IInv, TypeOK
<1>3. TypeOK'
  BY <1>1, <1>2, NadsOfNode DEF IInv, TypeOK, Configs
<1>4. PodAsMade'
  BY PodAsMadeStays DEF IInv
<1>5. RunningAsMade'
  BY <1>1 DEF IInv, RunningAsMade, getHash
<1>6. NadsAsApplied' /\ NetworksExist'
  BY <1>1, NadsOfNode DEF IInv, NadsAsApplied, NetworksExist, GetNadAnnotation
<1> QED  BY <1>3, <1>4, <1>5, <1>6 DEF IInv

LEMMA SwitchNadKeeps ==
    ASSUME IInv, SwitchNad
    PROVE  IInv'
<1>1. /\ cr' = cr /\ pc' = "resolve" /\ nc' = None /\ pod' = pod
      /\ podConfig' = podConfig /\ nadOn' = ~nadOn /\ nads' = nads
      /\ running' = running /\ switched' = TRUE
      /\ configs' = configs /\ variants' = variants
  BY DEF SwitchNad, made, users
<1>2. edits' \in 0..MaxEdits
  BY EditsAssumption DEF SwitchNad, Counted, IInv, TypeOK
<1>3. TypeOK'
  BY <1>1, <1>2, NadsOfNode DEF IInv, TypeOK, Configs
<1>4. PodAsMade'
  BY PodAsMadeStays DEF IInv, SwitchNad
<1>5. RunningAsMade'
  BY <1>1 DEF IInv, RunningAsMade, getHash
<1>6. NadsAsApplied' /\ NetworksExist'
  BY <1>1 DEF NadsAsApplied, NetworksExist
<1> QED  BY <1>3, <1>4, <1>5, <1>6 DEF IInv

\* A run that reads, or gives up: the Pods and the edits are left alone.
LEMMA ReadKeeps ==
    ASSUME IInv, UNCHANGED <<cr, users, made, nadOn, stored, edits>>,
           pc' \in {"resolve", "variants", "nads"},
           nc' \in IF pc' = "resolve" THEN {None} ELSE Configs
    PROVE  IInv'
<1>1. /\ cr' = cr /\ pod' = pod
      /\ podConfig' = podConfig /\ nadOn' = nadOn /\ nads' = nads
      /\ running' = running /\ switched' = switched /\ edits' = edits
      /\ configs' = configs /\ variants' = variants
  BY DEF made, stored, users
<1>3. TypeOK'
  BY <1>1, NadsOfNode DEF IInv, TypeOK, Configs
<1>4. PodAsMade'
  BY PodAsMadeStays DEF IInv
<1>5. RunningAsMade'
  BY <1>1 DEF IInv, RunningAsMade, getHash
<1>6. NadsAsApplied' /\ NetworksExist'
  BY <1>1, NadsOfNode DEF IInv, NadsAsApplied, NetworksExist, GetNadAnnotation
<1> QED  BY <1>3, <1>4, <1>5, <1>6 DEF IInv

(***************************************************************************)
(* GetNodeConfig.  The first match in a list is a match, and is found if   *)
(* there is one.                                                           *)
(***************************************************************************)

LEMMA MinIsThere ==
    ASSUME NEW S \in SUBSET Nat, S # {}
    PROVE  Min(S) \in S
<1>1. PICK x \in S : \A y \in S : <<y, x>> \notin OpToRel(<, Nat)
  BY NatLessThanWellFounded, WFMin
<1>2. \A y \in S : ~(y < x)
  BY <1>1, Zenon DEF OpToRel
<1>3. \A y \in S : x =< y
  BY <1>2
<1> QED  BY <1>3 DEF Min

LEMMA FirstNamedMatches ==
    ASSUME NEW items \in Seq(Names), NEW name
    PROVE  LET k == FirstNamed(items, name)
               Match(i) == /\ items[i] = name
                           /\ configs[ListNamespace][items[i]].provider = cr.provider
           IN  /\ k # 0 => k \in 1..Len(items) /\ Match(k)
               /\ k = 0 => \A i \in 1..Len(items) : ~Match(i)
<1> DEFINE I == {i \in 1..Len(items) :
                   /\ items[i] = name
                   /\ configs[ListNamespace][items[i]].provider = cr.provider}
<1>1. FirstNamed(items, name) = IF I # {} THEN Min(I) ELSE 0
  BY DEF FirstNamed, SelectInSeq
<1>2. I \in SUBSET Nat
  BY LenProperties
<1>3. I # {} => Min(I) \in I
  BY <1>2, MinIsThere
<1>4. \A i \in I : i # 0
  OBVIOUS
<1> QED  BY <1>1, <1>3, <1>4

\* A list of a finite set lists all of it.
LEMMA ListsAll ==
    ASSUME NEW S, S \subseteq Names, NEW items \in SetToSeqs(S)
    PROVE  /\ items \in Seq(Names)
           /\ \A i \in 1..Len(items) : items[i] \in S
           /\ \A n \in S : \E i \in 1..Len(items) : items[i] = n
<1>1. IsFiniteSet(S) /\ Cardinality(S) \in Nat
  BY NamesAssumption, FS_Subset, FS_CardinalityType
<1> DEFINE D == 1..Cardinality(S)
<1>2. /\ items \in [D -> S]
      /\ \A i, j \in D : i # j => items[i] # items[j]
  BY DEF SetToSeqs
<1>3. items \in Injection(D, S)
  BY <1>2 DEF Injection, IsInjective
<1>4. IsFiniteSet(D) /\ Cardinality(D) = Cardinality(S)
  BY <1>1, FS_Interval
<1>5. items \in Surjection(D, S)
  BY <1>1, <1>3, <1>4, FS_Injection
<1>6. items \in Seq(Names) /\ Len(items) = Cardinality(S)
  BY <1>1, <1>2
<1> QED  BY <1>2, <1>5, <1>6 DEF Surjection

LEMMA ListedNames ==
    ASSUME TypeOK
    PROVE  /\ ListNamespace \in Namespaces
           /\ Listed \subseteq Names
           /\ \A n \in Listed : configs[ListNamespace][n] \in Specs
BY CrFields, NamespaceAssumption
   DEF TypeOK, Listed, ListNamespace, SrlinuxListNamespace, SrosListNamespace,
       ServerListNamespace, Providers

\* Of the listed NodeConfigs the provider's own, by the Node's name or else
\* "default".
LEMMA NodeConfigFound ==
    ASSUME TypeOK, NEW items \in SetToSeqs(Listed)
    PROVE  LET Own(n) == n \in Listed /\ configs[ListNamespace][n].provider = cr.provider
           IN  \/ Own(cr.name) /\ getNodeConfig(items) = configs[ListNamespace][cr.name]
               \/ /\ ~Own(cr.name)
                  /\ Own("default")
                  /\ getNodeConfig(items) = configs[ListNamespace]["default"]
               \/ ~Own(cr.name) /\ ~Own("default") /\ getNodeConfig(items) = EmptyConfig
<1> DEFINE Own(n) == n \in Listed /\ configs[ListNamespace][n].provider = cr.provider
<1>1. /\ items \in Seq(Names)
      /\ \A i \in 1..Len(items) : items[i] \in Listed
      /\ \A n \in Listed : \E i \in 1..Len(items) : items[i] = n
  BY ListedNames, ListsAll
<1>2. ASSUME NEW name
      PROVE  /\ FirstNamed(items, name) # 0 =>
                  Own(name) /\ items[FirstNamed(items, name)] = name
             /\ FirstNamed(items, name) = 0 => ~Own(name)
  BY <1>1, FirstNamedMatches
<1> HIDE DEF Own
<1> QED  BY <1>2 DEF getNodeConfig, Own

(***************************************************************************)
(* The steps of a run.                                                     *)
(***************************************************************************)

LEMMA ResolveConfigKeeps ==
    ASSUME IInv, ResolveConfig
    PROVE  IInv'
<1>1. TypeOK
  BY DEF IInv
<1>2. nc' \in IF pc' = "resolve" THEN {None} ELSE Configs
  <2>1. CASE /\ cr.ref = None
             /\ \E items \in SetToSeqs(Listed) : nc' = getNodeConfig(items)
             /\ pc' = "variants"
    <3>1. PICK items \in SetToSeqs(Listed) : nc' = getNodeConfig(items)
      BY <2>1
    <3>2. getNodeConfig(items) \in Specs \cup {EmptyConfig}
      BY <1>1, NodeConfigFound, ListedNames
    <3> QED  BY <2>1, <3>1, <3>2 DEF Configs
  <2>2. CASE /\ cr.ref # None
             /\ configs[PodNamespace][cr.ref] # None
             /\ nc' = configs[PodNamespace][cr.ref]
             /\ pc' = "variants"
    BY <1>1, <2>2, CrFields, NamespaceAssumption DEF TypeOK, Configs
  <2>3. CASE Fail
    BY <2>3 DEF Fail
  <2> QED  BY <2>1, <2>2, <2>3 DEF ResolveConfig
<1>3. pc' \in {"resolve", "variants", "nads"}
  BY DEF ResolveConfig, Fail
<1> QED  BY <1>2, <1>3, ReadKeeps DEF ResolveConfig

LEMMA CheckVariantsKeeps ==
    ASSUME IInv, CheckVariants
    PROVE  IInv'
<1>1. /\ pc' \in {"resolve", "variants", "nads"}
      /\ nc' \in IF pc' = "resolve" THEN {None} ELSE Configs
  BY DEF CheckVariants, Fail, IInv, TypeOK
<1> QED  BY <1>1, ReadKeeps DEF CheckVariants

LEMMA APIApplyKeeps ==
    ASSUME IInv, APIApply
    PROVE  IInv'
<1>1. /\ cr' = cr /\ pod' = pod /\ podConfig' = podConfig /\ nadOn' = nadOn
      /\ running' = running /\ switched' = switched /\ edits' = edits
      /\ configs' = configs /\ variants' = variants
  BY DEF APIApply, made, users
<1>2. /\ nads' \subseteq GetNetworkAttachmentDefinitions
      /\ nadOn => nads \subseteq nads'
  BY DEF APIApply, IInv, TypeOK, NewNads
<1>3. TypeOK'
  BY <1>1, <1>2, NadsOfNode DEF APIApply, Fail, IInv, TypeOK, Configs
<1>4. PodAsMade'
  BY <1>1, PodAsMadeStays DEF IInv, made
<1>5. RunningAsMade'
  BY <1>1 DEF IInv, RunningAsMade, getHash
<1>6. NadsAsApplied'
  BY <1>1, NadsOfNode DEF APIApply, Fail, NadsAsApplied
<1>7. NetworksExist'
  BY <1>1, <1>2 DEF IInv, NetworksExist, GetNadAnnotation
<1> QED  BY <1>3, <1>4, <1>5, <1>6, <1>7 DEF IInv

LEMMA GetPodSpecKeeps ==
    ASSUME IInv, GetPodSpec
    PROVE  IInv'
<1>1. /\ cr' = cr /\ podConfig' = nc /\ nadOn' = nadOn /\ nads' = nads
      /\ running' = running /\ switched' = switched /\ edits' = edits
      /\ configs' = configs /\ variants' = variants
      /\ pc = "build" /\ pc' = "deploy" /\ nc' = None
  BY DEF GetPodSpec, users, stored
<1>2. nc \in Configs /\ nc # None
  BY <1>1, NoneAssumption DEF IInv, TypeOK, Configs
<1>3. TypeOK'
  BY <1>1, <1>2, NadsOfNode DEF IInv, TypeOK, Configs
<1>4. PodAsMade' /\ (pod' # NoPod => pod'.networks = Networks)
  <2>1. CASE cr.provider = "srlinux"
    <3>1. pod' = SrlinuxPod(nc)
      BY <2>1 DEF GetPodSpec
    <3>2. /\ pod'.name = cr.name
          /\ pod'.spec = SrlinuxSpec(nc)
          /\ pod'.hash = getHash(SrlinuxSpec(nc))
          /\ pod'.networks = Networks
      BY <3>1 DEF SrlinuxPod
    <3> QED  BY <1>1, <1>2, <2>1, <3>2
             DEF PodAsMade, SrlinuxSpec, SrlinuxContainers, SrlinuxAffinity,
                 Container, SrlinuxVolumes,
                 SrlinuxVolumeMounts, GetModel, getHash
  <2>2. CASE cr.provider = "sros"
    <3>1. pod' = SrosPod(nc)
      BY <2>2 DEF GetPodSpec
    <3>2. /\ pod'.name = cr.name
          /\ pod'.spec = SrosSpec(nc)
          /\ pod'.hash = getHash(SrosSpec(nc))
          /\ pod'.networks = Networks
      BY <3>1 DEF SrosPod
    <3> QED  BY <1>1, <1>2, <2>2, <3>2
             DEF PodAsMade, SrosSpec, SrosContainers, SrosAffinity, Container,
                 SrosVolumes,
                 SrosVolumeMounts, PersistentVolumeMounts, getHash
  <2>3. CASE cr.provider = "xserver"
    BY <1>1, <2>3 DEF GetPodSpec, ServerPod, PodAsMade
  <2> QED  BY <2>1, <2>2, <2>3, CrFields DEF Providers, IInv, TypeOK
<1>5. RunningAsMade'
  BY <1>1 DEF IInv, RunningAsMade, getHash
<1>6. NadsAsApplied'
  BY <1>1, <1>4, NadsOfNode DEF IInv, NadsAsApplied
<1>7. NetworksExist'
  BY <1>1 DEF IInv, NetworksExist, GetNadAnnotation
<1> QED  BY <1>3, <1>4, <1>5, <1>6, <1>7 DEF IInv

\* A Pod that was made has a name, and NoPod has none.
LEMMA PodIsMade ==
    ASSUME IInv, pod # NoPod
    PROVE  /\ podConfig \in Configs
           /\ cr.provider \in {"srlinux", "sros"}
           /\ pod.spec = IF cr.provider = "srlinux" THEN SrlinuxSpec(podConfig)
                                                    ELSE SrosSpec(podConfig)
           /\ pod.hash = getHash(pod.spec)
BY CrFields DEF IInv, TypeOK, PodAsMade, Providers

LEMMA handlePodUpdateKeeps ==
    ASSUME IInv, handlePodUpdate
    PROVE  IInv'
<1>1. /\ cr' = cr /\ pod' = pod /\ podConfig' = podConfig /\ nadOn' = nadOn
      /\ nads' = nads /\ nc' = nc
      /\ configs' = configs /\ variants' = variants
      /\ pc = "deploy" /\ pc' = "resolve"
      /\ edits' \in 0..MaxEdits
  BY EditsAssumption DEF handlePodUpdate, users, made, Counted, IInv, TypeOK
<1>2. \/ running' = running /\ switched' = switched
      \/ running' = NoPod /\ switched' \in {FALSE, switched}
      \/ /\ running' = pod /\ switched' = FALSE
         /\ pod # NoPod
         /\ pod.hash = getHash(pod.spec)
         /\ pod.networks = Networks
  BY <1>1, PodIsMade DEF handlePodUpdate, IInv, NadsAsApplied
<1>3. TypeOK'
  BY <1>1, <1>2, NadsOfNode DEF IInv, TypeOK, Configs
<1>4. PodAsMade'
  BY <1>1, PodAsMadeStays DEF IInv, made
<1>5. RunningAsMade'
  BY <1>2 DEF IInv, RunningAsMade, getHash
<1>6. NadsAsApplied'
  BY <1>1 DEF NadsAsApplied
<1>7. NetworksExist'
  <2>1. CASE running' = running /\ switched' = switched
    BY <1>1, <2>1 DEF IInv, NetworksExist, GetNadAnnotation
  <2>2. CASE running' = NoPod
    BY <2>2 DEF NetworksExist
  <2>3. CASE running' = pod /\ pod # NoPod /\ pod.networks = Networks
    <3>1. nads' = NewNads
      BY <1>1 DEF IInv, NadsAsApplied
    <3>2. cr \in Crs /\ nadOn \in BOOLEAN
      BY DEF IInv, TypeOK
    <3> QED  BY <1>1, <2>3, <3>1, <3>2, NetworksFollowNadOn
             DEF NetworksExist, GetNadAnnotation
  <2> QED  BY <1>2, <2>1, <2>2, <2>3
<1> QED  BY <1>3, <1>4, <1>5, <1>6, <1>7 DEF IInv

LEMMA StepKeeps == IInv /\ [Next]_vars => IInv'
<1> SUFFICES ASSUME IInv, [Next]_vars PROVE IInv'
  OBVIOUS
<1>1. CASE ResolveConfig
  BY <1>1, ResolveConfigKeeps
<1>2. CASE CheckVariants
  BY <1>2, CheckVariantsKeeps
<1>3. CASE APIApply
  BY <1>3, APIApplyKeeps
<1>4. CASE GetPodSpec
  BY <1>4, GetPodSpecKeeps
<1>5. CASE handlePodUpdate
  BY <1>5, handlePodUpdateKeeps
<1>6. ASSUME NEW s \in Namespaces, NEW n \in Names, NEW c \in Specs \cup {None},
             EditNodeConfig(s, n, c)
      PROVE  IInv'
  <2>1. /\ configs' \in [Namespaces -> [Names -> Specs \cup {None}]]
        /\ variants' \in [Namespaces -> (SUBSET Models) \cup {None}]
    BY <1>6 DEF EditNodeConfig, IInv, TypeOK
  <2> QED  BY <1>6, <2>1, EditKeeps DEF EditNodeConfig
<1>7. ASSUME NEW s \in Namespaces, NEW keys \in (SUBSET Models) \cup {None},
             EditVariants(s, keys)
      PROVE  IInv'
  <2>1. /\ configs' \in [Namespaces -> [Names -> Specs \cup {None}]]
        /\ variants' \in [Namespaces -> (SUBSET Models) \cup {None}]
    BY <1>7 DEF EditVariants, IInv, TypeOK
  <2> QED  BY <1>7, <2>1, EditKeeps DEF EditVariants
<1>8. CASE SwitchNad
  BY <1>8, SwitchNadKeeps
<1>9. CASE UNCHANGED vars
  <2>1. UNCHANGED <<cr, users, pc, nc, made, nadOn, stored, edits>>
    BY <1>9 DEF vars
  <2>2. /\ pod' = pod /\ podConfig' = podConfig /\ nads' = nads
        /\ running' = running /\ switched' = switched
        /\ configs' = configs /\ variants' = variants
    BY <2>1 DEF users, made, stored
  <2>3. TypeOK'
    BY <2>1, <2>2, NadsOfNode DEF IInv, TypeOK, Configs
  <2>4. PodAsMade' /\ RunningAsMade'
    BY <2>1, <2>2, PodAsMadeStays DEF IInv, RunningAsMade, getHash
  <2>5. NadsAsApplied' /\ NetworksExist'
    BY <2>1, <2>2, NadsOfNode DEF IInv, NadsAsApplied, NetworksExist, GetNadAnnotation
  <2> QED  BY <2>3, <2>4, <2>5 DEF IInv
<1> QED  BY <1>1, <1>2, <1>3, <1>4, <1>5, <1>6, <1>7, <1>8, <1>9 DEF Next, Users

\* The parts of the invariant hold at every step.
THEOREM Invariance == Spec => []IInv
BY InitInv, StepKeeps, PTL DEF Spec

\* Types: a Pod is only ever made of a NodeConfig there was, or the empty one.
THEOREM TypeCorrect == Spec => []TypeOK
BY Invariance, PTL DEF IInv

\* A running Pod is attached to the networks ENABLE_NAD asks for, and to NADs
\* that exist, as long as ENABLE_NAD was not switched under it.
THEOREM PodsFindTheirNads == Spec => []NetworksExist
BY Invariance, PTL DEF IInv

(***************************************************************************)
(* What the lists of volumes and mounts hold.                              *)
(***************************************************************************)

LEMMA ThreeAndMaybe ==
    ASSUME NEW a, NEW b, NEW d, NEW e, NEW x,
           NEW o, o = IF x # None THEN <<e>> ELSE <<>>
    PROVE  LET t == <<a, b, d>> \o o
           IN  /\ DOMAIN t = 1..(IF x # None THEN 4 ELSE 3)
               /\ t[1] = a /\ t[2] = b /\ t[3] = d
               /\ x # None => t[4] = e
<1> DEFINE S == {a, b, d, e}
<1> DEFINE t == <<a, b, d>> \o o
<1>1. <<a, b, d>> \in Seq(S) /\ Len(<<a, b, d>>) = 3
  OBVIOUS
<1>2. /\ o \in Seq(S)
      /\ Len(o) = IF x # None THEN 1 ELSE 0
      /\ x # None => o[1] = e
  <2>1. CASE x # None
    BY <2>1
  <2>2. CASE x = None
    BY <2>2, EmptySeq
  <2> QED  BY <2>1, <2>2
<1>3. /\ t \in Seq(S)
      /\ Len(t) = 3 + Len(o)
      /\ \A i \in 1..3 + Len(o) :
            t[i] = IF i <= 3 THEN <<a, b, d>>[i] ELSE o[i - 3]
  BY <1>1, <1>2, ConcatProperties
<1>4. DOMAIN t = 1..Len(t)
  BY <1>3, LenProperties
<1> HIDE DEF t
<1>5. t[1] = a /\ t[2] = b /\ t[3] = d /\ (x # None => t[4] = e)
  BY <1>2, <1>3
<1> QED  BY <1>2, <1>3, <1>4, <1>5 DEF t

LEMMA FunctionAsSequence ==
    ASSUME NEW n \in Nat, NEW s, DOMAIN s = 1..n, s = [k \in 1..n |-> s[k]],
           NEW S, \A k \in 1..n : s[k] \in S
    PROVE  s \in Seq(S) /\ Len(s) = n
<1>1. s \in [1..n -> S]
  OBVIOUS
<1> QED  BY <1>1

LEMMA OneManyAndMaybe ==
    ASSUME NEW S, NEW a \in S, NEW s \in Seq(S), NEW e \in S, NEW x,
           NEW o, o = IF x # None THEN <<e>> ELSE <<>>
    PROVE  LET n == Len(s)
               t == <<a>> \o s \o o
           IN  /\ DOMAIN t = 1..(IF x # None THEN n + 2 ELSE n + 1)
               /\ t[1] = a
               /\ \A k \in 1..n : t[k + 1] = s[k]
               /\ x # None => t[n + 2] = e
<1> DEFINE n == Len(s)
<1> DEFINE h == <<a>>
<1> DEFINE u == h \o s
<1> DEFINE t == u \o o
<1>1. n \in Nat
  BY LenProperties
<1>2. h \in Seq(S) /\ Len(h) = 1 /\ h[1] = a
  OBVIOUS
<1> HIDE DEF h
<1>3. /\ u \in Seq(S)
      /\ Len(u) = n + 1
      /\ \A i \in 1..1 + n : u[i] = IF i <= 1 THEN h[i] ELSE s[i - 1]
  <2>1. /\ h \o s \in Seq(S)
        /\ Len(h \o s) = Len(h) + Len(s)
        /\ \A i \in 1..Len(h) + Len(s) :
              (h \o s)[i] = IF i <= Len(h) THEN h[i] ELSE s[i - Len(h)]
    BY <1>2, ConcatProperties
  <2> QED  BY <1>1, <1>2, <2>1
<1>4. /\ o \in Seq(S)
      /\ Len(o) = IF x # None THEN 1 ELSE 0
      /\ x # None => o[1] = e
  <2>1. CASE x # None
    BY <2>1
  <2>2. CASE x = None
    BY <2>2, EmptySeq
  <2> QED  BY <2>1, <2>2
<1> HIDE DEF u, n
<1>5. /\ t \in Seq(S)
      /\ Len(t) = n + 1 + Len(o)
      /\ \A i \in 1..n + 1 + Len(o) :
            t[i] = IF i <= n + 1 THEN u[i] ELSE o[i - (n + 1)]
  <2>2. /\ u \o o \in Seq(S)
        /\ Len(u \o o) = Len(u) + Len(o)
        /\ \A i \in 1..Len(u) + Len(o) :
              (u \o o)[i] = IF i <= Len(u) THEN u[i] ELSE o[i - Len(u)]
    BY <1>3, <1>4, ConcatProperties
  <2> QED  BY <1>1, <1>3, <1>4, <2>2
<1>6. DOMAIN t = 1..Len(t)
  BY <1>5, LenProperties
<1> HIDE DEF t
<1>7. t[1] = a
  <2>1. u[1] = a
    <3>1. 1 \in 1..1 + n
      BY <1>1
    <3> QED  BY <1>2, <1>3, <3>1
  <2>2. 1 \in 1..n + 1 + Len(o) /\ 1 <= n + 1
    BY <1>1, <1>4
  <2> QED  BY <1>5, <2>1, <2>2
<1>8. ASSUME NEW k \in 1..n PROVE t[k + 1] = s[k]
  <2>1. k + 1 \in 1..1 + n /\ ~(k + 1 <= 1) /\ (k + 1) - 1 = k
    BY <1>1
  <2>2. u[k + 1] = s[k]
    BY <1>3, <2>1
  <2>3. k + 1 \in 1..n + 1 + Len(o) /\ k + 1 <= n + 1
    BY <1>1, <1>4
  <2> QED  BY <1>5, <2>2, <2>3
<1>9. x # None => t[n + 2] = e
  <2> SUFFICES ASSUME x # None PROVE t[n + 2] = e
    OBVIOUS
  <2>1. n + 2 \in 1..n + 1 + Len(o) /\ ~(n + 2 <= n + 1)
        /\ (n + 2) - (n + 1) = 1
    BY <1>1, <1>4
  <2> QED  BY <1>4, <1>5, <2>1
<1>10. DOMAIN t = 1..(IF x # None THEN n + 2 ELSE n + 1)
  <2>1. Len(t) = IF x # None THEN n + 2 ELSE n + 1
    BY <1>1, <1>4, <1>5
  <2> QED  BY <1>6, <2>1
<1> QED  BY <1>7, <1>8, <1>9, <1>10 DEF t, u, h, n

LEMMA VolumesOfConfig ==
    ASSUME NEW c \in Configs
    PROVE  /\ c.volumes \in Seq([name : STRING, path : STRING])
           /\ Len(c.volumes) \in Nat
           /\ DOMAIN c.volumes = 1..Len(c.volumes)
<1>1. c.volumes \in Seq([name : STRING, path : STRING])
  <2>1. CASE c \in Specs
    BY <2>1, SpecsAssumption
  <2>2. CASE c = EmptyConfig
    <3>1. c.volumes = <<>>
      BY <2>2 DEF EmptyConfig
    <3> QED  BY <3>1, EmptySeq
  <2> QED  BY <2>1, <2>2 DEF Configs
<1> QED  BY <1>1, LenProperties

LEMMA SrlinuxVolumeNames ==
    ASSUME NEW c \in Configs
    PROVE  LET v == SrlinuxVolumes(c)
           IN  /\ DOMAIN v = 1..(IF c.license # None THEN 4 ELSE 3)
               /\ v[1] = Volume("variants", ConfigMap("srlinux.nokia.com-variants"), GetModel(c))
               /\ v[1].name = "variants"
               /\ v[2].name = "topomac-script"
               /\ v[3].name = "k8s-entrypoint"
               /\ c.license # None => v[4] = SrlinuxLicenseVolume(c) /\ v[4].name = "license"
               /\ \A k \in {2, 3} : v[k].object # ConfigMap("srlinux.nokia.com-variants")
               /\ c.license # None => v[4].object # ConfigMap("srlinux.nokia.com-variants")
<1> DEFINE
      o == OnlyIf(c.license # None, SrlinuxLicenseVolume(c))
      w == <<Volume("variants", ConfigMap("srlinux.nokia.com-variants"), GetModel(c)),
             Volume("topomac-script", ConfigMap("srlinux.nokia.com-topomac-script"), None),
             Volume("k8s-entrypoint", ConfigMap("srlinux.nokia.com-k8s-entrypoint"), None)>>
           \o o
<1>0. o = IF c.license # None THEN <<SrlinuxLicenseVolume(c)>> ELSE <<>>
  BY DEF OnlyIf
<1> HIDE DEF o
<1>1. /\ DOMAIN w = 1..(IF c.license # None THEN 4 ELSE 3)
      /\ w[1] = Volume("variants", ConfigMap("srlinux.nokia.com-variants"), GetModel(c))
      /\ w[2] = Volume("topomac-script", ConfigMap("srlinux.nokia.com-topomac-script"), None)
      /\ w[3] = Volume("k8s-entrypoint", ConfigMap("srlinux.nokia.com-k8s-entrypoint"), None)
      /\ c.license # None => w[4] = SrlinuxLicenseVolume(c)
  BY <1>0, ThreeAndMaybe
<1>2. SrlinuxVolumes(c) = w
  BY DEF SrlinuxVolumes, o
<1> HIDE DEF w
<1> QED  BY <1>1, <1>2 DEF Volume, SrlinuxLicenseVolume, ConfigMap, Secret

LEMMA SrlinuxIndices ==
    ASSUME NEW c \in Configs, NEW i \in DOMAIN SrlinuxVolumes(c)
    PROVE  i \in {1, 2, 3} \/ (c.license # None /\ i = 4)
<1>1. CASE c.license # None
  <2>1. i \in 1..4
    BY <1>1, SrlinuxVolumeNames
  <2>2. i \in {1, 2, 3, 4}
    BY <2>1
  <2> QED  BY <1>1, <2>2
<1>2. CASE c.license = None
  <2>1. i \in 1..3
    BY <1>2, SrlinuxVolumeNames
  <2>2. i \in {1, 2, 3}
    BY <2>1
  <2> QED  BY <1>2, <2>2
<1> QED  BY <1>1, <1>2

LEMMA SrlinuxMountNames ==
    ASSUME NEW c \in Configs
    PROVE  LET m == SrlinuxVolumeMounts(c)
           IN  /\ DOMAIN m = 1..(IF c.license # None THEN 4 ELSE 3)
               /\ m[1].name = "variants" /\ m[1].path = "/tmp/topo"
               /\ m[2].name = "topomac-script" /\ m[2].path = "/tmp/topomac"
               /\ m[3].name = "k8s-entrypoint" /\ m[3].path = "/k8s-entrypoint.sh"
               /\ c.license # None => /\ m[4].name = "license"
                                      /\ m[4].path = "/opt/srlinux/etc/license.key"
<1> DEFINE
      o == OnlyIf(c.license # None, Mount("license", "/opt/srlinux/etc/license.key"))
      w == <<Mount("variants", "/tmp/topo"), Mount("topomac-script", "/tmp/topomac"),
             Mount("k8s-entrypoint", "/k8s-entrypoint.sh")>>
           \o o
<1>0. o = IF c.license # None
          THEN <<Mount("license", "/opt/srlinux/etc/license.key")>> ELSE <<>>
  BY DEF OnlyIf
<1> HIDE DEF o
<1>1. /\ DOMAIN w = 1..(IF c.license # None THEN 4 ELSE 3)
      /\ w[1] = Mount("variants", "/tmp/topo")
      /\ w[2] = Mount("topomac-script", "/tmp/topomac")
      /\ w[3] = Mount("k8s-entrypoint", "/k8s-entrypoint.sh")
      /\ c.license # None => w[4] = Mount("license", "/opt/srlinux/etc/license.key")
  BY <1>0, ThreeAndMaybe
<1>2. SrlinuxVolumeMounts(c) = w
  BY DEF SrlinuxVolumeMounts, o
<1> HIDE DEF w
<1> QED  BY <1>1, <1>2 DEF Mount

LEMMA SrosVolumeNames ==
    ASSUME NEW c \in Configs
    PROVE  LET v == SrosVolumes(c)
               n == Len(c.volumes)
           IN  /\ DOMAIN v = 1..(IF c.license # None THEN n + 2 ELSE n + 1)
               /\ v[1] = HugePagesVolume
               /\ v[1].name = "hugepages"
               /\ \A k \in 1..n : v[k + 1] = PersistentVolume(c.volumes[k].name)
               /\ \A k \in 1..n : v[k + 1].name = c.volumes[k].name
               /\ c.license # None => v[n + 2] = SrosLicenseVolume(c)
               /\ c.license # None => v[n + 2].name = "license"
<1> DEFINE n == Len(c.volumes)
           s == [k \in DOMAIN c.volumes |-> PersistentVolume(c.volumes[k].name)]
           o == OnlyIf(c.license # None, SrosLicenseVolume(c))
           a == HugePagesVolume
           e == SrosLicenseVolume(c)
           w == <<a>> \o s \o o
<1>1. n \in Nat /\ DOMAIN c.volumes = 1..n
  BY VolumesOfConfig
<1>2. /\ DOMAIN s = 1..n
      /\ s = [k \in 1..n |-> s[k]]
      /\ \A k \in 1..n : s[k] = PersistentVolume(c.volumes[k].name)
  BY <1>1
<1>0. o = IF c.license # None THEN <<e>> ELSE <<>>
  BY DEF OnlyIf
<1> HIDE DEF n, s, o, a, e
<1> DEFINE S == {a, e} \cup {s[k] : k \in 1..n}
<1>9. s \in Seq(S) /\ Len(s) = n /\ a \in S /\ e \in S
  BY <1>1, <1>2, FunctionAsSequence
<1> HIDE DEF S
<1>3. /\ DOMAIN w = 1..(IF c.license # None THEN n + 2 ELSE n + 1)
      /\ w[1] = a
      /\ \A k \in 1..n : w[k + 1] = s[k]
      /\ c.license # None => w[n + 2] = e
  BY <1>0, <1>9, OneManyAndMaybe
<1>4. SrosVolumes(c) = w
  BY DEF SrosVolumes, s, o, a, e
<1> HIDE DEF w
<1>5. w[1] = HugePagesVolume /\ w[1].name = "hugepages"
  BY <1>3 DEF a, Volume, HugePagesVolume
<1>6. \A k \in 1..n : /\ w[k + 1] = PersistentVolume(c.volumes[k].name)
                     /\ w[k + 1].name = c.volumes[k].name
  BY <1>2, <1>3 DEF Volume, PersistentVolume
<1>7. c.license # None => /\ w[n + 2] = SrosLicenseVolume(c)
                          /\ w[n + 2].name = "license"
  BY <1>3 DEF e, Volume, SrosLicenseVolume
<1> QED  BY <1>3, <1>4, <1>5, <1>6, <1>7 DEF n

LEMMA SrosMountNames ==
    ASSUME NEW c \in Configs
    PROVE  LET m == SrosVolumeMounts(c)
               n == Len(c.volumes)
           IN  /\ DOMAIN m = 1..(IF c.license # None THEN n + 2 ELSE n + 1)
               /\ m[1].name = "hugepages" /\ m[1].path = "/dev/hugepages"
               /\ \A k \in 1..n : /\ m[k + 1].name = c.volumes[k].name
                                  /\ m[k + 1].path = c.volumes[k].path
               /\ c.license # None => /\ m[n + 2].name = "license"
                                      /\ m[n + 2].path = "/nokia/license/"
<1> DEFINE n == Len(c.volumes)
           s == PersistentVolumeMounts(c)
           a == Mount("hugepages", "/dev/hugepages")
           e == Mount("license", "/nokia/license/")
           o == OnlyIf(c.license # None, e)
           w == <<a>> \o s \o o
<1>1. n \in Nat /\ DOMAIN c.volumes = 1..n
  BY VolumesOfConfig
<1>2. /\ DOMAIN s = 1..n
      /\ s = [k \in 1..n |-> s[k]]
      /\ \A k \in 1..n : s[k] = Mount(c.volumes[k].name, c.volumes[k].path)
  BY <1>1 DEF PersistentVolumeMounts
<1>0. o = IF c.license # None THEN <<e>> ELSE <<>>
  BY DEF OnlyIf
<1> HIDE DEF n, s, o, a, e
<1> DEFINE S == {a, e} \cup {s[k] : k \in 1..n}
<1>9. s \in Seq(S) /\ Len(s) = n /\ a \in S /\ e \in S
  BY <1>1, <1>2, FunctionAsSequence
<1> HIDE DEF S
<1>3. /\ DOMAIN w = 1..(IF c.license # None THEN n + 2 ELSE n + 1)
      /\ w[1] = a
      /\ \A k \in 1..n : w[k + 1] = s[k]
      /\ c.license # None => w[n + 2] = e
  BY <1>0, <1>9, OneManyAndMaybe
<1>4. SrosVolumeMounts(c) = w
  BY DEF SrosVolumeMounts, s, o, a, e
<1> HIDE DEF w
<1>5. w[1].name = "hugepages" /\ w[1].path = "/dev/hugepages"
  BY <1>3 DEF a, Mount
<1>6. \A k \in 1..n : /\ w[k + 1].name = c.volumes[k].name
                     /\ w[k + 1].path = c.volumes[k].path
  BY <1>2, <1>3 DEF Mount
<1>7. c.license # None => /\ w[n + 2].name = "license"
                          /\ w[n + 2].path = "/nokia/license/"
  BY <1>3 DEF e, Mount
<1> QED  BY <1>3, <1>4, <1>5, <1>6, <1>7 DEF n

(***************************************************************************)
(* Mounts and volumes.  The two lists run in step.                         *)
(***************************************************************************)

LEMMA SrlinuxInStep ==
    ASSUME NEW c \in Configs
    PROVE  /\ DOMAIN SrlinuxVolumeMounts(c) = DOMAIN SrlinuxVolumes(c)
           /\ \A i \in DOMAIN SrlinuxVolumes(c) :
                 SrlinuxVolumeMounts(c)[i].name = SrlinuxVolumes(c)[i].name
<1> DEFINE v == SrlinuxVolumes(c)
           m == SrlinuxVolumeMounts(c)
<1>1. DOMAIN m = DOMAIN v
  BY SrlinuxVolumeNames, SrlinuxMountNames
<1>2. ASSUME NEW i \in DOMAIN v PROVE m[i].name = v[i].name
  <2>1. i \in {1, 2, 3} \/ (c.license # None /\ i = 4)
    BY SrlinuxIndices
  <2> QED  BY <2>1, SrlinuxVolumeNames, SrlinuxMountNames
<1> QED  BY <1>1, <1>2

LEMMA SrosInStep ==
    ASSUME NEW c \in Configs
    PROVE  /\ DOMAIN SrosVolumeMounts(c) = DOMAIN SrosVolumes(c)
           /\ \A i \in DOMAIN SrosVolumes(c) :
                 SrosVolumeMounts(c)[i].name = SrosVolumes(c)[i].name
<1> DEFINE v == SrosVolumes(c)
           m == SrosVolumeMounts(c)
           n == Len(c.volumes)
<1>0. n \in Nat
  BY VolumesOfConfig
<1>1. DOMAIN m = DOMAIN v
  BY SrosVolumeNames, SrosMountNames
<1>2. ASSUME NEW i \in DOMAIN v PROVE m[i].name = v[i].name
  <2>1. DOMAIN v = 1..(IF c.license # None THEN n + 2 ELSE n + 1)
    BY SrosVolumeNames
  <2>2. CASE i = 1
    BY <2>2, SrosVolumeNames, SrosMountNames
  <2>3. CASE i = n + 2 /\ c.license # None
    BY <2>3, SrosVolumeNames, SrosMountNames
  <2>4. CASE i \in 2..n + 1
    <3>1. i - 1 \in 1..n /\ i = (i - 1) + 1
      BY <1>0, <2>4
    <3>2. m[(i - 1) + 1].name = c.volumes[i - 1].name
      BY <3>1, SrosMountNames
    <3>3. v[(i - 1) + 1].name = c.volumes[i - 1].name
      BY <3>1, SrosVolumeNames
    <3> QED  BY <3>1, <3>2, <3>3
  <2>5. i = 1 \/ (i = n + 2 /\ c.license # None) \/ i \in 2..n + 1
    BY <1>0, <2>1
  <2> QED  BY <2>2, <2>3, <2>4, <2>5
<1> QED  BY <1>1, <1>2

\* Every mount is of a volume the Pod has.
THEOREM MountsAreOfVolumes == Spec => []MountsHaveVolumes
<1>1. IInv => MountsHaveVolumes
  <2> SUFFICES ASSUME IInv, pod # NoPod,
                      NEW m \in ToSet(pod.spec.container.mounts)
               PROVE  \E v \in ToSet(pod.spec.volumes) : v.name = m.name
    BY DEF MountsHaveVolumes
  <2>1. podConfig \in Configs /\ cr.provider \in {"srlinux", "sros"}
    BY PodIsMade
  <2>2. CASE cr.provider = "srlinux"
    <3>1. /\ pod.spec.container.mounts = SrlinuxVolumeMounts(podConfig)
          /\ pod.spec.volumes = SrlinuxVolumes(podConfig)
      BY <2>2, PodIsMade DEF SrlinuxSpec, SrlinuxContainers, SrlinuxAffinity,
                             Container
    <3> QED  BY <2>1, <3>1, SrlinuxInStep DEF ToSet
  <2>3. CASE cr.provider = "sros"
    <3>1. /\ pod.spec.container.mounts = SrosVolumeMounts(podConfig)
          /\ pod.spec.volumes = SrosVolumes(podConfig)
      BY <2>3, PodIsMade DEF SrosSpec, SrosContainers, SrosAffinity, Container
    <3> QED  BY <2>1, <3>1, SrosInStep DEF ToSet
  <2> QED  BY <2>1, <2>2, <2>3
<1> QED  BY <1>1, Invariance, PTL

\* The variant an SR Linux Pod mounts was checked where the Pod will look.
THEOREM MountedVariantsAreChecked == Spec => MountsCheckedVariant
<1>1. IInv /\ [Next]_vars =>
        (pc = "variants" /\ pc' = "nads" /\ cr.provider = "srlinux" =>
           \A v \in ToSet(SrlinuxVolumes(nc)) :
             v.object = ConfigMap("srlinux.nokia.com-variants") =>
               variants[cr.namespace] # None /\ v.key \in variants[cr.namespace])
  <2> SUFFICES ASSUME IInv, [Next]_vars, pc = "variants", pc' = "nads",
                      cr.provider = "srlinux",
                      NEW v \in ToSet(SrlinuxVolumes(nc)),
                      v.object = ConfigMap("srlinux.nokia.com-variants")
               PROVE  variants[cr.namespace] # None /\ v.key \in variants[cr.namespace]
    OBVIOUS
  <2>1. CheckVariants
    BY DEF Next, Users, ResolveConfig, APIApply, GetPodSpec, handlePodUpdate,
           EditNodeConfig, EditVariants, SwitchNad, Fail, vars
  <2>2. Offered(variants[cr.namespace])
    BY <2>1 DEF CheckVariants, checkVariants, SrlinuxVariants, Fail
  <2>3. nc \in Configs
    BY DEF IInv, TypeOK
  <2>4. v.key = GetModel(nc)
    <3>1. PICK i \in DOMAIN SrlinuxVolumes(nc) : v = SrlinuxVolumes(nc)[i]
      BY DEF ToSet
    <3>2. i = 1
      <4>1. i \in {1, 2, 3} \/ (nc.license # None /\ i = 4)
        BY <2>3, SrlinuxIndices
      <4> QED  BY <2>3, <3>1, <4>1, SrlinuxVolumeNames
    <3>3. v = Volume("variants", ConfigMap("srlinux.nokia.com-variants"), GetModel(nc))
      BY <2>3, <3>1, <3>2, SrlinuxVolumeNames
    <3> QED  BY <3>3 DEF Volume
  <2> QED  BY <2>2, <2>4 DEF Offered
<1> QED  BY <1>1, Invariance, PTL DEF Spec, MountsCheckedVariant

(***************************************************************************)
(* A Pod of well named volumes can be created.                             *)
(***************************************************************************)

LEMMA SrlinuxCreatable ==
    ASSUME NEW p, NEW c \in Configs, p.name # None, p.spec = SrlinuxSpec(c)
    PROVE  Creatable(p)
<1> DEFINE v == SrlinuxVolumes(c)
           m == SrlinuxVolumeMounts(c)
<1>1. p.spec.volumes = v /\ p.spec.container.mounts = m
  BY DEF SrlinuxSpec, SrlinuxContainers, SrlinuxAffinity, Container
<1>3. \A i \in DOMAIN v : i \in {1, 2, 3} \/ (c.license # None /\ i = 4)
  BY SrlinuxIndices
<1>4. IsInjective(NamesOf(v))
  <2>1. \A i, j \in DOMAIN v : v[i].name = v[j].name => i = j
    BY <1>3, SrlinuxVolumeNames
  <2> QED  BY <2>1 DEF IsInjective, NamesOf
<1>5. IsInjective(PathsOf(m))
  <2>1. \A i, j \in DOMAIN m : m[i].path = m[j].path => i = j
    BY <1>3, SrlinuxInStep, SrlinuxMountNames
  <2> QED  BY <2>1 DEF IsInjective, PathsOf
<1>6. ToSet(NamesOf(m)) \subseteq ToSet(NamesOf(v))
  BY SrlinuxInStep DEF ToSet, NamesOf
<1> QED  BY <1>1, <1>4, <1>5, <1>6 DEF Creatable

LEMMA SrosCreatable ==
    ASSUME NEW p, NEW c \in Configs, p.name # None, p.spec = SrosSpec(c), WellNamed(c)
    PROVE  Creatable(p)
<1> DEFINE v == SrosVolumes(c)
           m == SrosVolumeMounts(c)
           n == Len(c.volumes)
<1>0. n \in Nat /\ DOMAIN c.volumes = 1..n
  BY VolumesOfConfig
<1>1. p.spec.volumes = v /\ p.spec.container.mounts = m
  BY DEF SrosSpec, SrosContainers, SrosAffinity, Container
<1>3. \A i \in DOMAIN v : \/ i = 1
                          \/ c.license # None /\ i = n + 2
                          \/ \E k \in 1..n : i = k + 1
  <2>1. DOMAIN v = 1..(IF c.license # None THEN n + 2 ELSE n + 1)
    BY SrosVolumeNames
  <2> TAKE i \in DOMAIN v
  <2>2. i = 1 \/ (c.license # None /\ i = n + 2) \/ (i - 1 \in 1..n /\ i = (i - 1) + 1)
    BY <1>0, <2>1
  <2> QED  BY <2>2
<1>4. /\ \A j, k \in 1..n : c.volumes[j].name = c.volumes[k].name => j = k
      /\ \A j, k \in 1..n : c.volumes[j].path = c.volumes[k].path => j = k
      /\ \A k \in 1..n : c.volumes[k].name \notin {"hugepages", "license"}
      /\ \A k \in 1..n : c.volumes[k].path \notin {"/dev/hugepages", "/nokia/license/"}
  <2> DEFINE x == NamesOf(c.volumes)
             y == PathsOf(c.volumes)
  <2>1. /\ DOMAIN x = 1..n /\ \A k \in 1..n : x[k] = c.volumes[k].name
        /\ DOMAIN y = 1..n /\ \A k \in 1..n : y[k] = c.volumes[k].path
    BY <1>0 DEF NamesOf, PathsOf
  <2>2. /\ IsInjective(x) /\ {"hugepages", "license"} \cap ToSet(x) = {}
        /\ IsInjective(y) /\ {"/dev/hugepages", "/nokia/license/"} \cap ToSet(y) = {}
    BY DEF WellNamed
  <2> HIDE DEF x, y
  <2>3. /\ \A j, k \in 1..n : c.volumes[j].name = c.volumes[k].name => j = k
        /\ \A j, k \in 1..n : c.volumes[j].path = c.volumes[k].path => j = k
    BY <2>1, <2>2 DEF IsInjective
  <2>4. \A k \in 1..n : x[k] \in ToSet(x) /\ y[k] \in ToSet(y)
    BY <2>1 DEF ToSet
  <2> QED  BY <2>1, <2>2, <2>3, <2>4
<1>5. IsInjective(NamesOf(v))
  <2>1. ASSUME NEW i \in DOMAIN v, NEW j \in DOMAIN v, v[i].name = v[j].name
        PROVE  i = j
    <3>0. ASSUME NEW l \in DOMAIN v
          PROVE  /\ l = 1 <=> v[l].name = "hugepages"
                 /\ c.license # None => (l = n + 2 <=> v[l].name = "license")
      <4>1. CASE l = 1
        <5>1. v[1].name = "hugepages"
          BY SrosVolumeNames
        <5> QED  BY <1>0, <4>1, <5>1
      <4>2. CASE c.license # None /\ l = n + 2
        <5>1. v[n + 2].name = "license"
          BY <4>2, SrosVolumeNames
        <5> QED  BY <1>0, <4>2, <5>1
      <4>3. ASSUME NEW k \in 1..n, l = k + 1
            PROVE  /\ l # 1 /\ v[l].name # "hugepages"
                   /\ l # n + 2 /\ v[l].name # "license"
        <5>1. v[k + 1].name = c.volumes[k].name
          BY SrosVolumeNames
        <5>2. c.volumes[k].name # "hugepages" /\ c.volumes[k].name # "license"
          BY <1>4
        <5> QED  BY <1>0, <4>3, <5>1, <5>2
      <4> QED  BY <1>3, <4>1, <4>2, <4>3
    <3>1. CASE i = 1 \/ j = 1
      BY <2>1, <3>0, <3>1
    <3>2. CASE c.license # None /\ (i = n + 2 \/ j = n + 2)
      BY <2>1, <3>0, <3>2
    <3>3. CASE (\E k \in 1..n : i = k + 1) /\ (\E k \in 1..n : j = k + 1)
      BY <1>4, <2>1, <3>3, SrosVolumeNames
    <3> QED  BY <1>3, <3>1, <3>2, <3>3
  <2> QED  BY <2>1 DEF IsInjective, NamesOf
<1>6. IsInjective(PathsOf(m))
  <2>1. ASSUME NEW i \in DOMAIN v, NEW j \in DOMAIN v, m[i].path = m[j].path
        PROVE  i = j
    <3>0. ASSUME NEW l \in DOMAIN v
          PROVE  /\ l = 1 <=> m[l].path = "/dev/hugepages"
                 /\ c.license # None => (l = n + 2 <=> m[l].path = "/nokia/license/")
      <4>1. CASE l = 1
        <5>1. m[1].path = "/dev/hugepages"
          BY SrosMountNames
        <5> QED  BY <1>0, <4>1, <5>1
      <4>2. CASE c.license # None /\ l = n + 2
        <5>1. m[n + 2].path = "/nokia/license/"
          BY <4>2, SrosMountNames
        <5> QED  BY <1>0, <4>2, <5>1
      <4>3. ASSUME NEW k \in 1..n, l = k + 1
            PROVE  /\ l # 1 /\ m[l].path # "/dev/hugepages"
                   /\ l # n + 2 /\ m[l].path # "/nokia/license/"
        <5>1. m[k + 1].path = c.volumes[k].path
          BY SrosMountNames
        <5>2. c.volumes[k].path # "/dev/hugepages" /\ c.volumes[k].path # "/nokia/license/"
          BY <1>4
        <5> QED  BY <1>0, <4>3, <5>1, <5>2
      <4> QED  BY <1>3, <4>1, <4>2, <4>3
    <3>1. CASE i = 1 \/ j = 1
      BY <2>1, <3>0, <3>1
    <3>2. CASE c.license # None /\ (i = n + 2 \/ j = n + 2)
      BY <2>1, <3>0, <3>2
    <3>3. CASE (\E k \in 1..n : i = k + 1) /\ (\E k \in 1..n : j = k + 1)
      BY <1>4, <2>1, <3>3, SrosMountNames
    <3> QED  BY <1>3, <3>1, <3>2, <3>3
  <2> QED  BY <2>1, SrosInStep DEF IsInjective, PathsOf
<1>7. ToSet(NamesOf(m)) \subseteq ToSet(NamesOf(v))
  BY SrosInStep DEF ToSet, NamesOf
<1> QED  BY <1>1, <1>5, <1>6, <1>7 DEF Creatable

\* A run that comes to the Pod, and whose calls are answered, leaves one of the
\* spec it made.
THEOREM PodIsLeft == Spec => RunLeavesItsPod
<1>1. IInv /\ [Next]_vars =>
        (pc = "deploy" /\ pc' = "resolve" /\ edits' = edits
         /\ cr.provider \in {"srlinux", "sros"} /\ WellNamed(podConfig) =>
           running' # NoPod /\ running'.spec = pod.spec)
  <2> SUFFICES ASSUME IInv, [Next]_vars, pc = "deploy", pc' = "resolve",
                      edits' = edits, cr.provider \in {"srlinux", "sros"},
                      WellNamed(podConfig)
               PROVE  running' # NoPod /\ running'.spec = pod.spec
    OBVIOUS
  <2>1. handlePodUpdate
    <3>1. ~SwitchNad
      BY EditsAssumption DEF SwitchNad, Counted, IInv, TypeOK
    <3> QED  BY <3>1 DEF Next, Users, ResolveConfig, CheckVariants, APIApply,
                         GetPodSpec,
                  EditNodeConfig, EditVariants, vars
  <2>0. ~Counted
    BY EditsAssumption DEF Counted, IInv, TypeOK
  <2>2. /\ podConfig \in Configs
        /\ pod.name = cr.name
        /\ pod.spec = IF cr.provider = "srlinux" THEN SrlinuxSpec(podConfig)
                                                 ELSE SrosSpec(podConfig)
        /\ pod.hash = getHash(pod.spec)
    BY DEF IInv, TypeOK, PodAsMade
  <2>3. pod.name # None
    BY <2>2, CrFields, NamesAssumption DEF IInv, TypeOK
  <2>4. Creatable(pod)
    BY <2>2, <2>3, SrlinuxCreatable, SrosCreatable
  <2>5. CASE Keeps(running)
    <3>1. running' = running
      BY <2>0, <2>1, <2>5 DEF handlePodUpdate
    <3>2. getHash(running.spec) = getHash(pod.spec)
      BY <2>2, <2>5 DEF Keeps, IInv, RunningAsMade
    <3> QED  BY <2>5, <3>1, <3>2 DEF getHash, Keeps
  <2>6. CASE ~Keeps(running)
    BY <2>0, <2>1, <2>3, <2>4, <2>6 DEF handlePodUpdate, NoPod
  <2> QED  BY <2>5, <2>6
<1> QED  BY <1>1, Invariance, PTL DEF Spec, RunLeavesItsPod

\* The NodeConfig that fits best is used, however they are listed.
THEOREM BestConfigIsUsed == Spec => BestConfig
<1>1. IInv /\ [Next]_vars =>
        (pc = "resolve" /\ pc' = "variants" =>
         \/ \E rank \in 1..3, s \in Namespaces, n \in Names :
              /\ Fits(rank, s, n)
              /\ nc' = configs[s][n]
              /\ \A better \in 1..(rank - 1), t \in Namespaces, m \in Names :
                     ~Fits(better, t, m)
              /\ cr.ref # None => rank = 1
         \/ /\ nc' = EmptyConfig
            /\ cr.ref = None
            /\ ~\E rank \in 2..3, s \in Namespaces, n \in Names : Fits(rank, s, n))
  <2> DEFINE Best(rank, s, n) ==
               /\ Fits(rank, s, n)
               /\ nc' = configs[s][n]
               /\ \A better \in 1..(rank - 1), t \in Namespaces, m \in Names :
                      ~Fits(better, t, m)
               /\ cr.ref # None => rank = 1
  <2> SUFFICES ASSUME IInv, [Next]_vars, pc = "resolve", pc' = "variants"
               PROVE  \/ \E rank \in 1..3, s \in Namespaces, n \in Names : Best(rank, s, n)
                      \/ /\ nc' = EmptyConfig
                         /\ cr.ref = None
                         /\ ~\E rank \in 2..3, s \in Namespaces, n \in Names :
                                 Fits(rank, s, n)
    OBVIOUS
  <2>1. ResolveConfig
    BY DEF Next, Users, CheckVariants, APIApply, GetPodSpec, handlePodUpdate,
           EditNodeConfig, EditVariants, SwitchNad, Fail, vars
  <2>2. /\ TypeOK
        /\ ListNamespace \in Namespaces
        /\ cr.name \in Names
    BY ListedNames, CrFields DEF IInv, TypeOK
  <2>3. CASE cr.ref # None
    <3>1. cr.ref \in Names /\ configs[PodNamespace][cr.ref] # None
          /\ nc' = configs[PodNamespace][cr.ref]
      BY <2>1, <2>2, <2>3, CrFields DEF ResolveConfig, Fail, TypeOK
    <3>2. Fits(1, PodNamespace, cr.ref)
      BY <3>1 DEF Fits
    <3>3. 1..(1 - 1) = {}
      OBVIOUS
    <3>4. Best(1, PodNamespace, cr.ref)
      BY <3>1, <3>2, <3>3
    <3> QED  BY <3>1, <3>4, NamespaceAssumption
  <2>4. CASE cr.ref = None
    <3>1. PICK items \in SetToSeqs(Listed) : nc' = getNodeConfig(items)
      BY <2>1, <2>4 DEF ResolveConfig

               <3> DEFINE Own(n) == n \in Listed /\ configs[ListNamespace][n].provider = cr.provider
    <3>2. \/ Own(cr.name) /\ nc' = configs[ListNamespace][cr.name]
          \/ ~Own(cr.name) /\ Own("default") /\ nc' = configs[ListNamespace]["default"]
          \/ ~Own(cr.name) /\ ~Own("default") /\ nc' = EmptyConfig
      BY <2>2, <3>1, NodeConfigFound
    <3>3. ASSUME NEW s \in Namespaces, NEW n \in Names
          PROVE  /\ ~Fits(1, s, n)
                 /\ Fits(2, s, n) <=> s = ListNamespace /\ n = cr.name /\ Own(cr.name)
                 /\ Fits(3, s, n) <=> s = ListNamespace /\ n = "default" /\ Own("default")
      BY <2>4, NamesAssumption DEF Fits, Listed
    <3> HIDE DEF Own
    <3>4. CASE Own(cr.name) /\ nc' = configs[ListNamespace][cr.name]
      <4>1. \A better \in 1..(2 - 1) : better = 1
        OBVIOUS
      <4>2. Best(2, ListNamespace, cr.name)
        BY <2>2, <2>4, <3>3, <3>4, <4>1
      <4> QED  BY <2>2, <4>2
    <3>5. CASE ~Own(cr.name) /\ Own("default") /\ nc' = configs[ListNamespace]["default"]
      <4>1. \A better \in 1..(3 - 1) : better = 1 \/ better = 2
        OBVIOUS
      <4>2. Best(3, ListNamespace, "default")
        BY <2>2, <2>4, <3>3, <3>5, <4>1, NamesAssumption
      <4> QED  BY <2>2, <4>2, NamesAssumption
    <3>6. CASE ~Own(cr.name) /\ ~Own("default") /\ nc' = EmptyConfig
      <4>1. \A rank \in 2..3 : rank = 2 \/ rank = 3
        OBVIOUS
      <4> QED  BY <2>4, <3>3, <3>6, <4>1
    <3> QED  BY <3>2, <3>4, <3>5, <3>6
  <2> QED  BY <2>3, <2>4
<1> QED  BY <1>1, Invariance, PTL DEF Spec, BestConfig

(***************************************************************************)
(* The hash of a Pod's spec tells apart what the Pod depends on.           *)
(***************************************************************************)

LEMMA SrlinuxSpecTells ==
    ASSUME cr.provider = "srlinux", NEW c \in Configs, NEW d \in Configs
    PROVE  SrlinuxSpec(c) = SrlinuxSpec(d) <=> Relevant(c) = Relevant(d)
<1>1. \A b : Relevant(b) = <<GetImage(b), GetResourceRequirements(b), b.license, GetModel(b)>>
  BY DEF Relevant
<1>2. ASSUME SrlinuxSpec(c) = SrlinuxSpec(d) PROVE Relevant(c) = Relevant(d)
  <2>1. /\ SrlinuxSpec(c).container = SrlinuxSpec(d).container
        /\ SrlinuxSpec(c).volumes = SrlinuxSpec(d).volumes
    BY <1>2
  <2>2. /\ Container(c, SrlinuxVolumeMounts(c)) = Container(d, SrlinuxVolumeMounts(d))
        /\ SrlinuxVolumes(c) = SrlinuxVolumes(d)
    BY <2>1 DEF SrlinuxSpec, SrlinuxContainers, SrlinuxAffinity
  <2>3. /\ GetImage(c) = GetImage(d)
        /\ GetResourceRequirements(c) = GetResourceRequirements(d)
    BY <2>2 DEF Container
  <2>4. GetModel(c) = GetModel(d)
    <3>1. ASSUME NEW b \in Configs PROVE SrlinuxVolumes(b)[1].key = GetModel(b)
      <4>1. SrlinuxVolumes(b)[1]
              = Volume("variants", ConfigMap("srlinux.nokia.com-variants"), GetModel(b))
        BY SrlinuxVolumeNames
      <4> QED  BY <4>1 DEF Volume
    <3> QED  BY <2>2, <3>1
  <2>5. c.license # None <=> d.license # None
    <3>1. \A b \in Configs : 4 \in DOMAIN SrlinuxVolumes(b) <=> b.license # None
      BY SrlinuxVolumeNames
    <3> QED  BY <2>2, <3>1
  <2>6. c.license = d.license
    <3>1. ASSUME NEW b \in Configs, b.license # None
          PROVE  SrlinuxVolumes(b)[4].key = b.license
      <4>1. SrlinuxVolumes(b)[4] = SrlinuxLicenseVolume(b)
        BY <3>1, SrlinuxVolumeNames
      <4> QED  BY <4>1 DEF Volume, SrlinuxLicenseVolume
    <3> QED  BY <2>2, <2>5, <3>1
  <2> QED  BY <1>1, <2>3, <2>4, <2>6
<1>3. ASSUME Relevant(c) = Relevant(d) PROVE SrlinuxSpec(c) = SrlinuxSpec(d)
  <2>1. /\ GetImage(c) = GetImage(d)
        /\ GetResourceRequirements(c) = GetResourceRequirements(d)
        /\ c.license = d.license
        /\ GetModel(c) = GetModel(d)
    BY <1>1, <1>3
  <2>2. SrlinuxVolumes(c) = SrlinuxVolumes(d)
    BY <2>1 DEF SrlinuxVolumes, SrlinuxLicenseVolume
  <2>3. SrlinuxVolumeMounts(c) = SrlinuxVolumeMounts(d)
    BY <2>1 DEF SrlinuxVolumeMounts
  <2> QED  BY <2>1, <2>2, <2>3 DEF SrlinuxSpec, SrlinuxContainers,
                                   SrlinuxAffinity, Container
<1> QED  BY <1>2, <1>3

LEMMA SrosSpecTells ==
    ASSUME cr.provider = "sros", NEW c \in Configs, NEW d \in Configs
    PROVE  SrosSpec(c) = SrosSpec(d) <=> Relevant(c) = Relevant(d)
<1>1. \A b : Relevant(b) = <<GetImage(b), GetResourceRequirements(b), b.license, b.volumes>>
  BY DEF Relevant
<1>2. ASSUME SrosSpec(c) = SrosSpec(d) PROVE Relevant(c) = Relevant(d)
  <2>1. /\ SrosSpec(c).container = SrosSpec(d).container
        /\ SrosSpec(c).volumes = SrosSpec(d).volumes
    BY <1>2
  <2>2. /\ Container(c, SrosVolumeMounts(c)) = Container(d, SrosVolumeMounts(d))
        /\ SrosVolumes(c) = SrosVolumes(d)
    BY <2>1 DEF SrosSpec, SrosContainers, SrosAffinity
  <2>3. /\ GetImage(c) = GetImage(d)
        /\ GetResourceRequirements(c) = GetResourceRequirements(d)
        /\ SrosVolumeMounts(c) = SrosVolumeMounts(d)
    BY <2>2 DEF Container

           <2> DEFINE size(b) == IF b.license # None THEN Len(b.volumes) + 2 ELSE Len(b.volumes) + 1
             last(b) == SrosVolumes(b)[size(b)].object
  <2>4. size(c) = size(d)
    <3>1. \A b \in Configs : size(b) \in Nat \ {0} /\ DOMAIN SrosVolumes(b) = 1..size(b)
      BY VolumesOfConfig, SrosVolumeNames
    <3>2. size(c) \in 1..size(d) /\ size(d) \in 1..size(c)
      <4>1. 1..size(c) = 1..size(d)
        BY <2>2, <3>1
      <4>2. size(c) \in 1..size(c) /\ size(d) \in 1..size(d)
        BY <3>1
      <4> QED  BY <4>1, <4>2
    <3> HIDE DEF size
    <3> QED  BY <3>1, <3>2
  <2>5. ASSUME NEW b \in Configs
        PROVE  /\ b.license # None => last(b) = Secret("licenses.sros.nokia.com")
               /\ b.license = None => last(b) # Secret("licenses.sros.nokia.com")
               /\ b.license # None => SrosVolumes(b)[size(b)].key = b.license
    <3>1. b.license # None => SrosVolumes(b)[size(b)] = SrosLicenseVolume(b)
      BY SrosVolumeNames
    <3>2. CASE b.license = None /\ Len(b.volumes) = 0
      <4>1. SrosVolumes(b)[1].object = <<"emptyDir", "HugePages">>
        BY SrosVolumeNames DEF HugePagesVolume, Volume
      <4> QED  BY <3>2, <4>1 DEF Secret
    <3>3. CASE b.license = None /\ Len(b.volumes) # 0
      <4>1. Len(b.volumes) \in 1..Len(b.volumes)
        BY <3>3, VolumesOfConfig
      <4>2. SrosVolumes(b)[Len(b.volumes) + 1]
              = PersistentVolume(b.volumes[Len(b.volumes)].name)
        BY <4>1, SrosVolumeNames
      <4> QED  BY <3>3, <4>2 DEF PersistentVolume, Volume, Secret
    <3> QED  BY <3>1, <3>2, <3>3 DEF SrosLicenseVolume, Volume
  <2>6. c.license = d.license
    <3>1. c.license = None <=> d.license = None
      BY <2>2, <2>4, <2>5
    <3> QED  BY <2>2, <2>4, <2>5, <3>1
  <2>7. c.volumes = d.volumes
    <3>1. Len(c.volumes) = Len(d.volumes)
      BY <2>4, <2>6, VolumesOfConfig
    <3>2. ASSUME NEW k \in 1..Len(c.volumes)
          PROVE  c.volumes[k] = d.volumes[k]
      <4>1. /\ c.volumes[k].name = d.volumes[k].name
            /\ c.volumes[k].path = d.volumes[k].path
        <5>1. /\ SrosVolumeMounts(c)[k + 1].name = c.volumes[k].name
              /\ SrosVolumeMounts(c)[k + 1].path = c.volumes[k].path
          BY SrosMountNames
        <5>2. k \in 1..Len(d.volumes)
          BY <3>1
        <5>3. /\ SrosVolumeMounts(d)[k + 1].name = d.volumes[k].name
              /\ SrosVolumeMounts(d)[k + 1].path = d.volumes[k].path
          BY <5>2, SrosMountNames
        <5> QED  BY <2>3, <5>1, <5>3
      <4>2. /\ c.volumes[k] \in [name : STRING, path : STRING]
            /\ d.volumes[k] \in [name : STRING, path : STRING]
        BY <3>1, VolumesOfConfig, ElementOfSeq
      <4> QED  BY <4>1, <4>2
    <3> QED  BY <3>1, <3>2, VolumesOfConfig, SeqEqual
  <2> QED  BY <1>1, <2>3, <2>6, <2>7
<1>3. ASSUME Relevant(c) = Relevant(d) PROVE SrosSpec(c) = SrosSpec(d)
  <2>1. /\ GetImage(c) = GetImage(d)
        /\ GetResourceRequirements(c) = GetResourceRequirements(d)
        /\ c.license = d.license
        /\ c.volumes = d.volumes
    BY <1>1, <1>3
  <2>2. SrosVolumes(c) = SrosVolumes(d)
    BY <2>1 DEF SrosVolumes, SrosLicenseVolume
  <2>3. SrosVolumeMounts(c) = SrosVolumeMounts(d)
    BY <2>1 DEF SrosVolumeMounts, PersistentVolumeMounts
  <2> QED  BY <2>1, <2>2, <2>3 DEF SrosSpec, SrosContainers, SrosAffinity, Container
<1> QED  BY <1>2, <1>3

\* From one Pod to the next, the revision changes exactly when what the Pod
\* depends on does.
THEOREM RevisionsTrackConfigs == Spec => RevisionTracksConfig
<1>1. IInv /\ [Next]_vars =>
        (podConfig # None /\ podConfig' # None =>
           (pod'.hash # pod.hash <=> Relevant(podConfig') # Relevant(podConfig)))
  <2> SUFFICES ASSUME IInv, [Next]_vars, podConfig # None, podConfig' # None
               PROVE  pod'.hash # pod.hash <=> Relevant(podConfig') # Relevant(podConfig)
    OBVIOUS
  <2>1. CASE UNCHANGED made
    BY <2>1 DEF made
  <2>2. CASE GetPodSpec
    <3>1. /\ podConfig' = nc
          /\ nc \in Configs
          /\ podConfig \in Configs
      BY <2>2, NoneAssumption DEF GetPodSpec, IInv, TypeOK
    <3>2. CASE cr.provider = "srlinux"
      <4>1. pod'.hash = getHash(SrlinuxSpec(nc)) /\ pod.hash = getHash(SrlinuxSpec(podConfig))
        BY <2>2, <3>2 DEF GetPodSpec, SrlinuxPod, IInv, PodAsMade
      <4> QED  BY <3>1, <3>2, <4>1, SrlinuxSpecTells DEF getHash
    <3>3. CASE cr.provider = "sros"
      <4>1. pod'.hash = getHash(SrosSpec(nc)) /\ pod.hash = getHash(SrosSpec(podConfig))
        BY <2>2, <3>3 DEF GetPodSpec, SrosPod, IInv, PodAsMade
      <4> QED  BY <3>1, <3>3, <4>1, SrosSpecTells DEF getHash
    <3>4. CASE cr.provider = "xserver"
      <4>1. pod' = NoPod /\ pod = NoPod
        BY <2>2, <3>4 DEF GetPodSpec, ServerPod, IInv, PodAsMade
      <4>2. \A b : Relevant(b) = <<>>
        BY <3>4 DEF Relevant
      <4> QED  BY <4>1, <4>2
    <3> QED  BY <3>2, <3>3, <3>4, CrFields DEF Providers, IInv, TypeOK
  <2> QED  BY <2>1, <2>2 DEF Next, Users, ResolveConfig, CheckVariants, APIApply,
                handlePodUpdate, EditNodeConfig, EditVariants, SwitchNad, vars
<1> QED  BY <1>1, Invariance, PTL DEF Spec, RevisionTracksConfig

=============================================================================
