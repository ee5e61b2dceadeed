------------------------- MODULE InitialConfigProofs -------------------------
(***************************************************************************)
(* Theorems about module InitialConfig, for every set of Secrets and any   *)
(* number of rotations, refusals, lost commands and restarts.              *)
(***************************************************************************)
EXTENDS InitialConfig, TLAPS, SequenceTheorems, WellFoundedInduction

-----------------------------------------------------------------------------
(* What is cut out of a text.                                               *)

\* The least element of a set of numbers is one of them.
LEMMA LeastIsThere ==
    ASSUME NEW I \in SUBSET Nat, I # {}
    PROVE  Min(I) \in I /\ \A j \in I : Min(I) <= j
<1>1. PICK i \in I : \A j \in I : <<j, i>> \notin OpToRel(<, Nat)
  BY NatLessThanWellFounded, WFMin
<1>2. \A j \in I : ~(j < i)
  BY <1>1, Zenon DEF OpToRel
<1>3. \A j \in I : i <= j
  BY <1>2
<1> QED  BY <1>3 DEF Min

\* IndexOf finds the first occurrence, if there is one.
LEMMA FirstIndex ==
    ASSUME NEW str \in Seq(STRING), NEW marker
    PROVE  LET i == IndexOf(str, marker) IN
           \/ i = 0
           \/ /\ i \in 1..Len(str)
              /\ str[i] = marker
              /\ \A k \in 1..(i - 1) : str[k] # marker
<1> DEFINE I == {i \in 1..Len(str) : str[i] = marker}
           f == IndexOf(str, marker)
<1>1. f = IF I # {} THEN Min(I) ELSE 0
  BY DEF IndexOf, SelectInSeq
<1>2. I \in SUBSET Nat /\ Len(str) \in Nat
  BY LenProperties
<1>3. CASE I = {}
  BY <1>1, <1>3
<1>4. CASE I # {}
  <2>1. f \in I /\ \A j \in I : f <= j
    BY <1>1, <1>2, <1>4, LeastIsThere
  <2> HIDE DEF f
  <2>2. ASSUME NEW k \in 1..(f - 1) PROVE str[k] # marker
    BY <1>2, <2>1
  <2> QED  BY <2>1, <2>2 DEF f
<1> QED  BY <1>3, <1>4

\* A slice of the rest of a text is a slice of the text.
LEMMA SliceOfRest ==
    ASSUME NEW str \in Seq(STRING), NEW s \in 1..Len(str),
           NEW e \in 1..(Len(str) - s + 1)
    PROVE  SubSeq(SubSeq(str, s, Len(str)), 1, e) = SubSeq(str, s, s + e - 1)
<1> DEFINE rest == SubSeq(str, s, Len(str))
           a == SubSeq(rest, 1, e)
           b == SubSeq(str, s, s + e - 1)
<1>1. Len(str) \in Nat /\ \A k \in 1..Len(str) : str[k] \in STRING
  BY LenProperties, ElementOfSeq
<1>2. /\ rest \in Seq(STRING)
      /\ Len(rest) = Len(str) - s + 1
      /\ \A k \in 1..(Len(str) - s + 1) : rest[k] = str[s + k - 1]
  BY <1>1, SubSeqProperties
<1> HIDE DEF rest
<1>3. \A k \in 1..e : rest[k] \in STRING
  BY <1>1, <1>2, ElementOfSeq
<1>4. /\ a \in Seq(STRING)
      /\ Len(a) = e
      /\ \A k \in 1..e : a[k] = rest[k]
  BY <1>1, <1>3, SubSeqProperties
<1>5. /\ b \in Seq(STRING)
      /\ Len(b) = e
      /\ \A k \in 1..e : b[k] = str[s + k - 1]
  <2>1. \A k \in s..(s + e - 1) : str[k] \in STRING
    BY <1>1
  <2>2. s \in Int /\ s + e - 1 \in Int /\ s <= s + e - 1 /\ (s + e - 1) - s + 1 = e
    BY <1>1
  <2> QED  BY <2>1, <2>2, SubSeqProperties
<1> HIDE DEF a, b
<1>6. ASSUME NEW k \in 1..e PROVE a[k] = b[k]
  <2>1. k \in 1..(Len(str) - s + 1)
    BY <1>1
  <2> QED  BY <1>2, <1>4, <1>5, <2>1
<1>7. a = b
  BY <1>4, <1>5, <1>6, SeqEqual
<1> QED  BY <1>7 DEF a, b, rest

\* What is cut out is a block of the text.
LEMMA CutIsBlock ==
    ASSUME NEW str \in Seq(STRING), NEW start, NEW end
    PROVE  LET b == getStringInBetween(str, start, end) IN
           \/ b = NotFound
           \/ /\ b \in SubSeqs(str)
              /\ IsBlockOf(b, str, start, end)
<1> DEFINE s == IndexOf(str, start)
           rest == SubSeq(str, s, Len(str))
           e == IndexOf(rest, end)
           b == getStringInBetween(str, start, end)
           j == s + e - 1
<1>1. b = IF s = 0 \/ e = 0 THEN NotFound ELSE SubSeq(rest, 1, e)
  BY DEF getStringInBetween
<1>2. CASE s = 0 \/ e = 0
  BY <1>1, <1>2
<1>3. CASE s # 0 /\ e # 0
  <2>1. /\ s \in 1..Len(str)
        /\ str[s] = start
        /\ \A k \in 1..(s - 1) : str[k] # start
    BY <1>3, FirstIndex
  <2>2. Len(str) \in Nat /\ \A k \in 1..Len(str) : str[k] \in STRING
    BY LenProperties, ElementOfSeq
  <2> HIDE DEF s
  <2>3. /\ rest \in Seq(STRING)
        /\ Len(rest) = Len(str) - s + 1
        /\ \A k \in 1..Len(rest) : rest[k] = str[s + k - 1]
    BY <2>1, <2>2, SubSeqProperties
  <2> HIDE DEF rest
  <2>4. /\ e \in 1..Len(rest)
        /\ rest[e] = end
        /\ \A k \in 1..(e - 1) : rest[k] # end
    BY <1>3, <2>3, FirstIndex
  <2> HIDE DEF e
  <2>5. /\ j \in s..Len(str)
        /\ str[j] = end
    BY <2>1, <2>2, <2>3, <2>4
  <2>6. ASSUME NEW k \in s..(j - 1) PROVE str[k] # end
    <3>1. k - s + 1 \in 1..(e - 1) /\ k - s + 1 \in 1..Len(rest)
      BY <2>1, <2>2, <2>3, <2>4
    <3>2. rest[k - s + 1] = str[s + (k - s + 1) - 1]
      BY <2>3, <3>1
    <3>3. s + (k - s + 1) - 1 = k
      BY <2>1, <2>2
    <3> QED  BY <2>4, <3>1, <3>2, <3>3
  <2>7. b = SubSeq(str, s, j)
    <3>1. e \in 1..(Len(str) - s + 1)
      BY <2>3, <2>4
    <3> QED  BY <1>1, <1>3, <2>1, <3>1, SliceOfRest DEF rest
  <2> HIDE DEF b
  <2>8. b \in SubSeqs(str)
    <3>1. s - 1 \in 0..Len(str) /\ j \in 0..Len(str) /\ (s - 1) + 1 = s
      BY <2>1, <2>2, <2>5
    <3>2. b = SubSeq(str, (s - 1) + 1, j)
      BY <2>7, <3>1
    <3> HIDE DEF j
    <3>3. \E i, k \in 0..Len(str) : b = SubSeq(str, i + 1, k)
      BY <3>1, <3>2
    <3> QED  BY <3>3, SMT DEF SubSeqs
  <2>9. IsBlockOf(b, str, start, end)
    <3>1. s \in DOMAIN str /\ j \in s..Len(str)
      BY <2>1, <2>2, <2>5, LenProperties
    <3> HIDE DEF j
    <3> QED  BY <2>1, <2>5, <2>6, <2>7, <3>1 DEF IsBlockOf
  <2> QED  BY <2>8, <2>9 DEF b
<1> QED  BY <1>2, <1>3

LEMMA PiecesOfSecret ==
    ASSUME NEW s \in Secrets
    PROVE  SubSeqs(s.ca) \cup SubSeqs(s.crt) \cup SubSeqs(s.key) \subseteq Pieces
<1>1. {s.ca, s.crt, s.key} \subseteq UNION {{r.ca, r.crt, r.key} : r \in Secrets}
  OBVIOUS
<1> QED  BY <1>1 DEF Pieces

LEMMA PiecesAreTexts == Pieces \subseteq Seq(STRING)
<1> SUFFICES ASSUME NEW piece \in Pieces PROVE piece \in Seq(STRING)
  OBVIOUS
<1>1. PICK s \in Secrets : \E text \in {s.ca, s.crt, s.key} : piece \in SubSeqs(text)
  BY DEF Pieces
<1>2. PICK text \in {s.ca, s.crt, s.key} : piece \in SubSeqs(text)
  BY <1>1
<1>0. text \in Seq(STRING)
  BY SecretsAssumption
<1>3. PICK i \in 0..Len(text), j \in 0..Len(text) : piece = SubSeq(text, i + 1, j)
  BY <1>2, SMT DEF SubSeqs
<1>4. Len(text) \in Nat /\ \A k \in 1..Len(text) : text[k] \in STRING
  BY <1>0, LenProperties, ElementOfSeq
<1>5. \A k \in (i + 1)..j : text[k] \in STRING
  BY <1>4
<1>6. SubSeq(text, i + 1, j) \in Seq(STRING)
  BY <1>4, <1>5, SubSeqProperties
<1> QED  BY <1>3, <1>6

\* What a device is sent is never None.
LEMMA PiecesAreThere ==
    /\ None \notin Pieces
    /\ <<"on">> # None
    /\ Nothing \in Configs
    /\ None \notin Configs
<1>1. Configs \subseteq [Parts -> Seq(STRING) \cup {<<"on">>, None}]
  BY PiecesAreTexts DEF Configs
<1>2. Nothing \in Configs
  BY DEF Nothing, Configs
<1> QED  BY <1>1, <1>2, NoneAssumption, PiecesAreTexts

\* All three blocks of one Secret, or none.
LEMMA DataOfSecret ==
    ASSUME NEW s \in Secrets, GetCertificateData(s) # NotFound
    PROVE  LET d == GetCertificateData(s) IN
           /\ d \in [CA : Pieces, Cert : Pieces, Key : Pieces]
           /\ OfOneSecret(d.CA, d.Cert, d.Key)
<1> DEFINE ca == getStringInBetween(s.ca, certStartMarker, certEndMarker)
           crt == getStringInBetween(s.crt, certStartMarker, certEndMarker)
           key == getStringInBetween(s.key, keyStartMarker, keyEndMarker)
           d == GetCertificateData(s)
<1>1. /\ NotFound \notin {ca, crt, key}
      /\ d = [CA |-> ca, Cert |-> crt, Key |-> key]
  BY DEF GetCertificateData
<1>2. /\ s.ca \in Seq(STRING)
      /\ s.crt \in Seq(STRING)
      /\ s.key \in Seq(STRING)
  BY SecretsAssumption
<1>3. ca \in SubSeqs(s.ca) /\ IsBlockOf(ca, s.ca, certStartMarker, certEndMarker)
  BY <1>1, <1>2, CutIsBlock
<1>4. crt \in SubSeqs(s.crt) /\ IsBlockOf(crt, s.crt, certStartMarker, certEndMarker)
  BY <1>1, <1>2, CutIsBlock
<1>5. key \in SubSeqs(s.key) /\ IsBlockOf(key, s.key, keyStartMarker, keyEndMarker)
  BY <1>1, <1>2, CutIsBlock
<1> HIDE DEF ca, crt, key, d
<1>6. ca \in Pieces /\ crt \in Pieces /\ key \in Pieces
  BY <1>3, <1>4, <1>5, PiecesOfSecret
<1>7. OfOneSecret(ca, crt, key)
  BY <1>3, <1>4, <1>5 DEF OfOneSecret
<1> QED  BY <1>1, <1>6, <1>7 DEF d

-----------------------------------------------------------------------------
(* Commands.                                                                *)

LEMMA ScriptSteps ==
    ASSUME os \in {"srlinux", "sros"}
    PROVE  /\ Len(Script) = 6 /\ DOMAIN Script = 1..6
           /\ os = "srlinux" =>
                /\ Script[1] = "services" /\ Script[2] = "key"
                /\ Script[3] = "cert" /\ Script[4] = "anchor"
                /\ Script[5] = "commit" /\ Script[6] = "prompt"
           /\ os = "sros" =>
                /\ Script[1] = "enter" /\ Script[2] = "key"
                /\ Script[3] = "cert" /\ Script[4] = "anchor"
                /\ Script[5] = "services" /\ Script[6] = "commit"
BY DEF Script, SrlinuxScript, SrosScript

LEMMA MaterialIsThere ==
    ASSUME certData \in [CA : Pieces, Cert : Pieces, Key : Pieces],
           NEW p \in Parts
    PROVE  /\ Material(p, certData) \in Pieces \cup {<<"on">>}
           /\ Material(p, certData) # None
BY PiecesAreThere DEF Material, Parts

\* What a commit makes of the running configuration.
LEMMA Merging ==
    ASSUME running \in Configs, candidate \in Configs
    PROVE  /\ Merged \in Configs
           /\ \A p \in Parts : Merged[p] = IF candidate[p] = None THEN running[p]
                                           ELSE candidate[p]
           /\ Whole(running) => Whole(Merged)
<1>1. \A p \in Parts : Merged[p] = IF candidate[p] = None THEN running[p]
                                   ELSE candidate[p]
  BY DEF Merged
<1>2. Merged \in Configs
  BY DEF Merged, Configs
<1>3. Whole(running) => Whole(Merged)
  BY <1>1 DEF Whole
<1> QED  BY <1>1, <1>2, <1>3

\* A device that has not refused anything commits the profile of one Secret.
LEMMA CommitsOneSecret ==
    ASSUME IInv, pc = "commands", Commits, ~refused
    PROVE  OneSecret(Merged)
<1>1. /\ candidate # None
      /\ Command = "commit"
      /\ linked
  BY DEF IInv, SessionKnows, Commits
<1>2. /\ os \in {"srlinux", "sros"}
      /\ step \in 1..6
      /\ candidate \in Configs
      /\ running \in Configs
      /\ certData # NotFound
      /\ certData \in [CA : Pieces, Cert : Pieces, Key : Pieces]
  BY <1>1, ScriptSteps DEF IInv, TypeOK, SessionKnows
<1>3. /\ os = "srlinux" => step = 5
      /\ os = "sros" => step = 6
  BY <1>1, <1>2, ScriptSteps DEF Command
<1>4. \A k \in 2..4 : Script[k] \in Parts => candidate[Script[k]] = Material(Script[k], certData)
  BY <1>1, <1>2, <1>3 DEF IInv, CandidateAsEntered
<1>5. Script[2] = "key" /\ Script[3] = "cert" /\ Script[4] = "anchor"
  BY <1>2, ScriptSteps
<1>6. /\ candidate["key"] = certData.Key
      /\ candidate["cert"] = certData.Cert
      /\ candidate["anchor"] = certData.CA
  BY <1>4, <1>5 DEF Parts, Material
<1>7. /\ candidate["key"] # None
      /\ candidate["cert"] # None
      /\ candidate["anchor"] # None
  BY <1>2, <1>6, PiecesAreThere
<1>8. /\ Merged["key"] = certData.Key
      /\ Merged["cert"] = certData.Cert
      /\ Merged["anchor"] = certData.CA
  BY <1>2, <1>6, <1>7, Merging DEF Parts
<1>9. OfOneSecret(certData.CA, certData.Cert, certData.Key)
  BY <1>2 DEF IInv, BlocksAreWhole
<1> QED  BY <1>8, <1>9 DEF OneSecret

-----------------------------------------------------------------------------
(* Every step keeps the invariant.                                          *)

LEMMA InitInv == Init => IInv
<1> SUFFICES ASSUME Init PROVE IInv
  OBVIOUS
<1>1. Nothing \in Configs
  BY PiecesAreThere
<1>2. TypeOK
  <2>1. rotations \in 0..MaxRotations /\ faults \in 0..MaxFaults
    BY BoundAssumption DEF Init
  <2>2. {linked, up, refused, sent} \subseteq BOOLEAN
    BY DEF Init
  <2>3. {running, startup} \subseteq Configs
    BY <1>1 DEF Init
  <2> QED  BY <2>1, <2>2, <2>3 DEF Init, TypeOK
<1>3. /\ OneSecret(running) /\ OneSecret(startup)
      /\ ~Whole(startup)
  BY DEF Init, OneSecret, Nothing, Whole, Parts
<1>4. was # "down" /\ was # "saved"
  BY NoneAssumption DEF Init, DeviceStates
<1> QED  BY <1>2, <1>3, <1>4 DEF Init, IInv, SessionKnows, ContainerIsFresh,
                CandidateAsEntered, CommitOnRecord, BlocksAreWhole, OneProfile

\* What the safety properties say only depends on the variables they name.
LEMMA RotateKeeps == IInv /\ Rotate => IInv'
<1> SUFFICES ASSUME IInv, Rotate PROVE IInv'
  OBVIOUS
<1>1. UNCHANGED <<session, up, candidate, stored, result, ghosts, refused, faults>>
  BY DEF Rotate
<1>2. TypeOK'
  BY <1>1, BoundAssumption DEF Rotate, IInv, TypeOK, session, stored, ghosts, Script, Pieces, Configs
<1>3. SessionKnows' /\ ContainerIsFresh'
  BY <1>1 DEF IInv, SessionKnows, ContainerIsFresh, session, stored, ghosts
<1>4. CandidateAsEntered'
  BY <1>1 DEF IInv, CandidateAsEntered, Script, session
<1>5. CommitOnRecord'
  BY <1>1 DEF IInv, CommitOnRecord, Script, session, stored, ghosts, Whole
<1>6. BlocksAreWhole' /\ OneProfile'
  BY <1>1 DEF IInv, BlocksAreWhole, OneProfile, OneSecret, OfOneSecret, session, stored
<1> QED  BY <1>2, <1>3, <1>4, <1>5, <1>6 DEF IInv

LEMMA CrashKeeps == IInv /\ Crash => IInv'
<1> SUFFICES ASSUME IInv, Crash PROVE IInv'
  OBVIOUS
<1>1. /\ UNCHANGED <<os, secret, certData, pc, step, result, refused, rotations>>
      /\ up' = FALSE /\ linked' = FALSE /\ candidate' = None
      /\ running' = Nothing /\ startup' = Nothing /\ sent' = FALSE /\ was' = None
      /\ faults' \in 0..MaxFaults
  BY BoundAssumption DEF Crash, Fault, IInv, TypeOK
<1>2. TypeOK'
  BY <1>1, PiecesAreThere DEF IInv, TypeOK, Script, Pieces, Configs
<1>3. SessionKnows' /\ ContainerIsFresh' /\ CandidateAsEntered'
  BY <1>1 DEF IInv, SessionKnows, ContainerIsFresh, CandidateAsEntered
<1>4. CommitOnRecord'
  <2>1. ~Whole(startup)'
    BY <1>1 DEF Whole, Nothing, Parts
  <2>2. None # "down" /\ None # "saved"
    BY NoneAssumption DEF DeviceStates
  <2> QED  BY <1>1, <2>1, <2>2 DEF CommitOnRecord
<1>5. BlocksAreWhole'
  BY <1>1 DEF IInv, BlocksAreWhole, OfOneSecret
<1>6. OneProfile'
  BY <1>1 DEF OneProfile, OneSecret, Nothing, Parts
<1> QED  BY <1>2, <1>3, <1>4, <1>5, <1>6 DEF IInv

LEMMA BootKeeps == IInv /\ Boot => IInv'
<1> SUFFICES ASSUME IInv, Boot PROVE IInv'
  OBVIOUS
<1>1. /\ UNCHANGED <<session, secret, candidate, stored, result, ghosts, budget>>
      /\ up' = TRUE
  BY DEF Boot
<1>2. TypeOK'
  BY <1>1 DEF IInv, TypeOK, Script, Pieces, Configs, session, stored, ghosts, budget
<1>3. SessionKnows' /\ ContainerIsFresh'
  BY <1>1 DEF IInv, SessionKnows, ContainerIsFresh, session, stored, ghosts
<1>4. CandidateAsEntered'
  BY <1>1 DEF IInv, CandidateAsEntered, Script, session, budget
<1>5. CommitOnRecord'
  BY <1>1 DEF IInv, CommitOnRecord, Script, session, stored, ghosts, Whole
<1>6. BlocksAreWhole' /\ OneProfile'
  BY <1>1 DEF IInv, BlocksAreWhole, OneProfile, OneSecret, OfOneSecret, session, stored, budget
<1> QED  BY <1>2, <1>3, <1>4, <1>5, <1>6 DEF IInv

LEMMA CallKeeps == IInv /\ Call => IInv'
<1> SUFFICES ASSUME IInv, Call PROVE IInv'
  OBVIOUS
<1>1. /\ UNCHANGED <<os, certData, step, linked, secret, up, candidate, stored, ghosts, budget>>
      /\ pc = "idle" /\ pc' = "secret" /\ result' = "pending"
  BY DEF Call
<1>2. TypeOK'
  BY <1>1 DEF IInv, TypeOK, Script, Pieces, Configs, stored, ghosts, budget
<1>3. SessionKnows' /\ ContainerIsFresh'
  BY <1>1 DEF IInv, SessionKnows, ContainerIsFresh, stored, ghosts
<1>4. CandidateAsEntered'
  BY <1>1 DEF IInv, CandidateAsEntered, Script, budget
<1>5. CommitOnRecord'
  BY <1>1 DEF IInv, CommitOnRecord, Script, stored, ghosts, Whole
<1>6. BlocksAreWhole' /\ OneProfile'
  BY <1>1 DEF IInv, BlocksAreWhole, OneProfile, OneSecret, OfOneSecret, stored, budget
<1> QED  BY <1>2, <1>3, <1>4, <1>5, <1>6 DEF IInv

\* A session that returns leaves what it has stored.
LEMMA ReturnKeeps ==
    ASSUME IInv, NEW r \in {"ok", "error"}, Return(r),
           UNCHANGED <<os, secret, up>>,
           running' \in Configs, startup' \in Configs,
           sent' \in BOOLEAN, refused' \in BOOLEAN,
           rotations' \in 0..MaxRotations, faults' \in 0..MaxFaults,
           ~up => running' = Nothing /\ startup' = Nothing /\ ~sent',
           Whole(startup') => Whole(running'),
           ~refused' => OneSecret(running') /\ OneSecret(startup')
    PROVE  IInv'
<1>1. /\ pc' = "idle" /\ step' = 0 /\ result' = r /\ certData' = NotFound
      /\ linked' = FALSE /\ candidate' = None /\ was' = None
  BY DEF Return
<1>2. TypeOK'
  BY <1>1 DEF IInv, TypeOK, Script, Pieces, Configs
<1>3. SessionKnows' /\ ContainerIsFresh' /\ CandidateAsEntered' /\ BlocksAreWhole'
  BY <1>1 DEF SessionKnows, ContainerIsFresh, CandidateAsEntered, BlocksAreWhole
<1>4. CommitOnRecord'
  <2>1. None # "down" /\ None # "saved"
    BY NoneAssumption DEF DeviceStates
  <2> QED  BY <1>1, <2>1 DEF CommitOnRecord, Whole
<1>5. OneProfile'
  BY DEF OneProfile, OneSecret, OfOneSecret
<1> QED  BY <1>2, <1>3, <1>4, <1>5 DEF IInv

LEMMA Counters ==
    ASSUME TypeOK, Fault \/ NoFault
    PROVE  rotations' \in 0..MaxRotations /\ faults' \in 0..MaxFaults
BY BoundAssumption DEF TypeOK, Fault, NoFault

LEMMA GetSecretsKeeps == IInv /\ GetSecrets => IInv'
<1> SUFFICES ASSUME IInv, GetSecrets PROVE IInv'
  OBVIOUS
<1> DEFINE data == IF secret = None THEN NotFound ELSE GetCertificateData(secret)
<1>1. /\ pc = "secret"
      /\ UNCHANGED <<os, secret, up, stored, sent, refused>>
      /\ rotations' \in 0..MaxRotations /\ faults' \in 0..MaxFaults
  BY Counters DEF GetSecrets, IInv
<1>2. CASE Return("error")
  <2>1. ~linked
    BY <1>1 DEF IInv, SessionKnows
  <2> QED  BY <1>1, <1>2, ReturnKeeps DEF IInv, TypeOK, ContainerIsFresh, CommitOnRecord, OneProfile, stored
<1>3. CASE data # NotFound /\ certData' = data /\ pc' = "open"
           /\ UNCHANGED <<step, linked, candidate, result, was>>
  <2>1. secret \in Secrets /\ data = GetCertificateData(secret)
    BY <1>3 DEF IInv, TypeOK
  <2>2. /\ certData' \in [CA : Pieces, Cert : Pieces, Key : Pieces]
        /\ OfOneSecret(certData'.CA, certData'.Cert, certData'.Key)
        /\ certData' # NotFound
    BY <1>3, <2>1, DataOfSecret
  <2>3. ~linked /\ pc # "commands"
    BY <1>1 DEF IInv, SessionKnows
  <2>4. TypeOK'
    BY <1>1, <1>3, <2>2 DEF IInv, TypeOK, Script, Pieces, Configs, stored
  <2>5. SessionKnows' /\ ContainerIsFresh' /\ CandidateAsEntered'
    BY <1>1, <1>3, <2>2, <2>3 DEF IInv, SessionKnows, ContainerIsFresh, CandidateAsEntered, stored
  <2>6. CommitOnRecord'
    BY <1>1, <1>3 DEF IInv, CommitOnRecord, Script, stored, Whole
  <2>7. BlocksAreWhole' /\ OneProfile'
    BY <1>1, <2>2 DEF IInv, BlocksAreWhole, OneProfile, OneSecret, OfOneSecret, stored
  <2> QED  BY <2>4, <2>5, <2>6, <2>7 DEF IInv
<1> QED  BY <1>2, <1>3 DEF GetSecrets

LEMMA OpenKeeps == IInv /\ Open => IInv'
<1> SUFFICES ASSUME IInv, Open PROVE IInv'
  OBVIOUS
<1>1. /\ pc = "open"
      /\ UNCHANGED <<os, secret, up, stored, sent, refused>>
      /\ rotations' \in 0..MaxRotations /\ faults' \in 0..MaxFaults
  BY Counters DEF Open, IInv
<1>2. ~linked
  BY <1>1 DEF IInv, SessionKnows
<1>3. CASE Return("error")
  BY <1>1, <1>3, ReturnKeeps DEF IInv, TypeOK, ContainerIsFresh, CommitOnRecord, OneProfile, stored
<1>4. CASE /\ up /\ linked' = TRUE /\ pc' = "commands" /\ step' = 1
           /\ candidate' = IF os = "srlinux" THEN Nothing ELSE None
           /\ UNCHANGED <<certData, result, was>>
  <2>1. os' \in {"srlinux", "sros"} /\ Nothing \in Configs /\ Nothing # None
    BY <1>1, PiecesAreThere DEF IInv, TypeOK
  <2>2. Len(Script') = 6 /\ DOMAIN Script' = 1..6
    BY <1>1, <2>1, ScriptSteps DEF Script
  <2>3. TypeOK'
    BY <1>1, <1>4, <2>1, <2>2 DEF IInv, TypeOK, Pieces, Configs, stored
  <2>4. SessionKnows' /\ ContainerIsFresh'
    BY <1>1, <1>2, <1>4 DEF IInv, SessionKnows, ContainerIsFresh, stored
  <2>5. CandidateAsEntered'
    BY <1>1, <1>4, <2>1 DEF CandidateAsEntered
  <2>6. CommitOnRecord'
    BY <1>1, <1>2, <1>4, <2>2 DEF IInv, CommitOnRecord, SessionKnows, stored, Whole
  <2>7. BlocksAreWhole' /\ OneProfile'
    BY <1>1, <1>4 DEF IInv, BlocksAreWhole, OneProfile, OneSecret, OfOneSecret, stored
  <2> QED  BY <2>3, <2>4, <2>5, <2>6, <2>7 DEF IInv
<1> QED  BY <1>3, <1>4 DEF Open

LEMMA PerformKeeps ==
    ASSUME IInv, pc = "commands", NEW effect \in Effects, Perform(effect),
           linked \/ effect = "nothing", refused => refused'
    PROVE  /\ running' \in Configs
           /\ startup' \in Configs
           /\ Whole(startup') => Whole(running')
           /\ Whole(startup) => Whole(startup')
           /\ ~refused' => OneSecret(running') /\ OneSecret(startup')
           /\ ~up \/ ~Commits => running' = running /\ startup' = startup
<1>1. /\ running \in Configs /\ startup \in Configs
      /\ candidate # None => candidate \in Configs
      /\ Whole(startup) => Whole(running)
      /\ ~refused => OneSecret(running) /\ OneSecret(startup)
      /\ linked => up
  BY DEF IInv, TypeOK, CommitOnRecord, OneProfile, SessionKnows
<1>2. CASE Commits /\ effect # "nothing"
  <2>1. /\ running' = Merged
        /\ startup' \in {Merged, startup}
        /\ up
    BY <1>1, <1>2 DEF Perform
  <2>2. Merged \in Configs /\ (Whole(running) => Whole(Merged))
    BY <1>1, <1>2, Merging DEF Commits
  <2>3. ~refused => OneSecret(Merged)
    BY <1>2, CommitsOneSecret
  <2> QED  BY <1>1, <1>2, <2>1, <2>2, <2>3
<1>3. CASE ~Commits \/ effect = "nothing"
  BY <1>1, <1>3 DEF Perform, Effects
<1> QED  BY <1>2, <1>3

LEMMA ScriptDistinct ==
    ASSUME os \in {"srlinux", "sros"},
           NEW j \in 1..6, NEW k \in 1..6, Script[j] = Script[k]
    PROVE  j = k
<1>1. /\ j = 1 \/ j = 2 \/ j = 3 \/ j = 4 \/ j = 5 \/ j = 6
      /\ k = 1 \/ k = 2 \/ k = 3 \/ k = 4 \/ k = 5 \/ k = 6
  OBVIOUS
<1> QED  BY <1>1, ScriptSteps

LEMMA DeviceStateIsOne ==
    /\ DeviceState \in DeviceStates
    /\ DeviceState # None
    /\ up => DeviceState # "down"
BY NoneAssumption DEF DeviceState, DeviceStates

\* The candidate takes a command in.
LEMMA CandidateGrows ==
    ASSUME IInv, pc = "commands", linked, ~refused, step # Len(Script)
    PROVE  /\ Entered # None
           /\ \A k \in 1..step :
                Script[k] \in Parts => Entered[Script[k]] = Material(Script[k], certData)
<1>1. /\ os \in {"srlinux", "sros"}
      /\ step \in 1..6 /\ step # 6
      /\ candidate # None => candidate \in Configs
  BY ScriptSteps DEF IInv, TypeOK
<1>2. /\ os = "srlinux" \/ step > 1 => candidate # None
      /\ \A k \in 1..(step - 1) :
           Script[k] \in Parts => candidate[Script[k]] = Material(Script[k], certData)
  BY DEF IInv, CandidateAsEntered
<1>3. Command = Script[step]
  BY DEF Command
<1>4. CASE Command = "enter"
  <2>1. step = 1
    <3>1. os = "sros"
      <4>1. step = 1 \/ step = 2 \/ step = 3 \/ step = 4 \/ step = 5
        BY <1>1
      <4> QED  BY <1>1, <1>3, <1>4, <4>1, ScriptSteps
    <3>2. Script[1] = Script[step]
      BY <1>3, <1>4, <3>1, ScriptSteps
    <3> QED  BY <1>1, <3>2, ScriptDistinct
  <2>2. ASSUME NEW k \in 1..step PROVE Script[k] \notin Parts
    <3>1. k = step
      BY <2>1
    <3> QED  BY <1>3, <1>4, <3>1 DEF Parts
  <2>3. Entered = Nothing
    BY <1>4 DEF Entered, Parts
  <2> QED  BY <2>2, <2>3, PiecesAreThere
<1>5. CASE Command \in Parts
  <2>1. candidate # None
    <3>1. (Script[1] = "enter" /\ "enter" \notin Parts) \/ os = "srlinux"
      BY <1>1, ScriptSteps DEF Parts
    <3>2. os = "srlinux" \/ step > 1
      BY <1>1, <1>3, <1>5, <3>1
    <3> QED  BY <1>2, <3>2
  <2>2. Entered = [candidate EXCEPT ![Command] = Material(Command, certData)]
    BY <1>5, <2>1 DEF Entered, Parts
  <2>3. candidate \in [Parts -> Pieces \cup {<<"on">>, None}]
    BY <1>1, <2>1 DEF Configs
  <2>4. ASSUME NEW k \in 1..step, Script[k] \in Parts
        PROVE  Entered[Script[k]] = Material(Script[k], certData)
    <3>1. CASE k = step
      BY <1>3, <1>5, <2>2, <2>3, <3>1
    <3>2. CASE k # step
      <4>1. Script[k] # Script[step]
        BY <1>1, <3>2, ScriptDistinct
      <4>2. k \in 1..(step - 1)
        BY <1>1, <3>2
      <4> QED  BY <1>2, <1>3, <2>2, <2>3, <2>4, <4>1, <4>2
    <3> QED  BY <3>1, <3>2
  <2>5. Entered \in Configs
    <3> DEFINE m == Material(Command, certData)
    <3>1. certData \in [CA : Pieces, Cert : Pieces, Key : Pieces]
      BY DEF IInv, TypeOK, SessionKnows
    <3>2. m \in Pieces \cup {<<"on">>}
      BY <1>5, <3>1, MaterialIsThere
    <3> HIDE DEF m
    <3>3. [candidate EXCEPT ![Command] = m] \in [Parts -> Pieces \cup {<<"on">>, None}]
      BY <2>3, <3>2
    <3> QED  BY <2>2, <3>3 DEF m, Configs
  <2> QED  BY <2>4, <2>5, PiecesAreThere
<1>6. CASE Command \notin Parts \cup {"enter"}
  <2>1. Entered = candidate
    BY <1>6 DEF Entered
  <2>2. os = "srlinux" \/ step > 1
    BY <1>1, <1>3, <1>6, ScriptSteps
  <2>3. ASSUME NEW k \in 1..step, Script[k] \in Parts
        PROVE  k \in 1..(step - 1)
    BY <1>1, <1>3, <1>6, <2>3
  <2> QED  BY <1>2, <2>1, <2>2, <2>3
<1> QED  BY <1>4, <1>5, <1>6

LEMMA EnteredTyped ==
    ASSUME IInv, pc = "commands"
    PROVE  Entered = None \/ Entered \in Configs
<1>1. candidate = None \/ candidate \in Configs
  BY DEF IInv, TypeOK
<1>2. certData \in [CA : Pieces, Cert : Pieces, Key : Pieces]
  BY DEF IInv, TypeOK, SessionKnows
<1>3. CASE Command \in Parts /\ candidate # None
  <2> DEFINE m == Material(Command, certData)
  <2>1. m \in Pieces \cup {<<"on">>}
    BY <1>2, <1>3, MaterialIsThere
  <2> HIDE DEF m
  <2>2. candidate \in [Parts -> Pieces \cup {<<"on">>, None}]
    BY <1>1, <1>3 DEF Configs
  <2>3. [candidate EXCEPT ![Command] = m] \in [Parts -> Pieces \cup {<<"on">>, None}]
    BY <2>1, <2>2
  <2>4. Entered = [candidate EXCEPT ![Command] = m]
    BY <1>3 DEF Entered, Parts, m
  <2> QED  BY <2>3, <2>4 DEF Configs
<1>4. CASE ~(Command \in Parts /\ candidate # None)
  BY <1>1, <1>4, PiecesAreThere DEF Entered
<1> QED  BY <1>3, <1>4

\* A command that is not the last, and no error.
LEMMA ProceedKeeps ==
    ASSUME IInv, pc = "commands", step # Len(Script),
           NEW effect \in Effects, Perform(effect), Proceed(effect),
           UNCHANGED <<os, secret, up>>,
           linked \/ effect = "nothing",
           refused' \in BOOLEAN, refused => refused',
           rotations' \in 0..MaxRotations, faults' \in 0..MaxFaults,
           \/ refused' \/ ~linked \/ effect = "all"
           \/ os = "srlinux" /\ Command = "commit"
    PROVE  IInv'
<1>1. /\ os \in {"srlinux", "sros"}
      /\ step \in 1..6 /\ step # 6
      /\ Len(Script) = 6 /\ Len(Script') = 6 /\ DOMAIN Script' = 1..6
      /\ Script' = Script
  BY ScriptSteps DEF IInv, TypeOK, Script
<1>2. /\ step' = step + 1
      /\ candidate' = IF effect = "nothing" THEN candidate ELSE Entered
      /\ was' = IF linked /\ Command = "commit" THEN DeviceState ELSE was
      /\ UNCHANGED <<certData, pc, linked, result, sent>>
  BY DEF Proceed
<1>3. /\ running' \in Configs /\ startup' \in Configs
      /\ Whole(startup') => Whole(running')
      /\ Whole(startup) => Whole(startup')
      /\ ~refused' => OneSecret(running') /\ OneSecret(startup')
      /\ ~up => running' = running /\ startup' = startup
  BY PerformKeeps
<1>4. /\ linked => up /\ pc = "commands"
      /\ ~linked => candidate = None /\ was = None
      /\ certData # NotFound
  BY DEF IInv, SessionKnows
<1>5. was = None /\ was # "down" /\ was # "saved"
  BY <1>1, NoneAssumption DEF IInv, CommitOnRecord, DeviceStates
<1>6. Command = Script[step]
  BY DEF Command
<1>7. TypeOK'
  <2>1. was' \in DeviceStates \cup {None}
    BY <1>2, <1>5, DeviceStateIsOne
  <2>2. candidate' = None \/ candidate' \in Configs
    BY <1>2, EnteredTyped DEF IInv, TypeOK
  <2>3. step' \in 1..6
    BY <1>1, <1>2
  <2>4. {linked, up, refused, sent}' \subseteq BOOLEAN
    BY <1>2 DEF IInv, TypeOK
  <2>5. pc' = "commands" /\ certData' = certData /\ result' = result
    BY <1>2
  <2> QED  BY <1>1, <1>3, <2>1, <2>2, <2>3, <2>4, <2>5 DEF IInv, TypeOK, Pieces, Configs
<1>8. SessionKnows'
  <2>1. ~linked => effect = "nothing" /\ candidate' = None /\ was' = None
    BY <1>2, <1>4, NoneAssumption
  <2> QED  BY <1>2, <1>4, <2>1 DEF IInv, SessionKnows
<1>9. ContainerIsFresh'
  BY <1>2, <1>3 DEF IInv, ContainerIsFresh
<1>10. CandidateAsEntered'
  <2> SUFFICES ASSUME ~refused', linked'
               PROVE  /\ candidate' # None
                      /\ \A k \in 1..step : Script[k] \in Parts =>
                            candidate'[Script[k]] = Material(Script[k], certData)
    <3>1. step' - 1 = step
      BY <1>1, <1>2
    <3>2. certData' = certData
      BY <1>2
    <3> QED  BY <1>1, <3>1, <3>2 DEF CandidateAsEntered
  <2>1. linked /\ ~refused
    BY <1>2
  <2>2. candidate' = Entered
    <3>1. CASE effect = "all"
      BY <1>2, <3>1 DEF Effects
    <3>2. CASE os = "srlinux" /\ Command = "commit"
      <4>1. Entered = candidate
        BY <3>2 DEF Entered, Parts
      <4> QED  BY <1>2, <4>1
    <3> QED  BY <2>1, <3>1, <3>2
  <2> QED  BY <2>1, <2>2, CandidateGrows
<1>11. CommitOnRecord'
  <2>1. linked' /\ os' = "srlinux" /\ step' = 6 <=> linked /\ Command = "commit"
    <3>1. step = 1 \/ step = 2 \/ step = 3 \/ step = 4 \/ step = 5
      BY <1>1
    <3>2. Command = "commit" <=> os = "srlinux" /\ step = 5
      BY <1>1, <1>6, <3>1, ScriptSteps
    <3> QED  BY <1>1, <1>2, <3>2
  <2>2. was' # None <=> linked /\ Command = "commit"
    BY <1>2, <1>5, DeviceStateIsOne
  <2>3. was' # "down"
    BY <1>2, <1>4, <1>5, DeviceStateIsOne
  <2>4. was' = "saved" => Whole(startup)
    BY <1>2, <1>5 DEF DeviceState
  <2> QED  BY <1>1, <1>3, <2>1, <2>2, <2>3, <2>4 DEF CommitOnRecord, Whole
<1>12. BlocksAreWhole' /\ OneProfile'
  BY <1>2, <1>3 DEF IInv, BlocksAreWhole, OneProfile, OneSecret, OfOneSecret
<1> QED  BY <1>7, <1>8, <1>9, <1>10, <1>11, <1>12 DEF IInv

\* A session that ends, by an error or after its last command.
LEMMA EndKeeps ==
    ASSUME IInv, pc = "commands", NEW effect \in Effects, Perform(effect),
           NEW r \in {"ok", "error"}, Return(r), sent' = (sent \/ Committed),
           UNCHANGED <<os, secret, up>>,
           linked \/ effect = "nothing",
           refused' \in BOOLEAN, refused => refused',
           rotations' \in 0..MaxRotations, faults' \in 0..MaxFaults
    PROVE  IInv'
<1>1. /\ running' \in Configs /\ startup' \in Configs
      /\ Whole(startup') => Whole(running')
      /\ ~refused' => OneSecret(running') /\ OneSecret(startup')
      /\ ~up => running' = running /\ startup' = startup
  BY PerformKeeps
<1>2. sent' \in BOOLEAN
  BY DEF IInv, TypeOK, Committed
<1>3. ~up => ~linked /\ was = None
  BY DEF IInv, SessionKnows
<1>4. ~up => running' = Nothing /\ startup' = Nothing /\ ~sent'
  BY <1>1, <1>3 DEF IInv, ContainerIsFresh, Committed
<1> QED  BY <1>1, <1>2, <1>4, ReturnKeeps

LEMMA AnsweredKeeps ==
    ASSUME IInv, NEW effect \in Effects, Answered(effect)
    PROVE  IInv'
<1>1. /\ pc = "commands" /\ linked
      /\ Perform(effect) /\ Proceed(effect)
      /\ UNCHANGED <<os, secret, up>>
  BY DEF Answered
<1>2. /\ rotations' \in 0..MaxRotations /\ faults' \in 0..MaxFaults
      /\ refused' \in BOOLEAN
      /\ refused => refused'
      /\ refused' \/ effect = "all"
  <2>1. /\ NoFault \/ Fault
        /\ (refused' = refused /\ effect = "all") \/ refused' = TRUE
    BY DEF Answered
  <2>2. TypeOK
    BY DEF IInv
  <2>3. rotations' \in 0..MaxRotations /\ faults' \in 0..MaxFaults
    BY <2>1, <2>2, Counters
  <2>4. refused \in BOOLEAN
    BY <2>2 DEF TypeOK
  <2>5. CASE refused' = refused /\ effect = "all"
    BY <2>3, <2>4, <2>5
  <2>6. CASE refused' = TRUE
    BY <2>3, <2>6
  <2> QED  BY <2>1, <2>5, <2>6
<1>3. CASE step # Len(Script)
  BY <1>1, <1>2, <1>3, ProceedKeeps
<1>4. CASE step = Len(Script)
  <2>1. Return("ok") /\ sent' = (sent \/ Committed)
    BY <1>1, <1>4 DEF Proceed
  <2> QED  BY <1>1, <1>2, <2>1, EndKeeps
<1> QED  BY <1>3, <1>4

LEMMA UnansweredKeeps ==
    ASSUME IInv, NEW effect \in Effects, Unanswered(effect)
    PROVE  IInv'
<1>1. /\ pc = "commands" /\ Perform(effect)
      /\ UNCHANGED <<os, secret, up, refused>>
      /\ linked \/ effect = "nothing"
  BY DEF Unanswered
<1>2. /\ rotations' \in 0..MaxRotations /\ faults' \in 0..MaxFaults
      /\ refused' \in BOOLEAN
      /\ refused => refused'
  BY <1>1, Counters DEF Unanswered, IInv, TypeOK
<1>3. CASE os = "srlinux" /\ Command = "commit"
  <2>1. Proceed(effect)
    BY <1>3 DEF Unanswered
  <2>2. step # Len(Script)
    BY <1>1, <1>3, ScriptSteps DEF Command
  <2> QED  BY <1>1, <1>2, <1>3, <2>1, <2>2, ProceedKeeps
<1>4. CASE ~(os = "srlinux" /\ Command = "commit")
  <2>1. Return("error") /\ sent' = (sent \/ Committed)
    BY <1>4 DEF Unanswered
  <2> QED  BY <1>1, <1>2, <2>1, EndKeeps
<1> QED  BY <1>3, <1>4

LEMMA StepKeeps == IInv /\ [Next]_vars => IInv'
<1> SUFFICES ASSUME IInv, [Next]_vars PROVE IInv'
  OBVIOUS
<1>1. CASE Rotate
  BY <1>1, RotateKeeps
<1>2. CASE Crash
  BY <1>2, CrashKeeps
<1>3. CASE Boot
  BY <1>3, BootKeeps
<1>4. CASE Call
  BY <1>4, CallKeeps
<1>5. CASE GetSecrets
  BY <1>5, GetSecretsKeeps
<1>6. CASE Open
  BY <1>6, OpenKeeps
<1>7. ASSUME NEW effect \in Effects, Answered(effect) PROVE IInv'
  BY <1>7, AnsweredKeeps
<1>8. ASSUME NEW effect \in Effects, Unanswered(effect) PROVE IInv'
  BY <1>8, UnansweredKeeps
<1>9. CASE UNCHANGED vars
  <2>1. UNCHANGED <<os, secret, certData, pc, step, linked, up, candidate, running,
                    startup, result, sent, was, refused, rotations, faults>>
    BY <1>9 DEF vars, session, stored, ghosts, budget
  <2>2. TypeOK'
    BY <2>1 DEF IInv, TypeOK, Script, Pieces, Configs
  <2>3. SessionKnows' /\ ContainerIsFresh'
    BY <2>1 DEF IInv, SessionKnows, ContainerIsFresh
  <2>4. CandidateAsEntered'
    BY <2>1 DEF IInv, CandidateAsEntered, Script
  <2>5. CommitOnRecord'
    BY <2>1 DEF IInv, CommitOnRecord, Script, Whole
  <2>6. BlocksAreWhole' /\ OneProfile'
    BY <2>1 DEF IInv, BlocksAreWhole, OneProfile, OneSecret, OfOneSecret
  <2> QED  BY <2>2, <2>3, <2>4, <2>5, <2>6 DEF IInv
<1> QED  BY <1>1, <1>2, <1>3, <1>4, <1>5, <1>6, <1>7, <1>8, <1>9 DEF Next, Session

-----------------------------------------------------------------------------
(* The contract: each step is one of a device's that is called, or not seen. *)

\* The abstract device.
Device == IF was = None THEN DeviceState ELSE was

LEMMA DeviceStays ==
    ASSUME UNCHANGED <<was, up, startup, sent>>
    PROVE  Device' = Device
BY DEF Device, DeviceState, Whole

\* A commit is only carried out in a session that has come as far as that.
LEMMA CommitsAreCommitted ==
    ASSUME IInv, pc = "commands"
    PROVE  /\ Commits => linked /\ Command = "commit"
           /\ Committed => up
           /\ was # None => Command = "prompt" /\ step = Len(Script)
<1>1. /\ ~linked => candidate = None /\ was = None
      /\ linked => up
      /\ was # None => os = "srlinux" /\ step = Len(Script)
  BY DEF IInv, SessionKnows, CommitOnRecord
<1>2. was # None => Command = "prompt"
  BY <1>1, ScriptSteps DEF Command
<1> QED  BY <1>1, <1>2 DEF Commits, Committed

\* A call that returns has an outcome the contract allows.
LEMMA ReturnIsOutcome ==
    ASSUME IInv, pc # "idle", NEW r \in {"ok", "error"}, Return(r), UNCHANGED up,
           sent' = (sent \/ Committed),
           Whole(startup) => Whole(startup'),
           Committed \/ (r = "error" /\ startup' = startup),
           Committed => up
    PROVE  Contract!Return
<1> DEFINE left == Device'
           o == [left |-> left, ok |-> r = "ok"]
<1>1. result = "pending" /\ result' = r /\ was' = None
  BY DEF IInv, SessionKnows, Return
<1>2. left = DeviceState'
  BY <1>1 DEF Device
<1>3. left \in DeviceStates /\ Device \in DeviceStates
  <2>1. left \in DeviceStates
    BY <1>2 DEF DeviceState, DeviceStates
  <2>2. Device \in DeviceStates
    BY DeviceStateIsOne DEF Device, IInv, TypeOK
  <2> QED  BY <2>1, <2>2
<1>4. ASSUME o \in Contract!Outcomes(Device) PROVE Contract!Return
  <2>1. result' = IF o.ok THEN "ok" ELSE "error"
    BY <1>1
  <2> QED  BY <1>1, <1>4, <2>1 DEF Contract!Return, Device
<1>5. CASE Committed
  <2>1. up /\ up' /\ sent'
    BY <1>5
  <2>2. Device # "down"
    BY <2>1, DeviceStateIsOne DEF Device, IInv, CommitOnRecord
  <2>3. Device = "saved" => Whole(startup')
    BY DEF Device, DeviceState, IInv, CommitOnRecord
  <2>4. left \in {Pushed(Device), "saved"}
    BY <1>2, <2>1, <2>3 DEF DeviceState, Pushed, Whole
  <2>5. o \in Contract!Outcomes(Device)
    BY <1>3, <2>2, <2>4
       DEF Contract!Outcomes, Contract!Pushed, Contract!DeviceStates, Pushed, DeviceStates
  <2> QED  BY <1>4, <2>5
<1>6. CASE ~Committed
  <2>1. was = None /\ sent' = sent /\ startup' = startup /\ r = "error"
    <3>1. was = None
      BY <1>6 DEF Committed
    <3>2. sent' = sent
      BY <1>6 DEF IInv, TypeOK
    <3> QED  BY <1>6, <3>1, <3>2
  <2>2. left = Device
    BY <1>1, <2>1, DeviceStays
  <2>3. o \in Contract!Outcomes(Device)
    BY <1>3, <2>1, <2>2 DEF Contract!Outcomes, Contract!DeviceStates, DeviceStates
  <2> QED  BY <1>4, <2>3
<1> QED  BY <1>5, <1>6

\* A command that does not end the session is not seen.
LEMMA ProceedUnseen ==
    ASSUME IInv, pc = "commands", NEW effect \in Effects, Perform(effect), Proceed(effect),
           UNCHANGED up, step # Len(Script)
    PROVE  Device' = Device /\ result' = result
<1>1. /\ was' = IF linked /\ Command = "commit" THEN DeviceState ELSE was
      /\ sent' = sent /\ result' = result
  BY DEF Proceed
<1>2. was = None
  BY CommitsAreCommitted
<1>3. CASE linked /\ Command = "commit"
  <2>1. was' # None
    BY <1>1, <1>3, DeviceStateIsOne
  <2>2. Device' = was' /\ Device = DeviceState
    BY <1>2, <2>1 DEF Device
  <2> QED  BY <1>1, <1>3, <2>2
<1>4. CASE ~(linked /\ Command = "commit")
  <2>1. startup' = startup
    BY <1>4, CommitsAreCommitted DEF Perform
  <2> QED  BY <1>1, <1>4, <2>1, DeviceStays
<1> QED  BY <1>3, <1>4

\* An error, before or after the commit.
LEMMA ErrorIsOutcome ==
    ASSUME IInv, pc = "commands", NEW effect \in Effects, Perform(effect),
           linked \/ effect = "nothing", refused => refused',
           NEW r \in {"ok", "error"}, Return(r),
           sent' = (sent \/ Committed), UNCHANGED up, r = "error" \/ Committed
    PROVE  Contract!Return
<1>1. /\ Whole(startup) => Whole(startup')
      /\ ~Commits => startup' = startup
  BY PerformKeeps
<1>2. Committed => up
  BY CommitsAreCommitted
<1>3. Commits => Committed
  BY CommitsAreCommitted DEF Committed
<1> QED  BY <1>1, <1>2, <1>3, ReturnIsOutcome

LEMMA AnsweredContract ==
    ASSUME IInv, IInv', NEW effect \in Effects, Answered(effect)
    PROVE  Contract!Return \/ (Device' = Device /\ result' = result)
<1>1. /\ pc = "commands" /\ linked
      /\ Perform(effect) /\ Proceed(effect) /\ UNCHANGED up
      /\ (UNCHANGED refused) \/ refused' = TRUE
  BY DEF Answered
<1>2. CASE step # Len(Script)
  BY <1>1, <1>2, ProceedUnseen
<1>3. CASE step = Len(Script)
  <2>1. Return("ok") /\ sent' = (sent \/ Committed)
    BY <1>1, <1>3 DEF Proceed
  <2>2. Committed
    <3>1. CASE os = "srlinux"
      BY <1>1, <1>3, <3>1 DEF IInv, CommitOnRecord, Committed
    <3>2. CASE os = "sros"
      BY <1>1, <1>3, <3>2, ScriptSteps DEF Committed, Command
    <3> QED  BY <3>1, <3>2 DEF IInv, TypeOK
  <2>3. refused => refused'
    BY <1>1
  <2> QED  BY <1>1, <2>1, <2>2, <2>3, ErrorIsOutcome
<1> QED  BY <1>2, <1>3

LEMMA UnansweredContract ==
    ASSUME IInv, NEW effect \in Effects, Unanswered(effect)
    PROVE  Contract!Return \/ (Device' = Device /\ result' = result)
<1>1. /\ pc = "commands" /\ Perform(effect)
      /\ UNCHANGED <<up, refused>>
      /\ linked \/ effect = "nothing"
  BY DEF Unanswered
<1>2. CASE os = "srlinux" /\ Command = "commit"
  <2>1. Proceed(effect)
    BY <1>2 DEF Unanswered
  <2>2. step # Len(Script)
    BY <1>1, <1>2, ScriptSteps DEF Command
  <2> QED  BY <1>1, <2>1, <2>2, ProceedUnseen
<1>3. CASE ~(os = "srlinux" /\ Command = "commit")
  <2>1. Return("error") /\ sent' = (sent \/ Committed)
    BY <1>3 DEF Unanswered
  <2> QED  BY <1>1, <2>1, ErrorIsOutcome
<1> QED  BY <1>2, <1>3

LEMMA EarlyErrorContract ==
    ASSUME IInv, pc \in {"secret", "open"}, Return("error"), UNCHANGED <<up, stored, sent>>
    PROVE  Contract!Return
<1>1. ~Committed
  BY DEF IInv, SessionKnows, Committed
<1>2. sent' = (sent \/ Committed)
  BY <1>1 DEF IInv, TypeOK
<1>3. startup' = startup
  BY DEF stored
<1> QED  BY <1>1, <1>2, <1>3, ReturnIsOutcome DEF Whole

LEMMA StepContract ==
    ASSUME IInv, IInv', [Next]_vars
    PROVE  [Contract!Next]_(Contract!vars)
<1>1. CASE Rotate \/ UNCHANGED vars
  <2>1. UNCHANGED <<was, up, startup, sent, result>>
    BY <1>1 DEF Rotate, vars, session, stored, ghosts
  <2> QED  BY <2>1, DeviceStays DEF Contract!vars, Device
<1>2. CASE Crash
  <2>1. was' = None /\ ~up' /\ result' = result
    BY <1>2 DEF Crash
  <2>2. Device' = "down"
    BY <2>1 DEF Device, DeviceState
  <2> QED  BY <2>1, <2>2 DEF Contract!Next, Contract!Crash, Device
<1>3. CASE Boot
  <2>1. ~up /\ up' /\ UNCHANGED <<was, startup, sent, result>>
    BY <1>3 DEF Boot, stored, ghosts
  <2>2. was = None /\ startup = Nothing /\ ~sent
    BY <2>1 DEF IInv, SessionKnows, ContainerIsFresh
  <2>3. Device = "down"
    BY <2>1, <2>2 DEF Device, DeviceState
  <2>4. ~Whole(startup)
    BY <2>2 DEF Whole, Nothing, Parts
  <2>5. Device' = "empty"
    BY <2>1, <2>2, <2>4 DEF Device, DeviceState, Whole
  <2> QED  BY <2>1, <2>3, <2>5 DEF Contract!Next, Contract!Boot, Device
<1>4. CASE Call
  <2>1. /\ UNCHANGED <<was, up, startup, sent>>
        /\ result # "pending" /\ result' = "pending"
    BY <1>4 DEF Call, stored, ghosts, IInv, SessionKnows
  <2> QED  BY <2>1, DeviceStays DEF Contract!Next, Contract!Call, Device
<1>5. CASE GetSecrets
  <2>1. CASE Return("error")
    BY <1>5, <2>1, EarlyErrorContract DEF GetSecrets, Contract!Next
  <2>2. CASE ~Return("error")
    <3>1. UNCHANGED <<was, up, startup, sent, result>>
      BY <1>5, <2>2 DEF GetSecrets, stored
    <3> QED  BY <3>1, DeviceStays DEF Contract!vars, Device
  <2> QED  BY <2>1, <2>2
<1>6. CASE Open
  <2>1. CASE Return("error")
    BY <1>6, <2>1, EarlyErrorContract DEF Open, Contract!Next
  <2>2. CASE ~Return("error")
    <3>1. UNCHANGED <<was, up, startup, sent, result>>
      BY <1>6, <2>2 DEF Open, stored
    <3> QED  BY <3>1, DeviceStays DEF Contract!vars, Device
  <2> QED  BY <2>1, <2>2
<1>7. ASSUME NEW effect \in Effects, Answered(effect) \/ Unanswered(effect)
      PROVE  [Contract!Next]_(Contract!vars)
  <2>1. Contract!Return \/ (Device' = Device /\ result' = result)
    BY <1>7, AnsweredContract, UnansweredContract
  <2> QED  BY <2>1 DEF Contract!Next, Contract!vars, Device
<1> QED  BY <1>1, <1>2, <1>3, <1>4, <1>5, <1>6, <1>7 DEF Next, Session

-----------------------------------------------------------------------------
(* Theorems.                                                                *)

\* The parts of the invariant hold at every step of every session.
THEOREM Invariance == Spec => []IInv
BY InitInv, StepKeeps, PTL DEF Spec

\* Types: a device is only ever sent pieces of Secrets.
THEOREM TypeCorrect == Spec => []TypeOK
<1>1. IInv => TypeOK
  BY DEF IInv
<1> QED  BY <1>1, Invariance, PTL

\* GetCertificateData is all or nothing, whatever the files of a Secret hold.
THEOREM SessionsUseWholeBlocks == Spec => []BlocksAreWhole
<1>1. IInv => BlocksAreWhole
  BY DEF IInv
<1> QED  BY <1>1, Invariance, PTL

\* A device that refuses nothing never mixes the profiles of two Secrets.
THEOREM ProfilesAreOfOneSecret == Spec => []OneProfile
<1>1. IInv => OneProfile
  BY DEF IInv
<1> QED  BY <1>1, Invariance, PTL

\* A session, command by command, does no more to the device than the contract
\* the reconciler is modelled on lets one call do.
THEOREM ContractIsKept == Spec => KeepsContract
<1>1. Init => Contract!Init
  <2> SUFFICES ASSUME Init PROVE Contract!Init
    OBVIOUS
  <2>1. was = None /\ ~up /\ result = "none"
    BY DEF Init
  <2> QED  BY <2>1 DEF Contract!Init, DeviceState
<1>2. IInv /\ IInv' /\ [Next]_vars => [Contract!Next]_(Contract!vars)
  BY StepContract
<1> QED  BY <1>1, <1>2, Invariance, PTL DEF Spec, KeepsContract, Contract!Spec

=============================================================================
