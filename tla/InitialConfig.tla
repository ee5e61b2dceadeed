---------------------------- MODULE InitialConfig ----------------------------
(***************************************************************************)
(* SetInitialConfig of the srlinux and sros providers, command by command, *)
(* against a device that may refuse a command, lose it, or be restarted,   *)
(* while the certificate Secret is rotated.  Sessions follow one another,  *)
(* as the reconciler's retries make them.                                  *)
(***************************************************************************)
EXTENDS CertData, DeviceOutcomes, Naturals

CONSTANTS
    Secrets,     \* what the certificate Secret may hold, texts by file
    None,        \* no Secret, no candidate, nothing configured
    MaxRotations, \* bound: changes of the Secret
    MaxFaults     \* bound: refused or lost commands, restarts

ASSUME BoundAssumption == MaxRotations \in Nat /\ MaxFaults \in Nat

ASSUME SecretsAssumption ==
    \A s \in Secrets : {s.ca, s.crt, s.key} \subseteq Seq(STRING)

VARIABLES
    os,        \* the network OS, which fixes the provider
    secret,    \* API server: the certificate Secret, or None
    certData,  \* SetInitialConfig: what was cut out of it
    pc,        \* what SetInitialConfig does next
    step,      \* the number of the next command
    linked,    \* the session is open
    up,        \* the container runs
    candidate, \* the session's private candidate, or None
    running,   \* the running configuration
    startup,   \* the configuration file "save" writes
    result,    \* of the latest call: "pending" before it returns
    refused,   \* the device has refused a command
    rotations,
    faults

\* What became of this container, for the abstract view only.
VARIABLES
    sent,      \* a session came as far as the commit
    was        \* the device's state before this session's commit, or None

session == <<os, certData, pc, step, linked>>
stored == <<running, startup>>
ghosts == <<sent, was>>
budget == <<refused, rotations, faults>>
vars == <<session, secret, up, candidate, stored, result, ghosts, budget>>

Parts == {"services", "key", "cert", "anchor"}

ASSUME NoneAssumption ==
    /\ None \notin Secrets
    /\ None \notin DeviceStates
    /\ None \notin Seq(STRING) \cup {<<"on">>}
    /\ None \notin [Parts -> Seq(STRING) \cup {<<"on">>, None}]

Nothing == [p \in Parts |-> None]

\* Mutant: the commit is forgotten.
ScriptWithoutCommit == <<"services", "key", "cert", "anchor", "prompt">>

\* The commands, those that configure the servers taken as one.
SrlinuxScript == <<"services", "key", "cert", "anchor", "commit", "prompt">>
SrosScript == <<"enter", "key", "cert", "anchor", "services", "commit">>

Script == IF os = "srlinux" THEN SrlinuxScript ELSE SrosScript

\* Mutant: the Secret is looked up for every command.
LatestMaterial(part, data) ==
    LET now == IF secret = None \/ GetCertificateData(secret) = NotFound
               THEN data ELSE GetCertificateData(secret)
    IN  CASE part = "services" -> <<"on">>
          [] part = "key" -> now.Key
          [] part = "cert" -> now.Cert
          [] part = "anchor" -> now.CA

\* What a "set" command puts into the candidate.
Material(part, data) ==
    CASE part = "services" -> <<"on">>
      [] part = "key" -> data.Key
      [] part = "cert" -> data.Cert
      [] part = "anchor" -> data.CA

Whole(config) == \A p \in Parts : config[p] # None

DeviceState ==
    IF ~up THEN "down"
    ELSE IF Whole(startup) THEN "saved"
    ELSE IF sent THEN "pushed"
    ELSE "empty"

Init ==
    /\ os \in {"srlinux", "sros"}
    /\ secret \in Secrets \cup {None}
    /\ certData = NotFound
    /\ pc = "idle"
    /\ step = 0
    /\ linked = FALSE
    /\ up = FALSE
    /\ candidate = None
    /\ running = Nothing
    /\ startup = Nothing
    /\ result = "none"
    /\ refused = FALSE
    /\ rotations = 0
    /\ faults = 0
    /\ sent = FALSE
    /\ was = None

Fault == faults < MaxFaults /\ faults' = faults + 1 /\ UNCHANGED rotations
NoFault == UNCHANGED <<rotations, faults>>

-----------------------------------------------------------------------------
(* The environment.                                                         *)

Rotate ==
    /\ rotations < MaxRotations
    /\ rotations' = rotations + 1
    /\ secret' \in (Secrets \cup {None}) \ {secret}
    /\ UNCHANGED <<session, up, candidate, stored, result, ghosts, refused, faults>>

\* A container's file system is its image's: it does not outlive it.
Crash ==
    /\ Fault
    /\ up' = FALSE
    /\ linked' = FALSE
    /\ candidate' = None
    /\ running' = Nothing
    /\ startup' = Nothing
    /\ sent' = FALSE
    /\ was' = None
    /\ UNCHANGED <<os, secret, certData, pc, step, result, refused>>

Boot ==
    /\ ~up
    /\ up' = TRUE
    /\ UNCHANGED <<session, secret, candidate, stored, result, ghosts, budget>>

-----------------------------------------------------------------------------
(* The session.                                                             *)

\* Mutant: a device that has a configuration is left alone.
CallOnce ==
    /\ pc = "idle"
    /\ running = Nothing
    /\ pc' = "secret"
    /\ result' = "pending"
    /\ UNCHANGED <<os, certData, step, linked, secret, up, candidate, stored,
                   ghosts, budget>>

Call ==
    /\ pc = "idle"
    /\ pc' = "secret"
    /\ result' = "pending"
    /\ UNCHANGED <<os, certData, step, linked, secret, up, candidate, stored,
                   ghosts, budget>>

\* SetInitialConfig returns r; the deferred Close drops a private candidate.
Return(r) ==
    /\ pc' = "idle"
    /\ step' = 0
    /\ result' = r
    /\ certData' = NotFound
    /\ linked' = FALSE
    /\ candidate' = None
    /\ was' = None

GetSecrets ==
    LET data == IF secret = None THEN NotFound ELSE GetCertificateData(secret)
    IN
    /\ pc = "secret"
    /\ \/ /\ data # NotFound
          /\ NoFault
          /\ certData' = data
          /\ pc' = "open"
          /\ UNCHANGED <<step, linked, candidate, result, was>>
       \/ /\ IF data = NotFound THEN NoFault ELSE Fault
          /\ Return("error")
    /\ UNCHANGED <<os, secret, up, stored, sent, refused>>

\* On SR Linux the library enters a private candidate before the first
\* configuration command.
Open ==
    /\ pc = "open"
    /\ \/ /\ up
          /\ NoFault
          /\ linked' = TRUE
          /\ pc' = "commands"
          /\ step' = 1
          /\ candidate' = IF os = "srlinux" THEN Nothing ELSE None
          /\ UNCHANGED <<certData, result, was>>
       \/ /\ IF up THEN Fault ELSE NoFault
          /\ Return("error")
    /\ UNCHANGED <<os, secret, up, stored, sent, refused>>

Command == Script[step]

\* The candidate once the device has carried the command out.
Entered ==
    CASE Command = "enter" -> Nothing
      [] Command \in Parts /\ candidate # None ->
           [candidate EXCEPT ![Command] = Material(Command, certData)]
      [] OTHER -> candidate

Commits == Command = "commit" /\ candidate # None

Merged == [p \in Parts |-> IF candidate[p] = None THEN running[p]
                           ELSE candidate[p]]

\* How much of a command the device carries out.
Effects == {"all", "unsaved", "nothing"}

Perform(effect) ==
    /\ running' = IF Commits /\ effect # "nothing" THEN Merged ELSE running
    /\ startup' = IF Commits /\ effect = "all" THEN Merged ELSE startup

\* This session has come as far as the commit.
Committed == was # None \/ (linked /\ Command = "commit")

\* No error: the next command, or the end.
Proceed(effect) ==
    IF step = Len(Script)
    THEN /\ Return("ok")
         /\ sent' = (sent \/ Committed)
    ELSE /\ step' = step + 1
         /\ candidate' = IF effect = "nothing" THEN candidate ELSE Entered
         /\ was' = IF linked /\ Command = "commit" THEN DeviceState ELSE was
         /\ UNCHANGED <<certData, pc, linked, result, sent>>

\* The device answers.  What it answers is not looked at.
Answered(effect) ==
    /\ pc = "commands"
    /\ linked
    /\ \/ effect = "all" /\ NoFault /\ UNCHANGED refused
       \/ effect = "unsaved" /\ Commits /\ Fault /\ refused' = TRUE
       \/ effect = "nothing" /\ Command # "prompt" /\ Fault /\ refused' = TRUE
    /\ Perform(effect)
    /\ Proceed(effect)
    /\ UNCHANGED <<os, secret, up>>

\* No answer comes, whatever the device did.  The call returns an error, and
\* so does SetInitialConfig, but for srlinux's "commit save".
Unanswered(effect) ==
    /\ pc = "commands"
    /\ IF linked THEN Fault ELSE NoFault /\ effect = "nothing"
    /\ Perform(effect)
    /\ IF os = "srlinux" /\ Command = "commit"
       THEN Proceed(effect)
       ELSE /\ Return("error")
            /\ sent' = (sent \/ Committed)
    /\ UNCHANGED <<os, secret, up, refused>>

-----------------------------------------------------------------------------
Session ==
    \/ Call
    \/ GetSecrets
    \/ Open
    \/ \E effect \in Effects : Answered(effect) \/ Unanswered(effect)

Next ==
    \/ Rotate
    \/ Crash
    \/ Boot
    \/ Session

Spec == Init /\ [][Next]_vars

\* A Node that is reconciled again and again, as informers that resync make it,
\* even one that is Ready; calls return, and containers are started.
FairSpec == Spec /\ WF_vars(Boot) /\ WF_vars(Session /\ NoFault)

-----------------------------------------------------------------------------
(* Properties.                                                              *)

\* What can be cut out of a Secret's texts, and configured.
Pieces == UNION {SubSeqs(text) : text \in UNION {{s.ca, s.crt, s.key} : s \in Secrets}}

Configs == [Parts -> Pieces \cup {<<"on">>, None}]

\* Types: a device is sent pieces of Secrets, never the result of a search
\* that failed.
TypeOK ==
    /\ os \in {"srlinux", "sros"}
    /\ secret \in Secrets \cup {None}
    /\ certData = NotFound \/ certData \in [CA : Pieces, Cert : Pieces, Key : Pieces]
    /\ pc \in {"idle", "secret", "open", "commands"}
    /\ step \in IF pc = "commands" THEN DOMAIN Script ELSE {0}
    /\ {linked, up, refused, sent} \subseteq BOOLEAN
    /\ candidate = None \/ candidate \in Configs
    /\ {running, startup} \subseteq Configs
    /\ result \in {"none", "pending", "ok", "error"}
    /\ was \in DeviceStates \cup {None}
    /\ rotations \in 0..MaxRotations
    /\ faults \in 0..MaxFaults

\* The block of a PEM text: from the first start marker to the first end
\* marker that follows it.
IsBlockOf(block, text, start, end) ==
    \E i \in DOMAIN text : \E j \in i..Len(text) :
        /\ text[i] = start
        /\ text[j] = end
        /\ \A k \in 1..(i - 1) : text[k] # start
        /\ \A k \in i..(j - 1) : text[k] # end
        /\ block = SubSeq(text, i, j)

\* The three are the blocks of one Secret's files.
OfOneSecret(ca, crt, key) ==
    \E s \in Secrets :
        /\ IsBlockOf(ca, s.ca, certStartMarker, certEndMarker)
        /\ IsBlockOf(crt, s.crt, certStartMarker, certEndMarker)
        /\ IsBlockOf(key, s.key, keyStartMarker, keyEndMarker)

\* GetCertificateData is all or nothing: a session works with the first whole
\* block of each of the three files of one Secret, whatever surrounds it.
BlocksAreWhole ==
    certData # NotFound => OfOneSecret(certData.CA, certData.Cert, certData.Key)

\* A configuration has no profile, or that of one Secret.
OneSecret(config) ==
    \/ {config.anchor, config.cert, config.key} = {None}
    \/ OfOneSecret(config.anchor, config.cert, config.key)

\* As long as the device refuses nothing, rotations, lost commands, restarts
\* and repeated sessions never leave it with a key and a certificate of
\* different Secrets.  (A refusal goes unnoticed, and then they may.)
OneProfile == ~refused => OneSecret(running) /\ OneSecret(startup)

Profile(config) == [CA |-> config.anchor, Cert |-> config.cert, Key |-> config.key]

\* A rotation wakes nobody, but it is not lost: as the sessions go on, the
\* device ends up with the profile of the present Secret, if it is a good one,
\* and with nothing left of the one before.
RotationArrives ==
    <>[](\/ secret = None
         \/ GetCertificateData(secret) = NotFound
         \/ Profile(running) = GetCertificateData(secret))

\* Every call keeps the contract the reconciler's model is built on.  Until a
\* session returns, the abstract device is what it was before its commit.
Contract == INSTANCE DeviceSession WITH
    device <- IF was = None THEN DeviceState ELSE was

KeepsContract == Contract!Spec

-----------------------------------------------------------------------------
(* The inductive invariant behind the safety properties and the contract.   *)

\* What SetInitialConfig holds goes with where it is.
SessionKnows ==
    /\ pc = "idle" <=> result # "pending"
    /\ pc \in {"idle", "secret"} <=> certData = NotFound
    /\ ~linked => candidate = None /\ was = None
    /\ linked => up /\ pc = "commands"

\* A container that does not run has nothing left of the one before.
ContainerIsFresh == ~up => running = Nothing /\ startup = Nothing /\ ~sent

\* Unless a command was refused, the candidate holds the session's material as
\* far as the script has come.
CandidateAsEntered ==
    ~refused /\ linked =>
        /\ os = "srlinux" \/ step > 1 => candidate # None
        /\ \A k \in 1..(step - 1) :
             Script[k] \in Parts =>
                 candidate[Script[k]] = Material(Script[k], certData)

\* Only srlinux goes on after its commit; a configuration once saved stays whole.
CommitOnRecord ==
    /\ was # None <=> linked /\ os = "srlinux" /\ step = Len(Script)
    /\ was # "down"
    /\ was = "saved" => Whole(startup)
    /\ Whole(startup) => Whole(running)

IInv ==
    /\ TypeOK
    /\ SessionKnows
    /\ ContainerIsFresh
    /\ CandidateAsEntered
    /\ CommitOnRecord
    /\ BlocksAreWhole
    /\ OneProfile

=============================================================================
