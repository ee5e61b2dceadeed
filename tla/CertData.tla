------------------------------ MODULE CertData ------------------------------
(***************************************************************************)
(* pkg/cert/cert.go: what is cut out of the three files of a certificate   *)
(* Secret.  A file is a sequence of tokens: the PEM markers, and whatever  *)
(* stands between them; TrimSpace has nothing to do on tokens.             *)
(***************************************************************************)
EXTENDS Sequences, SequencesExt

CONSTANT NotFound  \* the result of a search that failed

ASSUME NotFoundAssumption ==
    /\ NotFound \notin Seq(STRING)
    /\ NotFound \notin [CA : Seq(STRING), Cert : Seq(STRING), Key : Seq(STRING)]

certStartMarker == "BEGIN CERTIFICATE"
certEndMarker == "END CERTIFICATE"
keyStartMarker == "BEGIN RSA PRIVATE KEY"
keyEndMarker == "END RSA PRIVATE KEY"

\* strings.Index, 0 for -1.
IndexOf(str, marker) == SelectInSeq(str, LAMBDA token : token = marker)

\* Mutant: the end marker is searched for from the beginning of the text.
getStringFromStart(str, start, end) ==
    LET sidx == IndexOf(str, start)
        eidx == IndexOf(str, end)
    IN  IF sidx = 0 \/ eidx = 0 THEN NotFound ELSE SubSeq(str, sidx, eidx)

\* The text between two markers, the markers included (as it is always used).
getStringInBetween(str, start, end) ==
    LET sidx == IndexOf(str, start)
        newS == SubSeq(str, sidx, Len(str))
        eidx == IndexOf(newS, end)
    IN  IF sidx = 0 \/ eidx = 0 THEN NotFound ELSE SubSeq(newS, 1, eidx)

\* Mutant: whether the key was found is not looked at.
CertificateDataUnchecked(secret) ==
    [CA |-> getStringInBetween(secret.ca, certStartMarker, certEndMarker),
     Cert |-> getStringInBetween(secret.crt, certStartMarker, certEndMarker),
     Key |-> getStringInBetween(secret.key, keyStartMarker, keyEndMarker)]

\* All three, or none: a file that is missing is an empty text.
GetCertificateData(secret) ==
    LET ca == getStringInBetween(secret.ca, certStartMarker, certEndMarker)
        crt == getStringInBetween(secret.crt, certStartMarker, certEndMarker)
        key == getStringInBetween(secret.key, keyStartMarker, keyEndMarker)
    IN  IF NotFound \in {ca, crt, key} THEN NotFound
        ELSE [CA |-> ca, Cert |-> crt, Key |-> key]

=============================================================================
