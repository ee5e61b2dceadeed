--------------------------- MODULE MCInitialConfig ---------------------------
(* Certificate Secrets, good and bad, for TLC.                               *)
EXTENDS InitialConfig

Cert(v) == <<certStartMarker, v, certEndMarker>>
Key(v) == <<keyStartMarker, v, keyEndMarker>>

Good(v) == [ca |-> Cert("ca"), crt |-> Cert(v), key |-> Key(v)]

MCSecrets == {
    Good("v1"),
    \* a chain, a bundle that begins with the rest of another block, comments
    [ca |-> <<certEndMarker>> \o Cert("ca") \o Cert("root"),
     crt |-> <<"text">> \o Cert("v2") \o Cert("ca"), key |-> Key("v2")],
    [Good("v3") EXCEPT !.ca = <<>>],
    [Good("v3") EXCEPT !.crt = <<certStartMarker, "v3">>],
    \* a key of another type has other markers
    [Good("v3") EXCEPT !.key = <<"BEGIN EC PRIVATE KEY", "v3",
                                 "END EC PRIVATE KEY">>]}

=============================================================================
