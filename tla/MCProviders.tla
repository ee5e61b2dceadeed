----------------------------- MODULE MCProviders -----------------------------
(* Nodes of every provider and a few NodeConfigs for TLC.                    *)
EXTENDS Providers

Cr(name, namespace, provider, ref) ==
    [name |-> name, namespace |-> namespace, provider |-> provider, ref |-> ref]

MCCrs ==
    {Cr("leaf1", s, p, r) : s \in {"lab", "operator"}, p \in Providers,
                            r \in {None, "default"}}
    \cup {Cr("default", "lab", "srlinux", None)}

Config(provider, model, image, license, volumes) ==
    [provider |-> provider, model |-> model, image |-> image,
     resources |-> None, license |-> license, volumes |-> volumes]

PersistentVolumeAt(name, path) == [name |-> name, path |-> path]

\* Two NodeConfigs of SR Linux, three of SR OS, of which the last has a volume
\* with the name of the license's, and one of a server.
MCSpecs == {
    Config("srlinux", "m2", None, None, <<>>),
    [Config("srlinux", None, "i2", "key", <<>>) EXCEPT !.resources = "large"],
    Config("sros", "m1", "i2", None, <<PersistentVolumeAt("cf3", "/cf3")>>),
    Config("sros", "m1", "i2", "key", <<>>),
    Config("sros", "m1", None, "key", <<PersistentVolumeAt("license", "/cf3")>>),
    Config("xserver", "m2", None, None, <<>>)}

MCDefaultModel == [p \in Providers |-> "m1"]

=============================================================================
