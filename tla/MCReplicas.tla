----------------------------- MODULE MCReplicas -----------------------------
(* Symmetry of identities and revisions, and of the two operators: they are  *)
(* variables and no values, so a view forgets which is which.                *)
EXTENDS Replicas, TLC

Symmetry ==
    Permutations(Uids) \cup Permutations(PodIds) \cup Permutations(Revisions)

Unordered == <<shared, {ownA, ownB}>>

(* Bounds: three kinds of trouble, each by itself, told apart by ENABLE_NAD  *)
(* and the faults that there have been before.                               *)

\* With NADs: a fault, which may be a restart with another ENABLE_NAD.
Failing == nadOnA \/ nadOnB

\* Pods of a former revision, and a deletion of the Node.
Replacing == ~Failing /\ faults = MaxFaults

\* The Node's spec is edited, and again, or the Node is deleted and made again for
\* another provider, one that is not registered.
Editing == ~Failing /\ faults < MaxFaults

OneTrouble ==
    /\ \A s, t \in Specs : configs[s] = configs[t]
    /\ ~Replacing => \A n \in Nodes :
         node[n] # None /\ pod[n] # None => pod[n].hash = configs[node[n].spec]

\* The Pods are left to the operators to delete.
OneKind ==
    /\ faults' # faults => Failing
    /\ edits' # edits =>
         /\ pod' = pod
         /\ \/ Replacing /\ edits = 0 /\ \E n \in Nodes : A!DeleteNode(n)
            \/ Editing /\ \A n \in Nodes :
                 node[n] = None /\ node'[n] # None => node'[n].spec \notin Registered

=============================================================================
