--------------------------- MODULE MCNodeDeployer ---------------------------
(* Symmetry of the values that nothing orders or names, for safety runs.     *)
EXTENDS NodeDeployer, TLC

Symmetry ==
    Permutations(Nodes) \cup Permutations(Uids) \cup Permutations(PodIds)
    \cup Permutations(Revisions) \cup Permutations(Interfaces)

=============================================================================
