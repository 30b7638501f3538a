--------------------------- MODULE MCClusterAdmin ---------------------------
(* Instances of ClusterAdmin for TLC.                                       *)
EXTENDS ClusterAdmin, TLC

Symmetry ==
    Permutations(Clients) \cup Permutations(Callers) \cup Permutations(Ids)
=============================================================================
