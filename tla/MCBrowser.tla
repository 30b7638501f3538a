----------------------------- MODULE MCBrowser -----------------------------
(* The key editor of the page on small sets of clusters and keys. *)
EXTENDS Browser, TLC

Symmetry == Permutations(Clusters) \cup Permutations(Keys) \cup Permutations(Slots)
=============================================================================
