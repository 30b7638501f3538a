---------------------------- MODULE MCKeyWrites ----------------------------
(* Instances of KeyWrites and RollbackVersions for TLC.                     *)
EXTENDS RollbackVersions, TLC

Symmetry ==
    Permutations(Keys) \cup Permutations(Values) \cup Permutations(Requests)
=============================================================================
