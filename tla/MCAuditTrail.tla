---------------------------- MODULE MCAuditTrail ----------------------------
(* Instances of AuditTrail for TLC.                                         *)
EXTENDS AuditTrail, TLC

Symmetry == Permutations(Configurers) \cup Permutations(Requests \ Configurers)
=============================================================================
