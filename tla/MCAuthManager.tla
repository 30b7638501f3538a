--------------------------- MODULE MCAuthManager ---------------------------
(* Instances of AuthManager for TLC.  FirstAdmin is not interchangeable     *)
(* with the other users.                                                    *)
EXTENDS AuthManager, TLC

Symmetry == Permutations(Hashes)
=============================================================================
