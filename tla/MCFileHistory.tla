--------------------------- MODULE MCFileHistory ---------------------------
(* Instances of FileHistory for TLC.                                        *)
EXTENDS FileHistory, TLC

Symmetry == Permutations(Keys) \cup Permutations(Values)
=============================================================================
