------------------------- MODULE MCHistoryManager -------------------------
(* Instances of DatabaseHistory for TLC.                                    *)
EXTENDS DatabaseHistory, TLC

Symmetry == Permutations(Requests) \cup Permutations(Values)
=============================================================================
