---------------------------- MODULE ValueHistory ----------------------------
(***************************************************************************)
(* What store.ValueHistory promises its callers, abstractly: the backend   *)
(* holds snapshots; a Save adds one unless its revision is already there;  *)
(* a prune keeps the newest of each key it reaches.  Nothing else changes  *)
(* the content: no crash, no failed call, no restart.                      *)
(*                                                                         *)
(* FileHistory and the table of DatabaseHistory implement it, and the      *)
(* history manager asks nothing else of its backend.                       *)
(***************************************************************************)
EXTENDS Snapshots

CONSTANT Retentions

VARIABLE content

Add(k, s) == content' = [content EXCEPT ![k] = AddSnapshot(@, s)]

(* A prune that fails half way has reached some of the keys only.           *)
Prune(reached, keep) ==
    content' = [k \in Keys |-> IF k \in reached THEN PruneKey(content[k], keep)
                                                ELSE content[k]]

(* A prune may also leave more: snapshots that were saved after it decided  *)
(* which revision is the oldest to keep.                                    *)
PruneBelow(k, mod, keep) ==
    LET kept == {s \in content[k] : s.mod >= mod} IN
    /\ PruneKey(content[k], keep) \subseteq kept
    /\ content' = [content EXCEPT ![k] = kept]

VHInit == content = [k \in Keys |-> {}]

VHNext ==
    \/ \E k \in Keys, m \in 1..MaxRevision, v \in Values :
          Add(k, [mod |-> m, val |-> v])
    \/ \E reached \in SUBSET Keys, keep \in Retentions : Prune(reached, keep)
    \/ \E k \in Keys, mod \in 1..MaxRevision, keep \in Retentions \ {0} :
          PruneBelow(k, mod, keep)

VHSpec == VHInit /\ [][VHNext]_content
=============================================================================
