----------------------------- MODULE Snapshots -----------------------------
(***************************************************************************)
(* The value snapshots Etcd Studio keeps outside etcd, and the operations  *)
(* every history backend performs on the snapshots of one key.             *)
(*                                                                         *)
(* A snapshot is abstracted to its modification revision, which identifies *)
(* it, and its value.  Cluster id, lease, create revision and capture time *)
(* travel along unchanged and decide nothing; one cluster is modelled.     *)
(***************************************************************************)
EXTENDS Integers, FiniteSets

CONSTANTS
    Keys,     \* the etcd keys
    Values,   \* the values a key may hold
    Nil,      \* Go's nil: an absent pointer, file or record
    MaxRevision  \* bound: the highest etcd revision explored

ASSUME NilAssumption == Nil \notin Nat

ASSUME MaxRevisionAssumption == MaxRevision \in Nat

Snapshot == [mod : Nat \ {0}, val : Values]

AddSnapshotUnchecked(S, s) == S \cup {s}  \* mutant: no seen index

(* FileHistory.Save and DatabaseHistory.Save: a revision that is already    *)
(* stored for the key is left as it is ("seen", ON CONFLICT DO NOTHING).    *)
AddSnapshot(S, s) ==
    IF \E t \in S : t.mod = s.mod THEN S ELSE S \cup {s}

Newer(S, s) == {t \in S : t.mod > s.mod}

KeptOffByOne(S, keep) ==  \* mutant: one snapshot too few
    {s \in S : Cardinality(Newer(S, s)) + 1 < keep}

(* newestSnapshots: sort by revision, newest first, and cut at keep.        *)
NewestSnapshots(S, keep) == {s \in S : Cardinality(Newer(S, s)) < keep}

(* PruneKey of every backend: keep = 0 means "keep everything".             *)
PruneKey(S, keep) == IF keep = 0 THEN S ELSE NewestSnapshots(S, keep)

(* ListBefore(modRevision, 1): the newest snapshot older than a revision.   *)
(* The result is a set with at most one element.                            *)
LatestBefore(S, mod) ==
    {s \in S : s.mod < mod /\ \A t \in Newer(S, s) : t.mod >= mod}
=============================================================================
