-------------------------- MODULE RollbackVersions --------------------------
(***************************************************************************)
(* The list from which a rollback target is chosen                         *)
(* (handleRollbackVersions): snapshots of the history backend and versions *)
(* etcd still has, merged by revision, newest first, a page at a time.     *)
(* etcd has no list of the versions of a key: etcdVersionsBefore reads the *)
(* key at the revision before the last one found, again and again.         *)
(*                                                                         *)
(* The handler only reads, and the rollback reads its target again         *)
(* (KeyWrites), so a page is a function of the state.  Versions are named  *)
(* by their revisions.                                                     *)
(***************************************************************************)
EXTENDS KeyWrites

CONSTANT PageSizes  \* values of the limit

ASSUME PageSizeAssumption == PageSizes \subseteq Nat \ {0}

(* What GetAtRevision returns: one version, or none when the key was        *)
(* missing at that revision or the revision is compacted.                   *)
EntriesAt(k, rev) == {m \in 1..rev : rev >= compacted /\ FoundAt(k, rev, m)}

(* etcdVersionsBefore: walk[n][rev] are the at most n versions it finds     *)
(* from revision rev down.                                                  *)
EtcdVersionsBefore(k, before, limit) ==
    LET walk[n \in 0..limit] ==
            [rev \in 0..Len(log) |->
                IF n = 0 THEN {}
                ELSE UNION {{m} \cup walk[n - 1][m - 1] : m \in EntriesAt(k, rev)}]
    IN  walk[limit][before - 1]

Newest(S, n) == {m \in S : Cardinality({i \in S : i > m}) < n}

StoredBefore(k, before) == {s.mod : s \in {t \in history[k] : t.mod < before}}

CandidatesOfPage(k, before, limit) ==  \* mutant: fetchLimit is the limit
    Newest(StoredBefore(k, before), limit)
      \cup EtcdVersionsBefore(k, before, limit)

(* rollbackCandidates: one more of either kind than the page has room for,  *)
(* to learn whether there are more.                                         *)
Candidates(k, before, limit) ==
    Newest(StoredBefore(k, before), limit + 1)
      \cup EtcdVersionsBefore(k, before, limit + 1)

Page(k, before, limit) == Newest(Candidates(k, before, limit), limit)

HasMore(k, before, limit) == Cardinality(Candidates(k, before, limit)) > limit

(* The version rollbackTarget finds, in the backend or in etcd.             *)
Restorable(k, m) == m \in StoredBefore(k, m + 1) \/ m \in EntriesAt(k, m)

-----------------------------------------------------------------------------
(* The versions there are below a revision: stored ones, and those in etcd  *)
(* up to a deletion of the key that were current at a revision it can read. *)
Available(k, before) ==
    StoredBefore(k, before)
      \cup {m \in 1..(before - 1) :
              /\ \A i \in m..(before - 1) : log[i].key = k => log[i].val # Deleted
              /\ \E rev \in m..(before - 1) : m \in EntriesAt(k, rev)}

(* The page has the newest versions there are, without gaps, and says       *)
(* whether there are more: although either source is asked for a few only,  *)
(* overlaps with the other and may have been pruned or compacted.           *)
PageIsNewest ==
    \A k \in Keys, limit \in PageSizes : \A before \in 1..live[k] :
        LET page == Page(k, before, limit) IN
        /\ page = Newest(Available(k, before), limit)
        /\ HasMore(k, before, limit) <=> page # Available(k, before)

(* README: a version of the list can be previewed and chosen.  A version    *)
(* from before the compaction that was still current at it is listed, but   *)
(* its own revision is compacted.                                           *)
ListedCanBeRestored ==
    \A k \in Keys, limit \in PageSizes :
        configured /\ live[k] # 0 =>
            \A m \in Page(k, live[k], limit) : Restorable(k, m)
=============================================================================
