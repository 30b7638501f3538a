-------------------------------- MODULE Etcd --------------------------------
(***************************************************************************)
(* The etcd key space as store.Etcd (etcd.go) uses it.  etcd itself is     *)
(* external: a linearizable store in which every write takes the next      *)
(* revision, reads at an old revision work until it is compacted, and a    *)
(* transaction compares a key's modification revision, 0 for a missing     *)
(* key.  Revision r is log[r].                                             *)
(***************************************************************************)
EXTENDS Snapshots, Sequences

CONSTANTS
    Deleted,   \* what a deletion stores in place of a value
    External   \* every writer that is not Etcd Studio

ASSUME DeletedAssumption == Deleted \notin Values

VARIABLES
    log,       \* log[r]: key, value and writer of revision r
    live,      \* modification revision of each key, 0 while it is missing
    compacted  \* revisions below this one can no longer be read

etcdVars == <<log, live, compacted>>

EtcdInit ==
    /\ log = << >>
    /\ live = [k \in Keys |-> 0]
    /\ compacted = 0

(* Etcd.Get of a key that is present.                                       *)
CurrentEntry(k) == [mod |-> live[k], val |-> log[live[k]].val]

(* Etcd.GetAtRevision(k, rev) finds the entry last written at m.            *)
FoundAt(k, rev, m) ==
    /\ m \in 1..rev
    /\ log[m].key = k
    /\ log[m].val # Deleted
    /\ \A i \in (m + 1)..rev : log[i].key # k

CompareUnlessZero(k, expected) ==  \* mutant: 0 asks for no comparison either
    expected \in {Nil, 0} \/ live[k] = expected

(* The comparison of Etcd.Put and Etcd.Delete; nil asks for none.           *)
CompareModRevision(k, expected) == expected = Nil \/ live[k] = expected

(* Deleting a missing key writes nothing and takes no revision.             *)
NothingToDelete(k, v) == v = Deleted /\ live[k] = 0

Write(k, v, writer) ==
    /\ Len(log) < MaxRevision
    /\ log' = Append(log, [key |-> k, val |-> v, by |-> writer])
    /\ live' = [live EXCEPT ![k] = IF v = Deleted THEN 0 ELSE Len(log) + 1]
    /\ UNCHANGED compacted

(* Any other client of the cluster.                                         *)
ExternalWrite(k, v) == ~NothingToDelete(k, v) /\ Write(k, v, External)

Compact(rev) ==
    /\ compacted < rev
    /\ compacted' = rev
    /\ UNCHANGED <<log, live>>
=============================================================================
