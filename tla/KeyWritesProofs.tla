-------------------------- MODULE KeyWritesProofs --------------------------
(* Proofs about KeyWrites, for every set of keys, values, requests and      *)
(* administrators, every set of retention policies and every bound.         *)
EXTENDS KeyWrites, FiniteSetTheorems, TLAPS

USE NilAssumption, MaxRevisionAssumption, RetentionAssumption,
    DeletedAssumption

(* What a prune leaves is part of what was there.                           *)
LEMMA PruneKeyShrinks ==
    ASSUME NEW S, NEW keep \in Nat
    PROVE  PruneKey(S, keep) \subseteq S
BY DEF PruneKey, NewestSnapshots

(* newestSnapshots never drops the newest snapshot.                         *)
LEMMA PruneKeyKeepsNewest ==
    ASSUME NEW S, NEW keep \in Nat, NEW s \in S, Newer(S, s) = {}
    PROVE  s \in PruneKey(S, keep)
<1>1. Cardinality(Newer(S, s)) = 0
  BY FS_EmptySet
<1>2. QED
  BY <1>1 DEF PruneKey, NewestSnapshots

(* The current entry of a key is newer than every snapshot of the key, so   *)
(* a prune under any policy keeps it.                                       *)
LEMMA PruneKeyKeepsLive ==
    ASSUME TypeOK, LiveIsLatest, HistoryIsFaithful,
           NEW k \in Keys, NEW keep \in Nat,
           live[k] # 0, CurrentEntry(k) \in history[k]
    PROVE  CurrentEntry(k) \in PruneKey(history[k], keep)
<1>1. ASSUME NEW s \in history[k]
      PROVE  s.mod \in Int /\ live[k] \in Int /\ s.mod <= live[k]
  <2>1. /\ s.mod \in 1..Len(log) /\ log[s.mod].key = k
        /\ Len(log) \in Nat /\ live[k] \in Nat
    BY DEF TypeOK, HistoryIsFaithful, IsVersion
  <2>2. \A i \in (live[k] + 1)..Len(log) : log[i].key # k
    BY DEF LiveIsLatest, FoundAt
  <2>3. QED
    BY <2>1, <2>2
<1>2. Newer(history[k], CurrentEntry(k)) = {}
  BY <1>1 DEF Newer, CurrentEntry, TypeOK
<1>3. QED
  BY <1>2, PruneKeyKeepsNewest

(* A write adds one revision and leaves the earlier ones as they are.       *)
LEMMA WriteExtendsLog ==
    ASSUME TypeOK, NEW k \in Keys, NEW v \in Values \cup {Deleted},
           NEW w \in Requests \cup {External}, Write(k, v, w)
    PROVE  /\ Len(log') = Len(log) + 1
           /\ \A i \in 1..Len(log) : log'[i] = log[i]
           /\ log'[Len(log) + 1] = [key |-> k, val |-> v, by |-> w]
           /\ log' \in Seq(Version)
           /\ Len(log) \in Nat
BY DEF TypeOK, Write, Version

(* Every revision in etcd's log has a key and a value or a deletion.        *)
LEMMA LogTyped ==
    ASSUME TypeOK, NEW i \in 1..Len(log)
    PROVE  log[i].key \in Keys /\ log[i].val \in Values \cup {Deleted}
<1>1. log[i] \in Version
  BY DEF TypeOK
<1>2. QED
  BY <1>1 DEF Version

(* IInv holds when etcd is empty and nothing is configured.                 *)
LEMMA InitIInv == Init => IInv
<1> SUFFICES ASSUME Init PROVE IInv
  OBVIOUS
<1>1. TypeOK
  <2>1. HMTypeOK
    BY DEF Init, HMInit, HMTypeOK, SaveCall
  <2>2. log \in Seq(Version)
    BY DEF Init, EtcdInit
  <2>3. QED
    BY <2>1, <2>2 DEF Init, EtcdInit, TypeOK, PC, Replies
<1>2. LiveIsLatest /\ HistoryIsFaithful
  BY DEF Init, EtcdInit, HMInit, LiveIsLatest, HistoryIsFaithful
<1>3. ExpectedIsPast /\ LocalsAreVersions /\ WireIsOwned
  BY DEF Init, ExpectedIsPast, LocalsAreVersions, WireIsOwned
<1>4. SavesAreOwned /\ PendingWritesAreArchived
  BY DEF Init, HMInit, SavesAreOwned, SavedEntry, PendingWritesAreArchived, Idle
<1>5. QED
  BY <1>1, <1>2, <1>3, <1>4 DEF IInv

-----------------------------------------------------------------------------
(* Steps of a handler that leave etcd and the history alone.                *)

BeforeSend == PC \ {"await", "answered", "gone"}

(* Any early return of a handler that is not inside a Save.                 *)
LEMMA RefuseIInv ==
    ASSUME IInv, NEW r \in Requests, NEW from \in BeforeSend,
           Refuse(r, from), UNCHANGED hmVars, saving[r] = Idle
    PROVE  IInv'
<1> USE DEF Refuse, Answer, Goto, etcdVars, hmVars
<1>1. TypeOK'
  BY DEF IInv, TypeOK, HMTypeOK, PC, Replies
<1>2. LiveIsLatest' /\ HistoryIsFaithful'
  BY DEF IInv, LiveIsLatest, FoundAt, HistoryIsFaithful, IsVersion
<1>3. ExpectedIsPast'
  BY DEF IInv, TypeOK, ExpectedIsPast, WireIsOwned, PC, BeforeSend
<1>4. LocalsAreVersions'
  BY DEF IInv, TypeOK, LocalsAreVersions, IsVersion
<1>5. WireIsOwned'
  BY DEF IInv, TypeOK, WireIsOwned, PC, BeforeSend
<1>6. SavesAreOwned'
  BY DEF IInv, TypeOK, HMTypeOK, SavesAreOwned, SavedEntry
<1>7. PendingWritesAreArchived'
  BY DEF IInv, TypeOK, HMTypeOK, PendingWritesAreArchived, Archived,
         CurrentEntry
<1>8. QED
  BY <1>1, <1>2, <1>3, <1>4, <1>5, <1>6, <1>7 DEF IInv

(* Every early return of a handler keeps IInv.                              *)
LEMMA RefusalsIInv ==
    ASSUME IInv, NEW r \in Requests,
           \/ Reject(r) \/ EtcdReadFails(r) \/ ArchiveConflict(r)
           \/ ArchiveMissingDelete(r) \/ TargetRefused(r)
           \/ HistoryReadFails(r) \/ TargetUnavailable(r)
    PROVE  IInv'
<1>1. PICK from \in BeforeSend \ SaveStates :
          Refuse(r, from) /\ UNCHANGED hmVars
  BY DEF Reject, EtcdReadFails, ArchiveConflict, ArchiveMissingDelete,
         TargetRefused, HistoryReadFails, TargetUnavailable, BeforeSend, PC,
         SaveStates
<1>2. saving[r] = Idle
  BY <1>1 DEF IInv, SavesAreOwned, SavedEntry, Refuse, Answer, Goto
<1>3. QED
  BY <1>1, <1>2, RefuseIInv

(* A request is accepted; its expected revision is one etcd has handed out. *)
LEMMA AcceptIInv ==
    ASSUME IInv, NEW r \in Requests, NEW q \in Request,
           NEW first \in {"archive", "target"}, Accept(r, q, first),
           q.expected # Nil => q.expected <= Len(log),
           q.op = "rollback" <=> first = "target",
           q.op = "rollback" => q.target < q.expected
    PROVE  IInv'
<1> USE DEF Accept, Goto, etcdVars, hmVars, locals
<1>1. TypeOK'
  BY DEF IInv, TypeOK, HMTypeOK, PC
<1>2. LiveIsLatest' /\ HistoryIsFaithful'
  BY DEF IInv, LiveIsLatest, FoundAt, HistoryIsFaithful, IsVersion
<1>3. ExpectedIsPast'
  BY DEF IInv, TypeOK, ExpectedIsPast, WireIsOwned
<1>4. LocalsAreVersions'
  BY DEF IInv, TypeOK, LocalsAreVersions, IsVersion
<1>5. WireIsOwned'
  BY DEF IInv, TypeOK, WireIsOwned
<1>6. SavesAreOwned'
  BY DEF IInv, TypeOK, HMTypeOK, SavesAreOwned, SavedEntry, SaveStates
<1>7. PendingWritesAreArchived'
  BY DEF IInv, TypeOK, HMTypeOK, PendingWritesAreArchived, Archived,
         CurrentEntry
<1>8. QED
  BY <1>1, <1>2, <1>3, <1>4, <1>5, <1>6, <1>7 DEF IInv

(* A request that arrives keeps IInv.                                       *)
LEMMA ReceiveIInv ==
    ASSUME IInv, NEW r \in Requests, Receive(r)
    PROVE  IInv'
<1>0. Len(log) \in Nat
  BY DEF IInv, TypeOK
<1>1. CASE Reject(r)
  BY <1>1, RefusalsIInv
<1>2. ASSUME NEW k \in Keys, NEW e \in LoadedRevisions \cup {Nil},
             NEW v \in Values, ReceivePut(r, k, v, e)
      PROVE  IInv'
  <2> DEFINE q == [op |-> "put", key |-> k, val |-> v, expected |-> e]
  <2>1. q \in Request /\ (q.expected # Nil => q.expected <= Len(log))
    BY <1>0 DEF Request, LoadedRevisions
  <2>2. QED
    BY <1>2, <2>1, AcceptIInv DEF ReceivePut
<1>3. ASSUME NEW k \in Keys, NEW e \in LoadedRevisions \cup {Nil},
             ReceiveDelete(r, k, e)
      PROVE  IInv'
  <2> DEFINE q == [op |-> "delete", key |-> k, expected |-> e]
  <2>1. q \in Request /\ (q.expected # Nil => q.expected <= Len(log))
    BY <1>0 DEF Request, LoadedRevisions
  <2>2. QED
    BY <1>3, <2>1, AcceptIInv DEF ReceiveDelete
<1>4. ASSUME NEW k \in Keys, NEW e \in LoadedRevisions,
             NEW t \in LoadedRevisions, ReceiveRollback(r, k, e, t)
      PROVE  IInv'
  <2> DEFINE q == [op |-> "rollback", key |-> k, expected |-> e,
                   target |-> t]
  <2>1. /\ q \in Request /\ (q.expected # Nil => q.expected <= Len(log))
        /\ q.target < q.expected
    BY <1>0, <1>4 DEF Request, Revision, LoadedRevisions, ReceiveRollback
  <2>2. QED
    BY <1>4, <2>1, AcceptIInv DEF ReceiveRollback
<1>5. QED
  BY <1>1, <1>2, <1>3, <1>4 DEF Receive

(* etcd's current entry of a present key is a version of that key.          *)
LEMMA CurrentEntryIsVersion ==
    ASSUME TypeOK, LiveIsLatest, NEW k \in Keys, live[k] # 0
    PROVE  /\ CurrentEntry(k) \in Snapshot
           /\ IsVersion(k, CurrentEntry(k))
<1>1. live[k] \in 1..Len(log) /\ log[live[k]].key = k
      /\ log[live[k]].val # Deleted /\ Len(log) \in Nat
  BY DEF TypeOK, LiveIsLatest, FoundAt
<1>2. log[live[k]].val \in Values
  BY <1>1, LogTyped
<1>3. QED
  BY <1>1, <1>2 DEF CurrentEntry, Snapshot, IsVersion

(* Reading the current entry keeps IInv.                                    *)
LEMMA ReadCurrentIInv ==
    ASSUME IInv, NEW r \in Requests, ArchiveFound(r) \/ TargetCurrent(r)
    PROVE  IInv'
<1>1. PICK from \in {"archive", "target"}, to \in {"saveCurrent", "storedTarget"} :
          /\ ReadCurrent(r, from, to)
          /\ from = "target" <=> to = "storedTarget"
  BY DEF ArchiveFound, TargetCurrent
<1> USE <1>1 DEF ReadCurrent, Goto, etcdVars, hmVars, Present, Stale
<1>0. /\ req[r] \in Request /\ req[r].key \in Keys
      /\ CurrentEntry(req[r].key) \in Snapshot
      /\ IsVersion(req[r].key, CurrentEntry(req[r].key))
  BY CurrentEntryIsVersion DEF IInv, ExpectedIsPast, Request
<1>1a. TypeOK'
  BY <1>0 DEF IInv, TypeOK, HMTypeOK, PC
<1>2. LiveIsLatest' /\ HistoryIsFaithful'
  BY DEF IInv, LiveIsLatest, FoundAt, HistoryIsFaithful, IsVersion
<1>3. ExpectedIsPast'
  BY DEF IInv, TypeOK, ExpectedIsPast
<1>4. LocalsAreVersions'
  BY <1>0 DEF IInv, TypeOK, LocalsAreVersions, IsVersion, CurrentEntry
<1>5. WireIsOwned'
  BY DEF IInv, TypeOK, WireIsOwned
<1>6. SavesAreOwned'
  BY DEF IInv, TypeOK, HMTypeOK, SavesAreOwned, SavedEntry, SaveStates
<1>7. PendingWritesAreArchived'
  BY DEF IInv, TypeOK, HMTypeOK, PendingWritesAreArchived, Archived,
         CurrentEntry
<1>8. QED
  BY <1>1a, <1>2, <1>3, <1>4, <1>5, <1>6, <1>7 DEF IInv

(* A put of a missing key skips the archive: there is nothing to replace.   *)
LEMMA ArchiveMissingPutIInv ==
    ASSUME IInv, NEW r \in Requests, ArchiveMissingPut(r)
    PROVE  IInv'
<1> USE DEF ArchiveMissingPut, Goto, etcdVars, hmVars, locals, Present
<1>1. TypeOK'
  BY DEF IInv, TypeOK, HMTypeOK, PC
<1>2. LiveIsLatest' /\ HistoryIsFaithful'
  BY DEF IInv, LiveIsLatest, FoundAt, HistoryIsFaithful, IsVersion
<1>3. ExpectedIsPast'
  BY DEF IInv, TypeOK, ExpectedIsPast
<1>4. LocalsAreVersions'
  BY DEF IInv, TypeOK, LocalsAreVersions, IsVersion
<1>5. WireIsOwned'
  BY DEF IInv, TypeOK, WireIsOwned
<1>6. SavesAreOwned'
  BY DEF IInv, TypeOK, HMTypeOK, SavesAreOwned, SavedEntry, SaveStates
<1>7. PendingWritesAreArchived'
  BY DEF IInv, TypeOK, HMTypeOK, PendingWritesAreArchived, Archived,
         CurrentEntry
<1>8. QED
  BY <1>1, <1>2, <1>3, <1>4, <1>5, <1>6, <1>7 DEF IInv

(* The rollback target is found in the history or in etcd, or looked for    *)
(* further: in each case what is taken is a version of the key.             *)
LEMMA TargetIInv ==
    ASSUME IInv, NEW r \in Requests,
           TargetStored(r) \/ TargetNotStored(r) \/ TargetInEtcd(r)
    PROVE  IInv'
<1>1. PICK to \in {"saveCurrent", "etcdTarget", "saveTarget"} :
          /\ pc[r] \in {"storedTarget", "etcdTarget"}
          /\ pc' = [pc EXCEPT ![r] = to]
          /\ UNCHANGED <<etcdVars, hmVars, req, current, wire, outcome, reply,
                         audited>>
          /\ \/ /\ previous' = previous /\ to = "etcdTarget"
             \/ \E s \in Snapshot :
                   /\ IsVersion(req[r].key, s)
                   /\ previous' = [previous EXCEPT ![r] = s]
  <2>0. /\ pc[r] \in {"storedTarget", "etcdTarget"}
        /\ req[r] \in Request /\ req[r].key \in Keys
    BY DEF IInv, ExpectedIsPast, TargetStored, TargetNotStored, TargetInEtcd,
           Goto, Request
  <2>1. CASE TargetStored(r)
    BY <2>0, <2>1 DEF TargetStored, StoredTargets, LatestBefore, Goto, IInv,
                      TypeOK, HMTypeOK, HistoryIsFaithful
  <2>2. CASE TargetNotStored(r)
    BY <2>0, <2>2 DEF TargetNotStored, Goto, locals
  <2>3. CASE TargetInEtcd(r)
    <3>1. PICK m \in 1..req[r].target :
             /\ FoundAt(req[r].key, req[r].target, m) /\ m = req[r].target
             /\ previous' = [previous EXCEPT
                               ![r] = [mod |-> m, val |-> log[m].val]]
      BY <2>3 DEF TargetInEtcd
    <3>2. /\ req[r].op = "rollback" /\ req[r].target < req[r].expected
          /\ req[r].expected # Nil => req[r].expected <= Len(log)
      BY <2>0, <2>3 DEF TargetInEtcd, IInv, LocalsAreVersions, ExpectedIsPast
    <3>3. req[r].target \in Nat /\ req[r].expected \in Nat /\ Len(log) \in Nat
      BY <2>0, <3>2 DEF Request, Revision, IInv, TypeOK
    <3>4. m \in 1..Len(log)
      BY <3>1, <3>2, <3>3
    <3>5. [mod |-> m, val |-> log[m].val] \in Snapshot
      BY <3>1, <3>4, LogTyped DEF FoundAt, IInv, Snapshot
    <3>6. IsVersion(req[r].key, [mod |-> m, val |-> log[m].val])
      BY <3>1, <3>4 DEF FoundAt, IsVersion
    <3>7. QED
      BY <2>0, <2>3, <3>1, <3>5, <3>6 DEF TargetInEtcd, Goto
  <2>4. QED
    BY <2>1, <2>2, <2>3
<1> USE <1>1 DEF etcdVars, hmVars
<1>1a. TypeOK'
  BY DEF IInv, TypeOK, HMTypeOK, PC
<1>2. LiveIsLatest' /\ HistoryIsFaithful'
  BY DEF IInv, LiveIsLatest, FoundAt, HistoryIsFaithful, IsVersion
<1>3. ExpectedIsPast'
  BY DEF IInv, TypeOK, ExpectedIsPast
<1>4. LocalsAreVersions'
  BY DEF IInv, TypeOK, LocalsAreVersions, IsVersion
<1>5. WireIsOwned'
  BY DEF IInv, TypeOK, WireIsOwned
<1>6. SavesAreOwned'
  BY DEF IInv, TypeOK, HMTypeOK, SavesAreOwned, SavedEntry, SaveStates
<1>7. PendingWritesAreArchived'
  BY DEF IInv, TypeOK, HMTypeOK, PendingWritesAreArchived, Archived,
         CurrentEntry
<1>8. QED
  BY <1>1a, <1>2, <1>3, <1>4, <1>5, <1>6, <1>7 DEF IInv

-----------------------------------------------------------------------------
(* Steps that change the history.                                           *)

(* What every change of the history respects: it stays faithful to etcd and *)
(* no key loses the snapshot of its current entry.                          *)
HistoryStep ==
    /\ history' \in [Keys -> SUBSET Snapshot]
    /\ \A k \in Keys : \A s \in history'[k] : IsVersion(k, s)
    /\ \A k \in Keys : live[k] # 0 /\ CurrentEntry(k) \in history[k] =>
          CurrentEntry(k) \in history'[k]

(* A step that leaves the history alone is a HistoryStep.                   *)
LEMMA SameHistoryStep ==
    ASSUME IInv, history' = history
    PROVE  HistoryStep
BY DEF IInv, TypeOK, HMTypeOK, HistoryIsFaithful, HistoryStep

(* A Save under way has a key, a true snapshot and a policy.                *)
LEMMA SavingTyped ==
    ASSUME IInv, NEW r \in Requests, saving[r].stage # "idle"
    PROVE  /\ saving[r].key \in Keys /\ saving[r].snap \in Snapshot
           /\ saving[r].keep \in Nat
           /\ saving[r].stage \in {"append", "prune"}
           /\ saving[r] # Idle
           /\ IsVersion(saving[r].key, saving[r].snap)
<1>1. saving[r] \in SaveCall /\ saving[r] # Idle
  BY DEF IInv, TypeOK, HMTypeOK, Idle
<1>2. /\ saving[r].key \in Keys /\ saving[r].snap \in Snapshot
      /\ saving[r].keep \in Nat
      /\ saving[r].stage \in {"append", "prune"}
  BY <1>1 DEF SaveCall
<1>3. QED
  BY <1>1, <1>2 DEF IInv, SavesAreOwned, SavedEntry, LocalsAreVersions, SaveStates

(* backend.Save, also one that is answered with an error.                   *)
LEMMA AppendedHistoryStep ==
    ASSUME IInv, NEW r \in Requests, saving[r].stage = "append",
           history' = Appended(r)
    PROVE  /\ HistoryStep
           /\ live[saving[r].key] = saving[r].snap.mod =>
                 CurrentEntry(saving[r].key) \in history'[saving[r].key]
<1> DEFINE k == saving[r].key
           s == saving[r].snap
<1>1. k \in Keys /\ s \in Snapshot /\ IsVersion(k, s)
  BY SavingTyped
<1>2. history[k] \in SUBSET Snapshot
  BY <1>1 DEF IInv, TypeOK, HMTypeOK
<1>3. \A t \in history[k] : t.mod = s.mod => t = s
  BY <1>1, <1>2 DEF IInv, HistoryIsFaithful, IsVersion, Snapshot
<1>4. AddSnapshot(history[k], s) = history[k] \cup {s}
  BY <1>3 DEF AddSnapshot
<1>5. history' = [history EXCEPT ![k] = history[k] \cup {s}]
  BY <1>4 DEF Appended
<1>6. HistoryStep
  BY <1>1, <1>5 DEF HistoryStep, IInv, TypeOK, HMTypeOK, HistoryIsFaithful
<1>7. live[k] = s.mod => CurrentEntry(k) = s
  BY <1>1 DEF CurrentEntry, IsVersion, Snapshot
<1>8. s \in history'[k]
  BY <1>1, <1>5 DEF IInv, TypeOK, HMTypeOK
<1>9. QED
  BY <1>6, <1>7, <1>8

(* A prune of some keys under any policy.                                   *)
LEMMA PrunedHistoryStep ==
    ASSUME IInv, NEW done, NEW keep \in Nat, history' = Pruned(done, keep)
    PROVE  HistoryStep
<1>1. \A k \in Keys : /\ PruneKey(history[k], keep) \subseteq history[k]
                      /\ history'[k] \in {history[k], PruneKey(history[k], keep)}
  BY PruneKeyShrinks DEF Pruned
<1>2. history' \in [Keys -> SUBSET Snapshot]
  BY <1>1 DEF Pruned, IInv, TypeOK, HMTypeOK
<1>3. \A k \in Keys : live[k] # 0 /\ CurrentEntry(k) \in history[k] =>
          CurrentEntry(k) \in history'[k]
  BY <1>1, PruneKeyKeepsLive DEF IInv
<1>4. QED
  BY <1>1, <1>2, <1>3 DEF HistoryStep, IInv, HistoryIsFaithful

(* The prune of one key at the end of Save is a HistoryStep.                *)
LEMMA KeyPrunedHistoryStep ==
    ASSUME IInv, NEW r \in Requests, saving[r].stage = "prune",
           history' = KeyPruned(r)
    PROVE  HistoryStep
<1>1. saving[r].key \in Keys /\ saving[r].keep \in Nat
  BY SavingTyped
<1>2. KeyPruned(r) = Pruned({saving[r].key}, saving[r].keep)
  BY <1>1 DEF KeyPruned, Pruned, IInv, TypeOK, HMTypeOK
<1>3. QED
  BY <1>1, <1>2, PrunedHistoryStep

(* The parts of the invariant about etcd and the history alone.             *)
LEMMA HistoryStepIInv ==
    ASSUME IInv, HistoryStep, UNCHANGED etcdVars
    PROVE  LiveIsLatest' /\ HistoryIsFaithful'
BY DEF IInv, HistoryStep, etcdVars, LiveIsLatest, FoundAt, HistoryIsFaithful,
       IsVersion

(* Archived, for the history after a step that leaves etcd alone.           *)
StillArchived(k, e) ==
    e # 0 /\ live[k] = e => CurrentEntry(k) \in history'[k]

(* An archived entry stays archived in such a step.                         *)
LEMMA HistoryStepArchived ==
    ASSUME IInv, HistoryStep, UNCHANGED etcdVars, NEW k \in Keys, NEW e,
           Archived(k, e)
    PROVE  StillArchived(k, e)
BY DEF HistoryStep, Archived, StillArchived

(* Steps of the manager outside any handler: configuration, the prune of    *)
(* UpdateRetention.                                                         *)
LEMMA ManagerIInv ==
    ASSUME IInv, HMTypeOK', HistoryStep, saving' = saving,
           UNCHANGED <<etcdVars, handlerVars>>
    PROVE  IInv'
<1> USE DEF etcdVars, handlerVars, locals
<1>1. TypeOK'
  BY DEF IInv, TypeOK
<1>2. LiveIsLatest' /\ HistoryIsFaithful'
  BY HistoryStepIInv
<1>3. ExpectedIsPast'
  BY DEF IInv, ExpectedIsPast
<1>4. LocalsAreVersions'
  BY DEF IInv, LocalsAreVersions, IsVersion
<1>5. WireIsOwned'
  BY DEF IInv, WireIsOwned
<1>6. SavesAreOwned'
  BY DEF IInv, SavesAreOwned, SavedEntry
<1>7. PendingWritesAreArchived'
  <2> SUFFICES ASSUME NEW q \in Requests
               PROVE  /\ saving[q].stage = "prune" =>
                            StillArchived(saving[q].key, saving[q].snap.mod)
                      /\ pc[q] = "send" /\ req[q].expected # Nil =>
                            StillArchived(req[q].key, req[q].expected)
                      /\ wire[q] # Nil /\ wire[q].expected # Nil =>
                            StillArchived(wire[q].key, wire[q].expected)
    BY DEF PendingWritesAreArchived, Archived, StillArchived, CurrentEntry
  <2>1. saving[q].stage = "prune" =>
            StillArchived(saving[q].key, saving[q].snap.mod)
    BY SavingTyped, HistoryStepArchived DEF IInv, PendingWritesAreArchived
  <2>2. pc[q] = "send" /\ req[q].expected # Nil =>
            StillArchived(req[q].key, req[q].expected)
    BY HistoryStepArchived DEF IInv, PendingWritesAreArchived,
                               ExpectedIsPast, Request
  <2>3. wire[q] # Nil /\ wire[q].expected # Nil =>
            StillArchived(wire[q].key, wire[q].expected)
    BY HistoryStepArchived DEF IInv, PendingWritesAreArchived,
                               ExpectedIsPast, Message
  <2>4. QED
    BY <2>1, <2>2, <2>3
<1>8. QED
  BY <1>1, <1>2, <1>3, <1>4, <1>5, <1>6, <1>7 DEF IInv

(* Configure and UpdateRetention keep IInv.                                 *)
LEMMA AdministrationIInv ==
    ASSUME IInv, Administration
    PROVE  IInv'
<1>0. UNCHANGED <<etcdVars, handlerVars>>
  BY DEF Administration
<1>1. ASSUME NEW keep \in Retentions, Configure(keep)
      PROVE  IInv'
  <2>1. HMTypeOK' /\ saving' = saving /\ history' = history
    BY <1>1 DEF Configure, SaveConfigSucceeds, SaveConfigFails, IInv, TypeOK,
                HMTypeOK
  <2>2. QED
    BY <1>0, <2>1, SameHistoryStep, ManagerIInv
<1>2. ASSUME NEW a \in Admins, NEW keep \in Retentions,
             UpdateRetention(a, keep)
      PROVE  IInv'
  <2>1. /\ UNCHANGED <<history, configured, saving>>
        /\ retention' \in {retention, keep}
        /\ configFile' \in {configFile, keep}
        /\ \/ pruning' = pruning
           \/ pruning' = [pruning EXCEPT ![a] = keep]
    BY <1>2 DEF UpdateRetention, SaveConfigSucceeds, SaveConfigFails
  <2>2. HMTypeOK'
    BY <2>1 DEF IInv, TypeOK, HMTypeOK
  <2>3. QED
    BY <1>0, <2>1, <2>2, SameHistoryStep, ManagerIInv
<1>3. ASSUME NEW a \in Admins, UpdateRetentionPrune(a)
      PROVE  IInv'
  <2>1. PICK done : history' = Pruned(done, pruning[a])
    BY <1>3 DEF UpdateRetentionPrune
  <2>2. pruning[a] \in Nat
    BY <1>3 DEF UpdateRetentionPrune, IInv, TypeOK, HMTypeOK
  <2>3. HistoryStep
    BY <2>1, <2>2, PrunedHistoryStep
  <2>4. HMTypeOK' /\ saving' = saving
    BY <1>3, <2>3 DEF UpdateRetentionPrune, HistoryStep, IInv, TypeOK,
                      HMTypeOK
  <2>5. QED
    BY <1>0, <2>3, <2>4, ManagerIInv
<1>4. QED
  BY <1>1, <1>2, <1>3 DEF Administration

(* A restart prunes under the stored policy and ends every handler.         *)
LEMMA ProcessRestartIInv ==
    ASSUME IInv, ProcessRestart
    PROVE  IInv'
<1> USE DEF ProcessRestart, etcdVars
<1>1. HistoryStep
  <2>1. CASE configFile = Nil
    BY <2>1, SameHistoryStep DEF Restart
  <2>2. CASE configFile # Nil
    BY <2>2, PrunedHistoryStep DEF Restart, IInv, TypeOK, HMTypeOK
  <2>3. QED
    BY <2>1, <2>2
<1>2. TypeOK'
  <2>1. HMTypeOK'
    BY <1>1 DEF Restart, LoadedRetention, HistoryStep, IInv, TypeOK, HMTypeOK, SaveCall
  <2>2. QED
    BY <2>1 DEF IInv, TypeOK, PC
<1>3. LiveIsLatest' /\ HistoryIsFaithful'
  BY <1>1, HistoryStepIInv
<1>4. \A q \in Requests : pc'[q] \in {"idle", "answered", "gone"}
  OBVIOUS
<1>5. ExpectedIsPast' /\ LocalsAreVersions' /\ WireIsOwned'
  BY <1>4 DEF IInv, ExpectedIsPast, LocalsAreVersions, WireIsOwned
<1>6. SavesAreOwned'
  BY DEF Restart, SavesAreOwned, SavedEntry
<1>7. PendingWritesAreArchived'
  <2>1. ASSUME NEW q \in Requests, wire[q] # Nil, wire[q].expected # Nil
        PROVE  StillArchived(wire[q].key, wire[q].expected)
    BY <1>1, <2>1, HistoryStepArchived DEF IInv, PendingWritesAreArchived,
                                           ExpectedIsPast, Message
  <2>2. QED
    BY <1>4, <2>1 DEF Restart, Idle, PendingWritesAreArchived, Archived,
                      StillArchived, CurrentEntry
<1>8. QED
  BY <1>2, <1>3, <1>5, <1>6, <1>7 DEF IInv

-----------------------------------------------------------------------------
(* The three steps of Save, inside a handler.                               *)

(* Reading the policy at the start of Save keeps IInv.                      *)
LEMMA SaveSnapshotBeginIInv ==
    ASSUME IInv, NEW r \in Requests, SaveSnapshotBegin(r)
    PROVE  IInv'
<1> USE DEF SaveSnapshotBegin, SaveBegin, etcdVars, handlerVars, locals
<1>0. /\ pc[r] \in SaveStates /\ req[r] \in Request /\ req[r].key \in Keys
      /\ pc[r] = "saveTarget" => previous[r] \in Snapshot
      /\ pc[r] = "saveCurrent" => current[r] \in Snapshot
  BY DEF IInv, ExpectedIsPast, LocalsAreVersions, SaveStates, Request
<1>1. TypeOK'
  BY <1>0 DEF IInv, TypeOK, HMTypeOK, SaveCall, SavedEntry, SaveStates
<1>2. LiveIsLatest' /\ HistoryIsFaithful'
  BY SameHistoryStep, HistoryStepIInv
<1>3. ExpectedIsPast' /\ WireIsOwned'
  BY DEF IInv, ExpectedIsPast, WireIsOwned
<1>4. LocalsAreVersions'
  BY DEF IInv, LocalsAreVersions, IsVersion
<1>5. SavesAreOwned'
  BY <1>0 DEF IInv, TypeOK, HMTypeOK, SavesAreOwned, SavedEntry, SaveStates
<1>6. PendingWritesAreArchived'
  <2>1. /\ saving'[r].stage = "append"
        /\ \A q \in Requests : q # r => saving'[q] = saving[q]
    BY DEF IInv, TypeOK, HMTypeOK
  <2>2. \A q \in Requests : saving'[q].stage = "prune" =>
            saving'[q] = saving[q]
    BY <2>1
  <2>3. UNCHANGED <<log, live, history, pc, req, wire>>
    OBVIOUS
  <2> HIDE DEF SaveSnapshotBegin, SaveBegin
  <2>4. QED
    BY <2>2, <2>3 DEF IInv, PendingWritesAreArchived, Archived, CurrentEntry
<1>7. QED
  BY <1>1, <1>2, <1>3, <1>4, <1>5, <1>6 DEF IInv

(* After the append the current entry is archived.                          *)
LEMMA SaveSnapshotAppendIInv ==
    ASSUME IInv, NEW r \in Requests, SaveSnapshotAppend(r)
    PROVE  IInv'
<1> USE DEF SaveSnapshotAppend, SaveAppend, etcdVars, handlerVars, locals
<1>1. /\ HistoryStep
      /\ live[saving[r].key] = saving[r].snap.mod =>
            CurrentEntry(saving[r].key) \in history'[saving[r].key]
  BY AppendedHistoryStep
<1>2. /\ saving[r] \in [stage : {"append", "prune"}, key : Keys,
                        snap : Snapshot, keep : Retentions]
      /\ saving[r] # Idle
  BY DEF IInv, TypeOK, HMTypeOK, SaveCall, Idle
<1>2a. saving' = [saving EXCEPT ![r] = [saving[r] EXCEPT !.stage = "prune"]]
  BY DEF IInv, TypeOK, HMTypeOK
<1>2b. /\ [saving[r] EXCEPT !.stage = "prune"] \in SaveCall
       /\ [saving[r] EXCEPT !.stage = "prune"].key = saving[r].key
       /\ [saving[r] EXCEPT !.stage = "prune"].snap = saving[r].snap
  BY <1>2 DEF SaveCall
<1>3. TypeOK'
  BY <1>1, <1>2a, <1>2b DEF HistoryStep, IInv, TypeOK, HMTypeOK
<1>4. LiveIsLatest' /\ HistoryIsFaithful'
  BY <1>1, HistoryStepIInv
<1>5. ExpectedIsPast' /\ WireIsOwned'
  BY DEF IInv, ExpectedIsPast, WireIsOwned
<1>6. LocalsAreVersions'
  BY DEF IInv, LocalsAreVersions, IsVersion
<1>7. SavesAreOwned'
  BY <1>2, <1>2a, <1>2b DEF IInv, TypeOK, HMTypeOK, SavesAreOwned, SavedEntry
<1>8. PendingWritesAreArchived'
  <2>1. ASSUME NEW q \in Requests, q # r, saving[q].stage = "prune"
        PROVE  StillArchived(saving[q].key, saving[q].snap.mod)
    <3>1. saving'[q] = saving[q]
      BY <1>2a, <2>1 DEF IInv, TypeOK, HMTypeOK
    <3>2. QED
      BY <1>1, <2>1, <3>1, SavingTyped, HistoryStepArchived
         DEF IInv, PendingWritesAreArchived
  <2>2. StillArchived(saving[r].key, saving[r].snap.mod)
    BY <1>1 DEF StillArchived
  <2>3. ASSUME NEW q \in Requests, pc[q] = "send", req[q].expected # Nil
        PROVE  StillArchived(req[q].key, req[q].expected)
    BY <1>1, <2>3, HistoryStepArchived DEF IInv, PendingWritesAreArchived,
                                           ExpectedIsPast, Request
  <2>4. ASSUME NEW q \in Requests, wire[q] # Nil, wire[q].expected # Nil
        PROVE  StillArchived(wire[q].key, wire[q].expected)
    BY <1>1, <2>4, HistoryStepArchived DEF IInv, PendingWritesAreArchived,
                                           ExpectedIsPast, Message
  <2>5. \A q \in Requests : q # r => saving'[q] = saving[q]
    BY <1>2a DEF IInv, TypeOK, HMTypeOK
  <2>6. /\ saving'[r].key = saving[r].key
        /\ saving'[r].snap = saving[r].snap
    BY <1>2a, <1>2b DEF IInv, TypeOK, HMTypeOK
  <2>7. \A q \in Requests : saving'[q].stage = "prune" =>
            StillArchived(saving'[q].key, saving'[q].snap.mod)
    BY <2>1, <2>2, <2>5, <2>6
  <2>8. UNCHANGED <<log, live, pc, req, wire>>
    OBVIOUS
  <2> HIDE DEF SaveSnapshotAppend, SaveAppend
  <2>9. QED
    BY <2>3, <2>4, <2>7, <2>8
       DEF PendingWritesAreArchived, Archived, StillArchived, CurrentEntry
<1>9. QED
  BY <1>3, <1>4, <1>5, <1>6, <1>7, <1>8 DEF IInv

(* The end of a Save, whatever its outcome: the call of r is over and the   *)
(* archived entries of all others are still there.                          *)
LEMMA SaveEndsArchived ==
    ASSUME IInv, NEW r \in Requests, HistoryStep, UNCHANGED etcdVars,
           UNCHANGED wire, saving' = [saving EXCEPT ![r] = Idle],
           \A q \in Requests : q # r => pc'[q] = pc[q] /\ req'[q] = req[q],
           pc'[r] = "send" /\ req'[r].expected # Nil =>
               StillArchived(req'[r].key, req'[r].expected)
    PROVE  PendingWritesAreArchived'
<1>0. /\ saving'[r] = Idle
      /\ \A q \in Requests : q # r => saving'[q] = saving[q]
  BY DEF IInv, TypeOK, HMTypeOK
<1>1. ASSUME NEW q \in Requests, saving'[q].stage = "prune"
      PROVE  StillArchived(saving'[q].key, saving'[q].snap.mod)
  <2>1. q # r /\ saving'[q] = saving[q]
    BY <1>0, <1>1 DEF Idle
  <2>2. QED
    BY <1>1, <2>1, SavingTyped, HistoryStepArchived
       DEF IInv, PendingWritesAreArchived
<1>2. ASSUME NEW q \in Requests, pc'[q] = "send", req'[q].expected # Nil
      PROVE  StillArchived(req'[q].key, req'[q].expected)
  BY <1>2, HistoryStepArchived DEF IInv, PendingWritesAreArchived,
                                   ExpectedIsPast, Request
<1>3. ASSUME NEW q \in Requests, wire[q] # Nil, wire[q].expected # Nil
      PROVE  StillArchived(wire[q].key, wire[q].expected)
  BY <1>3, HistoryStepArchived DEF IInv, PendingWritesAreArchived,
                                   ExpectedIsPast, Message
<1>4. QED
  BY <1>1, <1>2, <1>3 DEF PendingWritesAreArchived, Archived, StillArchived,
                          CurrentEntry, etcdVars

(* Going on after the prune keeps IInv.                                     *)
LEMMA SaveSnapshotDoneIInv ==
    ASSUME IInv, NEW r \in Requests, SaveSnapshotDone(r)
    PROVE  IInv'
<1> USE DEF SaveSnapshotDone, SavePrune, Goto, etcdVars, locals
<1>0. HistoryStep
  BY KeyPrunedHistoryStep
<1>1. TypeOK'
  BY <1>0 DEF HistoryStep, IInv, TypeOK, HMTypeOK, SaveCall, PC
<1>2. LiveIsLatest' /\ HistoryIsFaithful'
  BY <1>0, HistoryStepIInv
<1>3. ExpectedIsPast'
  BY DEF IInv, TypeOK, ExpectedIsPast
<1>4. WireIsOwned'
  BY DEF IInv, TypeOK, WireIsOwned
<1>5. LocalsAreVersions'
  BY DEF IInv, TypeOK, LocalsAreVersions, IsVersion
<1>6. SavesAreOwned'
  BY DEF IInv, TypeOK, HMTypeOK, SavesAreOwned, SavedEntry
<1>7. PendingWritesAreArchived'
  <2>1. ASSUME pc[r] = "saveCurrent", req[r].expected # Nil
        PROVE  StillArchived(req[r].key, req[r].expected)
    <3>1. /\ saving[r].key = req[r].key /\ saving[r].key \in Keys
          /\ saving[r].snap.mod = req[r].expected
      BY <2>1, SavingTyped DEF IInv, SavesAreOwned, SavedEntry, LocalsAreVersions
    <3>2. Archived(saving[r].key, saving[r].snap.mod)
      BY DEF IInv, PendingWritesAreArchived
    <3>3. QED
      BY <1>0, <3>1, <3>2, HistoryStepArchived
  <2>2. pc'[r] = "send" /\ req'[r].expected # Nil =>
            StillArchived(req'[r].key, req'[r].expected)
    BY <2>1 DEF IInv, TypeOK
  <2>3. QED
    BY <1>0, <2>2, SaveEndsArchived DEF IInv, TypeOK
<1>8. QED
  BY <1>1, <1>2, <1>3, <1>4, <1>5, <1>6, <1>7 DEF IInv

(* A Save that fails, with or without effect, keeps IInv.                   *)
LEMMA SaveSnapshotFailsIInv ==
    ASSUME IInv, NEW r \in Requests, SaveSnapshotFails(r)
    PROVE  IInv'
<1>1. PICK from \in SaveStates : Refuse(r, from)
  BY DEF SaveSnapshotFails
<1>2. CASE SaveNotSetup(r)
  BY <1>1, <1>2, RefuseIInv DEF SaveNotSetup, SaveStates, BeforeSend, PC
<1>3. CASE SaveAppendFails(r) \/ SavePruneFails(r)
  <2>1. HistoryStep
    BY <1>3, SameHistoryStep, AppendedHistoryStep, KeyPrunedHistoryStep
       DEF SaveAppendFails, SavePruneFails
  <2>2. /\ saving' = [saving EXCEPT ![r] = Idle]
        /\ UNCHANGED <<configured, retention, configFile, pruning>>
    BY <1>3 DEF SaveAppendFails, SavePruneFails
  <2> USE <1>1, <2>2 DEF Refuse, Answer, Goto, etcdVars, SaveStates
  <2>3. TypeOK'
    BY <2>1 DEF HistoryStep, IInv, TypeOK, HMTypeOK, SaveCall, PC, Replies
  <2>4. LiveIsLatest' /\ HistoryIsFaithful'
    BY <2>1, HistoryStepIInv
  <2>5. ExpectedIsPast'
    BY DEF IInv, TypeOK, ExpectedIsPast, WireIsOwned
  <2>6. WireIsOwned'
    BY DEF IInv, TypeOK, WireIsOwned
  <2>7. LocalsAreVersions'
    BY DEF IInv, TypeOK, LocalsAreVersions, IsVersion
  <2>8. SavesAreOwned'
    BY DEF IInv, TypeOK, HMTypeOK, SavesAreOwned, SavedEntry
  <2>9. PendingWritesAreArchived'
    BY <2>1, SaveEndsArchived DEF IInv, TypeOK
  <2>10. QED
    BY <2>3, <2>4, <2>5, <2>6, <2>7, <2>8, <2>9 DEF IInv
<1>4. QED
  BY <1>2, <1>3 DEF SaveSnapshotFails

-----------------------------------------------------------------------------
(* The write: sent, applied or refused by etcd, answered or given up.       *)

(* The message carries the request's key and expected revision.             *)
LEMMA WriteOfTyped ==
    ASSUME IInv, NEW r \in Requests, pc[r] = "send"
    PROVE  /\ WriteOf(r) \in Message
           /\ WriteOf(r).key = req[r].key
           /\ WriteOf(r).expected = req[r].expected
<1>1. req[r] \in Request
  BY DEF IInv, ExpectedIsPast
<1>2. CASE req[r].op = "put"
  BY <1>1, <1>2 DEF WriteOf, Message, Request
<1>3. CASE req[r].op = "delete"
  BY <1>1, <1>3 DEF WriteOf, Message, Request
<1>4. CASE req[r].op = "rollback"
  <2>1. /\ req[r].key \in Keys /\ req[r].expected \in Nat
        /\ req[r].expected # Nil
    BY <1>1, <1>4 DEF Request, Revision
  <2>2. /\ previous[r].val \in Values
        /\ current[r].mod = req[r].expected
    BY <1>4, <2>1 DEF IInv, LocalsAreVersions, Snapshot
  <2>3. QED
    BY <1>4, <2>1, <2>2 DEF WriteOf, Message
<1>5. QED
  BY <1>1, <1>2, <1>3, <1>4 DEF Request

(* Handing the write to the network keeps IInv.                             *)
LEMMA SendWriteIInv ==
    ASSUME IInv, NEW r \in Requests, SendWrite(r)
    PROVE  IInv'
<1> USE DEF SendWrite, Goto, etcdVars, hmVars, locals
<1>0. /\ WriteOf(r) \in Message /\ WriteOf(r).key = req[r].key
      /\ WriteOf(r).expected = req[r].expected
  BY WriteOfTyped
<1>1. TypeOK'
  BY <1>0 DEF IInv, TypeOK, HMTypeOK, PC
<1>2. LiveIsLatest' /\ HistoryIsFaithful'
  BY DEF IInv, LiveIsLatest, FoundAt, HistoryIsFaithful, IsVersion
<1>3. ExpectedIsPast'
  BY <1>0 DEF IInv, TypeOK, ExpectedIsPast
<1>4. LocalsAreVersions'
  BY DEF IInv, TypeOK, LocalsAreVersions, IsVersion
<1>5. WireIsOwned'
  BY DEF IInv, TypeOK, WireIsOwned
<1>6. SavesAreOwned'
  BY DEF IInv, TypeOK, HMTypeOK, SavesAreOwned, SavedEntry, SaveStates
<1>7. PendingWritesAreArchived'
  BY <1>0 DEF IInv, TypeOK, HMTypeOK, PendingWritesAreArchived, Archived,
         CurrentEntry
<1>8. QED
  BY <1>1, <1>2, <1>3, <1>4, <1>5, <1>6, <1>7 DEF IInv

(* A handler takes the answer, or stops waiting for it.                     *)
LEMMA WriteEndsIInv ==
    ASSUME IInv, NEW r \in Requests, WriteReturns(r) \/ WriteTimesOut(r)
    PROVE  IInv'
<1>1. PICK answer \in {"ok", "refused", "unknown"} :
          /\ Answer(r, "await", answer)
          /\ answer = "refused" => outcome[r] # "none"
          /\ outcome' = [outcome EXCEPT ![r] = "none"]
          /\ audited' \subseteq audited \cup {r}
          /\ UNCHANGED <<etcdVars, hmVars, wire>>
  BY DEF WriteReturns, WriteTimesOut
<1> USE <1>1 DEF Answer, Goto, etcdVars, hmVars
<1>1a. TypeOK'
  BY DEF IInv, TypeOK, HMTypeOK, PC, Replies
<1>2. LiveIsLatest' /\ HistoryIsFaithful'
  BY DEF IInv, LiveIsLatest, FoundAt, HistoryIsFaithful, IsVersion
<1>3. ExpectedIsPast'
  BY DEF IInv, TypeOK, ExpectedIsPast, WireIsOwned
<1>4. LocalsAreVersions'
  BY DEF IInv, TypeOK, LocalsAreVersions, IsVersion
<1>5. WireIsOwned'
  BY DEF IInv, TypeOK, WireIsOwned
<1>6. SavesAreOwned'
  BY DEF IInv, TypeOK, HMTypeOK, SavesAreOwned, SavedEntry, SaveStates
<1>7. PendingWritesAreArchived'
  BY DEF IInv, TypeOK, HMTypeOK, PendingWritesAreArchived, Archived,
         CurrentEntry
<1>8. QED
  BY <1>1a, <1>2, <1>3, <1>4, <1>5, <1>6, <1>7 DEF IInv

(* A message leaves the wire.                                               *)
LEMMA DeliveredOwned ==
    ASSUME IInv, NEW r \in Requests, wire[r] # Nil,
           NEW result \in {"ok", "conflict", "not_found"},
           Delivered(r, result)
    PROVE  /\ \A q \in Requests : wire'[q] \in {wire[q], Nil}
           /\ wire' \in [Requests -> Message \cup {Nil}]
           /\ outcome' \in [Requests -> {"none", "ok", "conflict", "not_found"}]
           /\ WireIsOwned'
           /\ UNCHANGED <<hmVars, pc, req, locals, reply, audited>>
<1>1. UNCHANGED <<hmVars, pc, req, locals, reply, audited>>
  BY DEF Delivered
<1>2. /\ \A q \in Requests : wire'[q] \in {wire[q], Nil}
      /\ wire' \in [Requests -> Message \cup {Nil}]
      /\ outcome' \in [Requests -> {"none", "ok", "conflict", "not_found"}]
  BY DEF Delivered, IInv, TypeOK
<1>3. WireIsOwned'
  BY DEF Delivered, IInv, TypeOK, WireIsOwned
<1>4. QED
  BY <1>1, <1>2, <1>3

(* A write that etcd refuses keeps IInv.                                    *)
LEMMA EtcdRefusesIInv ==
    ASSUME IInv, NEW r \in Requests, EtcdRefuses(r)
    PROVE  IInv'
<1>1. /\ \A q \in Requests : wire'[q] \in {wire[q], Nil}
      /\ wire' \in [Requests -> Message \cup {Nil}]
      /\ outcome' \in [Requests -> {"none", "ok", "conflict", "not_found"}]
      /\ WireIsOwned'
      /\ UNCHANGED <<hmVars, pc, req, locals, reply, audited>>
  BY DeliveredOwned DEF EtcdRefuses
<1>2. UNCHANGED <<log, live, compacted>>
  BY DEF EtcdRefuses, etcdVars
<1> USE <1>1, <1>2 DEF hmVars, locals
<1>3. TypeOK'
  BY DEF IInv, TypeOK, HMTypeOK
<1>4. LiveIsLatest' /\ HistoryIsFaithful'
  BY DEF IInv, LiveIsLatest, FoundAt, HistoryIsFaithful, IsVersion
<1>5. ExpectedIsPast'
  BY DEF IInv, ExpectedIsPast
<1>6. LocalsAreVersions'
  BY DEF IInv, LocalsAreVersions, IsVersion
<1>7. SavesAreOwned'
  BY DEF IInv, SavesAreOwned, SavedEntry
<1>8. PendingWritesAreArchived'
  BY DEF IInv, PendingWritesAreArchived, Archived, CurrentEntry
<1>9. QED
  BY <1>1, <1>3, <1>4, <1>5, <1>6, <1>7, <1>8 DEF IInv

(* Compaction keeps IInv.                                                   *)
LEMMA CompactionIInv ==
    ASSUME IInv, Compaction
    PROVE  IInv'
<1>1. UNCHANGED <<log, live, hmVars, handlerVars>> /\ compacted' \in Nat
  BY DEF Compaction, Compact, IInv, TypeOK
<1> USE <1>1 DEF hmVars, handlerVars, locals
<1>2. TypeOK'
  BY DEF IInv, TypeOK, HMTypeOK
<1>3. LiveIsLatest' /\ HistoryIsFaithful'
  BY DEF IInv, LiveIsLatest, FoundAt, HistoryIsFaithful, IsVersion
<1>4. ExpectedIsPast' /\ WireIsOwned' /\ SavesAreOwned'
  BY DEF IInv, ExpectedIsPast, WireIsOwned, SavesAreOwned, SavedEntry
<1>5. LocalsAreVersions'
  BY DEF IInv, LocalsAreVersions, IsVersion
<1>6. PendingWritesAreArchived'
  BY DEF IInv, PendingWritesAreArchived, Archived, CurrentEntry
<1>7. QED
  BY <1>2, <1>3, <1>4, <1>5, <1>6 DEF IInv

-----------------------------------------------------------------------------
(* Steps that change etcd.  A write of key k gives k a revision that nobody *)
(* has read or named yet, so whoever waits to replace an earlier one will   *)
(* be refused; what is known about other keys and old revisions stays true. *)

(* A write leaves every earlier revision as it was.                         *)
LEMMA WriteKeepsVersions ==
    ASSUME IInv, NEW k \in Keys, NEW v \in Values \cup {Deleted},
           NEW w \in Requests \cup {External}, Write(k, v, w),
           NEW j, NEW s, IsVersion(j, s)
    PROVE  /\ s.mod \in 1..Len(log')
           /\ log'[s.mod].key = j
           /\ log'[s.mod].val = s.val
<1>1. /\ Len(log') = Len(log) + 1 /\ Len(log) \in Nat
      /\ \A i \in 1..Len(log) : log'[i] = log[i]
  BY WriteExtendsLog DEF IInv
<1>2. s.mod \in 1..Len(log) /\ log[s.mod].key = j /\ log[s.mod].val = s.val
  BY DEF IsVersion
<1>3. QED
  BY <1>1, <1>2

(* A write moves the index of its own key only, to the new revision.        *)
LEMMA WriteLive ==
    ASSUME IInv, NEW k \in Keys, NEW v \in Values \cup {Deleted},
           NEW w \in Requests \cup {External}, Write(k, v, w)
    PROVE  /\ live' \in [Keys -> Nat]
           /\ live'[k] \in {0, Len(log) + 1}
           /\ v = Deleted => live'[k] = 0
           /\ \A j \in Keys : j # k => live'[j] = live[j]
           /\ LiveIsLatest'
<1>0. Len(log) \in Nat /\ live \in [Keys -> Nat]
  BY DEF IInv, TypeOK
<1>1. /\ live' \in [Keys -> Nat]
      /\ live'[k] \in {0, Len(log) + 1}
      /\ v = Deleted => live'[k] = 0
      /\ \A j \in Keys : j # k => live'[j] = live[j]
  BY <1>0 DEF Write
<1>2. /\ Len(log') = Len(log) + 1
      /\ \A i \in 1..Len(log) : log'[i] = log[i]
      /\ log'[Len(log) + 1] = [key |-> k, val |-> v, by |-> w]
  BY WriteExtendsLog DEF IInv
<1>3. ASSUME NEW j \in Keys, live'[j] # 0
      PROVE  /\ live'[j] \in 1..Len(log')
             /\ log'[live'[j]].key = j
             /\ log'[live'[j]].val # Deleted
             /\ \A i \in (live'[j] + 1)..Len(log') : log'[i].key # j
  <2>1. CASE j = k
    BY <1>0, <1>1, <1>2, <1>3, <2>1
  <2>2. CASE j # k
    <3>1. /\ live'[j] = live[j] /\ live[j] \in 1..Len(log)
          /\ log[live[j]].key = j /\ log[live[j]].val # Deleted
          /\ \A i \in (live[j] + 1)..Len(log) : log[i].key # j
      BY <1>1, <1>3, <2>2 DEF IInv, LiveIsLatest, FoundAt
    <3>2. log'[Len(log) + 1].key # j
      BY <1>2, <2>2
    <3>3. QED
      BY <1>0, <1>2, <3>1, <3>2
  <2>3. QED
    BY <2>1, <2>2
<1>4. LiveIsLatest'
  BY <1>3 DEF LiveIsLatest, FoundAt
<1>5. QED
  BY <1>1, <1>4

(* What was archived is still archived, or is no longer current.            *)
LEMMA WriteArchived ==
    ASSUME IInv, NEW k \in Keys, NEW v \in Values \cup {Deleted},
           NEW w \in Requests \cup {External}, Write(k, v, w),
           history' = history,
           NEW j \in Keys, NEW e \in Nat, e <= Len(log), Archived(j, e)
    PROVE  e # 0 /\ live'[j] = e =>
               [mod |-> live'[j], val |-> log'[live'[j]].val] \in history'[j]
<1> SUFFICES ASSUME e # 0, live'[j] = e
             PROVE  [mod |-> live'[j], val |-> log'[live'[j]].val]
                        \in history'[j]
  OBVIOUS
<1>1. Len(log) \in Nat
  BY DEF IInv, TypeOK
<1>2. live[j] = e
  BY <1>1, WriteLive
<1>3. log'[e] = log[e]
  <2>1. \A i \in 1..Len(log) : log'[i] = log[i]
    BY WriteExtendsLog DEF IInv
  <2>2. QED
    BY <1>1, <2>1
<1>4. QED
  BY <1>2, <1>3 DEF Archived, CurrentEntry

(* Any write, ours or not, keeps IInv.                                      *)
LEMMA WriteIInv ==
    ASSUME IInv, NEW k \in Keys, NEW v \in Values \cup {Deleted},
           NEW w \in Requests \cup {External}, Write(k, v, w),
           UNCHANGED <<hmVars, pc, req, locals, reply, audited>>,
           \A q \in Requests : wire'[q] \in {wire[q], Nil},
           wire' \in [Requests -> Message \cup {Nil}],
           outcome' \in [Requests -> {"none", "ok", "conflict", "not_found"}],
           WireIsOwned'
    PROVE  IInv'
<1> USE DEF hmVars, locals
<1>1. /\ Len(log') = Len(log) + 1 /\ Len(log) \in Nat
      /\ log' \in Seq(Version) /\ compacted' = compacted
  BY WriteExtendsLog DEF IInv, Write
<1>2. TypeOK' /\ LiveIsLatest'
  BY <1>1, WriteLive DEF IInv, TypeOK, HMTypeOK
<1>3. HistoryIsFaithful'
  BY WriteKeepsVersions DEF IInv, HistoryIsFaithful, IsVersion
<1>4. ExpectedIsPast'
  <2>1. ASSUME NEW q \in Requests, req[q] \in Request,
               req[q].expected # Nil => req[q].expected <= Len(log)
        PROVE  req[q].expected # Nil => req[q].expected <= Len(log')
    BY <1>1, <2>1 DEF Request, Revision
  <2>2. QED
    BY <2>1 DEF IInv, ExpectedIsPast
<1>5. LocalsAreVersions'
  BY WriteKeepsVersions DEF IInv, LocalsAreVersions, IsVersion
<1>6. SavesAreOwned'
  BY DEF IInv, SavesAreOwned, SavedEntry
<1>7. PendingWritesAreArchived'
  <2> DEFINE Kept(j, e) ==
          e # 0 /\ live'[j] = e =>
              [mod |-> live'[j], val |-> log'[live'[j]].val] \in history'[j]
  <2>1. ASSUME NEW q \in Requests, saving[q].stage = "prune"
        PROVE  Kept(saving[q].key, saving[q].snap.mod)
    <3>1. /\ saving[q].key \in Keys /\ saving[q].snap.mod \in Nat
          /\ saving[q].snap.mod <= Len(log)
          /\ Archived(saving[q].key, saving[q].snap.mod)
      BY <1>1, <2>1, SavingTyped DEF IsVersion, IInv, PendingWritesAreArchived
    <3>2. QED
      BY <3>1, WriteArchived
  <2>2. ASSUME NEW q \in Requests, pc[q] = "send", req[q].expected # Nil
        PROVE  Kept(req[q].key, req[q].expected)
    <3>1. /\ req[q].key \in Keys /\ req[q].expected \in Nat
          /\ req[q].expected <= Len(log)
          /\ Archived(req[q].key, req[q].expected)
      BY <2>2 DEF IInv, ExpectedIsPast, Request, Revision,
                  PendingWritesAreArchived
    <3>2. QED
      BY <3>1, WriteArchived
  <2>3. ASSUME NEW q \in Requests, wire[q] # Nil, wire[q].expected # Nil
        PROVE  Kept(wire[q].key, wire[q].expected)
    <3>1. /\ wire[q].key \in Keys /\ wire[q].expected \in Nat
          /\ wire[q].expected <= Len(log)
          /\ Archived(wire[q].key, wire[q].expected)
      BY <2>3 DEF IInv, ExpectedIsPast, Message, PendingWritesAreArchived
    <3>2. QED
      BY <3>1, WriteArchived
  <2>4. QED
    BY <2>1, <2>2, <2>3 DEF PendingWritesAreArchived, Archived, CurrentEntry
<1>8. QED
  BY <1>2, <1>3, <1>4, <1>5, <1>6, <1>7 DEF IInv

(* Applying a handler's write keeps IInv.                                   *)
LEMMA EtcdAppliesIInv ==
    ASSUME IInv, NEW r \in Requests, EtcdApplies(r)
    PROVE  IInv'
<1>1. wire[r].key \in Keys /\ wire[r].val \in Values \cup {Deleted}
  BY DEF EtcdApplies, IInv, ExpectedIsPast, Message
<1>2. QED
  BY <1>1, DeliveredOwned, WriteIInv DEF EtcdApplies

(* A write of another client keeps IInv.                                    *)
LEMMA OtherWriterIInv ==
    ASSUME IInv, NEW k \in Keys, NEW v \in Values \cup {Deleted},
           OtherWriter(k, v)
    PROVE  IInv'
<1>1. Write(k, v, External) /\ UNCHANGED <<hmVars, handlerVars>>
  BY DEF OtherWriter, ExternalWrite
<1>2. /\ wire' \in [Requests -> Message \cup {Nil}]
      /\ outcome' \in [Requests -> {"none", "ok", "conflict", "not_found"}]
  BY <1>1 DEF handlerVars, IInv, TypeOK
<1>3. WireIsOwned'
  BY <1>1 DEF handlerVars, IInv, WireIsOwned
<1>4. QED
  BY <1>1, <1>2, <1>3, WriteIInv DEF handlerVars

-----------------------------------------------------------------------------
(* Every step preserves the invariant.                                      *)
LEMMA NextIInv ==
    ASSUME IInv, [Next]_vars
    PROVE  IInv'
<1>1. ASSUME NEW r \in Requests, Handler(r)
      PROVE  IInv'
  BY <1>1, RefusalsIInv, ReadCurrentIInv, ArchiveMissingPutIInv, TargetIInv,
     SaveSnapshotBeginIInv, SaveSnapshotAppendIInv, SaveSnapshotDoneIInv,
     SaveSnapshotFailsIInv, SendWriteIInv, WriteEndsIInv DEF Handler
<1>2. ASSUME NEW r \in Requests, Wire(r)
      PROVE  IInv'
  BY <1>2, EtcdAppliesIInv, EtcdRefusesIInv DEF Wire
<1>3. CASE Environment
  BY <1>3, OtherWriterIInv, CompactionIInv, AdministrationIInv,
     ProcessRestartIInv DEF Environment
<1>4. CASE UNCHANGED vars
  <2> USE <1>4 DEF vars, etcdVars, hmVars, handlerVars, locals
  <2>1. TypeOK' /\ LiveIsLatest' /\ HistoryIsFaithful'
    BY DEF IInv, TypeOK, HMTypeOK, LiveIsLatest, FoundAt, HistoryIsFaithful,
           IsVersion
  <2>2. ExpectedIsPast' /\ LocalsAreVersions' /\ SavesAreOwned'
    BY DEF IInv, ExpectedIsPast, LocalsAreVersions, IsVersion, SavesAreOwned, SavedEntry
  <2>3. WireIsOwned' /\ PendingWritesAreArchived'
    BY DEF IInv, WireIsOwned, PendingWritesAreArchived, Archived, CurrentEntry
  <2>4. QED
    BY <2>1, <2>2, <2>3 DEF IInv
<1>5. QED
  BY <1>1, <1>2, <1>3, <1>4, ReceiveIInv DEF Next

(* The inductive invariant holds in every reachable state.                  *)
THEOREM Invariance == Spec => []IInv
BY InitIInv, NextIInv, PTL DEF Spec

(* Type correctness of the handlers, the history manager and etcd.          *)
THEOREM TypeCorrect == Spec => []TypeOK
<1>1. IInv => TypeOK
  BY DEF IInv
<1>2. QED
  BY <1>1, Invariance, PTL

(* The history backend only ever holds what etcd stored.                    *)
THEOREM Faithful == Spec => []HistoryIsFaithful
<1>1. IInv => HistoryIsFaithful
  BY DEF IInv
<1>2. QED
  BY <1>1, Invariance, PTL

-----------------------------------------------------------------------------
(* Only etcd's acceptance of a write and other clients extend the log.      *)
LEMMA WhoWrites ==
    ASSUME IInv, Next, Len(log') > Len(log)
    PROVE  \/ \E r \in Requests : EtcdApplies(r)
           \/ \E k \in Keys, v \in Values \cup {Deleted} : OtherWriter(k, v)
<1>0. Len(log) \in Nat
  BY DEF IInv, TypeOK
<1>1. log' # log
  BY <1>0
<1> USE DEF etcdVars
<1>2. ASSUME NEW r \in Requests, Receive(r)
      PROVE  log' = log
  BY <1>2 DEF Receive, Reject, Refuse, ReceivePut, ReceiveDelete,
              ReceiveRollback, Accept
<1>3. ASSUME NEW r \in Requests, Handler(r)
      PROVE  log' = log
  BY <1>3 DEF Handler, EtcdReadFails, ArchiveConflict, ArchiveFound,
              ArchiveMissingPut, ArchiveMissingDelete, TargetRefused,
              TargetCurrent, ReadCurrent, TargetStored, TargetNotStored,
              HistoryReadFails, TargetInEtcd, TargetUnavailable,
              SaveSnapshotBegin, SaveSnapshotAppend, SaveSnapshotDone,
              SaveSnapshotFails, SendWrite, WriteReturns, WriteTimesOut,
              Refuse
<1>4. ASSUME NEW r \in Requests, EtcdRefuses(r)
      PROVE  log' = log
  BY <1>4 DEF EtcdRefuses
<1>5. ASSUME Compaction \/ Administration \/ ProcessRestart
      PROVE  log' = log
  BY <1>5 DEF Compaction, Compact, Administration, ProcessRestart
<1>6. QED
  BY <1>1, <1>2, <1>3, <1>4, <1>5 DEF Next, Wire, Environment

(* The last revision after a write names its writer.                        *)
LEMMA LastWriter ==
    ASSUME TypeOK, NEW k \in Keys, NEW v \in Values \cup {Deleted},
           NEW w \in Requests \cup {External}, Write(k, v, w)
    PROVE  log'[Len(log')].by = w
<1>1. /\ Len(log') = Len(log) + 1
      /\ log'[Len(log) + 1] = [key |-> k, val |-> v, by |-> w]
  BY WriteExtendsLog
<1>2. QED
  BY <1>1

(* Under IInv the entry a conditional write replaces is stored.             *)
LEMMA ReplacedIsArchived ==
    ASSUME IInv, Next, NEW r \in Requests, Replaces(r), Conditional(r)
    PROVE  CurrentEntry(req[r].key) \in history[req[r].key]
<1>1. /\ Len(log') > Len(log) /\ log'[Len(log')].by = r
      /\ live[req[r].key] # 0
  BY DEF Replaces
<1>2. EtcdApplies(r)
  <2>1. ASSUME NEW q \in Requests, EtcdApplies(q)
        PROVE  q = r
    <3>1. wire[q].key \in Keys /\ wire[q].val \in Values \cup {Deleted}
      BY <2>1 DEF EtcdApplies, IInv, ExpectedIsPast, Message
    <3>2. log'[Len(log')].by = q
      BY <2>1, <3>1, LastWriter DEF EtcdApplies, IInv
    <3>3. QED
      BY <1>1, <3>2
  <2>2. ASSUME NEW k \in Keys, NEW v \in Values \cup {Deleted},
               OtherWriter(k, v)
        PROVE  FALSE
    <3>1. log'[Len(log')].by = External
      BY <2>2, LastWriter DEF OtherWriter, ExternalWrite, IInv
    <3>2. QED
      BY <1>1, <3>1, ExternalAssumption
  <2>3. QED
    BY <1>1, <2>1, <2>2, WhoWrites
<1>3. /\ wire[r] # Nil /\ req[r] \in Request
      /\ wire[r].key = req[r].key /\ wire[r].expected = req[r].expected
      /\ CompareModRevision(wire[r].key, wire[r].expected)
  BY <1>2 DEF EtcdApplies, IInv, ExpectedIsPast
<1>4. req[r].expected # Nil
  BY <1>3 DEF Conditional, Request, Revision
<1>5. Archived(req[r].key, req[r].expected)
  BY <1>3, <1>4 DEF IInv, PendingWritesAreArchived
<1>6. live[req[r].key] = req[r].expected
  BY <1>3, <1>4 DEF CompareModRevision
<1>7. QED
  BY <1>1, <1>5, <1>6 DEF Archived

(* No conditional write ever replaces an entry that is not in the history:  *)
(* for any number of handlers, keys, values and policies, with every        *)
(* interleaving, storage fault, late write and restart of the model.        *)
THEOREM ArchivedBeforeOverwrite == Spec => OverwrittenIsArchived
<1> DEFINE Step == \A r \in Requests :
               Replaces(r) /\ Conditional(r) =>
                   CurrentEntry(req[r].key) \in history[req[r].key]
<1>1. ASSUME IInv, [Next]_vars
      PROVE  [Step]_vars
  BY <1>1, ReplacedIsArchived
<1>2. QED
  BY <1>1, Invariance, PTL DEF Spec, OverwrittenIsArchived
=============================================================================
