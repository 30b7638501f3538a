----------------------- MODULE DatabaseHistoryProofs -----------------------
(***************************************************************************)
(* Theorems about the history manager on a file or on a table, for any     *)
(* keys, values, callers, administrators and policies.                     *)
(*                                                                         *)
(* The heart is EnoughStay: between the two statements of a prune other    *)
(* prunes may delete rows the first statement counted, but each of them    *)
(* leaves as many newer ones as its own policy asks for.                   *)
(***************************************************************************)
EXTENDS DatabaseHistory, FiniteSetTheorems, WellFoundedInduction, TLAPS

USE NilAssumption, MaxRevisionAssumption, RetentionAssumption

-----------------------------------------------------------------------------
(* What newestSnapshots leaves.                                             *)

(* Of any sets within a finite set one is smallest.                         *)
LEMMA SmallestSet ==
    ASSUME NEW S, IsFiniteSet(S), NEW T \in SUBSET (SUBSET S), T # {}
    PROVE  \E x \in T : \A y \in T : ~(y \subseteq x /\ x # y)
<1>1. IsWellFoundedOn(StrictSubsetOrdering(S), FiniteSubsetsOf(S))
  BY FS_StrictSubsetOrderingWellFounded, Zenon
<1>2. T \subseteq FiniteSubsetsOf(S)
  BY FS_Subset DEF FiniteSubsetsOf
<1>3. \E x \in T : \A y \in T : ~ (<<y, x>> \in StrictSubsetOrdering(S))
  BY <1>1, <1>2, WFMin, Zenon
<1>4. QED
  BY <1>2, <1>3 DEF StrictSubsetOrdering, FiniteSubsetsOf

(* The number of newer snapshots is a number.                               *)
LEMMA NewerCount ==
    ASSUME NEW S, IsFiniteSet(S), NEW s
    PROVE  IsFiniteSet(Newer(S, s)) /\ Cardinality(Newer(S, s)) \in Nat
<1>1. Newer(S, s) \in SUBSET S
  BY DEF Newer
<1>2. QED
  BY <1>1, FS_Subset, FS_CardinalityType

(* A snapshot that PruneKey drops has as many newer ones left as the policy *)
(* says.                                                                    *)
LEMMA PruneLeavesEnough ==
    ASSUME NEW S \in SUBSET Snapshot, IsFiniteSet(S), NEW keep \in Nat,
           NEW s \in S, s \notin PruneKey(S, keep)
    PROVE  /\ keep # 0
           /\ Cardinality(Newer(PruneKey(S, keep), s)) >= keep
<1> DEFINE Left == PruneKey(S, keep)
           Dropped == {t \in S : Cardinality(Newer(S, t)) >= keep}
           Sets == {Newer(S, t) : t \in Dropped}
<1>1. keep # 0 /\ Left = NewestSnapshots(S, keep)
  BY DEF PruneKey
<1>2. /\ Left \subseteq S
      /\ \A t \in S : t \in Left <=> t \notin Dropped
  BY <1>1, NewerCount DEF NewestSnapshots
<1>3. Sets \in SUBSET (SUBSET S) /\ Sets # {}
  <2>1. \A t : Newer(S, t) \in SUBSET S
    BY DEF Newer
  <2>2. s \in Dropped
    BY <1>2
  <2>3. QED
    BY <2>1, <2>2
<1>4. PICK b \in Dropped :
          \A y \in Sets : ~(y \subseteq Newer(S, b) /\ Newer(S, b) # y)
  <2> HIDE DEF Sets
  <2>1. PICK x \in Sets : \A y \in Sets : ~(y \subseteq x /\ x # y)
    BY <1>3, SmallestSet
  <2>2. PICK b \in Dropped : x = Newer(S, b)
    BY DEF Sets
  <2>3. QED
    BY <2>1, <2>2
<1>5. ASSUME NEW u \in Newer(S, b)
      PROVE  u \in Left
  <2>1. /\ Newer(S, u) \subseteq Newer(S, b) /\ u \notin Newer(S, u)
        /\ u \in S
    BY DEF Newer, Snapshot
  <2>2. Newer(S, u) \notin Sets
    BY <1>4, <2>1
  <2>3. QED
    BY <1>2, <2>1, <2>2
<1>6. Newer(S, b) \in SUBSET Newer(Left, s)
  <2>1. ~(s.mod > b.mod)
    BY <1>5 DEF Newer
  <2>2. QED
    BY <1>5, <2>1 DEF Newer, Snapshot
<1>7. IsFiniteSet(Newer(Left, s)) /\ Cardinality(Newer(Left, s)) \in Nat
  BY <1>2, FS_Subset, NewerCount
<1>8. Cardinality(Newer(S, b)) <= Cardinality(Newer(Left, s))
  BY <1>6, <1>7, FS_Subset
<1>9. Cardinality(Newer(S, b)) >= keep /\ Cardinality(Newer(S, b)) \in Nat
  BY NewerCount
<1>10. QED
  BY <1>1, <1>7, <1>8, <1>9

-----------------------------------------------------------------------------
(* The ways in which a step changes the history.                            *)

(* A call under way has a key, a snapshot and a policy.                     *)
LEMMA SavingTyped ==
    ASSUME DBTypeOK, NEW r \in Requests, saving[r].stage # "idle"
    PROVE  /\ saving[r].key \in Keys /\ saving[r].snap \in Snapshot
           /\ saving[r].keep \in Retentions
           /\ saving[r].stage \in {"append", "prune"}
           /\ saving[r] # Idle
<1>1. saving[r] \in SaveCall /\ saving[r] # Idle
  BY DEF DBTypeOK, HMTypeOK, Idle
<1>2. QED
  BY <1>1 DEF SaveCall

Appends == \E r \in Requests : /\ saving[r].stage = "append"
                               /\ history' = Appended(r)

Prunes == \E done \in SUBSET Keys, keep \in Retentions :
             history' = Pruned(done, keep)

Deletes == \E p \in Pruners : cut[p] # Nil /\ history' = RowsDeleted(p)

(* The prune of one key is a prune.                                         *)
LEMMA KeyPrunedPrunes ==
    ASSUME DBTypeOK, NEW r \in Requests, saving[r].stage = "prune",
           history' = KeyPruned(r)
    PROVE  Prunes
<1>1. saving[r].key \in Keys /\ saving[r].keep \in Retentions
  BY SavingTyped
<1>2. history' = Pruned({saving[r].key}, saving[r].keep)
  BY <1>1 DEF KeyPruned, Pruned, DBTypeOK, HMTypeOK
<1>3. QED
  BY <1>1, <1>2 DEF Prunes

(* On a file, prunes are atomic.                                            *)
LEMMA OnFilePrunes ==
    ASSUME DBTypeOK, OnFile
    PROVE  history' = history \/ Prunes
<1>1. ASSUME NEW r \in Requests, SavePrune(r) \/ SavePruneFails(r)
      PROVE  history' = history \/ Prunes
  BY <1>1, KeyPrunedPrunes DEF SavePrune, SavePruneFails
<1>2. ASSUME NEW a \in Admins, UpdateRetentionPrune(a)
      PROVE  Prunes
  BY <1>2 DEF UpdateRetentionPrune, DBTypeOK, HMTypeOK, Prunes
<1>3. QED
  BY <1>1, <1>2 DEF OnFile

(* A restart prunes under the stored policy, if there is one.               *)
LEMMA RestartPrunes ==
    ASSUME DBTypeOK, DBRestart
    PROVE  history' = history \/ Prunes
BY DEF DBRestart, Restart, DBTypeOK, HMTypeOK, Prunes

(* A step with a table's statements.                                        *)
OnTable ==
    \/ \E r \in Requests :
          SaveCutoff(r) \/ SaveNoCutoff(r) \/ SaveDelete(r) \/ SaveTableFails(r)
    \/ \E a \in Admins :
          \/ ListKeys(a) \/ KeyDelete(a) \/ PruneDone(a) \/ PruneFails(a)
          \/ \E k \in Keys : KeyCutoff(a, k) \/ KeyNoCutoff(a, k)

(* On a table, rows go only below a cut-off.                                *)
LEMMA OnTableDeletes ==
    ASSUME OnTable
    PROVE  history' = history \/ Deletes
BY DEF OnTable, SaveCutoff, SaveNoCutoff, SaveDelete, SaveTableFails, ListKeys,
       KeyDelete, PruneDone, PruneFails, KeyCutoff, KeyNoCutoff, hmVars,
       Deletes, Pruners

(* What is common to both adds.                                             *)
LEMMA CommonAppends ==
    ASSUME Common
    PROVE  history' = history \/ Appends
BY DEF Common, Configure, SaveBegin, SaveNotSetup, SaveAppend, SaveAppendFails,
       UpdateRetention, hmVars, Appends

(* Every step of the manager, by what it does to the history.               *)
LEMMA HistorySteps ==
    ASSUME DBTypeOK, [DBNext]_dbVars
    PROVE  history' = history \/ Appends \/ Prunes \/ Deletes
<1>1. CASE UNCHANGED dbVars
  BY <1>1 DEF dbVars, hmVars
<1>2. QED
  BY <1>1, OnFilePrunes, RestartPrunes, OnTableDeletes, CommonAppends
     DEF DBNext, OnTable

(* A prune or a DELETE only removes.                                        *)
LEMMA Shrinks ==
    ASSUME DBTypeOK, Prunes \/ Deletes
    PROVE  /\ history' \in [Keys -> SUBSET Snapshot]
           /\ \A k \in Keys : history'[k] \subseteq history[k]
<1>0. history \in [Keys -> SUBSET Snapshot]
  BY DEF DBTypeOK, HMTypeOK
<1>1. CASE Prunes
  <2>1. \A S, keep : PruneKey(S, keep) \subseteq S
    BY DEF PruneKey, NewestSnapshots
  <2>2. QED
    BY <1>0, <1>1, <2>1 DEF Prunes, Pruned
<1>2. CASE Deletes
  <2>1. PICK p \in Pruners : cut[p] # Nil /\ history' = RowsDeleted(p)
    BY <1>2 DEF Deletes
  <2>2. cut[p].key \in Keys
    BY <2>1 DEF DBTypeOK, Cut
  <2>3. QED
    BY <1>0, <2>1, <2>2 DEF RowsDeleted
<1>3. QED
  BY <1>1, <1>2

(* An append adds at most the snapshot of its call, and only when its       *)
(* revision is new.                                                         *)
LEMMA Grows ==
    ASSUME DBInv, Appends
    PROVE  \E k \in Keys, s \in Snapshot :
              /\ s.mod <= MaxRevision
              /\ history' = [history EXCEPT ![k] = AddSnapshot(history[k], s)]
              /\ history' \in [Keys -> SUBSET Snapshot]
              /\ \A j \in Keys : history[j] \subseteq history'[j]
<1>1. PICK r \in Requests :
          saving[r].stage = "append" /\ history' = Appended(r)
  BY DEF Appends
<1> DEFINE k == saving[r].key
           s == saving[r].snap
<1>2. k \in Keys /\ s \in Snapshot /\ s.mod <= MaxRevision
  BY <1>1, SavingTyped DEF DBInv, RevisionsAreSaved
<1>3. history \in [Keys -> SUBSET Snapshot]
  BY DEF DBInv, DBTypeOK, HMTypeOK
<1>4. history' = [history EXCEPT ![k] = AddSnapshot(history[k], s)]
  BY <1>1 DEF Appended
<1>5. QED
  BY <1>2, <1>3, <1>4 DEF AddSnapshot

(* What the invariant says of the history alone is kept by every step.      *)
LEMMA HistoryKept ==
    ASSUME DBInv, [DBNext]_dbVars
    PROVE  /\ history' \in [Keys -> SUBSET Snapshot]
           /\ OneSnapshotPerRevision'
           /\ \A k \in Keys : /\ IsFiniteSet(history'[k])
                              /\ \A s \in history'[k] : s.mod <= MaxRevision
<1>0. /\ DBTypeOK /\ OneSnapshotPerRevision
      /\ history \in [Keys -> SUBSET Snapshot]
      /\ \A k \in Keys : /\ IsFiniteSet(history[k])
                         /\ \A s \in history[k] : s.mod <= MaxRevision
  BY DEF DBInv, RevisionsAreSaved, DBTypeOK, HMTypeOK
<1>1. CASE history' = history
  BY <1>0, <1>1 DEF OneSnapshotPerRevision
<1>2. CASE Appends
  <2>1. PICK k \in Keys, s \in Snapshot :
            /\ s.mod <= MaxRevision
            /\ history' = [history EXCEPT ![k] = AddSnapshot(history[k], s)]
            /\ history' \in [Keys -> SUBSET Snapshot]
    BY <1>2, Grows
  <2>2. ASSUME NEW j \in Keys
        PROVE  IsFiniteSet(history'[j])
    BY <1>0, <2>1, FS_AddElement DEF AddSnapshot
  <2>3. OneSnapshotPerRevision'
    BY <1>0, <2>1 DEF OneSnapshotPerRevision, AddSnapshot
  <2>4. QED
    BY <1>0, <2>1, <2>2, <2>3 DEF AddSnapshot
<1>3. CASE Prunes \/ Deletes
  <2>1. /\ history' \in [Keys -> SUBSET Snapshot]
        /\ \A k \in Keys : history'[k] \in SUBSET history[k]
    BY <1>0, <1>3, Shrinks
  <2>2. \A k \in Keys : IsFiniteSet(history'[k])
    BY <1>0, <2>1, FS_Subset
  <2>3. QED
    BY <1>0, <2>1, <2>2 DEF OneSnapshotPerRevision
<1>4. QED
  BY <1>0, <1>1, <1>2, <1>3, HistorySteps

-----------------------------------------------------------------------------
(* Enough rows stay.                                                        *)

(* The cut-off of the first statement counts as many rows as the policy     *)
(* says.                                                                    *)
LEMMA CutoffCounts ==
    ASSUME DBInv, NEW k \in Keys, NEW keep \in Retentions,
           NEW m \in Cutoffs(k, keep)
    PROVE  /\ keep # 0 /\ m \in Nat \ {0} /\ m <= MaxRevision
           /\ Cardinality(RowsFrom(k, m)) >= keep
<1>1. PICK t \in history[k] :
          m = t.mod /\ Cardinality(Newer(history[k], t)) = keep - 1
  BY DEF Cutoffs
<1>2. /\ IsFiniteSet(history[k]) /\ t.mod <= MaxRevision /\ t \in Snapshot
      /\ history[k] \subseteq Snapshot
  BY DEF DBInv, RevisionsAreSaved, DBTypeOK, HMTypeOK
<1>3. /\ IsFiniteSet(Newer(history[k], t))
      /\ Cardinality(Newer(history[k], t)) \in Nat
  BY <1>2, NewerCount
<1>4. t \notin Newer(history[k], t)
  BY <1>2 DEF Newer, Snapshot
<1>5. Cardinality(Newer(history[k], t) \cup {t}) = keep
  <2>1. Cardinality(Newer(history[k], t) \cup {t})
          = Cardinality(Newer(history[k], t)) + 1
    BY <1>3, <1>4, FS_AddElement
  <2>2. keep \in Nat
    OBVIOUS
  <2>3. QED
    BY <1>1, <2>1, <2>2
<1>6. /\ Newer(history[k], t) \cup {t} \in SUBSET RowsFrom(k, m)
      /\ RowsFrom(k, m) \in SUBSET history[k]
  BY <1>1, <1>2 DEF Newer, RowsFrom, Snapshot
<1>7. IsFiniteSet(RowsFrom(k, m)) /\ Cardinality(RowsFrom(k, m)) \in Nat
  BY <1>2, <1>6, FS_Subset, FS_CardinalityType
<1>8. Cardinality(RowsFrom(k, m)) >= keep
  BY <1>5, <1>6, <1>7, FS_Subset
<1>9. QED
  BY <1>1, <1>2, <1>3, <1>8 DEF Snapshot

(* Inserts and the DELETEs of others leave enough rows above a cut-off.     *)
LEMMA EnoughRemain ==
    ASSUME DBInv, [DBNext]_dbVars, history' = history \/ Appends \/ Deletes,
           NEW p \in Pruners, cut[p] # Nil, NEW rest,
           rest = {s \in history'[cut[p].key] : s.mod >= cut[p].mod}
    PROVE  \E keep \in Retentions \ {0} : Cardinality(rest) >= keep
<1> DEFINE k == cut[p].key
           m == cut[p].mod
<1>1. k \in Keys /\ m \in Nat
  BY DEF DBInv, DBTypeOK, Cut
<1>2. /\ IsFiniteSet(history'[k]) /\ history'[k] \subseteq Snapshot
      /\ IsFiniteSet(history[k]) /\ history[k] \subseteq Snapshot
  BY <1>1, HistoryKept DEF DBInv, RevisionsAreSaved, DBTypeOK, HMTypeOK
<1>3. rest \in SUBSET history'[k]
  OBVIOUS
<1>4. IsFiniteSet(rest) /\ Cardinality(rest) \in Nat
  BY <1>2, <1>3, FS_Subset, FS_CardinalityType
<1>5. PICK keep \in Retentions \ {0} : Cardinality(RowsFrom(k, m)) >= keep
  BY DEF DBInv, EnoughStay
<1>6. ASSUME NEW j, NEW n \in Nat, NEW q \in Retentions \ {0},
             IsFiniteSet(RowsFrom(j, n)),
             Cardinality(RowsFrom(j, n)) >= q,
             RowsFrom(j, n) \in SUBSET rest
      PROVE  \E x \in Retentions \ {0} : Cardinality(rest) >= x
  <2>1. Cardinality(RowsFrom(j, n)) <= Cardinality(rest)
    BY <1>4, <1>6, FS_Subset
  <2>2. Cardinality(RowsFrom(j, n)) \in Nat
    BY <1>6, FS_CardinalityType
  <2>3. q \in Nat
    OBVIOUS
  <2>4. Cardinality(rest) >= q
    BY <1>4, <1>6, <2>1, <2>2, <2>3
  <2>5. QED
    BY <2>4
<1>7. IsFiniteSet(RowsFrom(k, m))
  <2>1. RowsFrom(k, m) \in SUBSET history[k]
    BY DEF RowsFrom
  <2>2. QED
    BY <1>2, <2>1, FS_Subset
<1>8. CASE history' = history
  BY <1>1, <1>5, <1>6, <1>7, <1>8 DEF RowsFrom
<1>9. CASE Appends
  <2>1. history[k] \subseteq history'[k]
    BY <1>1, <1>9, Grows
  <2>2. RowsFrom(k, m) \in SUBSET rest
    BY <2>1 DEF RowsFrom
  <2>3. QED
    BY <1>1, <1>5, <1>6, <1>7, <2>2
<1>10. CASE Deletes
  <2>1. PICK o \in Pruners : cut[o] # Nil /\ history' = RowsDeleted(o)
    BY <1>10 DEF Deletes
  <2>2. cut[o].key \in Keys /\ cut[o].mod \in Nat
    BY <2>1 DEF DBInv, DBTypeOK, Cut
  <2>3. CASE cut[o].key # k \/ cut[o].mod <= m
    <3>1. RowsFrom(k, m) \in SUBSET rest
      BY <1>1, <1>2, <2>1, <2>2, <2>3
         DEF RowsDeleted, RowsFrom, DBInv, DBTypeOK, HMTypeOK, Snapshot
    <3>2. QED
      BY <1>1, <1>5, <1>6, <1>7, <3>1
  <2>4. CASE cut[o].key = k /\ cut[o].mod > m
    <3>1. RowsFrom(k, cut[o].mod) \in SUBSET rest
      BY <1>1, <1>2, <2>1, <2>2, <2>4
         DEF RowsDeleted, RowsFrom, DBInv, DBTypeOK, HMTypeOK, Snapshot
    <3>2. PICK q \in Retentions \ {0} :
              Cardinality(RowsFrom(k, cut[o].mod)) >= q
      BY <2>1, <2>4 DEF DBInv, EnoughStay
    <3>3. RowsFrom(k, cut[o].mod) \in SUBSET history[k]
      BY DEF RowsFrom
    <3>4. IsFiniteSet(RowsFrom(k, cut[o].mod))
      BY <1>2, <3>3, FS_Subset
    <3>5. QED
      BY <1>6, <2>2, <3>1, <3>2, <3>4
  <2>5. QED
    BY <1>1, <2>2, <2>3, <2>4
<1>11. QED
  BY <1>8, <1>9, <1>10

(* The same for every prune under way, in a step that begins none.          *)
LEMMA EnoughAfter ==
    ASSUME DBInv, [DBNext]_dbVars, history' = history \/ Appends \/ Deletes,
           \A p \in Pruners : cut'[p] \in {cut[p], Nil}
    PROVE  EnoughStay'
<1> SUFFICES ASSUME NEW p \in Pruners, cut'[p] # Nil
             PROVE  \E keep \in Retentions \ {0} :
                       Cardinality({s \in history'[cut'[p].key] :
                                       s.mod >= cut'[p].mod}) >= keep
  BY DEF EnoughStay, RowsFrom
<1>1. cut'[p] = cut[p] /\ cut[p] # Nil
  OBVIOUS
<1> DEFINE rest == {s \in history'[cut[p].key] : s.mod >= cut[p].mod}
<1>2. \E keep \in Retentions \ {0} : Cardinality(rest) >= keep
  BY <1>1, EnoughRemain
<1>3. QED
  BY <1>1, <1>2

-----------------------------------------------------------------------------
(* The invariant, action by action.                                         *)

(* DBInv holds when nothing is configured and stored.                       *)
LEMMA InitDBInv == DBInit => DBInv
<1> SUFFICES ASSUME DBInit PROVE DBInv
  OBVIOUS
<1>1. DBTypeOK
  BY DEF DBInit, HMInit, DBTypeOK, HMTypeOK, SaveCall, Pruners
<1>2. \A k \in Keys : history[k] = {} /\ IsFiniteSet({})
  BY FS_EmptySet DEF DBInit, HMInit
<1>3. RevisionsAreSaved /\ OneSnapshotPerRevision
  BY <1>2 DEF DBInit, HMInit, RevisionsAreSaved, OneSnapshotPerRevision
<1>4. EnoughStay /\ CutsAreOwned
  BY DEF DBInit, EnoughStay, CutsAreOwned, Pruners
<1>5. QED
  BY <1>1, <1>3, <1>4 DEF DBInv

(* The type of what a step leaves in the manager, without the history.      *)
ManagerTyped ==
    /\ configured' \in BOOLEAN
    /\ retention' \in Retentions
    /\ configFile' \in Retentions \cup {Nil}
    /\ saving' \in [Requests -> SaveCall]
    /\ pruning' \in [Admins -> Retentions \cup {Nil}]

(* What a step outside the prunes leaves there.                             *)
ManagerStep ==
    /\ ManagerTyped
    /\ \A r \in Requests :
          /\ saving'[r] # Idle => saving'[r].snap.mod <= MaxRevision
          /\ saving[r].stage = "prune" => saving'[r].stage = "prune"
    /\ \A a \in Admins : pruning[a] # Nil => pruning'[a] # Nil

(* Steps of the manager that are the same on a file and on a table.         *)
LEMMA CommonDBInv ==
    ASSUME DBInv, Common, UNCHANGED tableVars
    PROVE  DBInv'
<1> USE DEF tableVars
<1>0. [DBNext]_dbVars /\ (history' = history \/ Appends)
  BY CommonAppends DEF DBNext
<1>1. ManagerStep
  <2> USE DEF ManagerStep, ManagerTyped, DBInv, DBTypeOK, HMTypeOK
  <2>1. ASSUME NEW keep \in Retentions, Configure(keep)
        PROVE  ManagerStep
    BY <2>1 DEF Configure, SaveConfigSucceeds, SaveConfigFails,
                RevisionsAreSaved
  <2>2. ASSUME NEW r \in Requests, NEW k \in Keys, NEW m \in 1..MaxRevision,
               NEW v \in Values, SaveBegin(r, k, [mod |-> m, val |-> v])
        PROVE  ManagerStep
    <3>1. [stage |-> "append", key |-> k, snap |-> [mod |-> m, val |-> v],
           keep |-> retention] \in SaveCall
      BY DEF SaveCall, Snapshot
    <3>2. QED
      BY <2>2, <3>1 DEF SaveBegin, RevisionsAreSaved, Idle
  <2>3. ASSUME NEW r \in Requests,
               SaveNotSetup(r) \/ SaveAppend(r) \/ SaveAppendFails(r)
        PROVE  ManagerStep
    <3>1. CASE SaveNotSetup(r)
      BY <3>1 DEF SaveNotSetup, hmVars, RevisionsAreSaved
    <3>2. CASE SaveAppend(r)
      <4>1. [saving[r] EXCEPT !.stage = "prune"] \in SaveCall
        BY <3>2 DEF SaveAppend, SaveCall, Idle
      <4>2. saving[r] # Idle
        BY <3>2 DEF SaveAppend, Idle
      <4>3. QED
        BY <3>2, <4>1, <4>2 DEF SaveAppend, RevisionsAreSaved
    <3>3. CASE SaveAppendFails(r)
      BY <3>3 DEF SaveAppendFails, SaveCall, RevisionsAreSaved
    <3>4. QED
      BY <2>3, <3>1, <3>2, <3>3
  <2>4. ASSUME NEW a \in Admins, NEW keep \in Retentions,
               UpdateRetention(a, keep)
        PROVE  ManagerStep
    BY <2>4 DEF UpdateRetention, SaveConfigSucceeds, SaveConfigFails,
                RevisionsAreSaved
  <2>5. QED
    BY <2>1, <2>2, <2>3, <2>4 DEF Common
<1>2. DBTypeOK'
  BY <1>0, <1>1, HistoryKept DEF ManagerStep, ManagerTyped, DBInv, DBTypeOK, HMTypeOK
<1>3. EnoughStay'
  BY <1>0, EnoughAfter
<1>4. RevisionsAreSaved' /\ OneSnapshotPerRevision'
  BY <1>0, <1>1, HistoryKept DEF ManagerStep, DBInv, RevisionsAreSaved
<1>5. CutsAreOwned'
  BY <1>1 DEF ManagerStep, DBInv, CutsAreOwned
<1>6. QED
  BY <1>2, <1>3, <1>4, <1>5 DEF DBInv

(* Prunes on a file: no prune in two statements is under way.               *)
LEMMA OnFileDBInv ==
    ASSUME DBInv, kind = "local", OnFile, UNCHANGED tableVars
    PROVE  DBInv'
<1> USE DEF tableVars
<1>0. [DBNext]_dbVars
  BY DEF DBNext
<1>1. \A p \in Pruners : cut[p] = Nil
  BY DEF DBInv, CutsAreOwned
<1> DEFINE FileStep ==
              /\ ManagerTyped
              /\ \A r \in Requests : saving'[r] \in {saving[r], Idle}
              /\ \A a \in Admins : pruning'[a] \in {pruning[a], Nil}
<1>2. FileStep
  <2> USE DEF ManagerTyped, DBInv, DBTypeOK, HMTypeOK
  <2>1. ASSUME NEW r \in Requests, SavePrune(r) \/ SavePruneFails(r)
        PROVE  FileStep
    BY <2>1 DEF SavePrune, SavePruneFails, SaveCall
  <2>2. ASSUME NEW a \in Admins, UpdateRetentionPrune(a)
        PROVE  FileStep
    BY <2>2 DEF UpdateRetentionPrune
  <2>3. QED
    BY <2>1, <2>2 DEF OnFile
<1>3. DBTypeOK'
  BY <1>0, <1>1, <1>2, HistoryKept
     DEF ManagerTyped, DBInv, DBTypeOK, HMTypeOK, Pruners
<1>4. EnoughStay'
  BY <1>1 DEF EnoughStay
<1>5. RevisionsAreSaved' /\ OneSnapshotPerRevision'
  BY <1>0, <1>1, <1>2, HistoryKept DEF DBInv, RevisionsAreSaved
<1>6. CutsAreOwned'
  BY <1>1, <1>2 DEF DBInv, CutsAreOwned, Pruners
<1>7. QED
  BY <1>3, <1>4, <1>5, <1>6 DEF DBInv

(* A restart forgets every call.                                            *)
LEMMA RestartDBInv ==
    ASSUME DBInv, DBRestart
    PROVE  DBInv'
<1> USE DEF DBRestart, Restart
<1>0. [DBNext]_dbVars
  BY DEF DBNext
<1>1. DBTypeOK'
  BY <1>0, HistoryKept
     DEF DBInv, DBTypeOK, HMTypeOK, SaveCall, Pruners, LoadedRetention
<1>2. RevisionsAreSaved' /\ OneSnapshotPerRevision'
  BY <1>0, HistoryKept DEF RevisionsAreSaved
<1>3. EnoughStay' /\ CutsAreOwned'
  BY DEF EnoughStay, CutsAreOwned, Pruners
<1>4. QED
  BY <1>1, <1>2, <1>3 DEF DBInv

(* The first statement of a prune, in either kind of call.                  *)
LEMMA CutoffDBInv ==
    ASSUME DBInv, DBNext, NEW p \in Pruners, NEW k \in Keys,
           NEW keep \in Retentions, kind = "database",
           SelectCutoff(p, k, keep), UNCHANGED <<hmVars, kind, todo>>,
           p \in Requests => saving[p].stage = "prune",
           p \in Admins => todo[p] # Nil
    PROVE  DBInv'
<1> USE DEF hmVars
<1>1. PICK m \in Cutoffs(k, keep) :
          cut' = [cut EXCEPT ![p] = [key |-> k, mod |-> m]]
  BY DEF SelectCutoff
<1>2. /\ keep # 0 /\ m \in Nat \ {0} /\ m <= MaxRevision
      /\ Cardinality(RowsFrom(k, m)) >= keep
  BY <1>1, CutoffCounts
<1>3. [key |-> k, mod |-> m] \in Cut /\ cut \in [Pruners -> Cut \cup {Nil}]
  BY <1>2 DEF Cut, DBInv, DBTypeOK
<1>4. /\ cut'[p] = [key |-> k, mod |-> m]
      /\ \A q \in Pruners \ {p} : cut'[q] = cut[q]
      /\ cut' \in [Pruners -> Cut \cup {Nil}]
  BY <1>1, <1>3
<1>5. DBTypeOK'
  BY <1>4 DEF DBInv, DBTypeOK, HMTypeOK, Pruners
<1>6. EnoughStay'
  <2> SUFFICES ASSUME NEW q \in Pruners, cut'[q] # Nil
               PROVE  \E x \in Retentions \ {0} :
                         Cardinality(RowsFrom(cut'[q].key, cut'[q].mod)) >= x
    BY DEF EnoughStay, RowsFrom
  <2>1. CASE q = p
    BY <1>2, <1>4, <2>1
  <2>2. CASE q # p
    BY <1>4, <2>2 DEF DBInv, EnoughStay
  <2>3. QED
    BY <2>1, <2>2
<1>7. RevisionsAreSaved' /\ OneSnapshotPerRevision'
  BY <1>2, <1>4 DEF DBInv, RevisionsAreSaved, OneSnapshotPerRevision
<1>8. CutsAreOwned'
  BY <1>4 DEF DBInv, CutsAreOwned, Pruners
<1>9. QED
  BY <1>5, <1>6, <1>7, <1>8 DEF DBInv

(* The end of a Save on a table.                                            *)
LEMMA SaveDoneDBInv ==
    ASSUME DBInv, DBNext, NEW r \in Requests, SaveDone(r),
           history' = history \/ Deletes
    PROVE  DBInv'
<1> USE DEF SaveDone
<1>0. [DBNext]_dbVars
  OBVIOUS
<1>1. /\ saving' = [saving EXCEPT ![r] = Idle]
      /\ cut' = [cut EXCEPT ![r] = Nil]
      /\ r \in Pruners /\ r \notin Admins
  BY AdminsAssumption DEF Pruners
<1>2. DBTypeOK'
  BY <1>0, <1>1, HistoryKept
     DEF DBInv, DBTypeOK, HMTypeOK, SaveCall, Pruners, Idle
<1>3. EnoughStay'
  BY <1>0, <1>1, EnoughAfter DEF DBInv, DBTypeOK
<1>4. RevisionsAreSaved' /\ OneSnapshotPerRevision'
  BY <1>0, <1>1, HistoryKept DEF DBInv, RevisionsAreSaved, DBTypeOK, HMTypeOK
<1>5. CutsAreOwned'
  BY <1>1 DEF DBInv, CutsAreOwned, DBTypeOK, Pruners
<1>6. QED
  BY <1>2, <1>3, <1>4, <1>5 DEF DBInv

(* The steps of a Prune other than its first statements.                    *)
LEMMA PruneStepDBInv ==
    ASSUME DBInv, DBNext, NEW a \in Admins,
           history' = history \/ Deletes,
           UNCHANGED <<configured, retention, configFile, saving, kind>>,
           kind = "database" \/ todo'[a] = Nil,
           pruning' \in {pruning, [pruning EXCEPT ![a] = Nil]},
           cut' \in {cut, [cut EXCEPT ![a] = Nil]},
           NEW rest \in (SUBSET Keys) \cup {Nil},
           todo' = [todo EXCEPT ![a] = rest],
           rest = Nil => cut'[a] = Nil,
           rest # Nil => pruning'[a] # Nil
    PROVE  DBInv'
<1>0. [DBNext]_dbVars
  OBVIOUS
<1>1. a \in Pruners /\ a \notin Requests
  BY AdminsAssumption DEF Pruners
<1>2. DBTypeOK'
  BY <1>0, <1>1, HistoryKept DEF DBInv, DBTypeOK, HMTypeOK, Pruners
<1>3. EnoughStay'
  BY <1>0, <1>1, EnoughAfter DEF DBInv, DBTypeOK
<1>4. RevisionsAreSaved' /\ OneSnapshotPerRevision'
  BY <1>0, <1>1, HistoryKept DEF DBInv, RevisionsAreSaved, DBTypeOK
<1>5. CutsAreOwned'
  BY <1>1 DEF DBInv, CutsAreOwned, DBTypeOK, HMTypeOK, Pruners
<1>6. QED
  BY <1>2, <1>3, <1>4, <1>5 DEF DBInv

(* The statements of a Save on a table.                                     *)
LEMMA SaveTableDBInv ==
    ASSUME DBInv, DBNext, NEW r \in Requests,
           SaveCutoff(r) \/ SaveNoCutoff(r) \/ SaveDelete(r) \/ SaveTableFails(r)
    PROVE  DBInv'
<1>0. r \in Pruners /\ r \notin Admins
  BY AdminsAssumption DEF Pruners
<1>1. CASE SaveCutoff(r)
  <2>1. saving[r].key \in Keys /\ saving[r].keep \in Retentions
    BY <1>1, SavingTyped DEF SaveCutoff, DBInv
  <2>2. QED
    BY <1>0, <1>1, <2>1, CutoffDBInv DEF SaveCutoff
<1>2. CASE SaveNoCutoff(r) \/ SaveDelete(r) \/ SaveTableFails(r)
  <2>1. SaveDone(r) /\ (history' = history \/ Deletes)
    BY <1>0, <1>2 DEF SaveNoCutoff, SaveDelete, SaveTableFails, Deletes
  <2>2. QED
    BY <2>1, SaveDoneDBInv
<1>3. QED
  BY <1>1, <1>2

(* The statements of a Prune on a table.                                    *)
LEMMA PruneTableDBInv ==
    ASSUME DBInv, DBNext, NEW a \in Admins,
           \/ ListKeys(a) \/ KeyDelete(a) \/ PruneDone(a) \/ PruneFails(a)
           \/ \E k \in Keys : KeyCutoff(a, k) \/ KeyNoCutoff(a, k)
    PROVE  DBInv'
<1>0. a \in Pruners /\ a \notin Requests
  BY AdminsAssumption DEF Pruners
<1>1. /\ cut \in [Pruners -> Cut \cup {Nil}]
      /\ todo \in [Admins -> (SUBSET Keys) \cup {Nil}]
      /\ pruning \in [Admins -> Retentions \cup {Nil}]
      /\ cut[a] # Nil => todo[a] # Nil
      /\ todo[a] # Nil => pruning[a] # Nil /\ kind = "database"
  BY DEF DBInv, DBTypeOK, HMTypeOK, CutsAreOwned
<1>2. CASE ListKeys(a)
  <2> DEFINE list == IF pruning[a] = 0 THEN {}
                                       ELSE {k \in Keys : history[k] # {}}
  <2>1. /\ list \in SUBSET Keys /\ pruning[a] # Nil /\ kind = "database"
        /\ todo' = [todo EXCEPT ![a] = list]
        /\ UNCHANGED <<hmVars, kind, cut>>
    BY <1>2 DEF ListKeys
  <2>2. list # Nil => pruning'[a] # Nil
    BY <2>1 DEF hmVars
  <2>3. list = Nil => cut'[a] = Nil
    BY <1>1, <1>2, <2>1 DEF ListKeys
  <2> HIDE DEF list
  <2>4. QED
    BY <2>1, <2>2, <2>3, PruneStepDBInv DEF hmVars
<1>3. CASE KeyDelete(a)
  <2> DEFINE list == todo[a] \ {cut[a].key}
  <2>1. /\ list \in SUBSET Keys /\ pruning[a] # Nil /\ kind = "database"
        /\ todo' = [todo EXCEPT ![a] = list]
        /\ cut' = [cut EXCEPT ![a] = Nil]
        /\ UNCHANGED <<configured, retention, configFile, saving, pruning, kind>>
        /\ Deletes
    BY <1>0, <1>1, <1>3 DEF KeyDelete, Deletes
  <2>2. cut'[a] = Nil /\ pruning'[a] # Nil
    BY <1>0, <1>1, <2>1
  <2> HIDE DEF list
  <2>3. QED
    BY <2>1, <2>2, PruneStepDBInv
<1>4. CASE PruneDone(a) \/ PruneFails(a)
  <2>1. /\ todo' = [todo EXCEPT ![a] = Nil]
        /\ cut' = [cut EXCEPT ![a] = Nil]
        /\ pruning' = [pruning EXCEPT ![a] = Nil]
        /\ UNCHANGED <<configured, retention, configFile, saving, kind>>
        /\ history' = history \/ Deletes
    BY <1>0, <1>4 DEF PruneDone, PruneFails, PruneEnds, Deletes
  <2>2. cut'[a] = Nil /\ todo'[a] = Nil
    BY <1>0, <1>1, <2>1
  <2>3. QED
    BY <2>1, <2>2, PruneStepDBInv
<1>5. ASSUME NEW k \in Keys, KeyCutoff(a, k)
      PROVE  DBInv'
  <2>1. pruning[a] \in Retentions /\ kind = "database" /\ todo[a] # Nil
    BY <1>1, <1>5 DEF KeyCutoff
  <2>2. QED
    BY <1>0, <1>5, <2>1, CutoffDBInv DEF KeyCutoff
<1>6. ASSUME NEW k \in Keys, KeyNoCutoff(a, k)
      PROVE  DBInv'
  <2> DEFINE list == todo[a] \ {k}
  <2>1. /\ list \in SUBSET Keys /\ pruning[a] # Nil /\ kind = "database"
        /\ todo' = [todo EXCEPT ![a] = list]
        /\ cut'[a] = Nil
        /\ UNCHANGED <<hmVars, kind, cut>>
    BY <1>1, <1>6 DEF KeyNoCutoff
  <2>2. pruning'[a] # Nil
    BY <2>1 DEF hmVars
  <2> HIDE DEF list
  <2>3. QED
    BY <2>1, <2>2, PruneStepDBInv DEF hmVars
<1>7. QED
  BY <1>2, <1>3, <1>4, <1>5, <1>6

(* Every step keeps DBInv.                                                  *)
LEMMA NextDBInv ==
    ASSUME DBInv, [DBNext]_dbVars
    PROVE  DBInv'
<1>1. CASE UNCHANGED dbVars
  <2> USE <1>1 DEF dbVars, hmVars, tableVars
  <2>1. DBTypeOK' /\ OneSnapshotPerRevision' /\ CutsAreOwned'
    BY DEF DBInv, DBTypeOK, HMTypeOK, OneSnapshotPerRevision, CutsAreOwned
  <2>2. EnoughStay' /\ RevisionsAreSaved'
    BY DEF DBInv, EnoughStay, RowsFrom, RevisionsAreSaved
  <2>3. QED
    BY <2>1, <2>2 DEF DBInv
<1>2. CASE DBNext
  BY <1>2, CommonDBInv, OnFileDBInv, RestartDBInv, SaveTableDBInv,
     PruneTableDBInv DEF DBNext
<1>3. QED
  BY <1>1, <1>2

(* The inductive invariant holds in every reachable state.                  *)
THEOREM TableInvariance == DBSpec => []DBInv
BY InitDBInv, NextDBInv, PTL DEF DBSpec

(* Type correctness of the manager and of the prunes under way.             *)
THEOREM TableTypeCorrect == DBSpec => []DBTypeOK
<1>1. DBInv => DBTypeOK
  BY DEF DBInv
<1>2. QED
  BY <1>1, TableInvariance, PTL

(* No revision of a key is stored twice.                                    *)
THEOREM RevisionsAreUnique == DBSpec => []OneSnapshotPerRevision
<1>1. DBInv => OneSnapshotPerRevision
  BY DEF DBInv
<1>2. QED
  BY <1>1, TableInvariance, PTL

-----------------------------------------------------------------------------
(* A snapshot disappears only when enough newer ones remain.                *)
LEMMA RemovedHaveSuccessors ==
    ASSUME DBInv, [DBNext]_dbVars, NEW k \in Keys,
           NEW s \in history[k] \ history'[k]
    PROVE  \E keep \in Retentions \ {0} :
              Cardinality(Newer(history'[k], s)) >= keep
<1>0. /\ history \in [Keys -> SUBSET Snapshot] /\ IsFiniteSet(history[k])
      /\ history[k] \in SUBSET Snapshot
  BY DEF DBInv, DBTypeOK, HMTypeOK, RevisionsAreSaved
<1>1. CASE Prunes
  <2>1. PICK done \in SUBSET Keys, keep \in Retentions :
            history' = Pruned(done, keep)
    BY <1>1 DEF Prunes
  <2>2. history'[k] = PruneKey(history[k], keep)
    BY <2>1 DEF Pruned
  <2>3. keep \in Nat
    OBVIOUS
  <2>4. keep # 0 /\ Cardinality(Newer(history'[k], s)) >= keep
    BY <1>0, <2>2, <2>3, PruneLeavesEnough
  <2>5. QED
    BY <2>4
<1>2. CASE Deletes
  <2>1. PICK p \in Pruners : cut[p] # Nil /\ history' = RowsDeleted(p)
    BY <1>2 DEF Deletes
  <2>2. cut[p].key \in Keys /\ cut[p].mod \in Nat
    BY <2>1 DEF DBInv, DBTypeOK, Cut
  <2>3. cut[p].key = k /\ s.mod < cut[p].mod
        /\ history'[k] = RowsFrom(k, cut[p].mod)
    BY <1>0, <2>1, <2>2 DEF RowsDeleted, RowsFrom, Snapshot
  <2>4. Newer(history'[k], s) = RowsFrom(k, cut[p].mod)
    BY <1>0, <2>2, <2>3 DEF Newer, RowsFrom, Snapshot
  <2>5. QED
    BY <2>1, <2>3, <2>4 DEF DBInv, EnoughStay
<1>3. CASE Appends
  BY <1>3, Grows
<1>4. QED
  BY <1>1, <1>2, <1>3, HistorySteps DEF DBInv

(* Whatever prunes overlap, on a file or on a table, with inserts, policy   *)
(* changes, failures and restarts in between.                               *)
THEOREM RemovalsLeaveNewest == DBSpec => RemovalLeavesNewest
<1> DEFINE Step == \A k \in Keys : \A s \in history[k] \ history'[k] :
               \E keep \in Retentions \ {0} :
                  Cardinality(Newer(history'[k], s)) >= keep
<1>1. ASSUME DBInv, [DBNext]_dbVars
      PROVE  [Step]_hmVars
  BY <1>1, RemovedHaveSuccessors
<1>2. QED
  BY <1>1, TableInvariance, PTL DEF DBSpec, RemovalLeavesNewest

-----------------------------------------------------------------------------
(* The instantiated operators on snapshots are the module's own.            *)
LEMMA BackendOperators ==
    /\ \A S, s : Backend!AddSnapshot(S, s) = AddSnapshot(S, s)
    /\ \A S, keep : Backend!PruneKey(S, keep) = PruneKey(S, keep)
<1>1. \A S, s : Backend!AddSnapshot(S, s) = AddSnapshot(S, s)
  BY DEF Backend!AddSnapshot, AddSnapshot
<1>2. \A S, s : Backend!Newer(S, s) = Newer(S, s)
  BY DEF Backend!Newer, Newer
<1>3. \A S, keep : Backend!NewestSnapshots(S, keep) = NewestSnapshots(S, keep)
  BY <1>2 DEF Backend!NewestSnapshots, NewestSnapshots,
              Backend!Cardinality, Cardinality
<1>4. \A S, keep : Backend!PruneKey(S, keep) = PruneKey(S, keep)
  BY <1>3 DEF Backend!PruneKey, PruneKey
<1> QED BY <1>1, <1>4

(* Every step does to the backend what a ValueHistory allows.               *)
LEMMA StepIsValueHistory ==
    ASSUME DBInv, [DBNext]_dbVars
    PROVE  [Backend!VHNext]_history
<1>0. history \in [Keys -> SUBSET Snapshot]
  BY DEF DBInv, DBTypeOK, HMTypeOK
<1>1. CASE Appends
  <2>1. PICK k \in Keys, s \in Snapshot :
            /\ s.mod <= MaxRevision
            /\ history' = [history EXCEPT ![k] = AddSnapshot(history[k], s)]
    BY <1>1, Grows
  <2>2. s.mod \in 1..MaxRevision /\ s.val \in Values
        /\ s = [mod |-> s.mod, val |-> s.val]
    BY <2>1 DEF Snapshot
  <2>3. Backend!Add(k, [mod |-> s.mod, val |-> s.val])
    BY <2>1, <2>2, BackendOperators DEF Backend!Add
  <2>4. QED
    BY <2>2, <2>3 DEF Backend!VHNext
<1>2. CASE Prunes
  <2>1. PICK done \in SUBSET Keys, keep \in Retentions :
            history' = Pruned(done, keep)
    BY <1>2 DEF Prunes
  <2>2. Backend!Prune(done, keep)
    BY <2>1, BackendOperators DEF Pruned, Backend!Prune
  <2>3. QED
    BY <2>2 DEF Backend!VHNext
<1>3. CASE Deletes
  <2>1. PICK p \in Pruners : cut[p] # Nil /\ history' = RowsDeleted(p)
    BY <1>3 DEF Deletes
  <2> DEFINE k == cut[p].key
             m == cut[p].mod
  <2>2. k \in Keys /\ m \in 1..MaxRevision
    BY <2>1 DEF DBInv, DBTypeOK, Cut, RevisionsAreSaved
  <2>3. PICK keep \in Retentions \ {0} : Cardinality(RowsFrom(k, m)) >= keep
    BY <2>1 DEF DBInv, EnoughStay
  <2>4. IsFiniteSet(history[k]) /\ history[k] \subseteq Snapshot
    BY <2>2 DEF DBInv, RevisionsAreSaved, DBTypeOK, HMTypeOK
  <2>5. ASSUME NEW s \in PruneKey(history[k], keep)
        PROVE  s \in RowsFrom(k, m)
    <3>1. s \in history[k] /\ Cardinality(Newer(history[k], s)) < keep
      BY <2>5 DEF PruneKey, NewestSnapshots
    <3>2. SUFFICES ASSUME s.mod < m
                   PROVE  FALSE
      BY <2>2, <2>4, <3>1 DEF RowsFrom, Snapshot
    <3>3. RowsFrom(k, m) \in SUBSET Newer(history[k], s)
      BY <2>2, <2>4, <3>1, <3>2 DEF RowsFrom, Newer, Snapshot
    <3>4. /\ IsFiniteSet(Newer(history[k], s))
          /\ Cardinality(Newer(history[k], s)) \in Nat
      BY <2>4, NewerCount
    <3>5. /\ Cardinality(RowsFrom(k, m)) <= Cardinality(Newer(history[k], s))
          /\ Cardinality(RowsFrom(k, m)) \in Nat
      BY <3>3, <3>4, FS_Subset, FS_CardinalityType
    <3>6. keep \in Nat
      OBVIOUS
    <3>7. QED
      BY <2>3, <3>1, <3>4, <3>5, <3>6
  <2>6. Backend!PruneBelow(k, m, keep)
    BY <2>1, <2>5, BackendOperators DEF Backend!PruneBelow, RowsDeleted, RowsFrom
  <2>7. QED
    BY <2>2, <2>6 DEF Backend!VHNext
<1>4. QED
  BY <1>1, <1>2, <1>3, HistorySteps DEF DBInv

(* The manager needs nothing of its backend but a ValueHistory, and a table *)
(* whose prunes overlap is one.                                             *)
THEOREM TableImplementsValueHistory == DBSpec => UsesValueHistory
<1>1. DBInit => Backend!VHInit
  BY DEF DBInit, HMInit, Backend!VHInit
<1>2. QED
  BY <1>1, StepIsValueHistory, TableInvariance, PTL
     DEF DBSpec, UsesValueHistory, Backend!VHSpec
=============================================================================
