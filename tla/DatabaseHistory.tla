-------------------------- MODULE DatabaseHistory --------------------------
(***************************************************************************)
(* The history manager with store.DatabaseHistory as its backend, next to  *)
(* the file.  A table row is a snapshot; INSERT leaves a stored revision   *)
(* alone (AddSnapshot).  What differs is the prune: it takes no lock and   *)
(* no transaction.  One statement reads the revision of the oldest row to  *)
(* keep, a second one deletes the rows below it, and between the two other *)
(* requests insert and delete rows.  Prune lists the keys first and then   *)
(* prunes one after the other.                                             *)
(***************************************************************************)
EXTENDS HistoryManager

ASSUME AdminsAssumption == Admins \cap Requests = {}

VARIABLES
    kind,  \* type of the configured storage
    cut,   \* a prune between its statements: key and oldest revision to keep
    todo   \* keys a Prune has listed and not yet reached, Nil before

tableVars == <<kind, cut, todo>>
dbVars == <<hmVars, tableVars>>

Pruners == Requests \cup Admins

Cut == [key : Keys, mod : Nat \ {0}]

DBTypeOK ==
    /\ HMTypeOK
    /\ kind \in {"local", "database"}
    /\ cut \in [Pruners -> Cut \cup {Nil}]
    /\ todo \in [Admins -> (SUBSET Keys) \cup {Nil}]
    /\ \A r \in Requests : cut[r] # Nil => saving[r].stage = "prune"

DBInit ==
    /\ HMInit
    /\ kind \in {"local", "database"}
    /\ cut = [p \in Pruners |-> Nil]
    /\ todo = [a \in Admins |-> Nil]

-----------------------------------------------------------------------------
(* The revision of the row ORDER BY mod_revision DESC OFFSET keep - 1; none *)
(* when there are fewer rows, or when 0 keeps everything.                   *)
Cutoffs(k, keep) ==
    {s.mod : s \in {t \in history[k] :
                       Cardinality(Newer(history[k], t)) = keep - 1}}

RowsDeletedToo(p) ==  \* mutant: <= in place of <
    [history EXCEPT ![cut[p].key] = {s \in @ : s.mod > cut[p].mod}]

(* DELETE ... WHERE mod_revision < cutoff.                                  *)
RowsDeleted(p) ==
    [history EXCEPT ![cut[p].key] = {s \in @ : s.mod >= cut[p].mod}]

SelectCutoff(p, k, keep) ==
    \E m \in Cutoffs(k, keep) :
        cut' = [cut EXCEPT ![p] = [key |-> k, mod |-> m]]

(* PruneKey at the end of Save.                                             *)
SaveCutoff(r) ==
    /\ kind = "database"
    /\ saving[r].stage = "prune" /\ cut[r] = Nil
    /\ SelectCutoff(r, saving[r].key, saving[r].keep)
    /\ UNCHANGED <<hmVars, kind, todo>>

SaveDone(r) ==
    /\ saving' = [saving EXCEPT ![r] = Idle]
    /\ cut' = [cut EXCEPT ![r] = Nil]
    /\ UNCHANGED <<configured, retention, configFile, pruning, kind, todo>>

SaveNoCutoff(r) ==
    /\ kind = "database"
    /\ saving[r].stage = "prune" /\ cut[r] = Nil
    /\ Cutoffs(saving[r].key, saving[r].keep) = {}
    /\ UNCHANGED history
    /\ SaveDone(r)

SaveDelete(r) ==
    /\ cut[r] # Nil
    /\ history' = RowsDeleted(r)
    /\ SaveDone(r)

(* A statement fails; of a DELETE, perhaps only the answer was lost.        *)
SaveTableFails(r) ==
    /\ StorageFaults /\ kind = "database"
    /\ saving[r].stage = "prune"
    /\ history' \in {history} \cup (IF cut[r] = Nil THEN {} ELSE {RowsDeleted(r)})
    /\ SaveDone(r)

-----------------------------------------------------------------------------
(* Prune in UpdateRetention: SELECT DISTINCT of the keys.                   *)
ListKeys(a) ==
    /\ kind = "database"
    /\ pruning[a] # Nil /\ todo[a] = Nil
    /\ todo' = [todo EXCEPT ![a] =
          IF pruning[a] = 0 THEN {} ELSE {k \in Keys : history[k] # {}}]
    /\ UNCHANGED <<hmVars, kind, cut>>

(* The next key of the list: one with few rows is left alone.               *)
KeyCutoff(a, k) ==
    /\ todo[a] # Nil /\ k \in todo[a] /\ cut[a] = Nil
    /\ SelectCutoff(a, k, pruning[a])
    /\ UNCHANGED <<hmVars, kind, todo>>

KeyNoCutoff(a, k) ==
    /\ todo[a] # Nil /\ k \in todo[a] /\ cut[a] = Nil
    /\ Cutoffs(k, pruning[a]) = {}
    /\ todo' = [todo EXCEPT ![a] = @ \ {k}]
    /\ UNCHANGED <<hmVars, kind, cut>>

KeyDelete(a) ==
    /\ cut[a] # Nil
    /\ history' = RowsDeleted(a)
    /\ todo' = [todo EXCEPT ![a] = @ \ {cut[a].key}]
    /\ cut' = [cut EXCEPT ![a] = Nil]
    /\ UNCHANGED <<configured, retention, configFile, saving, pruning, kind>>

PruneEnds(a) ==
    /\ pruning' = [pruning EXCEPT ![a] = Nil]
    /\ todo' = [todo EXCEPT ![a] = Nil]
    /\ cut' = [cut EXCEPT ![a] = Nil]
    /\ UNCHANGED <<configured, retention, configFile, saving, kind>>

PruneDone(a) ==
    /\ todo[a] = {}
    /\ UNCHANGED history
    /\ PruneEnds(a)

PruneFails(a) ==
    /\ StorageFaults /\ kind = "database"
    /\ pruning[a] # Nil
    /\ history' \in {history} \cup (IF cut[a] = Nil THEN {} ELSE {RowsDeleted(a)})
    /\ PruneEnds(a)

-----------------------------------------------------------------------------
(* What the manager does with either backend.                               *)
Common ==
    \/ \E keep \in Retentions : Configure(keep)
    \/ \E r \in Requests :
          \/ \E k \in Keys, m \in 1..MaxRevision, v \in Values :
                SaveBegin(r, k, [mod |-> m, val |-> v])
          \/ SaveNotSetup(r) \/ SaveAppend(r) \/ SaveAppendFails(r)
    \/ \E a \in Admins, keep \in Retentions : UpdateRetention(a, keep)

OnFile ==
    \/ \E r \in Requests : SavePrune(r) \/ SavePruneFails(r)
    \/ \E a \in Admins : UpdateRetentionPrune(a)

(* NewHistoryManager prunes before the process serves requests.             *)
DBRestart ==
    /\ Restart
    /\ cut' = [p \in Pruners |-> Nil]
    /\ todo' = [a \in Admins |-> Nil]
    /\ UNCHANGED kind

DBNext ==
    \/ Common /\ UNCHANGED tableVars
    \/ kind = "local" /\ OnFile /\ UNCHANGED tableVars
    \/ \E r \in Requests :
          SaveCutoff(r) \/ SaveNoCutoff(r) \/ SaveDelete(r) \/ SaveTableFails(r)
    \/ \E a \in Admins :
          \/ ListKeys(a) \/ KeyDelete(a) \/ PruneDone(a) \/ PruneFails(a)
          \/ \E k \in Keys : KeyCutoff(a, k) \/ KeyNoCutoff(a, k)
    \/ DBRestart

DBSpec == DBInit /\ [][DBNext]_dbVars

-----------------------------------------------------------------------------
(* Why no prune goes too far, as an inductive invariant.                    *)

RowsFrom(k, mod) == {s \in history[k] : s.mod >= mod}

(* Between the two statements of a prune, whatever others insert or delete, *)
(* as many rows from the cut-off on remain as some policy asks for.         *)
EnoughStay ==
    \A p \in Pruners : cut[p] # Nil =>
        \E keep \in Retentions \ {0} :
            Cardinality(RowsFrom(cut[p].key, cut[p].mod)) >= keep

(* Rows are finitely many; every revision is one a caller has saved.        *)
RevisionsAreSaved ==
    /\ \A k \in Keys : /\ IsFiniteSet(history[k])
                       /\ \A s \in history[k] : s.mod <= MaxRevision
    /\ \A r \in Requests : saving[r] # Idle => saving[r].snap.mod <= MaxRevision
    /\ \A p \in Pruners : cut[p] # Nil => cut[p].mod <= MaxRevision

(* Prunes in two statements exist on tables only, as parts of a call.       *)
CutsAreOwned ==
    /\ \A p \in Pruners : cut[p] # Nil => kind = "database"
    /\ \A a \in Admins :
          /\ cut[a] # Nil => todo[a] # Nil
          /\ todo[a] # Nil => pruning[a] # Nil /\ kind = "database"

DBInv ==
    /\ DBTypeOK
    /\ OneSnapshotPerRevision
    /\ EnoughStay
    /\ RevisionsAreSaved
    /\ CutsAreOwned
=============================================================================
