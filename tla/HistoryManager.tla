--------------------------- MODULE HistoryManager ---------------------------
(***************************************************************************)
(* store.HistoryManager: the one-time configuration of the history         *)
(* backend, the retention policy, and Save, which reads the policy under a *)
(* read lock, releases it, and then appends and prunes in two further,     *)
(* separately locked backend calls.                                        *)
(*                                                                         *)
(* The backend is what its callers rely on: a map from key to snapshots on *)
(* which a failing call may or may not have taken effect (a failed fsync,  *)
(* a lost database answer).                                                *)
(***************************************************************************)
EXTENDS Snapshots

CONSTANTS
    Requests,          \* goroutines that call Save
    Admins,            \* goroutines that call UpdateRetention
    Retentions,        \* the policies an administrator may choose
    DefaultRetention,  \* policy in memory while nothing is configured
    StorageFaults      \* whether the disk or the database may fail

ASSUME RetentionAssumption ==
    /\ Retentions \subseteq Nat
    /\ DefaultRetention \in Retentions
    /\ StorageFaults \in BOOLEAN

VARIABLES
    history,     \* backend content: the snapshots of each key
    configured,  \* m.backend # nil
    retention,   \* m.retentionVersions
    configFile,  \* policy in the configuration file, Nil when there is none
    saving,      \* where each Save call stands, with the policy it read
    pruning      \* policy an UpdateRetention call has stored but not applied

hmVars == <<history, configured, retention, configFile, saving, pruning>>

Idle == [stage |-> "idle", key |-> Nil, snap |-> Nil, keep |-> Nil]

SaveCall ==
    {Idle} \cup [stage : {"append", "prune"}, key : Keys, snap : Snapshot,
                 keep : Retentions]

HMTypeOK ==
    /\ history \in [Keys -> SUBSET Snapshot]
    /\ configured \in BOOLEAN
    /\ retention \in Retentions
    /\ configFile \in Retentions \cup {Nil}
    /\ saving \in [Requests -> SaveCall]
    /\ pruning \in [Admins -> Retentions \cup {Nil}]

HMInit ==
    /\ history = [k \in Keys |-> {}]
    /\ configured = FALSE
    /\ retention = DefaultRetention
    /\ configFile = Nil
    /\ saving = [r \in Requests |-> Idle]
    /\ pruning = [a \in Admins |-> Nil]

-----------------------------------------------------------------------------
(* The outcomes of writing the configuration file.  The last step of        *)
(* saveConfig, Chmod, comes after the rename: an error there is reported    *)
(* although the file already holds the new policy.                          *)
SaveConfigSucceeds(keep) == configFile' = keep

SaveConfigFails(keep) == StorageFaults /\ configFile' \in {configFile, keep}

(* Configure, under the write lock: refused once a backend exists.          *)
Configure(keep) ==
    /\ ~configured
    /\ \/ /\ SaveConfigSucceeds(keep)
          /\ configured' = TRUE
          /\ retention' = keep
       \/ /\ SaveConfigFails(keep)
          /\ UNCHANGED <<configured, retention>>
    /\ UNCHANGED <<history, saving, pruning>>

(* Save, first step: backend and policy are read together under RLock.      *)
SaveBegin(r, k, s) ==
    /\ configured
    /\ saving[r] = Idle
    /\ saving' = [saving EXCEPT ![r] =
                    [stage |-> "append", key |-> k, snap |-> s,
                     keep |-> retention]]
    /\ UNCHANGED <<history, configured, retention, configFile, pruning>>

(* Save on an unconfigured manager returns ErrHistoryNotSetup at once.      *)
SaveNotSetup(r) ==
    /\ ~configured
    /\ saving[r] = Idle
    /\ UNCHANGED hmVars

AppendedReplacing(r) ==  \* mutant: a stored revision is replaced
    [history EXCEPT ![saving[r].key] =
        {t \in @ : t.mod # saving[r].snap.mod} \cup {saving[r].snap}]

Appended(r) ==
    [history EXCEPT ![saving[r].key] = AddSnapshot(@, saving[r].snap)]

(* Save, second step: backend.Save.                                         *)
SaveAppend(r) ==
    /\ saving[r].stage = "append"
    /\ history' = Appended(r)
    /\ saving' = [saving EXCEPT ![r].stage = "prune"]
    /\ UNCHANGED <<configured, retention, configFile, pruning>>

SaveAppendFails(r) ==
    /\ StorageFaults
    /\ saving[r].stage = "append"
    /\ history' \in {history, Appended(r)}
    /\ saving' = [saving EXCEPT ![r] = Idle]
    /\ UNCHANGED <<configured, retention, configFile, pruning>>

KeyPruned(r) ==
    [history EXCEPT ![saving[r].key] = PruneKey(@, saving[r].keep)]

(* Save, third step: backend.PruneKey with the policy read in the first.    *)
SavePrune(r) ==
    /\ saving[r].stage = "prune"
    /\ history' = KeyPruned(r)
    /\ saving' = [saving EXCEPT ![r] = Idle]
    /\ UNCHANGED <<configured, retention, configFile, pruning>>

SavePruneFails(r) ==
    /\ StorageFaults
    /\ saving[r].stage = "prune"
    /\ history' \in {history, KeyPruned(r)}
    /\ saving' = [saving EXCEPT ![r] = Idle]
    /\ UNCHANGED <<configured, retention, configFile, pruning>>

(* UpdateRetention, under the write lock: persist, then set in memory.      *)
UpdateRetention(a, keep) ==
    /\ configured
    /\ pruning[a] = Nil
    /\ \/ /\ SaveConfigSucceeds(keep)
          /\ retention' = keep
          /\ pruning' = [pruning EXCEPT ![a] = keep]
       \/ /\ SaveConfigFails(keep)
          /\ UNCHANGED <<retention, pruning>>
    /\ UNCHANGED <<history, configured, saving>>

(* Prune(keep) over the keys in done; a failing prune stops half way.       *)
Pruned(done, keep) ==
    [k \in Keys |-> IF k \in done THEN PruneKey(history[k], keep)
                                  ELSE history[k]]

(* UpdateRetention after the unlock: backend.Prune of every key.            *)
UpdateRetentionPrune(a) ==
    /\ pruning[a] # Nil
    /\ \E done \in IF StorageFaults THEN SUBSET Keys ELSE {Keys} :
           history' = Pruned(done, pruning[a])
    /\ pruning' = [pruning EXCEPT ![a] = Nil]
    /\ UNCHANGED <<configured, retention, configFile, saving>>

LoadedWithoutDefault == configFile  \* mutant: the default is not set first

(* The policy NewHistoryManager starts with: the default, then load.        *)
LoadedRetention == IF configFile = Nil THEN DefaultRetention ELSE configFile

(* The process ends at any moment and NewHistoryManager loads the files:    *)
(* the stored policy is applied to the whole backend before serving.        *)
Restart ==
    /\ configured' = (configFile # Nil)
    /\ retention' = LoadedRetention
    /\ history' = IF configFile = Nil THEN history
                                      ELSE Pruned(Keys, configFile)
    /\ saving' = [r \in Requests |-> Idle]
    /\ pruning' = [a \in Admins |-> Nil]
    /\ UNCHANGED configFile

-----------------------------------------------------------------------------
(* A revision names one stored value: concurrent Saves of one revision,     *)
(* retries after an error and restarts never store it twice (the seen index *)
(* of the file, the unique key of the table).                               *)
OneSnapshotPerRevision ==
    \A k \in Keys : \A s, t \in history[k] : s.mod = t.mod => s = t

(* Whatever prune runs late, twice, or half way, a snapshot disappears only *)
(* when as many newer ones of its key remain as the strictest policy any    *)
(* administrator can choose keeps.                                          *)
RemovalLeavesNewest ==
    [][\A k \in Keys : \A s \in history[k] \ history'[k] :
          \E keep \in Retentions \ {0} :
              Cardinality(Newer(history'[k], s)) >= keep]_hmVars

(* What the manager does to its backend, under every interleaving, fault    *)
(* and restart, is what a ValueHistory allows: the interface FileHistory is *)
(* shown to implement.                                                      *)
Backend == INSTANCE ValueHistory WITH content <- history

UsesValueHistory == Backend!VHSpec
=============================================================================
