------------------------------ MODULE KeyWrites ------------------------------
(***************************************************************************)
(* The handlers that change a key: handlePutKey, handleDeleteKey and       *)
(* handleRollbackKey (server.go), each as the sequence of calls it makes   *)
(* to etcd and to the history manager.  Handlers run concurrently with one *)
(* another, with writers that bypass Etcd Studio, with compaction, with    *)
(* changes of the retention policy and with restarts of the process.       *)
(*                                                                         *)
(* A write is a message: it may be applied after the handler's deadline,   *)
(* or never, and its answer may be lost.                                   *)
(***************************************************************************)
EXTENDS Etcd, HistoryManager

ASSUME ExternalAssumption == External \notin Requests

VARIABLES
    pc,        \* next step of each request's handler
    req,       \* the decoded request
    current,   \* entry read by archiveCurrent or rollbackTarget
    previous,  \* entry a rollback restores
    wire,      \* the request's write on its way to etcd
    outcome,   \* etcd's answer on its way back to a waiting handler
    reply,     \* what the client was answered
    audited    \* requests whose success was handed to the audit log

locals == <<current, previous>>
handlerVars == <<pc, req, locals, wire, outcome, reply, audited>>
vars == <<etcdVars, hmVars, handlerVars>>

PC == {"idle", "archive", "target", "storedTarget", "etcdTarget",
       "saveTarget", "saveCurrent", "send", "await", "answered", "gone"}

(* The client's answers: "refused" is every error of writeStoreError and    *)
(* every other 4xx or 5xx that promises the key was left alone, "unknown"   *)
(* an etcd error or a missed deadline during the write itself.              *)
Replies == {"none", "ok", "refused", "unknown"}

Message == [key : Keys, val : Values \cup {Deleted},
            expected : Nat \cup {Nil}]

Revision == Nat \ {0}

Request ==
    [op : {"put"}, key : Keys, val : Values, expected : Nat \cup {Nil}]
        \cup [op : {"delete"}, key : Keys, expected : Nat \cup {Nil}]
        \cup [op : {"rollback"}, key : Keys, expected : Revision,
              target : Revision]

Version == [key : Keys, val : Values \cup {Deleted},
            by : Requests \cup {External}]

TypeOK ==
    /\ HMTypeOK
    /\ log \in Seq(Version)
    /\ live \in [Keys -> Nat]
    /\ compacted \in Nat
    /\ pc \in [Requests -> PC]
    /\ req \in [Requests -> Request \cup {Nil}]
    /\ current \in [Requests -> Snapshot \cup {Nil}]
    /\ previous \in [Requests -> Snapshot \cup {Nil}]
    /\ wire \in [Requests -> Message \cup {Nil}]
    /\ outcome \in [Requests -> {"none", "ok", "conflict", "not_found"}]
    /\ reply \in [Requests -> Replies]
    /\ audited \subseteq Requests

Init ==
    /\ EtcdInit
    /\ HMInit
    /\ pc = [r \in Requests |-> "idle"]
    /\ req = [r \in Requests |-> Nil]
    /\ current = [r \in Requests |-> Nil]
    /\ previous = [r \in Requests |-> Nil]
    /\ wire = [r \in Requests |-> Nil]
    /\ outcome = [r \in Requests |-> "none"]
    /\ reply = [r \in Requests |-> "none"]
    /\ audited = {}

-----------------------------------------------------------------------------
Goto(r, from, to) ==
    /\ pc[r] = from
    /\ pc' = [pc EXCEPT ![r] = to]

(* The handler returns; its local variables are gone.  What was asked       *)
(* matters no longer when the answer is that nothing was changed.           *)
Answer(r, from, answer) ==
    /\ Goto(r, from, "answered")
    /\ reply' = [reply EXCEPT ![r] = answer]
    /\ current' = [current EXCEPT ![r] = Nil]
    /\ previous' = [previous EXCEPT ![r] = Nil]
    /\ req' = IF answer = "refused" THEN [req EXCEPT ![r] = Nil] ELSE req

(* An early return before anything was sent to etcd.                        *)
Refuse(r, from) ==
    /\ Answer(r, from, "refused")
    /\ UNCHANGED <<etcdVars, wire, outcome, audited>>

(* Requests turned away before they touch a key: malformed, not permitted   *)
(* on the cluster, unknown cluster, invalid revisions.                      *)
Reject(r) == Refuse(r, "idle") /\ UNCHANGED hmVars

Accept(r, request, first) ==
    /\ Goto(r, "idle", first)
    /\ req' = [req EXCEPT ![r] = request]
    /\ UNCHANGED <<etcdVars, hmVars, locals, wire, outcome, reply, audited>>

(* The expected revision is one the client loaded earlier, 0 to create a    *)
(* key, or absent.                                                          *)
LoadedRevisions == 0..Len(log)

ReceivePut(r, k, v, expected) ==
    Accept(r, [op |-> "put", key |-> k, val |-> v, expected |-> expected],
           "archive")

ReceiveDelete(r, k, expected) ==
    Accept(r, [op |-> "delete", key |-> k, expected |-> expected], "archive")

(* handleRollbackKey insists on 1 <= target < expected.                     *)
ReceiveRollback(r, k, expected, target) ==
    /\ target \in 1..(expected - 1)
    /\ Accept(r, [op |-> "rollback", key |-> k, expected |-> expected,
                  target |-> target], "target")

-----------------------------------------------------------------------------
(* A read of etcd fails: nothing has been written yet.                      *)
EtcdReadFails(r) ==
    /\ \E from \in {"archive", "target", "etcdTarget"} : Refuse(r, from)
    /\ UNCHANGED hmVars

Present(r) == live[req[r].key] # 0

(* The revision read is not the one the request expects.                    *)
Stale(r) ==
    /\ req[r].expected # Nil
    /\ live[req[r].key] # req[r].expected

ReadCurrent(r, from, to) ==
    /\ pc[r] = from /\ Present(r) /\ ~Stale(r)
    /\ Goto(r, from, to)
    /\ current' = [current EXCEPT ![r] = CurrentEntry(req[r].key)]
    /\ UNCHANGED <<etcdVars, hmVars, req, previous, wire, outcome, reply,
                   audited>>

(* archiveCurrent up to the call of saveSnapshot.  A revision other than    *)
(* the expected one is a conflict; a missing key has nothing to archive, so *)
(* a put goes on to write and a delete is answered 404.                     *)
ArchiveConflict(r) ==
    /\ pc[r] = "archive" /\ Present(r) /\ Stale(r)
    /\ Refuse(r, "archive")
    /\ UNCHANGED hmVars

ArchiveMissingPut(r) ==
    /\ pc[r] = "archive" /\ ~Present(r) /\ req[r].op = "put"
    /\ Goto(r, "archive", "send")
    /\ UNCHANGED <<etcdVars, hmVars, req, locals, wire, outcome, reply,
                   audited>>

ArchiveMissingDelete(r) ==
    /\ pc[r] = "archive" /\ ~Present(r) /\ req[r].op = "delete"
    /\ Refuse(r, "archive")
    /\ UNCHANGED hmVars

ArchiveFound(r) == ReadCurrent(r, "archive", "saveCurrent")

-----------------------------------------------------------------------------
(* rollbackTarget: read the current entry and compare its revision ...      *)
TargetRefused(r) ==
    /\ pc[r] = "target" /\ (~Present(r) \/ Stale(r))
    /\ Refuse(r, "target")
    /\ UNCHANGED hmVars

TargetCurrent(r) == ReadCurrent(r, "target", "storedTarget")

(* ... then look the target up in the history backend ...                   *)
StoredTargets(r) ==
    {s \in LatestBefore(history[req[r].key], req[r].target + 1) :
        s.mod = req[r].target}

TargetStored(r) ==
    /\ Goto(r, "storedTarget", "saveCurrent")
    /\ configured
    /\ \E s \in StoredTargets(r) : previous' = [previous EXCEPT ![r] = s]
    /\ UNCHANGED <<etcdVars, hmVars, req, current, wire, outcome, reply,
                   audited>>

TargetNotStored(r) ==
    /\ pc[r] = "storedTarget" /\ configured /\ StoredTargets(r) = {}
    /\ Goto(r, "storedTarget", "etcdTarget")
    /\ UNCHANGED <<etcdVars, hmVars, req, locals, wire, outcome, reply,
                   audited>>

HistoryReadFails(r) ==
    /\ ~configured \/ StorageFaults
    /\ Refuse(r, "storedTarget")
    /\ UNCHANGED hmVars

(* ... and, if it is not there, in etcd's own history, unless compacted.    *)
TargetInEtcd(r) ==
    /\ pc[r] = "etcdTarget" /\ req[r].target >= compacted
    /\ \E m \in 1..req[r].target :
          /\ FoundAt(req[r].key, req[r].target, m)
          /\ m = req[r].target
          /\ previous' = [previous EXCEPT
                            ![r] = [mod |-> m, val |-> log[m].val]]
    /\ Goto(r, "etcdTarget", "saveTarget")
    /\ UNCHANGED <<etcdVars, hmVars, req, current, wire, outcome, reply,
                   audited>>

TargetUnavailable(r) ==
    /\ pc[r] = "etcdTarget"
    /\ \/ req[r].target < compacted
       \/ ~FoundAt(req[r].key, req[r].target, req[r].target)
    /\ Refuse(r, "etcdTarget")
    /\ UNCHANGED hmVars

-----------------------------------------------------------------------------
(* saveSnapshot.  A rollback target found in etcd is saved first, and only  *)
(* then the entry about to be overwritten.                                  *)
SaveStates == {"saveTarget", "saveCurrent"}

SavedEntrySwapped(r) ==  \* mutant: the two entries are mixed up
    IF pc[r] = "saveTarget" THEN current[r] ELSE previous[r]

SavedEntryReread(r) ==  \* mutant: value read again, after the revision
    IF pc[r] = "saveTarget" THEN previous[r] ELSE
    IF ~Present(r) THEN current[r] ELSE
        [mod |-> current[r].mod, val |-> CurrentEntry(req[r].key).val]

SavedEntry(r) == IF pc[r] = "saveTarget" THEN previous[r] ELSE current[r]

SaveSnapshotBegin(r) ==
    /\ pc[r] \in SaveStates
    /\ SaveBegin(r, req[r].key, SavedEntry(r))
    /\ UNCHANGED <<etcdVars, handlerVars>>

SaveSnapshotAppend(r) ==
    /\ pc[r] \in SaveStates
    /\ SaveAppend(r)
    /\ UNCHANGED <<etcdVars, handlerVars>>

SaveSnapshotDone(r) ==
    /\ SavePrune(r)
    /\ \/ Goto(r, "saveTarget", "saveCurrent")
       \/ Goto(r, "saveCurrent", "send")
    /\ UNCHANGED <<etcdVars, req, locals, wire, outcome, reply, audited>>

SaveSnapshotFails(r) ==
    /\ SaveNotSetup(r) \/ SaveAppendFails(r) \/ SavePruneFails(r)
    /\ \E from \in SaveStates : Refuse(r, from)

-----------------------------------------------------------------------------
WriteOfCurrent(r) ==  \* mutant: current where previous is meant
    [key |-> req[r].key,
     val |-> CASE req[r].op = "put" -> req[r].val
               [] req[r].op = "delete" -> Deleted
               [] req[r].op = "rollback" -> current[r].val,
     expected |-> req[r].expected]

(* handleRollbackKey writes the target's value and compares the revision it *)
(* read; the others write and compare what the request says.                *)
WriteOf(r) ==
    CASE req[r].op = "put" ->
           [key |-> req[r].key, val |-> req[r].val,
            expected |-> req[r].expected]
      [] req[r].op = "delete" ->
           [key |-> req[r].key, val |-> Deleted,
            expected |-> req[r].expected]
      [] req[r].op = "rollback" ->
           [key |-> req[r].key, val |-> previous[r].val,
            expected |-> current[r].mod]

(* kv.Put or kv.Delete leaves the process ...                               *)
SendWrite(r) ==
    /\ Goto(r, "send", "await")
    /\ wire' = [wire EXCEPT ![r] = WriteOf(r)]
    /\ UNCHANGED <<etcdVars, hmVars, req, locals, outcome, reply, audited>>

Delivered(r, result) ==
    /\ wire' = [wire EXCEPT ![r] = Nil]
    /\ outcome' = IF pc[r] = "await" THEN [outcome EXCEPT ![r] = result]
                                     ELSE outcome
    /\ UNCHANGED <<hmVars, pc, req, locals, reply, audited>>

(* ... and reaches etcd, at any later time or never: nothing makes these    *)
(* two steps happen.  There it is refused or applied.                       *)
EtcdRefuses(r) ==
    /\ wire[r] # Nil
    /\ \/ /\ ~CompareModRevision(wire[r].key, wire[r].expected)
          /\ Delivered(r, "conflict")
       \/ /\ CompareModRevision(wire[r].key, wire[r].expected)
          /\ NothingToDelete(wire[r].key, wire[r].val)
          /\ Delivered(r, "not_found")
    /\ UNCHANGED etcdVars

EtcdApplies(r) ==
    /\ wire[r] # Nil
    /\ CompareModRevision(wire[r].key, wire[r].expected)
    /\ ~NothingToDelete(wire[r].key, wire[r].val)
    /\ Write(wire[r].key, wire[r].val, r)
    /\ Delivered(r, "ok")

WriteReturnsDeleted(r) ==  \* mutant: "deleted" of kv.Delete is not looked at
    /\ outcome[r] # "none"
    /\ Answer(r, "await", IF outcome[r] = "conflict" THEN "refused" ELSE "ok")
    /\ outcome' = [outcome EXCEPT ![r] = "none"]
    /\ audited' = audited \cup {r}
    /\ UNCHANGED <<etcdVars, hmVars, wire>>

(* The answer arrives: a success is audited, which may fail silently.       *)
WriteReturns(r) ==
    /\ outcome[r] # "none"
    /\ Answer(r, "await", IF outcome[r] = "ok" THEN "ok" ELSE "refused")
    /\ outcome' = [outcome EXCEPT ![r] = "none"]
    /\ \/ outcome[r] = "ok" /\ audited' = audited \cup {r}
       \/ (outcome[r] # "ok" \/ StorageFaults) /\ UNCHANGED audited
    /\ UNCHANGED <<etcdVars, hmVars, wire>>

WriteTimesOutRefused(r) ==  \* mutant: a missed deadline means "not done"
    /\ Answer(r, "await", "refused")
    /\ outcome' = [outcome EXCEPT ![r] = "none"]
    /\ UNCHANGED <<etcdVars, hmVars, wire, audited>>

WriteWaits(r) == FALSE  \* mutant: kv.Put is called without a deadline

(* operationTimeout, or an error of the connection, during the write.       *)
WriteTimesOut(r) ==
    /\ Answer(r, "await", "unknown")
    /\ outcome' = [outcome EXCEPT ![r] = "none"]
    /\ UNCHANGED <<etcdVars, hmVars, wire, audited>>

-----------------------------------------------------------------------------
(* The environment: other clients, compaction, administrators, restarts.    *)
OtherWriter(k, v) ==
    ExternalWrite(k, v) /\ UNCHANGED <<hmVars, handlerVars>>

Compaction ==
    /\ \E rev \in 1..Len(log) : Compact(rev)
    /\ UNCHANGED <<hmVars, handlerVars>>

Administration ==
    /\ \/ \E keep \in Retentions : Configure(keep)
       \/ \E a \in Admins : \/ \E keep \in Retentions : UpdateRetention(a, keep)
                            \/ UpdateRetentionPrune(a)
    /\ UNCHANGED <<etcdVars, handlerVars>>

(* Every handler under way dies with the process; its write may not.        *)
ProcessRestart ==
    /\ Restart
    /\ pc' = [r \in Requests |->
                IF pc[r] \in {"idle", "answered"} THEN pc[r] ELSE "gone"]
    /\ current' = [r \in Requests |-> Nil]
    /\ previous' = [r \in Requests |-> Nil]
    /\ outcome' = [r \in Requests |-> "none"]
    /\ UNCHANGED <<etcdVars, req, wire, reply, audited>>

(* The steps the handler of request r takes by itself.                      *)
Handler(r) ==
    \/ EtcdReadFails(r)
    \/ ArchiveConflict(r) \/ ArchiveFound(r)
    \/ ArchiveMissingPut(r) \/ ArchiveMissingDelete(r)
    \/ TargetRefused(r) \/ TargetCurrent(r)
    \/ TargetStored(r) \/ TargetNotStored(r) \/ HistoryReadFails(r)
    \/ TargetInEtcd(r) \/ TargetUnavailable(r)
    \/ SaveSnapshotBegin(r) \/ SaveSnapshotAppend(r)
    \/ SaveSnapshotDone(r) \/ SaveSnapshotFails(r)
    \/ SendWrite(r) \/ WriteReturns(r) \/ WriteTimesOut(r)

(* A request that arrives.                                                  *)
Receive(r) ==
    /\ pc[r] = "idle"
    /\ \/ Reject(r)
       \/ \E k \in Keys, expected \in LoadedRevisions \cup {Nil} :
             \/ \E v \in Values : ReceivePut(r, k, v, expected)
             \/ ReceiveDelete(r, k, expected)
       \/ \E k \in Keys :
             \E expected \in LoadedRevisions, target \in LoadedRevisions :
                 ReceiveRollback(r, k, expected, target)

Wire(r) == EtcdApplies(r) \/ EtcdRefuses(r)

Environment ==
    \/ \E k \in Keys, v \in Values \cup {Deleted} : OtherWriter(k, v)
    \/ Compaction
    \/ Administration
    \/ ProcessRestart

Next ==
    \/ \E r \in Requests : Receive(r) \/ Handler(r) \/ Wire(r)
    \/ Environment

Spec == Init /\ [][Next]_vars

(* A goroutine keeps running and each of its calls returns: etcd's because  *)
(* of operationTimeout, the history backend's because the disk or the       *)
(* database driver answers.  Nothing is assumed of the network, of etcd or  *)
(* of the environment.                                                      *)
FairSpec == Spec /\ \A r \in Requests : WF_vars(Handler(r))

-----------------------------------------------------------------------------
Conditional(r) == req[r].op = "rollback" \/ req[r].expected # Nil

(* This step applies the write of request r, and it replaces an entry.      *)
Replaces(r) ==
    /\ Len(log') > Len(log) /\ log'[Len(log')].by = r
    /\ live[req[r].key] # 0

(* Every put, delete or rollback based on a revision finds the entry it     *)
(* replaces in the history backend at the moment etcd applies it: whatever  *)
(* other handlers, late writes, prunes under another policy, failed saves   *)
(* or restarts did since archiveCurrent or rollbackTarget read the entry.   *)
OverwrittenIsArchived ==
    [][\A r \in Requests :
          Replaces(r) /\ Conditional(r) =>
              CurrentEntry(req[r].key) \in history[req[r].key]]_vars

(* Snapshot s is the value key k had at its revision.                       *)
IsVersion(k, s) ==
    /\ s.mod \in 1..Len(log)
    /\ log[s.mod].key = k
    /\ log[s.mod].val = s.val

(* The history backend holds what etcd stored: every snapshot is the value  *)
(* its key had at that revision.                                            *)
HistoryIsFaithful ==
    \A k \in Keys : \A s \in history[k] : IsVersion(k, s)

(* A conditional write follows the revision it names with no write of the   *)
(* key in between; one that expects 0 creates a key that did not exist.     *)
NoLostUpdate ==
    \A i \in DOMAIN log : \A r \in Requests :
        log[i].by = r /\ Conditional(r) =>
            IF req[r].expected = 0
            THEN ~\E m \in 1..(i - 1) : FoundAt(log[i].key, i - 1, m)
            ELSE FoundAt(log[i].key, i - 1, req[r].expected)

(* A rollback writes the value its key had at the target revision, wherever *)
(* rollbackTarget found it and whatever was pruned or compacted since.      *)
RollbackRestoresTarget ==
    \A i \in DOMAIN log : \A r \in Requests :
        log[i].by = r /\ req[r].op = "rollback" =>
            /\ log[req[r].target].key = log[i].key
            /\ log[req[r].target].val = log[i].val

(* A refused request, in particular one whose snapshot could not be saved,  *)
(* has changed nothing and never will: no write of it is still under way.   *)
RefusedChangesNothing ==
    \A r \in Requests : reply[r] = "refused" =>
        /\ wire[r] = Nil
        /\ \A i \in DOMAIN log : log[i].by # r

(* A success that was answered or audited is in etcd's log.                 *)
ReportedIsWritten ==
    \A r \in Requests : reply[r] = "ok" \/ r \in audited =>
        \E i \in DOMAIN log : log[i].by = r

(* Every accepted request is answered, unless its process ends first; a     *)
(* write that etcd never answers is cut off by operationTimeout.            *)
EveryRequestEnds ==
    \A r \in Requests :
        pc[r] # "idle" ~> pc[r] \in {"answered", "gone"}

-----------------------------------------------------------------------------
(* Why OverwrittenIsArchived holds, as an inductive invariant.              *)

(* etcd's index points at the last write of each key that is present.       *)
LiveIsLatest == \A k \in Keys : live[k] # 0 => FoundAt(k, Len(log), live[k])

(* A revision a client has loaded is not one etcd has yet to hand out.      *)
ExpectedIsPast ==
    \A r \in Requests :
        /\ pc[r] \in {"archive", "target", "storedTarget", "etcdTarget",
                      "saveTarget", "saveCurrent", "send"} =>
              /\ req[r] \in Request
              /\ req[r].expected # Nil => req[r].expected <= Len(log)
        /\ wire[r] # Nil =>
              /\ wire[r] \in Message /\ req[r] \in Request
              /\ wire[r].key = req[r].key
              /\ wire[r].expected = req[r].expected
              /\ req[r].expected # Nil => req[r].expected <= Len(log)

(* What each handler knows about the entries it has read.                   *)
LocalsAreVersions ==
    \A r \in Requests :
        /\ pc[r] = "archive" => req[r].op # "rollback"
        /\ pc[r] \in {"target", "storedTarget", "etcdTarget", "saveTarget"} =>
              req[r].op = "rollback" /\ req[r].target < req[r].expected
        /\ \/ pc[r] \in {"storedTarget", "etcdTarget", "saveTarget",
                         "saveCurrent"}
           \/ pc[r] = "send" /\ req[r].op = "rollback"
           => /\ current[r] \in Snapshot
              /\ IsVersion(req[r].key, current[r])
              /\ req[r].expected # Nil => current[r].mod = req[r].expected
        /\ \/ pc[r] = "saveTarget"
           \/ pc[r] \in {"saveCurrent", "send"} /\ req[r].op = "rollback"
           => /\ previous[r] \in Snapshot
              /\ IsVersion(req[r].key, previous[r])

(* A Save belongs to the handler that waits for it.                         *)
SavesAreOwned ==
    \A r \in Requests : saving[r] # Idle =>
        /\ pc[r] \in SaveStates
        /\ saving[r].key = req[r].key
        /\ saving[r].snap = SavedEntry(r)

(* Nothing is on its way to etcd before it was sent or after its answer,    *)
(* and only a handler that waits is answered.                               *)
WireIsOwned ==
    \A r \in Requests :
        /\ pc[r] \notin {"await", "answered", "gone"} \/ outcome[r] # "none" =>
              wire[r] = Nil
        /\ pc[r] # "await" => outcome[r] = "none"

(* Revision e of key k, while it is the current one, is in the history.     *)
Archived(k, e) == e # 0 /\ live[k] = e => CurrentEntry(k) \in history[k]

(* From the append of Save on, through the wait for etcd and beyond the     *)
(* handler's deadline, what a conditional write would replace is archived.  *)
PendingWritesAreArchived ==
    \A r \in Requests :
        /\ saving[r].stage = "prune" =>
              Archived(saving[r].key, saving[r].snap.mod)
        /\ pc[r] = "send" /\ req[r].expected # Nil =>
              Archived(req[r].key, req[r].expected)
        /\ wire[r] # Nil /\ wire[r].expected # Nil =>
              Archived(wire[r].key, wire[r].expected)

IInv ==
    /\ TypeOK
    /\ LiveIsLatest
    /\ HistoryIsFaithful
    /\ ExpectedIsPast
    /\ LocalsAreVersions
    /\ SavesAreOwned
    /\ WireIsOwned
    /\ PendingWritesAreArchived

-----------------------------------------------------------------------------
(* Why answers can be trusted, as an invariant on top of IInv.              *)

(* etcd's index misses no key that is present.                              *)
LatestIsLive ==
    \A k \in Keys : \A m \in 1..Len(log) :
        FoundAt(k, Len(log), m) => live[k] = m

(* The value is the one the request's key had at the target revision.       *)
OfTarget(r, val) ==
    IsVersion(req[r].key, [mod |-> req[r].target, val |-> val])

(* A rollback holds on to the entry it was asked for until it is written.   *)
TargetIsKept(r) ==
    req[r] \in Request /\ req[r].op = "rollback" =>
        /\ pc[r] \in {"saveTarget", "saveCurrent", "send"} =>
              previous[r].mod = req[r].target
        /\ wire[r] # Nil => OfTarget(r, wire[r].val)

(* A request whose write is in the log was sent, will not be sent again and *)
(* cannot be answered with a refusal.                                       *)
WrittenIsOver(r) ==
    \A i \in DOMAIN log : log[i].by = r =>
        /\ pc[r] \in {"await", "answered", "gone"}
        /\ pc[r] = "await" => outcome[r] = "ok"
        /\ wire[r] = Nil
        /\ reply[r] # "refused"
        /\ req[r] \in Request /\ log[i].key = req[r].key
        /\ req[r].op = "rollback" => OfTarget(r, log[i].val)

(* Good news is about a write that was applied, and a refusal is final.     *)
AnswerIsTrue(r) ==
    /\ outcome[r] = "ok" \/ reply[r] = "ok" \/ r \in audited =>
          \E i \in DOMAIN log : log[i].by = r
    /\ reply[r] = "refused" => pc[r] = "answered" /\ wire[r] = Nil

Fate(r) == TargetIsKept(r) /\ WrittenIsOver(r) /\ AnswerIsTrue(r)

OInv == LatestIsLive /\ NoLostUpdate /\ \A r \in Requests : Fate(r)
=============================================================================
