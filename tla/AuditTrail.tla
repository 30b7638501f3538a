----------------------------- MODULE AuditTrail -----------------------------
(***************************************************************************)
(* The audit trail: handlers record one event each.  Before a storage is   *)
(* configured, events wait in Server.pendingAudit, which has a limit; the  *)
(* request that configures the storage saves them.  No lock spans the      *)
(* steps: a handler learns that there is no storage, and queues its event  *)
(* in a later critical section.                                            *)
(*                                                                         *)
(* The storage is a file with an index in memory (FileAudit) or a table    *)
(* (DatabaseHistory).  Events expire; every SaveAudit and every start      *)
(* removes expired ones.  A page of the list continues below the last      *)
(* event of the page before, by time and then by id.  As in FileHistory, a *)
(* failed append may leave an incomplete line, which the next event is     *)
(* appended to; a start refuses a file with a line it cannot decode.       *)
(*                                                                         *)
(* An event is named by the request that records it.  Time and id are      *)
(* given to it when it is saved, not when it is recorded.                  *)
(***************************************************************************)
EXTENDS Integers, Sequences, FiniteSets

CONSTANTS
    Requests,     \* requests that record an event
    Configurers,  \* those among them that configure the storage
    Limit,        \* of pendingAudit: 100
    Days,         \* DefaultAuditRetentionDays
    PageSize,     \* of the list
    MaxTime,      \* bound: the last day
    AuditFaults,  \* whether files and the database may fail
    Nil

ASSUME AuditAssumption ==
    /\ IsFiniteSet(Requests)
    /\ Configurers \subseteq Requests
    /\ Nil \notin Requests
    /\ {Limit, Days, PageSize} \subseteq Nat \ {0}
    /\ MaxTime \in Nat
    /\ AuditFaults \in BOOLEAN

VARIABLES
    kind,        \* "file" or "table": what the administrator chooses
    configFile,  \* whether the configuration file exists
    backend,     \* m.backend: number of the storage opened, 0 for nil
    opened,      \* storages this process has opened
    process,     \* "up", "closing" after Close, "refused": load has failed
    pending,     \* s.pendingAudit
    pc,          \* what each request does next
    batch,       \* events a flush still has to save
    saving,      \* the row a SaveAudit call is storing, and in which storage
    events,      \* what the storage lists
    disk,        \* the complete lines of the file, or the table
    tail,        \* what follows the last newline of the file
    corrupt,     \* the file has a complete line that cannot be decoded
    orphan,      \* FileAudit's handle is on a file that was replaced
    damaged,     \* history: what failed since the file was opened or
                 \* rewritten and could not be undone: an "append" that is
                 \* there in part, the "reopen" of a pruned file
    gone,        \* events dropped, expired, failed or lost with the process
    now,         \* the present day
    reader       \* a user who pages through the list

queueVars == <<pending, batch>>
storeVars == <<events, disk, tail, corrupt, orphan, damaged>>
processVars == <<kind, configFile, backend, opened, process>>
auditVars == <<processVars, queueVars, storeVars, pc, saving, gone, now, reader>>

Row == [event : Requests, id : Nat, at : Nat]

Cursor == [at : Nat, id : Nat]

ASSUME AuditNil == Nil \notin [row : Row, store : Nat] \cup Cursor

(* What follows the last newline: nothing, a line that was cut, or one that *)
(* only lacks its newline.                                                  *)
NoTail == [kind |-> "none"]
TornTail == [kind |-> "torn"]
WholeTail(d) == [kind |-> "whole", row |-> d]

Tails == {NoTail, TornTail} \cup [kind : {"whole"}, row : Row]

(* Before the first page.  A cursor is Nil unless there is a next page.     *)
NoReader == [stage |-> "idle", start |-> {}, cursor |-> Nil, pages |-> <<>>]

ATypeOK ==
    /\ kind \in {"file", "table"}
    /\ configFile \in BOOLEAN
    /\ backend \in Nat /\ opened \in Nat /\ backend <= opened
    /\ process \in {"up", "closing", "refused"}
    /\ pending \in Seq(Requests)
    /\ pc \in [Requests -> {"ready", "take", "save", "insert", "prune",
                            "putBack", "queue", "ended"}]
    /\ batch \in [Requests -> Seq(Requests)]
    /\ saving \in [Requests -> [row : Row, store : Nat] \cup {Nil}]
    /\ events \subseteq Row /\ disk \subseteq Row
    /\ tail \in Tails
    /\ corrupt \in BOOLEAN /\ orphan \in BOOLEAN
    /\ damaged \subseteq {"append", "reopen"}
    /\ gone \subseteq Requests
    /\ now \in Nat
    /\ reader \in [stage : {"idle", "paging", "ended"}, start : SUBSET Row,
                   cursor : Cursor \cup {Nil}, pages : Seq(SUBSET Row)]
    /\ \A r \in Requests :
          /\ saving[r] # Nil <=> pc[r] \in {"insert", "prune"}
          /\ batch[r] # <<>> => pc[r] \in {"save", "insert", "prune", "putBack"}
          /\ process = "refused" => pc[r] \in {"ready", "ended"}

AInit ==
    /\ kind \in {"file", "table"}
    /\ configFile = FALSE
    /\ backend = 0 /\ opened = 0 /\ process = "up"
    /\ pending = <<>>
    /\ pc = [r \in Requests |-> "ready"]
    /\ batch = [r \in Requests |-> <<>>]
    /\ saving = [r \in Requests |-> Nil]
    /\ events = {} /\ disk = {} /\ tail = NoTail
    /\ corrupt = FALSE /\ orphan = FALSE /\ damaged = {}
    /\ gone = {}
    /\ now = 0
    /\ reader = NoReader

-----------------------------------------------------------------------------
Goto(r, place) == pc' = [pc EXCEPT ![r] = place]

(* The event a request is saving: that of a flush, or its own.              *)
Event(r) == IF batch[r] # <<>> THEN Head(batch[r]) ELSE r

(* A handler has done its work and calls recordAudit.                       *)
RecordAudit(r) ==
    /\ r \notin Configurers
    /\ process # "refused"
    /\ pc[r] = "ready"
    /\ Goto(r, "save")
    /\ UNCHANGED <<processVars, queueVars, storeVars, saving, gone, now, reader>>

OpenUncut(loaded) ==  \* mutant: load leaves what follows the last newline
    /\ ~corrupt
    /\ events' = loaded
    /\ orphan' = FALSE
    /\ damaged' = {}
    /\ UNCHANGED <<tail, corrupt>>

(* openHistoryBackend, for a file NewFileAudit: load reads the complete     *)
(* lines and cuts off what follows them.  What an earlier storage wrote to  *)
(* a replaced file is not there.                                            *)
Open(loaded) ==
    /\ ~corrupt
    /\ events' = loaded
    /\ tail' = NoTail
    /\ orphan' = FALSE
    /\ damaged' = {}
    /\ UNCHANGED corrupt

(* handleConfigureHistoryStorage: Configure under the manager's lock.       *)
Configure(r) ==
    /\ r \in Configurers
    /\ process # "refused"
    /\ pc[r] = "ready"
    /\ backend = 0
    /\ configFile' = TRUE
    /\ opened' = opened + 1
    /\ backend' = opened'
    /\ Open(disk)
    /\ gone' = gone \cup {e.event : e \in events \ disk}
    /\ Goto(r, "take")
    /\ UNCHANGED <<kind, process, queueVars, disk, saving, now, reader>>

(* It is configured already; or opening fails, perhaps because load refuses *)
(* the file; or saveConfig fails once load has cut off an incomplete line,  *)
(* and the configuration file may be there all the same.                    *)
ConfigureFails(r) ==
    /\ r \in Configurers
    /\ process # "refused"
    /\ pc[r] = "ready"
    /\ \/ backend # 0 /\ UNCHANGED <<configFile, tail>>
       \/ backend = 0 /\ (corrupt \/ AuditFaults) /\ UNCHANGED <<configFile, tail>>
       \/ /\ backend = 0 /\ ~corrupt /\ AuditFaults
          /\ configFile' \in {configFile, TRUE}
          /\ tail' = NoTail
    /\ Goto(r, "ended")
    /\ gone' = gone \cup {r}
    /\ UNCHANGED <<kind, backend, opened, process, queueVars, events, disk,
                   corrupt, orphan, damaged, saving, now, reader>>

TakeCopy(r) ==  \* mutant: the queue is copied and not cleared
    /\ batch' = [batch EXCEPT ![r] = pending]
    /\ UNCHANGED pending

(* flushPendingAudit takes the queue under auditMu.                         *)
Take(r) ==
    /\ batch' = [batch EXCEPT ![r] = pending]
    /\ pending' = <<>>

FlushTake(r) ==
    /\ pc[r] = "take"
    /\ Take(r)
    /\ Goto(r, "save")
    /\ UNCHANGED <<processVars, storeVars, saving, gone, now, reader>>

-----------------------------------------------------------------------------
(* The rows the file holds in full, the last one perhaps without its        *)
(* newline, or the rows of the table.                                       *)
Written == disk \cup IF tail.kind = "whole" THEN {tail.row} ELSE {}

(* newAuditID: 16 random bytes, in no order.                                *)
NewAuditIDs ==
    (1..Cardinality(Requests))
      \ ({e.id : e \in events \cup Written}
           \cup {saving[r].row.id : r \in {q \in Requests : saving[q] # Nil}})

(* HistoryManager.SaveAudit, of the first event of a flush or of the own    *)
(* one, reads the backend and completes the event.                          *)
SaveAuditBegin(r) ==
    /\ pc[r] = "save" /\ backend # 0
    /\ \E id \in NewAuditIDs :
          saving' = [saving EXCEPT ![r] =
              [row |-> [event |-> Event(r), id |-> id, at |-> now],
               store |-> backend]]
    /\ batch' = [batch EXCEPT ![r] = IF @ = <<>> THEN @ ELSE Tail(@)]
    /\ Goto(r, "insert")
    /\ UNCHANGED <<processVars, pending, storeVars, gone, now, reader>>

(* It returns ErrHistoryNotSetup.                                           *)
SaveAuditNotSetup(r) ==
    /\ pc[r] = "save" /\ backend = 0
    /\ Goto(r, IF batch[r] = <<>> THEN "queue" ELSE "putBack")
    /\ UNCHANGED <<processVars, queueVars, storeVars, saving, gone, now, reader>>

ContinueSaving(r) ==  \* mutant: the event that was saved stays the current one
    /\ Goto(r, IF saving[r].row.event = r THEN "ended" ELSE "save")
    /\ UNCHANGED saving

(* What follows a SaveAudit: the rest of the flush and the own event, or    *)
(* nothing.                                                                 *)
Continue(r) ==
    /\ saving' = [saving EXCEPT ![r] = Nil]
    /\ Goto(r, IF saving[r].row.event = r THEN "ended" ELSE "save")

(* The storage the call has read is still open.                             *)
Usable(r) == saving[r].store = backend

(* The complete line reaches the open file.  It continues an incomplete     *)
(* one: the decoder then fails, or reads the first event and ignores the    *)
(* rest of the line, which may also be too long to be accepted.             *)
WriteLine(d) ==
    \/ /\ orphan
       /\ UNCHANGED <<disk, tail, corrupt>>
    \/ /\ ~orphan /\ tail = NoTail
       /\ disk' = disk \cup {d}
       /\ UNCHANGED <<tail, corrupt>>
    \/ /\ ~orphan /\ tail # NoTail
       /\ tail' = NoTail
       /\ \/ disk' = Written /\ tail # TornTail /\ UNCHANGED corrupt
          \/ corrupt' = TRUE /\ UNCHANGED disk

(* Only a part of the line reaches the open file.                           *)
WritePart(d) ==
    /\ ~orphan /\ tail = NoTail
    /\ tail' \in {TornTail, WholeTail(d)}
    /\ UNCHANGED <<disk, corrupt>>

(* backend.SaveAudit.                                                       *)
Insert(r) ==
    /\ pc[r] = "insert" /\ Usable(r)
    /\ events' = events \cup {saving[r].row}
    /\ WriteLine(saving[r].row)
    /\ Goto(r, "prune")
    /\ UNCHANGED <<processVars, queueVars, orphan, damaged, saving, gone, now,
                   reader>>

(* Writing, or syncing what was written, fails.  rollbackAppend truncates   *)
(* the file to its size before, or fails as well and leaves the bytes.      *)
AppendFails(d) ==
    /\ kind = "file"
    /\ \/ WriteLine(d) /\ UNCHANGED damaged
       \/ WritePart(d) /\ damaged' = damaged \cup {"append"}
    /\ UNCHANGED <<events, orphan>>

(* The database has stored the row, and its answer is lost.                 *)
AnswerLost(d) ==
    /\ kind = "table"
    /\ disk' = disk \cup {d} /\ events' = disk'
    /\ UNCHANGED <<tail, corrupt, orphan, damaged>>

(* backend.SaveAudit fails, perhaps because the storage is closed.  The     *)
(* error is logged.                                                         *)
InsertFails(r) ==
    /\ pc[r] = "insert"
    /\ \/ (AuditFaults \/ ~Usable(r)) /\ UNCHANGED storeVars
       \/ /\ AuditFaults /\ Usable(r)
          /\ AppendFails(saving[r].row) \/ AnswerLost(saving[r].row)
    /\ gone' = gone \cup {saving[r].row.event}
    /\ Continue(r)
    /\ UNCHANGED <<processVars, queueVars, now, reader>>

-----------------------------------------------------------------------------
(* Not before auditCutoff.                                                  *)
Unexpired(day) == {e \in events : e.at + Days >= day}

Expire(kept) == gone' = gone \cup {e.event : e \in events \ kept}

(* The pruned file is renamed into place.                                   *)
Renamed(kept) == disk' = kept /\ tail' = NoTail /\ corrupt' = FALSE

(* PruneAudit: one DELETE, or FileAudit.replaceLocked if anything expires.  *)
Prune ==
    LET kept == Unexpired(now) IN
    /\ events' = kept
    /\ \/ /\ kept = events
          /\ UNCHANGED <<disk, tail, corrupt, orphan, damaged>>
       \/ /\ kept # events
          /\ Renamed(kept)
          /\ orphan' = FALSE /\ damaged' = {}
    /\ Expire(kept)

(* It fails and leaves everything as it is, or the pruned file is in place  *)
(* and cannot be opened: index and handle stay.                             *)
PruneFails ==
    \/ UNCHANGED <<storeVars, gone>>
    \/ /\ kind = "file" /\ Unexpired(now) # events
       /\ Renamed(Unexpired(now))
       /\ orphan' = TRUE /\ damaged' = {"reopen"}
       /\ Expire(Unexpired(now))
       /\ UNCHANGED events

(* SaveAudit, last step.                                                    *)
SavePrune(r) ==
    /\ pc[r] = "prune"
    /\ \/ Usable(r) /\ Prune
       \/ Usable(r) /\ AuditFaults /\ PruneFails
       \/ ~Usable(r) /\ UNCHANGED <<storeVars, gone>>
    /\ Continue(r)
    /\ UNCHANGED <<processVars, queueVars, now, reader>>

-----------------------------------------------------------------------------
TrimmedByOne(queue) ==  \* mutant: one event too many is kept
    IF Len(queue) > Limit THEN SubSeq(queue, Len(queue) - Limit + 2, Len(queue))
    ELSE queue

(* At the limit, the oldest events make place for one.                      *)
Trimmed(queue) ==
    IF Len(queue) >= Limit THEN SubSeq(queue, Len(queue) - Limit + 2, Len(queue))
    ELSE queue

Members(queue) == {queue[i] : i \in DOMAIN queue}

(* saveAuditEvent, after ErrHistoryNotSetup.                                *)
Queue(r) ==
    /\ pc[r] = "queue"
    /\ pending' = Append(Trimmed(pending), r)
    /\ gone' = gone \cup (Members(pending) \ Members(pending'))
    /\ Goto(r, "ended")
    /\ UNCHANGED <<processVars, batch, storeVars, saving, now, reader>>

PutBackAlone(r) ==  \* mutant: what was queued in the meantime is overwritten
    /\ pc[r] = "putBack"
    /\ pending' = batch[r]
    /\ batch' = [batch EXCEPT ![r] = <<>>]
    /\ Goto(r, "save")
    /\ UNCHANGED <<processVars, storeVars, saving, gone, now, reader>>

(* flushPendingAudit, after ErrHistoryNotSetup: the rest goes to the front. *)
PutBack(r) ==
    /\ pc[r] = "putBack"
    /\ pending' = batch[r] \o pending
    /\ batch' = [batch EXCEPT ![r] = <<>>]
    /\ Goto(r, "save")
    /\ UNCHANGED <<processVars, storeVars, saving, gone, now, reader>>

-----------------------------------------------------------------------------
(* HistoryManager.Close, when main ends; requests may still be under way.   *)
Close ==
    /\ process = "up" /\ process' = "closing"
    /\ backend' = 0
    /\ UNCHANGED <<kind, configFile, opened, queueVars, storeVars, pc, saving,
                   gone, now, reader>>

(* The events that end with the process.                                    *)
Unsaved ==
    Members(pending)
      \cup (UNION {Members(batch[r]) : r \in Requests})
      \cup {r \in Requests : pc[r] \notin {"ready", "ended"}}
      \cup {saving[r].row.event : r \in {q \in Requests : saving[q] # Nil}}

(* The process ends with its queue and its requests.  When it ends in the   *)
(* middle of a SaveAudit, the file is left as by one that failed.           *)
ProcessEnds ==
    /\ pc' = [r \in Requests |-> IF pc[r] = "ready" THEN "ready" ELSE "ended"]
    /\ pending' = <<>>
    /\ batch' = [r \in Requests |-> <<>>]
    /\ saving' = [r \in Requests |-> Nil]
    /\ UNCHANGED <<kind, configFile, now, reader>>

(* NewHistoryManager loads what there is and removes what has expired.      *)
Restart ==
    /\ ProcessEnds
    /\ process' = "up"
    /\ backend' = IF configFile THEN 1 ELSE 0
    /\ opened' = backend'
    /\ LET loaded == {e \in disk : e.at + Days >= now} IN
       /\ Open(loaded) /\ disk' = loaded
       /\ gone' = gone \cup Unsaved
                       \cup {e.event : e \in (events \cup disk) \ loaded}

(* load cannot decode a line: main exits, and so does every later start.    *)
StartRefused ==
    /\ corrupt
    /\ ProcessEnds
    /\ process' = "refused"
    /\ backend' = 0 /\ opened' = 0
    /\ events' = {}
    /\ gone' = gone \cup Unsaved \cup {e.event : e \in events}
    /\ UNCHANGED <<disk, tail, corrupt, orphan, damaged>>

NextDay ==
    /\ now < MaxTime /\ now' = now + 1
    /\ UNCHANGED <<processVars, queueVars, storeVars, pc, saving, gone, reader>>

-----------------------------------------------------------------------------
(* The order of the list, which is also that of its cursor.                 *)
Below(d, e) == d.at < e.at \/ (d.at = e.at /\ d.id < e.id)

MatchesBelowTime ==  \* mutant: the id of the cursor is not used
    {e \in Unexpired(now) : reader.cursor = Nil \/ e.at < reader.cursor.at}

MatchesAtTime ==  \* mutant: the same, with the cursor's time included
    {e \in Unexpired(now) : reader.cursor = Nil \/ e.at <= reader.cursor.at}

(* auditMatches, or the WHERE clause: not expired, and below the cursor     *)
(* that the request carries.                                                *)
Matches ==
    {e \in Unexpired(now) : reader.cursor = Nil \/ Below(e, reader.cursor)}

Above(e) == {d \in Matches : Below(e, d)}

(* ListAudit: the first PageSize of them.                                   *)
Page == {e \in Matches : Cardinality(Above(e)) < PageSize}

(* The reader is shown a page, and told where the next one begins.          *)
Shown(stage, cursor) ==
    reader' = [stage |-> stage,
               start |-> IF reader.stage = "idle" THEN events ELSE reader.start,
               cursor |-> cursor,
               pages |-> Append(reader.pages, Page)]

(* handleListAudit: when there are more, the cursor is the last event of    *)
(* the page, and the browser sends it with the request for the next page.   *)
ListAudit ==
    /\ backend # 0
    /\ reader.stage # "ended"
    /\ \/ Page = Matches /\ Shown("ended", Nil)
       \/ /\ Page # Matches
          /\ \E last \in Page :
                /\ \A e \in Page \ {last} : Below(last, e)
                /\ Shown("paging", [at |-> last.at, id |-> last.id])
    /\ UNCHANGED <<processVars, queueVars, storeVars, pc, saving, gone, now>>

(* The user opens the list anew.                                            *)
ListAgain ==
    /\ reader.stage = "ended"
    /\ reader' = NoReader
    /\ UNCHANGED <<processVars, queueVars, storeVars, pc, saving, gone, now>>

-----------------------------------------------------------------------------
ANext ==
    \/ \E r \in Requests :
          \/ RecordAudit(r) \/ Configure(r) \/ ConfigureFails(r) \/ FlushTake(r)
          \/ SaveAuditBegin(r) \/ SaveAuditNotSetup(r)
          \/ Insert(r) \/ InsertFails(r) \/ SavePrune(r)
          \/ Queue(r) \/ PutBack(r)
    \/ Close \/ Restart \/ StartRefused \/ NextDay \/ ListAudit \/ ListAgain

ASpec == AInit /\ [][ANext]_auditVars

-----------------------------------------------------------------------------
(* The places in the batches of all flushes.                                *)
Flushed == UNION {{r} \X DOMAIN batch[r] : r \in Requests}

(* How often the event of a request is somewhere on its way or stored.      *)
Copies(e) ==
    Cardinality({i \in DOMAIN pending : pending[i] = e})
      + Cardinality({p \in Flushed : batch[p[1]][p[2]] = e})
      + Cardinality({r \in Requests : pc[r] = "insert" /\ saving[r].row.event = e})
      + Cardinality({d \in events \cup Written : d.event = e})

(* No event is recorded twice: not by a flush that overlaps with handlers,  *)
(* a storage that is closed and opened in between, a failed call or a       *)
(* restart.                                                                 *)
NoEventTwice == \A e \in Requests : Copies(e) <= 1

(* No event is forgotten: when its request has ended, it is stored or still *)
(* queued, or it is known why it is not (dropped at the limit, expired,     *)
(* failed, or lost with the process).                                       *)
NoEventForgotten ==
    \A e \in Requests : pc[e] = "ended" => e \in gone \/ Copies(e) = 1

(* The queue is bounded, whatever overlaps: by its limit, and by twice the  *)
(* limit when a storage was closed during a flush, which then puts events   *)
(* back without looking at the limit.                                       *)
QueueIsBounded ==
    /\ Len(pending) <= 2 * Limit
    /\ process = "up" => Len(pending) <= Limit

(* A start can read the file and finds every event the list shows, whatever *)
(* failed before, unless one of two failures could not be undone since the  *)
(* file was opened or rewritten: the truncation of a line that was written  *)
(* in part, and the opening of a pruned file.                               *)
ListedIsDurable == damaged = {} => ~corrupt /\ events \subseteq disk

Seen == UNION {reader.pages[i] : i \in DOMAIN reader.pages}

(* A reader who pages to the end sees every event that was there when he    *)
(* began and is still there: while events are added, with equal times and   *)
(* ids in any order, and others expire, and across restarts.                *)
PagesAreComplete ==
    reader.stage = "ended" => reader.start \cap Unexpired(now) \subseteq Seen

(* No event is shown twice, and no page shows one that belongs above what   *)
(* an earlier page has shown: although a request knows nothing of those     *)
(* pages but its cursor, and the list changes between the requests.         *)
PagesDescend ==
    \A i, j \in DOMAIN reader.pages :
        i < j => \A d \in reader.pages[i], e \in reader.pages[j] : Below(e, d)
=============================================================================
