----------------------------- MODULE FileHistory -----------------------------
(***************************************************************************)
(* store.FileHistory: the history backend kept in one append-only file of  *)
(* JSON lines, with an index of the file in memory.  Save appends a line   *)
(* and syncs; a prune writes a new file, renames it into place and opens   *)
(* it again; a start reads the file and cuts off an incomplete last line.  *)
(*                                                                         *)
(* Every call holds h.mu from beginning to end, so other calls never see a *)
(* half-done one; a crash does, and so does the next start.  A crash ends  *)
(* the process, not the operating system: what was written stays written.  *)
(* The order of complete lines decides nothing: disk is their set.         *)
(***************************************************************************)
EXTENDS Snapshots

CONSTANT Retentions  \* the policies PruneKey and Prune are called with

ASSUME FileAssumption == Retentions \subseteq Nat

VARIABLES
    disk,      \* snapshots in the complete lines of the file at filePath
    tail,      \* what follows the last newline of that file
    corrupt,   \* that file has a complete line that cannot be decoded
    orphan,    \* h.file is open on a file that is no longer at filePath
    entries,   \* h.entries; h.seen is its set of revisions
    process,   \* "up", "down", or "refused" when load failed
    owed,      \* what this process loaded or acknowledged, less prunes
    damaged    \* failures of this process that it cannot undo: a failed
               \* "append" not taken back, a pruned file not opened again

fileVars == <<disk, tail, corrupt, orphan>>
fhVars == <<fileVars, entries, process, owed, damaged>>

Record == [key : Keys, snap : Snapshot]

(* What follows the last newline: nothing, a record that was cut ("torn"),  *)
(* or a complete record that only lacks its newline ("whole").              *)
NoTail == [kind |-> "none"]
TornTail == [kind |-> "torn"]
WholeTail(k, s) == [kind |-> "whole", record |-> [key |-> k, snap |-> s]]

Tails == {NoTail, TornTail} \cup [kind : {"whole"}, record : Record]

FHTypeOK ==
    /\ disk \in [Keys -> SUBSET Snapshot]
    /\ tail \in Tails
    /\ corrupt \in BOOLEAN
    /\ orphan \in BOOLEAN
    /\ entries \in [Keys -> SUBSET Snapshot]
    /\ process \in {"up", "down", "refused"}
    /\ owed \in [Keys -> SUBSET Snapshot]
    /\ damaged \subseteq {"append", "reopen"}

Nothing == [k \in Keys |-> {}]

FHInit ==
    /\ disk = Nothing
    /\ tail = NoTail
    /\ corrupt = FALSE
    /\ orphan = FALSE
    /\ entries = Nothing
    /\ process = "down"
    /\ owed = Nothing
    /\ damaged = {}

-----------------------------------------------------------------------------
TailKept == tail  \* mutant: the incomplete line is not cut off

(* load truncates the file to its complete lines.                           *)
TailCut == NoTail

(* NewFileHistory opens the file and reads every line into the index.       *)
Load ==
    /\ process = "down" /\ ~corrupt
    /\ entries' = disk
    /\ tail' = TailCut
    /\ orphan' = FALSE
    /\ process' = "up"
    /\ owed' = disk
    /\ damaged' = {}
    /\ UNCHANGED <<disk, corrupt>>

(* A line that does not decode stops the start; the file is left alone.     *)
LoadRefuses ==
    /\ process = "down" /\ corrupt
    /\ process' = "refused"
    /\ UNCHANGED <<fileVars, entries, owed, damaged>>

(* The process ends outside any call, or in a prune before the rename: the  *)
(* temporary file it leaves behind is never read.                           *)
Crash ==
    /\ process = "up"
    /\ process' = "down"
    /\ entries' = Nothing
    /\ owed' = Nothing
    /\ UNCHANGED <<fileVars, damaged>>

Seen(k, s) == \E t \in entries[k] : t.mod = s.mod

(* A revision has one value (KeyWrites!HistoryIsFaithful), also in a line   *)
(* that was written and then reported as failed.                            *)
OneValue(k, s) ==
    /\ \A t \in disk[k] \cup entries[k] : t.mod = s.mod => t = s
    /\ tail.kind = "whole" /\ tail.record.key = k
          /\ tail.record.snap.mod = s.mod => tail.record.snap = s

Owe(k, s) == owed' = [owed EXCEPT ![k] = @ \cup {s}]

(* Save of a revision that is already stored.                               *)
SaveSeen(k, s) ==
    /\ process = "up" /\ Seen(k, s)
    /\ Owe(k, s)
    /\ UNCHANGED <<fileVars, entries, process, damaged>>

Put(k, s) == disk' = [disk EXCEPT ![k] = @ \cup {s}]

(* The complete line reaches the open file.  It continues an incomplete     *)
(* one: the decoder then fails, or reads the first record and ignores the   *)
(* rest of the line.                                                        *)
WriteLine(k, s) ==
    /\ UNCHANGED orphan
    /\ \/ /\ orphan
          /\ UNCHANGED <<disk, tail, corrupt>>
       \/ /\ ~orphan /\ tail = NoTail
          /\ Put(k, s)
          /\ UNCHANGED <<tail, corrupt>>
       \/ /\ ~orphan /\ tail = TornTail
          /\ corrupt' = TRUE
          /\ tail' = NoTail
          /\ UNCHANGED disk
       \/ /\ ~orphan /\ tail.kind = "whole"
          /\ Put(tail.record.key, tail.record.snap)
          /\ tail' = NoTail
          /\ UNCHANGED corrupt

(* Only a part of the line reaches the open file.                           *)
WritePart(k, s) ==
    /\ UNCHANGED <<disk, corrupt, orphan>>
    /\ \/ UNCHANGED tail
       \/ /\ ~orphan /\ tail = NoTail
          /\ tail' \in {TornTail, WholeTail(k, s)}

Save(k, s) ==
    /\ process = "up" /\ ~Seen(k, s)
    /\ WriteLine(k, s)
    /\ entries' = [entries EXCEPT ![k] = @ \cup {s}]
    /\ Owe(k, s)
    /\ UNCHANGED <<process, damaged>>

(* Write or Sync fails.  rollbackAppend takes the bytes back, or fails too  *)
(* and leaves them.                                                         *)
SaveFails(k, s) ==
    /\ process = "up" /\ ~Seen(k, s)
    /\ \/ UNCHANGED <<fileVars, damaged>>
       \/ /\ (WriteLine(k, s) \/ WritePart(k, s))
          /\ damaged' = damaged \cup {"append"}
    /\ UNCHANGED <<entries, process, owed>>

(* The process ends in the middle of Save.                                  *)
SaveInterrupted(k, s) ==
    /\ process = "up" /\ ~Seen(k, s)
    /\ WriteLine(k, s) \/ WritePart(k, s)
    /\ process' = "down"
    /\ entries' = Nothing
    /\ owed' = Nothing
    /\ UNCHANGED damaged

-----------------------------------------------------------------------------
UpdatedReached(reached, keep) ==  \* mutant: the clone is left out
    [k \in reached |-> PruneKey(entries[k], keep)]

UpdatedAlone(reached, keep) ==  \* mutant: only the pruned keys are copied
    [k \in Keys |-> IF k \in reached THEN PruneKey(entries[k], keep) ELSE {}]

UpdatedFromZero(reached, keep) ==  \* mutant: 0 keeps nothing
    [k \in Keys |-> IF k \in reached THEN NewestSnapshots(entries[k], keep)
                                     ELSE entries[k]]

(* PruneKey reaches one key, Prune all of them.                             *)
Updated(reached, keep) ==
    [k \in Keys |-> IF k \in reached THEN PruneKey(entries[k], keep)
                                     ELSE entries[k]]

(* What is still owed after the prune: the policy is applied to the index.  *)
OwedAfter(reached, keep) ==
    [k \in Keys |-> IF k \in reached
                    THEN owed[k] \cap PruneKey(entries[k], keep)
                    ELSE owed[k]]

(* A prune that finds nothing to remove touches no file.                    *)
PruneNothing(reached, keep) ==
    /\ process = "up"
    /\ Updated(reached, keep) = entries
    /\ UNCHANGED fhVars

(* The rewritten file is renamed into place.                                *)
Renamed(updated) ==
    /\ disk' = updated
    /\ tail' = NoTail
    /\ corrupt' = FALSE

(* replaceEntriesLocked to the end; the Close of the old file may report an *)
(* error, which changes nothing.                                            *)
Replace(reached, keep) ==
    /\ process = "up"
    /\ Updated(reached, keep) # entries
    /\ Renamed(Updated(reached, keep))
    /\ orphan' = FALSE
    /\ entries' = Updated(reached, keep)
    /\ owed' = OwedAfter(reached, keep)
    /\ UNCHANGED <<process, damaged>>

(* Any step up to the rename fails: the temporary file is removed.          *)
ReplaceFails(reached, keep) ==
    /\ process = "up"
    /\ Updated(reached, keep) # entries
    /\ UNCHANGED fhVars

(* The file is replaced and cannot be opened: index and handle stay.        *)
ReopenFails(reached, keep) ==
    /\ process = "up"
    /\ Updated(reached, keep) # entries
    /\ Renamed(Updated(reached, keep))
    /\ orphan' = TRUE
    /\ damaged' = damaged \cup {"reopen"}
    /\ owed' = OwedAfter(reached, keep)
    /\ UNCHANGED <<entries, process>>

(* The process ends between the rename and the end of the call.             *)
ReplaceInterrupted(reached, keep) ==
    /\ process = "up"
    /\ Updated(reached, keep) # entries
    /\ Renamed(Updated(reached, keep))
    /\ process' = "down"
    /\ entries' = Nothing
    /\ owed' = Nothing
    /\ UNCHANGED <<orphan, damaged>>

-----------------------------------------------------------------------------
Reaches == {{k} : k \in Keys} \cup {Keys}

FHNext ==
    \/ Load \/ LoadRefuses \/ Crash
    \/ \E k \in Keys, m \in 1..MaxRevision, v \in Values :
          LET s == [mod |-> m, val |-> v] IN
          /\ OneValue(k, s)
          /\ \/ SaveSeen(k, s) \/ Save(k, s)
             \/ SaveFails(k, s) \/ SaveInterrupted(k, s)
    \/ \E reached \in Reaches, keep \in Retentions :
          \/ PruneNothing(reached, keep) \/ Replace(reached, keep)
          \/ ReplaceFails(reached, keep) \/ ReopenFails(reached, keep)
          \/ ReplaceInterrupted(reached, keep)

FHSpec == FHInit /\ [][FHNext]_fhVars

-----------------------------------------------------------------------------
(* What Save has acknowledged is in the file, in lines the next start can   *)
(* read, until a prune removes it: whatever other calls failed and whatever *)
(* crashes came before.  The two failures the code cannot undo are left out *)
(* until the next start, which makes up for them.                           *)
AcknowledgedIsDurable ==
    damaged = {} =>
        /\ ~corrupt
        /\ \A k \in Keys : owed[k] \subseteq disk[k]

(* The same, without an exception for a file that could not be opened       *)
(* again: the comment on ValueSnapshot calls it a durable copy.             *)
DurableAfterReopen ==
    "append" \notin damaged => \A k \in Keys : owed[k] \subseteq disk[k]

(* What this process has acknowledged it also finds again, even when the    *)
(* file is damaged or the handle lost.                                      *)
AcknowledgedIsVisible ==
    process = "up" => \A k \in Keys : owed[k] \subseteq entries[k]

(* The file is a backend as its callers expect one: until it is damaged,    *)
(* and again after the next start, nothing but Save and prune changes its   *)
(* content.                                                                 *)
Backend == INSTANCE ValueHistory WITH content <- disk

ImplementsValueHistory ==
    Backend!VHInit /\ [][damaged' # {} \/ Backend!VHNext]_disk

(* Why: the index is exactly the file.                                      *)
IndexIsFile ==
    damaged = {} =>
        /\ ~corrupt /\ ~orphan
        /\ process = "up" => entries = disk /\ tail = NoTail
        /\ \A k \in Keys : owed[k] \subseteq disk[k]
=============================================================================
