------------------------- MODULE FileHistoryProofs -------------------------
(***************************************************************************)
(* Theorems about store.FileHistory, for any keys, values and policies.    *)
(*                                                                         *)
(* Whatever fails, what was acknowledged stays visible to the process.     *)
(* Until one of the two steps fails whose failure the code cannot undo     *)
(* (the truncate of rollbackAppend, the reopening after a prune), and      *)
(* again after the next start, the index is exactly the file: what was     *)
(* acknowledged is durable, and the file is a ValueHistory for its callers.*)
(***************************************************************************)
EXTENDS FileHistory, TLAPS

(* The calls that append, and the calls that rewrite the file.              *)
SaveCalls(k, s) ==
    \/ SaveSeen(k, s) \/ Save(k, s)
    \/ SaveFails(k, s) \/ SaveInterrupted(k, s)

PruneCalls(reached, keep) ==
    \/ PruneNothing(reached, keep) \/ Replace(reached, keep)
    \/ ReplaceFails(reached, keep) \/ ReopenFails(reached, keep)
    \/ ReplaceInterrupted(reached, keep)

(* A step of the specification is the start or the end of the process, a    *)
(* Save of a snapshot with a revision, or a prune with a policy.            *)
LEMMA FileStep ==
    ASSUME FHNext
    PROVE  \/ Load \/ LoadRefuses \/ Crash
           \/ \E k \in Keys, s \in Snapshot :
                 s.mod \in 1..MaxRevision /\ OneValue(k, s) /\ SaveCalls(k, s)
           \/ \E reached \in SUBSET Keys, keep \in Retentions :
                 PruneCalls(reached, keep)
<1>1. \A m \in 1..MaxRevision, v \in Values :
         /\ [mod |-> m, val |-> v] \in Snapshot
         /\ [mod |-> m, val |-> v].mod \in 1..MaxRevision
  BY MaxRevisionAssumption DEF Snapshot
<1>2. Reaches \subseteq SUBSET Keys
  BY DEF Reaches
<1>3. CASE \E k \in Keys, m \in 1..MaxRevision, v \in Values :
               LET s == [mod |-> m, val |-> v] IN
               OneValue(k, s) /\ SaveCalls(k, s)
  BY <1>1, <1>3
<1>4. CASE \E reached \in Reaches, keep \in Retentions :
               PruneCalls(reached, keep)
  BY <1>2, <1>4
<1> QED BY <1>3, <1>4 DEF FHNext, SaveCalls, PruneCalls

(* A prune only removes.                                                    *)
LEMMA UpdatedShrinks ==
    ASSUME FHTypeOK, NEW reached \in SUBSET Keys, NEW keep \in Retentions
    PROVE  /\ Updated(reached, keep) \in [Keys -> SUBSET Snapshot]
           /\ \A k \in Keys : Updated(reached, keep)[k] \subseteq entries[k]
           /\ OwedAfter(reached, keep) \in [Keys -> SUBSET Snapshot]
           /\ \A k \in Keys :
                 owed[k] \subseteq entries[k] =>
                     OwedAfter(reached, keep)[k]
                         \subseteq Updated(reached, keep)[k]
<1>1. \A S : PruneKey(S, keep) \subseteq S
  BY DEF PruneKey, NewestSnapshots
<1>2. ASSUME NEW k \in Keys
      PROVE  entries[k] \subseteq Snapshot /\ owed[k] \subseteq Snapshot
  BY DEF FHTypeOK
<1> HIDE DEF PruneKey
<1> QED BY <1>1, <1>2 DEF Updated, OwedAfter

(* What an append, complete or not, does to the file keeps the types.       *)
LEMMA WriteLineTypes ==
    ASSUME FHTypeOK, NEW k \in Keys, NEW s \in Snapshot,
           WriteLine(k, s) \/ WritePart(k, s)
    PROVE  /\ disk' \in [Keys -> SUBSET Snapshot]
           /\ tail' \in Tails
           /\ corrupt' \in BOOLEAN
           /\ orphan' \in BOOLEAN
<1>1. NoTail \in Tails /\ TornTail \in Tails /\ WholeTail(k, s) \in Tails
  BY DEF Tails, WholeTail, Record
<1>2. tail.kind = "whole" =>
         tail.record.key \in Keys /\ tail.record.snap \in Snapshot
  BY DEF FHTypeOK, Tails, NoTail, TornTail, Record
<1>3. ASSUME NEW j \in Keys, NEW t \in Snapshot, Put(j, t)
      PROVE  disk' \in [Keys -> SUBSET Snapshot]
  BY <1>3 DEF FHTypeOK, Put
<1> HIDE DEF Put
<1>4. CASE WriteLine(k, s)
  BY <1>1, <1>2, <1>3, <1>4 DEF FHTypeOK, WriteLine
<1>5. CASE WritePart(k, s)
  BY <1>1, <1>5 DEF FHTypeOK, WritePart
<1> QED BY <1>4, <1>5

(* The variables keep their types, whatever fails.                          *)
THEOREM FileTypeCorrect == FHSpec => []FHTypeOK
<1>1. FHInit => FHTypeOK
  BY DEF FHInit, FHTypeOK, Nothing, Tails
<1>2. FHTypeOK /\ [FHNext]_fhVars => FHTypeOK'
  <2> SUFFICES ASSUME FHTypeOK, [FHNext]_fhVars PROVE FHTypeOK'
    OBVIOUS
  <2> USE DEF FHTypeOK
  <2>0. Nothing \in [Keys -> SUBSET Snapshot] /\ NoTail \in Tails
    BY DEF Nothing, Tails
  <2>1. Load => FHTypeOK'
    BY <2>0 DEF Load, TailCut
  <2>2. LoadRefuses => FHTypeOK'
    BY DEF LoadRefuses, fileVars
  <2>3. Crash => FHTypeOK'
    BY <2>0 DEF Crash, fileVars
  <2>4. ASSUME NEW k \in Keys, NEW s \in Snapshot, SaveCalls(k, s)
        PROVE  FHTypeOK'
    <3>1. CASE SaveSeen(k, s)
      BY <3>1 DEF SaveSeen, Owe, fileVars
    <3>2. CASE Save(k, s)
      BY <3>2, WriteLineTypes DEF Save, Owe
    <3>3. CASE SaveFails(k, s)
      BY <3>3, WriteLineTypes DEF SaveFails, fileVars
    <3>4. CASE SaveInterrupted(k, s)
      BY <2>0, <3>4, WriteLineTypes DEF SaveInterrupted
    <3> QED BY <2>4, <3>1, <3>2, <3>3, <3>4 DEF SaveCalls
  <2>5. ASSUME NEW reached \in SUBSET Keys, NEW keep \in Retentions,
               PruneCalls(reached, keep)
        PROVE  FHTypeOK'
    <3>1. /\ Updated(reached, keep) \in [Keys -> SUBSET Snapshot]
          /\ OwedAfter(reached, keep) \in [Keys -> SUBSET Snapshot]
      BY UpdatedShrinks
    <3>2. CASE PruneNothing(reached, keep) \/ ReplaceFails(reached, keep)
      BY <3>2 DEF PruneNothing, ReplaceFails, fhVars, fileVars
    <3>3. CASE Replace(reached, keep) \/ ReopenFails(reached, keep)
      BY <2>0, <3>1, <3>3 DEF Replace, ReopenFails, Renamed
    <3>4. CASE ReplaceInterrupted(reached, keep)
      BY <2>0, <3>1, <3>4 DEF ReplaceInterrupted, Renamed
    <3> QED BY <2>5, <3>2, <3>3, <3>4 DEF PruneCalls
  <2>6. CASE UNCHANGED fhVars
    BY <2>6 DEF fhVars, fileVars
  <2> HIDE DEF FHTypeOK
  <2> QED BY <2>1, <2>2, <2>3, <2>4, <2>5, <2>6, FileStep
<1> QED BY <1>1, <1>2, PTL DEF FHSpec

(* Whatever fails and wherever the process ended before, a running process  *)
(* finds everything it has acknowledged and not pruned.                     *)
THEOREM Visible == FHSpec => []AcknowledgedIsVisible
<1>1. FHInit => AcknowledgedIsVisible
  BY DEF FHInit, AcknowledgedIsVisible
<1>2. FHTypeOK /\ AcknowledgedIsVisible /\ [FHNext]_fhVars
         => AcknowledgedIsVisible'
  <2> SUFFICES ASSUME FHTypeOK, AcknowledgedIsVisible, [FHNext]_fhVars
               PROVE  AcknowledgedIsVisible'
    OBVIOUS
  <2>1. Load => AcknowledgedIsVisible'
    BY DEF Load, AcknowledgedIsVisible
  <2>2. LoadRefuses \/ Crash => AcknowledgedIsVisible'
    BY DEF LoadRefuses, Crash, AcknowledgedIsVisible
  <2>3. ASSUME NEW k \in Keys, NEW s \in Snapshot, OneValue(k, s),
               SaveCalls(k, s)
        PROVE  AcknowledgedIsVisible'
    <3>1. CASE SaveSeen(k, s)
      <4>1. s \in entries[k]
        BY <2>3, <3>1 DEF SaveSeen, Seen, OneValue
      <4> QED BY <3>1, <4>1 DEF SaveSeen, Owe, FHTypeOK, AcknowledgedIsVisible
    <3>2. CASE Save(k, s)
      BY <3>2 DEF Save, Owe, FHTypeOK, AcknowledgedIsVisible
    <3>3. CASE SaveFails(k, s)
      BY <3>3 DEF SaveFails, AcknowledgedIsVisible
    <3>4. CASE SaveInterrupted(k, s)
      BY <3>4 DEF SaveInterrupted, AcknowledgedIsVisible
    <3> QED BY <2>3, <3>1, <3>2, <3>3, <3>4 DEF SaveCalls
  <2>4. ASSUME NEW reached \in SUBSET Keys, NEW keep \in Retentions,
               PruneCalls(reached, keep)
        PROVE  AcknowledgedIsVisible'
    <3>1. process = "up"
      BY <2>4 DEF PruneCalls, PruneNothing, Replace, ReplaceFails,
                  ReopenFails, ReplaceInterrupted
    <3>2. \A k \in Keys :
             /\ OwedAfter(reached, keep)[k] \subseteq Updated(reached, keep)[k]
             /\ Updated(reached, keep)[k] \subseteq entries[k]
      BY <3>1, UpdatedShrinks DEF AcknowledgedIsVisible
    <3>3. CASE PruneNothing(reached, keep) \/ ReplaceFails(reached, keep)
      BY <3>3 DEF PruneNothing, ReplaceFails, fhVars, AcknowledgedIsVisible
    <3>4. CASE Replace(reached, keep) \/ ReopenFails(reached, keep)
      BY <3>2, <3>4 DEF Replace, ReopenFails, AcknowledgedIsVisible
    <3>5. CASE ReplaceInterrupted(reached, keep)
      BY <3>5 DEF ReplaceInterrupted, AcknowledgedIsVisible
    <3> QED BY <2>4, <3>3, <3>4, <3>5 DEF PruneCalls
  <2>5. CASE UNCHANGED fhVars
    BY <2>5 DEF fhVars, AcknowledgedIsVisible
  <2> QED BY <2>1, <2>2, <2>3, <2>4, <2>5, FileStep
<1> QED BY <1>1, <1>2, FileTypeCorrect, PTL DEF FHSpec

-----------------------------------------------------------------------------
(* An empty file is an empty history.                                       *)
LEMMA IndexInit ==
    ASSUME FHInit
    PROVE  IndexIsFile /\ Backend!VHInit
BY DEF FHInit, IndexIsFile, Nothing, Backend!VHInit

(* The operators the abstract specification reaches by its own EXTENDS.     *)
LEMMA SameOperators ==
    /\ \A S, s : Backend!AddSnapshot(S, s) = AddSnapshot(S, s)
    /\ \A S, keep : Backend!PruneKey(S, keep) = PruneKey(S, keep)
<1>1. \A S, s : Backend!AddSnapshot(S, s) = AddSnapshot(S, s)
  BY DEF Backend!AddSnapshot, AddSnapshot
<1>2. \A S, s : Backend!Newer(S, s) = Newer(S, s)
  BY DEF Backend!Newer, Newer
<1>3. \A S, keep : Backend!NewestSnapshots(S, keep) = NewestSnapshots(S, keep)
  BY <1>2 DEF Backend!NewestSnapshots, NewestSnapshots,
              Backend!Cardinality, Cardinality
<1>4. \A S, keep : Backend!PruneKey(S, keep) = PruneKey(S, keep)
  BY <1>3 DEF Backend!PruneKey, PruneKey
<1> QED BY <1>1, <1>4

(* A step after which nothing is damaged keeps the index equal to the file  *)
(* and is a step of the abstract history.  It began in a state in which     *)
(* nothing was damaged, or it is a start.                                   *)
LEMMA IntactStep ==
    ASSUME FHTypeOK, IndexIsFile, [FHNext]_fhVars, damaged' = {}
    PROVE  IndexIsFile' /\ [Backend!VHNext]_disk
<1> USE DEF IndexIsFile
<1>1. CASE Load
  BY <1>1 DEF Load, TailCut
<1>2. CASE LoadRefuses
  BY <1>2 DEF LoadRefuses, fileVars
<1>3. CASE Crash
  BY <1>3 DEF Crash, fileVars, Nothing
<1>4. ASSUME NEW k \in Keys, NEW s \in Snapshot, s.mod \in 1..MaxRevision,
             OneValue(k, s), SaveCalls(k, s)
      PROVE  IndexIsFile' /\ [Backend!VHNext]_disk
  <2>0. damaged = {}
    BY <1>4 DEF SaveCalls, SaveSeen, Save, SaveFails, SaveInterrupted
  <2>1. process = "up" /\ entries = disk /\ tail = NoTail /\ ~orphan
    BY <1>4, <2>0 DEF SaveCalls, SaveSeen, Save, SaveFails, SaveInterrupted
  <2>2. ASSUME ~Seen(k, s), Put(k, s)
        PROVE  Backend!VHNext
    <3>1. disk' = [disk EXCEPT ![k] = AddSnapshot(@, s)]
      BY <2>1, <2>2 DEF Seen, Put, AddSnapshot
    <3>2. s.val \in Values /\ s = [mod |-> s.mod, val |-> s.val]
      BY DEF Snapshot
    <3>3. Backend!Add(k, [mod |-> s.mod, val |-> s.val])
      BY <3>1, <3>2, SameOperators DEF Backend!Add
    <3> QED BY <1>4, <3>2, <3>3 DEF Backend!VHNext
  <2>3. CASE SaveSeen(k, s)
    <3>1. s \in entries[k]
      BY <1>4, <2>3 DEF SaveSeen, Seen, OneValue
    <3> QED BY <2>1, <2>3, <3>1 DEF SaveSeen, Owe, fileVars, FHTypeOK
  <2>4. ASSUME WriteLine(k, s)
        PROVE  Put(k, s) /\ UNCHANGED <<tail, corrupt, orphan>>
    BY <2>1, <2>4 DEF WriteLine, NoTail, TornTail
  <2>5. CASE Save(k, s)
    BY <2>1, <2>2, <2>4, <2>5 DEF Save, Owe, Put, FHTypeOK
  <2>6. CASE SaveFails(k, s)
    BY <2>6 DEF SaveFails, fileVars
  <2>7. CASE SaveInterrupted(k, s)
    <3>1. CASE WriteLine(k, s)
      BY <2>1, <2>2, <2>4, <2>7, <3>1 DEF SaveInterrupted, Nothing
    <3>2. CASE WritePart(k, s)
      BY <2>1, <2>7, <3>2 DEF SaveInterrupted, WritePart, Nothing
    <3> QED BY <2>7, <3>1, <3>2 DEF SaveInterrupted
  <2> QED BY <1>4, <2>3, <2>5, <2>6, <2>7 DEF SaveCalls
<1>5. ASSUME NEW reached \in SUBSET Keys, NEW keep \in Retentions,
             PruneCalls(reached, keep)
      PROVE  IndexIsFile' /\ [Backend!VHNext]_disk
  <2>0. damaged = {}
    BY <1>5 DEF PruneCalls, PruneNothing, Replace, ReplaceFails,
                ReopenFails, ReplaceInterrupted, fhVars
  <2>1. process = "up" /\ entries = disk /\ tail = NoTail
    BY <1>5, <2>0 DEF PruneCalls, PruneNothing, Replace, ReplaceFails,
                ReopenFails, ReplaceInterrupted
  <2>2. \A k \in Keys :
           OwedAfter(reached, keep)[k] \subseteq Updated(reached, keep)[k]
    BY <2>0, <2>1, UpdatedShrinks
  <2>3. ASSUME Renamed(Updated(reached, keep))
        PROVE  Backend!VHNext
    <3>1. Backend!Prune(reached, keep)
      BY <2>1, <2>3, SameOperators DEF Renamed, Updated, Backend!Prune
    <3> QED BY <3>1 DEF Backend!VHNext
  <2>4. CASE PruneNothing(reached, keep) \/ ReplaceFails(reached, keep)
    BY <2>4 DEF PruneNothing, ReplaceFails, fhVars, fileVars
  <2>5. CASE Replace(reached, keep)
    BY <2>1, <2>2, <2>3, <2>5 DEF Replace, Renamed
  <2>6. CASE ReplaceInterrupted(reached, keep)
    BY <2>3, <2>6 DEF ReplaceInterrupted, Renamed, Nothing
  <2> QED BY <1>5, <2>4, <2>5, <2>6 DEF PruneCalls, ReopenFails
<1>6. CASE UNCHANGED fhVars
  BY <1>6 DEF fhVars, fileVars
<1> HIDE DEF IndexIsFile
<1> QED BY <1>1, <1>2, <1>3, <1>4, <1>5, <1>6, FileStep

(* Every step keeps the index equal to the file while nothing is damaged.   *)
LEMMA IndexStep ==
    ASSUME FHTypeOK, IndexIsFile, [FHNext]_fhVars
    PROVE  IndexIsFile' /\ [damaged' # {} \/ Backend!VHNext]_disk
<1>1. CASE damaged' = {}
  BY <1>1, IntactStep
<1>2. CASE damaged' # {}
  BY <1>2 DEF IndexIsFile
<1> QED BY <1>1, <1>2

(* Unless a truncate or a reopening has failed since the last start, what   *)
(* Save acknowledged is in the file, in lines the next start reads: through *)
(* other failed calls, crashes in the middle of a Save or of a prune, and   *)
(* restarts.                                                                *)
THEOREM Durable == FHSpec => []AcknowledgedIsDurable
<1>1. IndexIsFile => AcknowledgedIsDurable
  BY DEF IndexIsFile, AcknowledgedIsDurable
<1> QED BY <1>1, IndexInit, IndexStep, FileTypeCorrect, PTL DEF FHSpec

(* The file is a ValueHistory: while it is not damaged only Save and the    *)
(* prunes change what the complete lines hold, and each as the interface    *)
(* says.                                                                    *)
THEOREM FileImplementsValueHistory == FHSpec => ImplementsValueHistory
BY IndexInit, IndexStep, FileTypeCorrect, PTL
   DEF FHSpec, ImplementsValueHistory

(* In particular, a file that is never damaged implements the abstract      *)
(* specification itself.                                                    *)
THEOREM IntactFileIsValueHistory ==
    FHSpec /\ [](damaged = {}) => Backend!VHSpec
<1>1. FHTypeOK /\ IndexIsFile /\ [FHNext]_fhVars /\ (damaged = {})'
         => [Backend!VHNext]_disk
  BY IntactStep
<1> QED BY <1>1, IndexInit, IndexStep, FileTypeCorrect, PTL
        DEF FHSpec, Backend!VHSpec
=============================================================================
