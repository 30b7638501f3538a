------------------------- MODULE AuditTrailProofs -------------------------
(***************************************************************************)
(* Theorems about the audit trail, for any requests, limit of the queue,   *)
(* retention, page size and number of days, and any number of requests     *)
(* that configure the storage: the instance TLC checks has one, so no two  *)
(* flushes overlap there.                                                  *)
(*                                                                         *)
(* An event is in one place at a time (EachInOnePlace): it still belongs   *)
(* to its request, or is queued, or waits in the batch of a flush, or is   *)
(* about to be inserted, or is stored.  Before the process closes its      *)
(* storage there is one flush at most, and one of those that were under    *)
(* way then may put events back (FlushesAreBounded).                       *)
(*                                                                         *)
(* What is written is what a start could read: the complete lines, and the *)
(* last one when only its newline is missing.  The file holds less than    *)
(* the list only after a failure that was not undone (FileSound).  A row   *)
(* that has left the list never comes back into it, and the cursor is the  *)
(* lowest event the reader has seen (ReaderKeepsUp).                       *)
(***************************************************************************)
EXTENDS AuditTrail, FiniteSetTheorems, SequenceTheorems, TLAPS

USE AuditAssumption

-----------------------------------------------------------------------------
(* Where an event may be.                                                   *)

(* The request has not handed its event on: it still has to save or queue   *)
(* it, perhaps after those of a flush.                                      *)
Own(e) ==
    \/ pc[e] \in {"ready", "take", "save", "putBack", "queue"}
    \/ pc[e] \in {"insert", "prune"} /\ saving[e].row.event # e

Queued(e) == e \in Members(pending)

Batched(e) == \E r \in Requests : e \in Members(batch[r])

Inserting(r, e) == pc[r] = "insert" /\ saving[r].row.event = e

Stored(e) == \E d \in events \cup Written : d.event = e

Waiting(e) ==
    Own(e) \/ Queued(e) \/ Batched(e) \/ \E r \in Requests : Inserting(r, e)

(* What a step may never do: make an event wait again that was stored or is *)
(* gone.                                                                    *)
NoneWaitsAgain == \A e \in Requests : Waiting(e)' => Waiting(e)

Injective(queue) ==
    \A i, j \in DOMAIN queue : queue[i] = queue[j] => i = j

OneEach(e) ==
    /\ Own(e) => /\ ~Queued(e) /\ ~Batched(e) /\ ~Stored(e)
                 /\ \A r \in Requests : ~Inserting(r, e)
    /\ Queued(e) => /\ ~Batched(e) /\ ~Stored(e)
                    /\ \A r \in Requests : ~Inserting(r, e)
    /\ Batched(e) => ~Stored(e) /\ \A r \in Requests : ~Inserting(r, e)
    /\ \A r \in Requests : Inserting(r, e) => ~Stored(e)
    /\ \A r, q \in Requests : Inserting(r, e) /\ Inserting(q, e) => r = q
    /\ \A r, q \in Requests :
          e \in Members(batch[r]) /\ e \in Members(batch[q]) => r = q
    /\ \A d, f \in events \cup Written : d.event = e /\ f.event = e => d = f

EachInOnePlace ==
    /\ Injective(pending)
    /\ \A r \in Requests : Injective(batch[r])
    /\ \A e \in Requests : OneEach(e)

(* A flush saves the event of its own request last.                         *)
OwnEventLast ==
    \A r \in Requests :
       pc[r] \in {"insert", "prune"} /\ saving[r].row.event = r => batch[r] = <<>>

(* Every event is somewhere or known to be gone; what a start would load    *)
(* and the list does not show was reported as failed.                       *)
Accounted(e) ==
    \/ Own(e) \/ Queued(e) \/ Batched(e) \/ Stored(e) \/ e \in gone
    \/ \E r \in Requests : Inserting(r, e)

NoneForgotten ==
    /\ \A e \in Requests : Accounted(e)
    /\ \A d \in Written \ events : d.event \in gone

(* An incomplete line, what it leads to, and a handle on a replaced file    *)
(* are there only after a failure that was not undone.  A table knows none  *)
(* of them.  Only a file that cannot be read keeps the process from         *)
(* starting.                                                                *)
FileSound ==
    /\ ListedIsDurable
    /\ tail # NoTail \/ corrupt => "append" \in damaged
    /\ orphan => "reopen" \in damaged
    /\ kind = "table" => damaged = {}
    /\ process = "refused" => corrupt

(* The inductive invariant of the first part.                               *)
TrailInv ==
    /\ ATypeOK /\ OwnEventLast /\ EachInOnePlace /\ NoneForgotten
    /\ FileSound

-----------------------------------------------------------------------------
(* A request that took the queue, or is about to, and has not saved or put  *)
(* back all of it.                                                          *)
Flushing(r) == pc[r] = "take" \/ batch[r] # <<>>

FlushesAreBounded ==
    /\ QueueIsBounded
    /\ \A r \in Requests : Len(batch[r]) <= 2 * Limit
    /\ process = "up" \/ backend = 0 =>
          /\ \A r, q \in Requests : Flushing(r) /\ Flushing(q) => r = q
          /\ \A r \in Requests : Len(batch[r]) <= Limit
    /\ backend = 0 =>
          \A r \in Requests : Flushing(r) => process # "up" /\ Len(pending) <= Limit
    /\ \A r \in Requests : pc[r] = "putBack" =>
          /\ process # "up" /\ batch[r] # <<>>
          /\ Len(batch[r]) <= Limit /\ Len(pending) <= Limit
          /\ \A q \in Requests : pc[q] = "putBack" => q = r

-----------------------------------------------------------------------------
Rows == events \cup Written
          \cup {saving[r].row : r \in {q \in Requests : saving[q] # Nil}}

(* The cursor is the place of the lowest event the reader has seen.         *)
CursorIsLowest ==
    /\ reader.stage = "idle" => reader = NoReader
    /\ reader.stage = "paging" =>
          /\ reader.cursor # Nil
          /\ \A s \in Seen : \/ s.at = reader.cursor.at /\ s.id = reader.cursor.id
                             \/ Below(reader.cursor, s)

(* A page to come may show the event.                                       *)
ToCome(e) ==
    reader.stage # "ended" /\ (reader.cursor = Nil \/ Below(e, reader.cursor))

(* What the reader began with never comes back once it has left the list;   *)
(* what of it is listed he has seen, or a page to come may show it.         *)
ReaderKeepsUp ==
    /\ IsFiniteSet(events) /\ IsFiniteSet(Written)
    /\ \A d, e \in Rows : d.id = e.id => d = e
    /\ process # "refused" => reader.start \cap Written \subseteq events
    /\ \A d \in reader.start : ~Waiting(d.event)
    /\ \A e \in reader.start \cap Unexpired(now) : e \in Seen \/ ToCome(e)
    /\ CursorIsLowest
    /\ PagesDescend

-----------------------------------------------------------------------------
(* The queue's operators.                                                   *)

LEMMA MembersOfEmpty == Members(<<>>) = {} /\ Injective(<<>>)
  BY DEF Members, Injective

LEMMA MembersTyped ==
    ASSUME NEW s \in Seq(Requests)
    PROVE  Members(s) \subseteq Requests
  BY DEF Members

LEMMA MembersOfAppend ==
    ASSUME NEW s \in Seq(Requests), NEW e \in Requests
    PROVE  /\ Members(Append(s, e)) = Members(s) \cup {e}
           /\ Injective(s) /\ e \notin Members(s) => Injective(Append(s, e))
<1>1. /\ Append(s, e) \in Seq(Requests)
      /\ DOMAIN Append(s, e) = 1..(Len(s) + 1)
      /\ \A i \in 1..Len(s) : Append(s, e)[i] = s[i]
      /\ Append(s, e)[Len(s) + 1] = e
      /\ DOMAIN s = 1..Len(s) /\ Len(s) \in Nat
  BY AppendProperties
<1>2. Members(Append(s, e)) \subseteq Members(s) \cup {e}
  BY <1>1 DEF Members
<1>3. Members(s) \cup {e} \subseteq Members(Append(s, e))
  <2>1. Members(s) \subseteq Members(Append(s, e))
    BY <1>1 DEF Members
  <2>2. e \in Members(Append(s, e))
    BY <1>1 DEF Members
  <2>3. QED
    BY <2>1, <2>2
<1>4. ASSUME Injective(s), e \notin Members(s)
      PROVE  Injective(Append(s, e))
  BY <1>1, <1>4 DEF Members, Injective
<1>5. QED
  BY <1>2, <1>3, <1>4

LEMMA MembersOfConcat ==
    ASSUME NEW s \in Seq(Requests), NEW t \in Seq(Requests)
    PROVE  /\ Members(s \o t) = Members(s) \cup Members(t)
           /\ /\ Injective(s) /\ Injective(t)
              /\ \A e \in Members(s) : e \notin Members(t)
              => Injective(s \o t)
<1>1. /\ s \o t \in Seq(Requests)
      /\ Len(s \o t) = Len(s) + Len(t)
      /\ \A i \in 1..(Len(s) + Len(t)) :
            (s \o t)[i] = IF i <= Len(s) THEN s[i] ELSE t[i - Len(s)]
  BY ConcatProperties
<1>2. /\ DOMAIN s = 1..Len(s) /\ DOMAIN t = 1..Len(t)
      /\ DOMAIN (s \o t) = 1..(Len(s) + Len(t))
      /\ Len(s) \in Nat /\ Len(t) \in Nat
  BY <1>1
<1> HIDE DEF Members, Injective
<1> DEFINE u == s \o t
<1>u. /\ DOMAIN u = 1..(Len(s) + Len(t))
      /\ \A i \in 1..(Len(s) + Len(t)) :
            u[i] = IF i <= Len(s) THEN s[i] ELSE t[i - Len(s)]
  BY <1>1, <1>2
<1> HIDE DEF u
<1>3. Members(u) \subseteq Members(s) \cup Members(t)
  <2>1. SUFFICES ASSUME NEW i \in 1..(Len(s) + Len(t))
                 PROVE  u[i] \in Members(s) \cup Members(t)
    BY <1>u DEF Members
  <2>2. CASE i <= Len(s)
    <3>1. i \in DOMAIN s /\ u[i] = s[i]
      BY <2>2, <1>u, <1>2
    <3>2. QED
      BY <3>1 DEF Members
  <2>3. CASE ~(i <= Len(s))
    <3>1. i - Len(s) \in DOMAIN t /\ u[i] = t[i - Len(s)]
      BY <2>3, <1>u, <1>2
    <3>2. QED
      BY <3>1 DEF Members
  <2>4. QED
    BY <2>2, <2>3
<1>4. Members(s) \subseteq Members(u)
  BY <1>u, <1>2 DEF Members
<1>5. Members(t) \subseteq Members(u)
  <2>1. SUFFICES ASSUME NEW i \in 1..Len(t)
                 PROVE  t[i] \in Members(u)
    BY <1>2 DEF Members
  <2>2. i + Len(s) \in 1..(Len(s) + Len(t)) /\ ~(i + Len(s) <= Len(s))
          /\ (i + Len(s)) - Len(s) = i
    BY <1>2
  <2>3. u[i + Len(s)] = t[i]
    BY <2>2, <1>u
  <2>4. QED
    BY <2>2, <2>3, <1>u DEF Members
<1>6. ASSUME Injective(s), Injective(t), \A e \in Members(s) : e \notin Members(t)
      PROVE  Injective(u)
  <2>1. SUFFICES ASSUME NEW i \in 1..(Len(s) + Len(t)), NEW j \in 1..(Len(s) + Len(t)),
                        u[i] = u[j]
                 PROVE  i = j
    BY <1>u DEF Injective
  <2>2. \A a \in 1..Len(s), b \in 1..Len(t) : s[a] # t[b]
    BY <1>6, <1>2 DEF Members
  <2>3. CASE i <= Len(s) /\ j <= Len(s)
    <3>1. i \in 1..Len(s) /\ j \in 1..Len(s) /\ u[i] = s[i] /\ u[j] = s[j]
      BY <2>3, <1>u, <1>2
    <3>2. QED
      BY <3>1, <2>1, <1>6, <1>2 DEF Injective
  <2>4. CASE i > Len(s) /\ j > Len(s)
    <3>1. u[i] = t[i - Len(s)] /\ u[j] = t[j - Len(s)]
      BY <2>4, <1>u, <1>2
    <3>2. i - Len(s) \in 1..Len(t) /\ j - Len(s) \in 1..Len(t)
      BY <2>4, <1>2
    <3>3. i - Len(s) = j - Len(s)
      BY <3>1, <3>2, <2>1, <1>6, <1>2 DEF Injective
    <3>4. QED
      BY <3>3, <1>2
  <2>5. CASE i <= Len(s) /\ j > Len(s)
    <3>1. i \in 1..Len(s) /\ j - Len(s) \in 1..Len(t) /\ u[i] = s[i] /\ u[j] = t[j - Len(s)]
      BY <2>5, <1>u, <1>2
    <3>2. QED
      BY <3>1, <2>1, <2>2
  <2>6. CASE i > Len(s) /\ j <= Len(s)
    <3>1. j \in 1..Len(s) /\ i - Len(s) \in 1..Len(t) /\ u[j] = s[j] /\ u[i] = t[i - Len(s)]
      BY <2>6, <1>u, <1>2
    <3>2. QED
      BY <3>1, <2>1, <2>2
  <2>7. QED
    BY <2>3, <2>4, <2>5, <2>6, <1>2
<1>7. QED
  BY <1>3, <1>4, <1>5, <1>6 DEF u

LEMMA MembersOfTail ==
    ASSUME NEW s \in Seq(Requests), s # <<>>
    PROVE  /\ Head(s) \in Requests /\ Tail(s) \in Seq(Requests)
           /\ Len(Tail(s)) = Len(s) - 1
           /\ Members(s) = {Head(s)} \cup Members(Tail(s))
           /\ Injective(s) => Injective(Tail(s)) /\ Head(s) \notin Members(Tail(s))
<1>1. /\ Head(s) \in Requests /\ Tail(s) \in Seq(Requests)
      /\ Len(Tail(s)) = Len(s) - 1
      /\ \A i \in 1..Len(Tail(s)) : Tail(s)[i] = s[i + 1]
  BY HeadTailProperties
<1>2. /\ DOMAIN s = 1..Len(s) /\ Len(s) \in Nat /\ Len(s) > 0 /\ Head(s) = s[1]
      /\ DOMAIN Tail(s) = 1..(Len(s) - 1)
  BY <1>1, EmptySeq
<1> DEFINE t == Tail(s)
<1>3. /\ DOMAIN t = 1..(Len(s) - 1)
      /\ \A i \in 1..(Len(s) - 1) : t[i] = s[i + 1] /\ i + 1 \in 1..Len(s)
  BY <1>1, <1>2
<1> HIDE DEF t
<1>4. Members(t) \subseteq Members(s) /\ s[1] \in Members(s)
  <2>1. Members(t) \subseteq Members(s)
    <3>1. SUFFICES ASSUME NEW i \in 1..(Len(s) - 1)
                   PROVE  t[i] \in Members(s)
      BY <1>3 DEF Members
    <3>2. t[i] = s[i + 1] /\ i + 1 \in 1..Len(s)
      BY <1>3
    <3>3. QED
      BY <3>2, <1>2 DEF Members
  <2>2. 1 \in 1..Len(s)
    BY <1>2
  <2>3. QED
    BY <2>1, <2>2, <1>2 DEF Members
<1>5. Members(s) \subseteq {s[1]} \cup Members(t)
  <2>1. SUFFICES ASSUME NEW i \in 1..Len(s), i # 1
                 PROVE  s[i] \in Members(t)
    BY <1>2 DEF Members
  <2>2. i - 1 \in 1..(Len(s) - 1) /\ (i - 1) + 1 = i
    BY <2>1, <1>2
  <2>3. t[i - 1] = s[i]
    BY <2>2, <1>3
  <2>4. QED
    BY <2>2, <2>3, <1>3 DEF Members
<1>6. ASSUME Injective(s)
      PROVE  Injective(t) /\ s[1] \notin Members(t)
  <2>1. Injective(t)
    <3>1. SUFFICES ASSUME NEW i \in 1..(Len(s) - 1), NEW j \in 1..(Len(s) - 1),
                          t[i] = t[j]
                   PROVE  i = j
      BY <1>3 DEF Injective
    <3>2. i + 1 = j + 1
      <4>1. /\ i + 1 \in DOMAIN s /\ j + 1 \in DOMAIN s
            /\ s[i + 1] = t[i] /\ s[j + 1] = t[j]
        BY <1>3, <1>2
      <4>2. QED
        BY <4>1, <3>1, <1>6 DEF Injective
    <3>3. QED
      BY <3>2, <1>2
  <2>2. ASSUME NEW i \in 1..(Len(s) - 1), t[i] = s[1]
        PROVE  FALSE
    <3>1. i + 1 = 1
      <4>1. i + 1 \in DOMAIN s /\ 1 \in DOMAIN s /\ s[i + 1] = t[i]
        BY <1>3, <1>2
      <4>2. QED
        BY <4>1, <2>2, <1>6 DEF Injective
    <3>2. QED
      BY <3>1, <1>2
  <2>3. QED
    BY <2>1, <2>2, <1>3 DEF Members
<1>7. QED
  BY <1>1, <1>2, <1>4, <1>5, <1>6 DEF t

(* What remains of a queue that makes place for one event.                  *)
LEMMA TrimmedProperties ==
    ASSUME NEW s \in Seq(Requests)
    PROVE  /\ Trimmed(s) \in Seq(Requests)
           /\ Len(Trimmed(s)) < Limit
           /\ Members(Trimmed(s)) \subseteq Members(s)
           /\ Injective(s) => Injective(Trimmed(s))
<1>1. CASE Len(s) < Limit
  BY <1>1 DEF Trimmed
<1>2. CASE Len(s) >= Limit
  <2> DEFINE k == Len(s) - Limit
             t == Trimmed(s)
  <2>1. k \in Nat /\ Len(s) \in Nat /\ Limit \in Nat \ {0} /\ DOMAIN s = 1..Len(s)
    BY <1>2
  <2>2. t = SubSeq(s, k + 2, Len(s))
    BY <1>2 DEF Trimmed
  <2>3. /\ t \in Seq(Requests) /\ DOMAIN t = 1..(Limit - 1) /\ Len(t) = Limit - 1
        /\ \A i \in 1..(Limit - 1) : t[i] = s[i + k + 1] /\ i + k + 1 \in 1..Len(s)
    <3>1. CASE Limit = 1
      <4>1. t = <<>>
        BY <2>1, <2>2, <3>1, SubSeqProperties
      <4>2. QED
        BY <4>1, <3>1
    <3>2. CASE Limit > 1
      <4>1. k + 2 \in 1..(Len(s) + 1) /\ Len(s) \in (k + 2)-1..Len(s)
        BY <2>1, <3>2
      <4>2. /\ t \in Seq(Requests) /\ Len(t) = Len(s) - (k + 2) + 1
            /\ \A i \in 1..(Len(s) - (k + 2) + 1) : t[i] = s[(k + 2) + i - 1]
        BY <4>1, <2>2, SubSeqProperties
      <4>3. Len(s) - (k + 2) + 1 = Limit - 1
        BY <2>1
      <4>4. \A i \in 1..(Limit - 1) : (k + 2) + i - 1 = i + k + 1 /\ i + k + 1 \in 1..Len(s)
        BY <2>1
      <4>5. QED
        BY <4>2, <4>3, <4>4, <2>1
    <3>3. QED
      BY <3>1, <3>2
  <2> HIDE DEF t, k
  <2>4. Members(t) \subseteq Members(s)
    BY <2>3, <2>1 DEF Members
  <2>5. ASSUME Injective(s)
        PROVE  Injective(t)
    <3>1. SUFFICES ASSUME NEW i \in 1..(Limit - 1), NEW j \in 1..(Limit - 1), t[i] = t[j]
                   PROVE  i = j
      BY <2>3 DEF Injective
    <3>2. i + k + 1 = j + k + 1
      BY <3>1, <2>3, <2>1, <2>5 DEF Injective
    <3>3. QED
      BY <3>2, <2>1
  <2>6. QED
    BY <2>3, <2>4, <2>5, <2>1 DEF t
<1>3. QED
  BY <1>1, <1>2

-----------------------------------------------------------------------------
(* Places and types, action by action.                                      *)

(* What the reader has seen, and where he goes on.                          *)
ReaderTypes ==
    [stage : {"idle", "paging", "ended"}, start : SUBSET Row,
     cursor : Cursor \cup {Nil}, pages : Seq(SUBSET Row)]

LEMMA RequestTyped ==
    ASSUME ATypeOK, NEW r \in Requests
    PROVE  /\ batch[r] \in Seq(Requests)
           /\ saving[r] # Nil <=> pc[r] \in {"insert", "prune"}
           /\ saving[r] # Nil => /\ saving[r].row \in Row
                                 /\ saving[r].row.event \in Requests
                                 /\ saving[r].row.id \in Nat
                                 /\ saving[r].store \in Nat
<1>1. saving[r] \in [row : Row, store : Nat] \cup {Nil}
  BY DEF ATypeOK
<1>2. QED
  BY <1>1 DEF ATypeOK, Row

(* A step that moves no event, and may only report some as gone.            *)
LEMMA NothingMoves ==
    ASSUME TrailInv, UNCHANGED <<queueVars, events, Written>>, gone \subseteq gone',
           \A e \in Requests : Own(e)' <=> Own(e),
           \A q, e \in Requests : Inserting(q, e)' <=> Inserting(q, e)
    PROVE  EachInOnePlace' /\ NoneForgotten' /\ NoneWaitsAgain
<1>1. \A e \in Requests : /\ Queued(e)' <=> Queued(e)
                          /\ Batched(e)' <=> Batched(e)
                          /\ Stored(e)' <=> Stored(e)
  BY DEF queueVars, Queued, Batched, Stored
<1>2. EachInOnePlace'
  <2>1. ASSUME NEW e \in Requests
        PROVE  OneEach(e)'
    <3>1. OneEach(e)
      BY DEF TrailInv, EachInOnePlace
    <3>2. QED
      BY <3>1, <1>1 DEF OneEach, queueVars
  <2>2. QED
    BY <2>1 DEF TrailInv, EachInOnePlace, queueVars
<1>3. NoneForgotten'
  BY <1>1 DEF TrailInv, NoneForgotten, Accounted
<1>4. NoneWaitsAgain
  BY <1>1 DEF NoneWaitsAgain, Waiting
<1>5. QED
  BY <1>2, <1>3, <1>4

LEMMA WrittenTyped ==
    ASSUME ATypeOK
    PROVE  /\ Written \subseteq Row
           /\ disk \subseteq Written
           /\ tail = NoTail => Written = disk
<1>1. tail.kind = "whole" => tail.row \in Row
  BY DEF ATypeOK, Tails, NoTail, TornTail
<1>2. QED
  BY <1>1 DEF ATypeOK, Written, NoTail

LEMMA RecordAuditKeeps ==
    ASSUME TrailInv, NEW r \in Requests, RecordAudit(r)
    PROVE  TrailInv' /\ NoneWaitsAgain
<1>1. /\ pc[r] = "ready" /\ pc' = [pc EXCEPT ![r] = "save"] /\ DOMAIN pc = Requests
      /\ process # "refused"
      /\ UNCHANGED <<processVars, queueVars, storeVars, saving, gone, now, reader>>
  BY DEF RecordAudit, Goto, TrailInv, ATypeOK
<1>2. ATypeOK' /\ OwnEventLast' /\ FileSound'
  <2>1. ATypeOK'
    BY <1>1 DEF TrailInv, ATypeOK, processVars, queueVars, storeVars
  <2>2. QED
    BY <2>1, <1>1 DEF TrailInv, OwnEventLast, FileSound, ListedIsDurable,
           processVars, queueVars, storeVars
<1>3. \A e \in Requests : Own(e)' <=> Own(e)
  BY <1>1 DEF Own
<1>4. \A q, e \in Requests : Inserting(q, e)' <=> Inserting(q, e)
  BY <1>1 DEF Inserting
<1>5. QED
  BY <1>1, <1>2, <1>3, <1>4, NothingMoves DEF TrailInv, storeVars, Written

LEMMA SaveAuditNotSetupKeeps ==
    ASSUME TrailInv, NEW r \in Requests, SaveAuditNotSetup(r)
    PROVE  TrailInv' /\ NoneWaitsAgain
<1>1. /\ pc[r] = "save" /\ DOMAIN pc = Requests
      /\ pc' = [pc EXCEPT ![r] = IF batch[r] = <<>> THEN "queue" ELSE "putBack"]
      /\ UNCHANGED <<processVars, queueVars, storeVars, saving, gone, now, reader>>
  BY DEF SaveAuditNotSetup, Goto, TrailInv, ATypeOK
<1>2. ATypeOK' /\ OwnEventLast' /\ FileSound'
  <2>1. ATypeOK'
    BY <1>1 DEF TrailInv, ATypeOK, processVars, queueVars, storeVars
  <2>2. QED
    BY <2>1, <1>1 DEF TrailInv, OwnEventLast, FileSound, ListedIsDurable,
           processVars, queueVars, storeVars
<1>3. \A e \in Requests : Own(e)' <=> Own(e)
  BY <1>1 DEF Own
<1>4. \A q, e \in Requests : Inserting(q, e)' <=> Inserting(q, e)
  BY <1>1 DEF Inserting
<1>5. QED
  BY <1>1, <1>2, <1>3, <1>4, NothingMoves DEF TrailInv, storeVars, Written

LEMMA CloseKeeps ==
    ASSUME TrailInv, Close \/ NextDay
    PROVE  TrailInv' /\ NoneWaitsAgain
<1>1. UNCHANGED <<kind, configFile, opened, queueVars, storeVars, pc, saving, gone, reader>>
  BY DEF Close, NextDay, processVars
<1>2. /\ backend' \in Nat /\ backend' <= opened' /\ now' \in Nat
      /\ process' \in {"up", "closing", "refused"}
      /\ process' = "refused" => process = "refused"
  <2>1. CASE Close
    BY <2>1 DEF Close, TrailInv, ATypeOK
  <2>2. CASE NextDay
    BY <2>2 DEF NextDay, TrailInv, ATypeOK, processVars
  <2>3. QED
    BY <2>1, <2>2
<1>3. ATypeOK' /\ OwnEventLast' /\ FileSound'
  BY <1>1, <1>2 DEF TrailInv, ATypeOK, OwnEventLast, FileSound, ListedIsDurable,
         queueVars, storeVars
<1>4. \A e \in Requests : Own(e)' <=> Own(e)
  BY <1>1 DEF Own
<1>5. \A q, e \in Requests : Inserting(q, e)' <=> Inserting(q, e)
  BY <1>1 DEF Inserting
<1>6. QED
  BY <1>1, <1>3, <1>4, <1>5, NothingMoves DEF TrailInv, storeVars, Written

LEMMA PageTyped ==
    ASSUME ATypeOK
    PROVE  Page \subseteq Matches /\ Matches \subseteq Unexpired(now)
           /\ Unexpired(now) \subseteq events /\ events \subseteq Row
  BY DEF Page, Matches, Unexpired, ATypeOK

LEMMA ListKeeps ==
    ASSUME TrailInv, ListAudit \/ ListAgain
    PROVE  TrailInv' /\ NoneWaitsAgain
<1>1. UNCHANGED <<processVars, queueVars, storeVars, pc, saving, gone, now>>
  BY DEF ListAudit, ListAgain
<1>2. reader' \in ReaderTypes
  <2>1. reader \in ReaderTypes /\ Page \subseteq Row /\ events \subseteq Row
    BY PageTyped DEF TrailInv, ATypeOK, ReaderTypes
  <2>2. CASE ListAgain
    BY <2>2 DEF ListAgain, NoReader, ReaderTypes
  <2>3. CASE ListAudit
    <3>1. PICK stage \in {"paging", "ended"}, cursor \in Cursor \cup {Nil} :
             Shown(stage, cursor)
      <4>1. \A last \in Page : [at |-> last.at, id |-> last.id] \in Cursor
        BY <2>1 DEF Row, Cursor
      <4>2. QED
        BY <4>1, <2>3 DEF ListAudit
    <3>2. Append(reader.pages, Page) \in Seq(SUBSET Row)
      BY <2>1, AppendProperties DEF ReaderTypes
    <3>3. QED
      BY <2>1, <3>1, <3>2 DEF Shown, ReaderTypes
  <2>4. QED
    BY <2>2, <2>3
<1>3. ATypeOK' /\ OwnEventLast' /\ FileSound'
  BY <1>1, <1>2
    DEF TrailInv, ATypeOK, ReaderTypes, OwnEventLast, FileSound, ListedIsDurable,
           processVars, queueVars, storeVars
<1>4. \A e \in Requests : Own(e)' <=> Own(e)
  BY <1>1 DEF Own
<1>5. \A q, e \in Requests : Inserting(q, e)' <=> Inserting(q, e)
  BY <1>1 DEF Inserting
<1>6. QED
  BY <1>1, <1>3, <1>4, <1>5, NothingMoves DEF TrailInv, storeVars, Written

(* A step after which some events are in no place any more, and gone.       *)
LEMMA SomeLeave ==
    ASSUME TrailInv, gone \subseteq gone',
           Injective(pending)', \A q \in Requests : Injective(batch[q])',
           \A e \in Requests : /\ Own(e)' => Own(e)
                               /\ Own(e) => Own(e)' \/ e \in gone'
                               /\ Queued(e)' => Queued(e)
                               /\ Queued(e) => Queued(e)' \/ e \in gone',
           \A q, e \in Requests :
              /\ e \in Members(batch[q])' => e \in Members(batch[q])
              /\ e \in Members(batch[q]) => e \in Members(batch[q])' \/ e \in gone'
              /\ Inserting(q, e)' => Inserting(q, e)
              /\ Inserting(q, e) => Inserting(q, e)' \/ e \in gone',
           events' \cup Written' \subseteq events \cup Written,
           \A d \in (events \cup Written) \ (events' \cup Written') : d.event \in gone',
           \A d \in Written' \ events' : d.event \in gone'
    PROVE  EachInOnePlace' /\ NoneForgotten' /\ NoneWaitsAgain
<1>1. \A e \in Requests : /\ Batched(e)' => Batched(e)
                          /\ Batched(e) => Batched(e)' \/ e \in gone'
                          /\ Stored(e)' => Stored(e)
                          /\ Stored(e) => Stored(e)' \/ e \in gone'
  BY DEF Batched, Stored
<1>2. EachInOnePlace'
  <2>1. ASSUME NEW e \in Requests
        PROVE  OneEach(e)'
    <3>1. OneEach(e)
      BY DEF TrailInv, EachInOnePlace
    <3>2. \A q \in Requests : /\ e \in Members(batch[q])' => e \in Members(batch[q])
                              /\ Inserting(q, e)' => Inserting(q, e)
      OBVIOUS
    <3>3. QED
      BY <3>1, <3>2, <1>1 DEF OneEach
  <2>2. QED
    BY <2>1 DEF EachInOnePlace
<1>3. NoneForgotten'
  <2>1. ASSUME NEW e \in Requests
        PROVE  Accounted(e)'
    <3>1. Accounted(e)
      BY DEF TrailInv, NoneForgotten
    <3>2. QED
      BY <3>1, <1>1 DEF Accounted
  <2>2. QED
    BY <2>1 DEF NoneForgotten
<1>4. NoneWaitsAgain
  BY <1>1 DEF NoneWaitsAgain, Waiting
<1>5. QED
  BY <1>2, <1>3, <1>4

(* A step that stores the row a request is about to insert; what is written *)
(* may lose rows the list does not show.                                    *)
LEMMA OneIsStored ==
    ASSUME TrailInv, gone \subseteq gone', NEW r \in Requests,
           pc[r] = "insert", pc'[r] # "insert",
           UNCHANGED queueVars,
           \A e \in Requests : Own(e)' <=> Own(e),
           \A q, e \in Requests : q # r => (Inserting(q, e)' <=> Inserting(q, e)),
           saving[r].row \in events' \cup Written',
           events' \cup Written' \subseteq events \cup Written \cup {saving[r].row},
           events \subseteq events',
           \A d \in Written' \ events' : d.event \in gone'
    PROVE  EachInOnePlace' /\ NoneForgotten' /\ NoneWaitsAgain
<1> DEFINE x == saving[r].row.event
<1>1. x \in Requests /\ Inserting(r, x)
  BY RequestTyped DEF TrailInv, Inserting
<1> HIDE DEF x
<1>2. \A e \in Requests : /\ Queued(e)' <=> Queued(e)
                          /\ Batched(e)' <=> Batched(e)
                          /\ Stored(e)' => Stored(e) \/ e = x
                          /\ Stored(e) => Stored(e)' \/ e \in gone'
                          /\ e = x => Stored(e)'
                          /\ ~Inserting(r, e)'
                          /\ Inserting(r, e) => e = x
  <2>1. \A d \in Written \ events : d.event \in gone
    BY DEF TrailInv, NoneForgotten
  <2>2. \A e \in Requests : Stored(e) => Stored(e)' \/ e \in gone'
    BY <2>1 DEF Stored
  <2>3. QED
    BY <2>2 DEF queueVars, Queued, Batched, Stored, Inserting, x
<1>3. EachInOnePlace'
  <2>1. ASSUME NEW e \in Requests
        PROVE  OneEach(e)'
    <3>1. OneEach(e)
      BY DEF TrailInv, EachInOnePlace
    <3>2. \A d, f \in events' \cup Written' : d.event = e /\ f.event = e => d = f
      <4>1. CASE e = x
        <5>1. ~Stored(e)
          BY <4>1, <3>1, <1>1 DEF OneEach
        <5>2. QED
          BY <5>1 DEF Stored
      <4>2. CASE e # x
        BY <4>2, <3>1 DEF OneEach, x
      <4>3. QED
        BY <4>1, <4>2
    <3>3. \A q \in Requests : Inserting(q, e)' => Inserting(q, e) /\ e # x
      BY <1>1, <1>2, <3>1 DEF OneEach
    <3>4. e = x => ~Own(e) /\ ~Queued(e) /\ ~Batched(e)
      BY <1>1, <3>1 DEF OneEach
    <3>5. \A q \in Requests : Members(batch[q])' = Members(batch[q])
      BY DEF queueVars
    <3>6. QED
      BY <3>1, <3>2, <3>3, <3>4, <3>5, <1>2 DEF OneEach
  <2>2. QED
    BY <2>1 DEF TrailInv, EachInOnePlace, queueVars
<1>4. NoneForgotten'
  <2>1. ASSUME NEW e \in Requests
        PROVE  Accounted(e)'
    <3>1. Accounted(e)
      BY DEF TrailInv, NoneForgotten
    <3>2. QED
      BY <3>1, <1>2 DEF Accounted
  <2>2. QED
    BY <2>1 DEF NoneForgotten
<1>5. NoneWaitsAgain
  BY <1>2 DEF NoneWaitsAgain, Waiting
<1>6. QED
  BY <1>3, <1>4, <1>5

LEMMA ConfigureKeeps ==
    ASSUME TrailInv, NEW r \in Requests, Configure(r)
    PROVE  TrailInv' /\ NoneWaitsAgain
<1>1. /\ pc[r] = "ready" /\ pc' = [pc EXCEPT ![r] = "take"] /\ DOMAIN pc = Requests
      /\ UNCHANGED <<kind, process, pending, batch, disk, corrupt, saving, now, reader>>
      /\ configFile' = TRUE /\ opened' = opened + 1 /\ backend' = opened + 1
      /\ events' = disk /\ tail' = NoTail /\ orphan' = FALSE /\ damaged' = {}
      /\ ~corrupt /\ process # "refused"
      /\ gone' = gone \cup {e.event : e \in events \ disk}
  BY DEF Configure, Open, Goto, TrailInv, ATypeOK, queueVars
<1>2. ATypeOK' /\ OwnEventLast' /\ FileSound'
  <2>1. gone' \subseteq Requests
    BY <1>1 DEF TrailInv, ATypeOK, Row
  <2>2. opened' \in Nat /\ backend' \in Nat /\ backend' <= opened'
    BY <1>1 DEF TrailInv, ATypeOK
  <2>3. tail' \in Tails /\ damaged' \subseteq {"append", "reopen"} /\ orphan' \in BOOLEAN
    BY <1>1 DEF Tails
  <2>4. ATypeOK'
    BY <1>1, <2>1, <2>2, <2>3 DEF TrailInv, ATypeOK
  <2>5. QED
    BY <2>4, <1>1 DEF TrailInv, OwnEventLast, FileSound, ListedIsDurable
<1>3. \A e \in Requests : (Own(e)' <=> Own(e)) /\ (Queued(e)' <=> Queued(e))
  BY <1>1 DEF Own, Queued
<1>4. \A q, e \in Requests : /\ Inserting(q, e)' <=> Inserting(q, e)
                             /\ Members(batch[q])' = Members(batch[q])
  BY <1>1 DEF Inserting
<1>5. Injective(pending)' /\ \A q \in Requests : Injective(batch[q])'
  BY <1>1 DEF TrailInv, EachInOnePlace
<1>6. Written' = disk /\ disk \subseteq Written
  BY <1>1, WrittenTyped DEF TrailInv, Written, NoTail
<1>7. \A d \in Written \ events : d.event \in gone
  BY DEF TrailInv, NoneForgotten
<1>8. /\ events' \cup Written' \subseteq events \cup Written /\ gone \subseteq gone'
      /\ \A d \in (events \cup Written) \ (events' \cup Written') : d.event \in gone'
      /\ \A d \in Written' \ events' : d.event \in gone'
  BY <1>1, <1>6, <1>7
<1>9. EachInOnePlace' /\ NoneForgotten' /\ NoneWaitsAgain
  BY <1>3, <1>4, <1>5, <1>8, SomeLeave
<1>10. QED
  BY <1>2, <1>9 DEF TrailInv

LEMMA ConfigureFailsKeeps ==
    ASSUME TrailInv, NEW r \in Requests, ConfigureFails(r)
    PROVE  TrailInv' /\ NoneWaitsAgain
<1>1. /\ pc[r] = "ready" /\ pc' = [pc EXCEPT ![r] = "ended"] /\ DOMAIN pc = Requests
      /\ UNCHANGED <<kind, backend, opened, process, pending, batch, events, disk, corrupt,
                     orphan, damaged, saving, now, reader>>
      /\ tail' \in {tail, NoTail}
      /\ gone' = gone \cup {r}
  BY DEF ConfigureFails, Goto, TrailInv, ATypeOK, queueVars
<1>2. configFile' \in BOOLEAN
  <2>1. configFile \in BOOLEAN /\ (configFile' = configFile \/ configFile' \in {configFile, TRUE})
    BY DEF ConfigureFails, TrailInv, ATypeOK
  <2>2. QED
    BY <2>1
<1>3. ATypeOK' /\ OwnEventLast' /\ FileSound'
  <2>1. tail' \in Tails
    BY <1>1 DEF TrailInv, ATypeOK, Tails
  <2>2. ATypeOK'
    BY <1>1, <1>2, <2>1 DEF TrailInv, ATypeOK
  <2>3. QED
    BY <2>2, <1>1 DEF TrailInv, OwnEventLast, FileSound, ListedIsDurable
<1>4. \A e \in Requests : /\ Own(e)' => Own(e)
                          /\ Own(e) => Own(e)' \/ e \in gone'
                          /\ Queued(e)' <=> Queued(e)
  BY <1>1 DEF Own, Queued
<1>5. \A q, e \in Requests : /\ Inserting(q, e)' <=> Inserting(q, e)
                             /\ Members(batch[q])' = Members(batch[q])
  BY <1>1 DEF Inserting
<1>6. Injective(pending)' /\ \A q \in Requests : Injective(batch[q])'
  BY <1>1 DEF TrailInv, EachInOnePlace
<1>7. Written' \subseteq Written
  BY <1>1, WrittenTyped DEF TrailInv, Written, NoTail
<1>8. \A d \in Written \ events : d.event \in gone
  BY DEF TrailInv, NoneForgotten
<1>9. /\ events' \cup Written' \subseteq events \cup Written /\ gone \subseteq gone'
      /\ \A d \in (events \cup Written) \ (events' \cup Written') : d.event \in gone'
      /\ \A d \in Written' \ events' : d.event \in gone'
  BY <1>1, <1>7, <1>8
<1>10. EachInOnePlace' /\ NoneForgotten' /\ NoneWaitsAgain
  BY <1>4, <1>5, <1>6, <1>9, SomeLeave
<1>11. QED
  BY <1>3, <1>10 DEF TrailInv

LEMMA FlushTakeKeeps ==
    ASSUME TrailInv, NEW r \in Requests, FlushTake(r)
    PROVE  TrailInv' /\ NoneWaitsAgain
<1>1. /\ pc[r] = "take" /\ pc' = [pc EXCEPT ![r] = "save"] /\ DOMAIN pc = Requests
      /\ batch' = [batch EXCEPT ![r] = pending] /\ DOMAIN batch = Requests
      /\ pending' = <<>> /\ batch[r] = <<>>
      /\ UNCHANGED <<kind, configFile, backend, opened, process, storeVars,
                     saving, gone, now, reader>>
      /\ UNCHANGED <<events, Written>>
  BY DEF FlushTake, Take, Goto, TrailInv, ATypeOK, processVars, storeVars, Written
<1>2. ATypeOK' /\ OwnEventLast' /\ FileSound'
  <2>1. ATypeOK'
    BY <1>1 DEF TrailInv, ATypeOK, storeVars
  <2>2. QED
    BY <2>1, <1>1 DEF TrailInv, OwnEventLast, FileSound, ListedIsDurable, storeVars
<1>3. \A e \in Requests :
         /\ (Own(e)' <=> Own(e)) /\ ~Queued(e)' /\ (Stored(e)' <=> Stored(e))
         /\ e \in Members(batch[r])' <=> Queued(e)
         /\ \A q \in Requests : Inserting(q, e)' <=> Inserting(q, e)
         /\ \A q \in Requests : q # r => Members(batch[q])' = Members(batch[q])
         /\ e \notin Members(batch[r])
  BY <1>1, MembersOfEmpty DEF Own, Queued, Stored, Inserting
<1>4. \A e \in Requests : Batched(e)' <=> Batched(e) \/ Queued(e)
  BY <1>3 DEF Batched
<1>5. EachInOnePlace'
  <2>1. ASSUME NEW e \in Requests
        PROVE  OneEach(e)'
    <3>1. OneEach(e)
      BY DEF TrailInv, EachInOnePlace
    <3>2. \A q, p \in Requests : e \in Members(batch[q])' /\ e \in Members(batch[p])' => q = p
      BY <3>1, <1>3 DEF OneEach, Batched
    <3>3. QED
      BY <3>1, <3>2, <1>1, <1>3, <1>4 DEF OneEach
  <2>2. Injective(pending)' /\ \A q \in Requests : Injective(batch[q])'
    BY <1>1, MembersOfEmpty DEF TrailInv, EachInOnePlace
  <2>3. QED
    BY <2>1, <2>2 DEF EachInOnePlace
<1>6. NoneForgotten'
  BY <1>1, <1>3, <1>4 DEF TrailInv, NoneForgotten, Accounted
<1>7. NoneWaitsAgain
  BY <1>3, <1>4 DEF NoneWaitsAgain, Waiting
<1>8. QED
  BY <1>2, <1>5, <1>6, <1>7 DEF TrailInv

LEMMA PutBackKeeps ==
    ASSUME TrailInv, NEW r \in Requests, PutBack(r)
    PROVE  TrailInv' /\ NoneWaitsAgain
<1>1. /\ pc[r] = "putBack" /\ pc' = [pc EXCEPT ![r] = "save"] /\ DOMAIN pc = Requests
      /\ batch' = [batch EXCEPT ![r] = <<>>] /\ DOMAIN batch = Requests
      /\ pending' = batch[r] \o pending
      /\ batch[r] \in Seq(Requests) /\ pending \in Seq(Requests)
      /\ UNCHANGED <<kind, configFile, backend, opened, process, storeVars,
                     saving, gone, now, reader>>
      /\ UNCHANGED <<events, Written>>
  BY DEF PutBack, Goto, TrailInv, ATypeOK, processVars, storeVars, Written
<1>2. ATypeOK' /\ OwnEventLast' /\ FileSound'
  <2>1. pending' \in Seq(Requests)
    BY <1>1, ConcatProperties
  <2>2. batch' \in [Requests -> Seq(Requests)]
    BY <1>1 DEF TrailInv, ATypeOK
  <2>3. ATypeOK'
    BY <1>1, <2>1, <2>2 DEF TrailInv, ATypeOK, storeVars
  <2>4. QED
    BY <2>3, <1>1 DEF TrailInv, OwnEventLast, FileSound, ListedIsDurable, storeVars
<1>3. Members(pending') = Members(batch[r]) \cup Members(pending)
  BY <1>1, MembersOfConcat
<1>4. \A e \in Requests :
         /\ (Own(e)' <=> Own(e)) /\ (Stored(e)' <=> Stored(e))
         /\ Queued(e)' <=> Queued(e) \/ e \in Members(batch[r])
         /\ e \notin Members(batch[r])'
         /\ \A q \in Requests : Inserting(q, e)' <=> Inserting(q, e)
         /\ \A q \in Requests : q # r => Members(batch[q])' = Members(batch[q])
  BY <1>1, <1>3, MembersOfEmpty DEF Own, Queued, Stored, Inserting
<1>5. \A e \in Requests : /\ Batched(e) <=> Batched(e)' \/ e \in Members(batch[r])
                          /\ OneEach(e)
                          /\ e \in Members(batch[r]) => ~Batched(e)'
  BY <1>4 DEF Batched, TrailInv, EachInOnePlace, OneEach
<1>6. EachInOnePlace'
  <2>1. ASSUME NEW e \in Requests
        PROVE  OneEach(e)'
    <3>2. \A q, p \in Requests : e \in Members(batch[q])' /\ e \in Members(batch[p])' => q = p
      BY <1>5, <1>4 DEF OneEach
    <3>3. QED
      BY <3>2, <1>1, <1>5, <1>4 DEF OneEach
  <2>2. \A e \in Members(batch[r]) : e \notin Members(pending)
    <3>1. SUFFICES ASSUME NEW e \in Members(batch[r])
                   PROVE  ~Queued(e)
      BY DEF Queued
    <3>2. e \in Requests
      BY <1>1, MembersTyped
    <3>3. QED
      BY <3>1, <3>2, <1>5 DEF OneEach
  <2>3. Injective(pending)' /\ \A q \in Requests : Injective(batch[q])'
    <3>1. Injective(pending) /\ \A q \in Requests : Injective(batch[q])
      BY DEF TrailInv, EachInOnePlace
    <3>2. QED
      BY <3>1, <2>2, <1>1, MembersOfEmpty, MembersOfConcat
  <2>4. QED
    BY <2>1, <2>3 DEF EachInOnePlace
<1>7. NoneForgotten'
  BY <1>1, <1>4, <1>5 DEF TrailInv, NoneForgotten, Accounted
<1>8. NoneWaitsAgain
  BY <1>4, <1>5 DEF NoneWaitsAgain, Waiting
<1>9. QED
  BY <1>2, <1>6, <1>7, <1>8 DEF TrailInv

LEMMA QueueKeeps ==
    ASSUME TrailInv, NEW r \in Requests, Queue(r)
    PROVE  TrailInv' /\ NoneWaitsAgain
<1>1. /\ pc[r] = "queue" /\ pc' = [pc EXCEPT ![r] = "ended"] /\ DOMAIN pc = Requests
      /\ pending \in Seq(Requests) /\ pending' = Append(Trimmed(pending), r)
      /\ gone' = gone \cup (Members(pending) \ Members(pending'))
      /\ UNCHANGED <<kind, configFile, backend, opened, process, batch, storeVars,
                     saving, now, reader>>
      /\ UNCHANGED <<events, Written>>
  BY DEF Queue, Goto, TrailInv, ATypeOK, processVars, storeVars, Written
<1>2. /\ Members(pending') = Members(Trimmed(pending)) \cup {r}
      /\ Members(Trimmed(pending)) \subseteq Members(pending)
      /\ pending' \in Seq(Requests)
  <2>1. Trimmed(pending) \in Seq(Requests) /\ Members(Trimmed(pending)) \subseteq Members(pending)
    BY <1>1, TrimmedProperties
  <2>2. QED
    BY <2>1, <1>1, MembersOfAppend, AppendProperties
<1>3. \A e \in Requests : OneEach(e)
  BY DEF TrailInv, EachInOnePlace
<1>4. Own(r) /\ ~Queued(r) /\ ~Own(r)'
  BY <1>1, <1>3 DEF Own, OneEach
<1>5. ATypeOK' /\ OwnEventLast' /\ FileSound'
  <2>1. gone' \subseteq Requests
    BY <1>1, MembersTyped DEF TrailInv, ATypeOK
  <2>2. ATypeOK'
    BY <1>1, <1>2, <2>1 DEF TrailInv, ATypeOK, storeVars
  <2>3. QED
    BY <2>2, <1>1 DEF TrailInv, OwnEventLast, FileSound, ListedIsDurable, storeVars
<1>6. \A e \in Requests :
         /\ Own(e)' <=> Own(e) /\ e # r
         /\ Stored(e)' <=> Stored(e)
         /\ Batched(e)' <=> Batched(e)
         /\ Queued(e)' => Queued(e) \/ e = r
         /\ Queued(e) => Queued(e)' \/ e \in gone'
         /\ Queued(r)'
         /\ \A q \in Requests : Inserting(q, e)' <=> Inserting(q, e)
         /\ \A q \in Requests : Members(batch[q])' = Members(batch[q])
  <2>1. \A e \in Requests : Own(e)' <=> Own(e) /\ e # r
    BY <1>1, <1>4 DEF Own
  <2>2. \A e \in Requests : \A q \in Requests : Inserting(q, e)' <=> Inserting(q, e)
    BY <1>1 DEF Inserting
  <2>3. QED
    BY <2>1, <2>2, <1>1, <1>2 DEF Queued, Stored, Batched
<1>7. EachInOnePlace'
  <2>1. ASSUME NEW e \in Requests
        PROVE  OneEach(e)'
    <3>1. OneEach(e)
      BY <1>3
    <3>2. QED
      BY <3>1, <1>1, <1>4, <1>6 DEF OneEach
  <2>2. Injective(pending)'
    <3>1. Injective(Trimmed(pending)) /\ Trimmed(pending) \in Seq(Requests)
      BY <1>1, TrimmedProperties DEF TrailInv, EachInOnePlace
    <3>2. r \notin Members(Trimmed(pending))
      BY <1>2, <1>4 DEF Queued
    <3>3. QED
      BY <3>1, <3>2, <1>1, MembersOfAppend
  <2>3. QED
    BY <2>1, <2>2, <1>1 DEF TrailInv, EachInOnePlace
<1>8. NoneForgotten'
  <2>1. ASSUME NEW e \in Requests
        PROVE  Accounted(e)'
    <3>1. Accounted(e) /\ gone \subseteq gone'
      BY <1>1 DEF TrailInv, NoneForgotten
    <3>2. QED
      BY <3>1, <1>6 DEF Accounted
  <2>2. \A d \in Written' \ events' : d.event \in gone'
    BY <1>1 DEF TrailInv, NoneForgotten
  <2>3. QED
    BY <2>1, <2>2 DEF NoneForgotten
<1>9. NoneWaitsAgain
  BY <1>4, <1>6 DEF NoneWaitsAgain, Waiting
<1>10. QED
  BY <1>5, <1>7, <1>8, <1>9 DEF TrailInv

(* A new id is a number no row has.                                         *)
LEMMA NewAuditIDFresh ==
    ASSUME NEW id \in NewAuditIDs
    PROVE  id \in Nat /\ \A d \in Rows : d.id # id
<1>1. Cardinality(Requests) \in Nat
  BY FS_CardinalityType
<1>2. QED
  BY <1>1 DEF NewAuditIDs, Rows

LEMMA SaveAuditBeginKeeps ==
    ASSUME TrailInv, NEW r \in Requests, SaveAuditBegin(r)
    PROVE  TrailInv' /\ NoneWaitsAgain
<1>0. PICK x \in Requests : x = Event(r)
  <2>1. batch[r] \in Seq(Requests)
    BY DEF TrailInv, ATypeOK
  <2>2. Event(r) \in Requests
    BY <2>1, MembersOfTail DEF Event
  <2>3. QED
    BY <2>2
<1>1. PICK id \in NewAuditIDs :
         saving' = [saving EXCEPT ![r] = [row |-> [event |-> Event(r), id |-> id, at |-> now],
                                          store |-> backend]]
  BY DEF SaveAuditBegin
<1>2. /\ pc[r] = "save" /\ pc' = [pc EXCEPT ![r] = "insert"] /\ DOMAIN pc = Requests
      /\ batch' = [batch EXCEPT ![r] = IF batch[r] = <<>> THEN batch[r] ELSE Tail(batch[r])]
      /\ batch \in [Requests -> Seq(Requests)] /\ batch[r] \in Seq(Requests)
      /\ DOMAIN saving = Requests /\ Own(r)
      /\ UNCHANGED <<kind, configFile, backend, opened, process, pending, storeVars,
                     gone, now, reader>>
      /\ UNCHANGED <<events, Written>>
  BY DEF SaveAuditBegin, Goto, TrailInv, ATypeOK, processVars, storeVars, Own, Written
<1>3. \A e \in Requests : OneEach(e)
  BY DEF TrailInv, EachInOnePlace
<1>4. /\ x \in Requests /\ batch'[r] \in Seq(Requests)
      /\ Injective(batch'[r]) /\ x \notin Members(batch'[r])
      /\ Members(batch'[r]) \subseteq Members(batch[r])
      /\ Members(batch[r]) \subseteq Members(batch'[r]) \cup {x}
      /\ IF batch[r] = <<>> THEN x = r /\ batch'[r] = <<>> ELSE x \in Members(batch[r]) /\ x # r
  <2>1. Injective(batch[r])
    BY DEF TrailInv, EachInOnePlace
  <2>2. CASE batch[r] = <<>>
    BY <2>1, <2>2, <1>2, MembersOfEmpty, <1>0 DEF Event
  <2>3. CASE batch[r] # <<>>
    <3>1. x = Head(batch[r]) /\ batch'[r] = Tail(batch[r])
      BY <2>3, <1>2, <1>0 DEF Event
    <3>2. x \in Members(batch[r]) /\ x \in Requests
      BY <3>1, <2>3, <1>2, MembersOfTail
    <3>3. x # r
      <4>1. SUFFICES ASSUME x = r PROVE FALSE
        OBVIOUS
      <4>2. Batched(r)
        BY <4>1, <3>2 DEF Batched
      <4>3. QED
        BY <4>2, <1>2, <1>3 DEF OneEach
    <3>4. QED
      BY <2>1, <2>3, <3>1, <3>2, <3>3, <1>2, MembersOfTail
  <2>4. QED
    BY <2>2, <2>3
<1>5. /\ saving'[r].row.event = x /\ saving'[r] # Nil /\ pc'[r] = "insert"
      /\ \A q \in Requests : q # r => saving'[q] = saving[q] /\ batch'[q] = batch[q]
                                      /\ pc'[q] = pc[q]
      /\ saving' \in [Requests -> [row : Row, store : Nat] \cup {Nil}]
  <2>1. [row |-> [event |-> x, id |-> id, at |-> now], store |-> backend]
           \in [row : Row, store : Nat]
    BY <1>4, NewAuditIDFresh DEF Row, TrailInv, ATypeOK
  <2>2. QED
    BY <2>1, <1>0, <1>1, <1>2, AuditNil DEF TrailInv, ATypeOK
<1>6. ATypeOK' /\ OwnEventLast' /\ FileSound'
  <2>1. batch' \in [Requests -> Seq(Requests)]
    BY <1>2, <1>4
  <2>2. ATypeOK'
    BY <1>2, <1>5, <2>1 DEF TrailInv, ATypeOK, storeVars
  <2>3. QED
    BY <2>2, <1>2, <1>4, <1>5
       DEF TrailInv, OwnEventLast, FileSound, ListedIsDurable, storeVars
<1>7. \A e \in Requests :
         /\ Queued(e)' <=> Queued(e)
         /\ Stored(e)' <=> Stored(e)
         /\ Own(e)' <=> Own(e) /\ e # x
         /\ \A q \in Requests : Inserting(q, e)' <=> (Inserting(q, e) \/ (q = r /\ e = x))
         /\ \A q \in Requests : e \in Members(batch[q])' => e \in Members(batch[q])
         /\ \A q \in Requests : e \in Members(batch[q]) => e \in Members(batch[q])' \/ e = x
  <2>1. \A e \in Requests : (Queued(e)' <=> Queued(e)) /\ (Stored(e)' <=> Stored(e))
    BY <1>2 DEF Queued, Stored
  <2>2. ASSUME NEW e \in Requests
        PROVE  Own(e)' <=> Own(e) /\ e # x
    <3>1. CASE e = r
      <4>1. Own(r)' <=> x # r
        BY <1>5 DEF Own
      <4>2. QED
        BY <4>1, <3>1, <1>2
    <3>2. CASE e # r
      <4>1. Own(e)' <=> Own(e)
        BY <3>2, <1>5 DEF Own
      <4>2. e = x => ~Own(e)
        <5>1. e = x => Batched(e)
          BY <3>2, <1>4 DEF Batched
        <5>2. QED
          BY <5>1, <1>3 DEF OneEach
      <4>3. QED
        BY <4>1, <4>2
    <3>3. QED
      BY <3>1, <3>2
  <2>3. \A e, q \in Requests : Inserting(q, e)' <=> (Inserting(q, e) \/ (q = r /\ e = x))
    BY <1>2, <1>5 DEF Inserting
  <2>4. \A e, q \in Requests :
           /\ e \in Members(batch[q])' => e \in Members(batch[q])
           /\ e \in Members(batch[q]) => e \in Members(batch[q])' \/ e = x
    BY <1>4, <1>5
  <2>5. QED
    BY <2>1, <2>2, <2>3, <2>4
<1>8. /\ x \in Requests /\ (Own(x) \/ Batched(x)) /\ ~Batched(x)'
  <2>1. Own(x) \/ x \in Members(batch[r])
    BY <1>2, <1>4
  <2>2. \A q \in Requests : x \in Members(batch[q])' => FALSE
    <3>1. ASSUME NEW q \in Requests, x \in Members(batch[q])'
          PROVE  FALSE
      <4>1. x \in Members(batch[q]) /\ q # r
        BY <3>1, <1>4, <1>7
      <4>2. CASE x \in Members(batch[r])
        BY <4>1, <4>2, <1>3, <1>4 DEF OneEach
      <4>3. CASE Own(x)
        BY <4>1, <4>3, <1>3, <1>4 DEF OneEach, Batched
      <4>4. QED
        BY <4>2, <4>3, <2>1
    <3>2. QED
      BY <3>1
  <2>3. QED
    BY <2>1, <2>2, <1>4 DEF Batched
<1>9. \A e \in Requests : /\ Batched(e)' => Batched(e)
                          /\ Batched(e) => Batched(e)' \/ e = x
  BY <1>7 DEF Batched
<1>10. EachInOnePlace'
  <2>1. ASSUME NEW e \in Requests
        PROVE  OneEach(e)'
    <3>1. OneEach(e)
      BY <1>3
    <3>2. \A q, p \in Requests : e \in Members(batch[q])' /\ e \in Members(batch[p])' => q = p
      BY <3>1, <1>7 DEF OneEach
    <3>3. e = x => ~Queued(e) /\ ~Stored(e) /\ \A q \in Requests : ~Inserting(q, e)
      BY <3>1, <1>8 DEF OneEach
    <3>4. QED
      BY <3>1, <3>2, <3>3, <1>2, <1>7, <1>8, <1>9 DEF OneEach
  <2>2. Injective(pending)' /\ \A q \in Requests : Injective(batch[q])'
    BY <1>2, <1>4, <1>5 DEF TrailInv, EachInOnePlace
  <2>3. QED
    BY <2>1, <2>2 DEF EachInOnePlace
<1>11. NoneForgotten'
  <2>1. ASSUME NEW e \in Requests
        PROVE  Accounted(e)'
    <3>1. Accounted(e) /\ gone' = gone
      BY <1>2 DEF TrailInv, NoneForgotten
    <3>2. QED
      BY <3>1, <1>7, <1>9 DEF Accounted
  <2>2. QED
    BY <2>1, <1>2 DEF TrailInv, NoneForgotten
<1>12. NoneWaitsAgain
  BY <1>7, <1>8, <1>9 DEF NoneWaitsAgain, Waiting
<1>13. QED
  BY <1>6, <1>10, <1>11, <1>12 DEF TrailInv

(* Continue, after an insertion that failed or after a prune: the request   *)
(* keeps its own event unless that is the one it was saving.                *)
LEMMA ContinueKeeps ==
    ASSUME TrailInv, NEW r \in Requests, pc[r] \in {"insert", "prune"}, Continue(r),
           UNCHANGED <<queueVars>>
    PROVE  /\ saving' \in [Requests -> [row : Row, store : Nat] \cup {Nil}]
           /\ pc' \in [Requests -> {"ready", "take", "save", "insert", "prune",
                                    "putBack", "queue", "ended"}]
           /\ \A q \in Requests :
                 /\ saving'[q] # Nil <=> pc'[q] \in {"insert", "prune"}
                 /\ batch'[q] # <<>> => pc'[q] \in {"save", "insert", "prune", "putBack"}
           /\ process # "refused" /\ OwnEventLast'
           /\ pc'[r] # "insert"
           /\ \A e \in Requests : (Own(e)' <=> Own(e)) /\ (Queued(e)' <=> Queued(e))
           /\ \A q, e \in Requests :
                 /\ Members(batch[q])' = Members(batch[q])
                 /\ Inserting(q, e)' <=> Inserting(q, e) /\ q # r
           /\ Injective(pending)' /\ \A q \in Requests : Injective(batch[q])'
<1>1. /\ saving' = [saving EXCEPT ![r] = Nil] /\ DOMAIN saving = Requests
      /\ pc' = [pc EXCEPT ![r] = IF saving[r].row.event = r THEN "ended" ELSE "save"]
      /\ DOMAIN pc = Requests /\ UNCHANGED <<pending, batch>>
  BY DEF Continue, Goto, TrailInv, ATypeOK, queueVars
<1>2. saving' \in [Requests -> [row : Row, store : Nat] \cup {Nil}]
  BY <1>1 DEF TrailInv, ATypeOK
<1>3. /\ pc' \in [Requests -> {"ready", "take", "save", "insert", "prune",
                              "putBack", "queue", "ended"}]
      /\ pc'[r] # "insert"
  BY <1>1 DEF TrailInv, ATypeOK
<1>4. ASSUME NEW q \in Requests
      PROVE  /\ saving'[q] # Nil <=> pc'[q] \in {"insert", "prune"}
             /\ batch'[q] # <<>> => pc'[q] \in {"save", "insert", "prune", "putBack"}
  BY <1>1 DEF TrailInv, ATypeOK, OwnEventLast
<1>5. process # "refused" /\ OwnEventLast'
  BY <1>1 DEF TrailInv, ATypeOK, OwnEventLast
<1>6. \A e \in Requests : (Own(e)' <=> Own(e)) /\ (Queued(e)' <=> Queued(e))
  <2>1. \A e \in Requests : Queued(e)' <=> Queued(e)
    BY <1>1 DEF Queued
  <2>2. \A e \in Requests : Own(e)' <=> Own(e)
    BY <1>1 DEF Own
  <2>3. QED
    BY <2>1, <2>2
<1>7. \A q, e \in Requests : /\ Members(batch[q])' = Members(batch[q])
                             /\ Inserting(q, e)' <=> Inserting(q, e) /\ q # r
  BY <1>1 DEF Inserting
<1>8. Injective(pending)' /\ \A q \in Requests : Injective(batch[q])'
  BY <1>1 DEF TrailInv, EachInOnePlace
<1>9. QED
  BY <1>2, <1>3, <1>4, <1>5, <1>6, <1>7, <1>8

(* What a complete line adds, and what a file it continues may lose.        *)
LEMMA LineIsWritten ==
    ASSUME TrailInv, NEW d \in Row, WriteLine(d)
    PROVE  /\ disk' \subseteq Row /\ tail' \in Tails /\ corrupt' \in BOOLEAN
           /\ disk \subseteq disk' /\ Written' \subseteq Written \cup {d}
           /\ tail' # NoTail \/ corrupt' => tail # NoTail \/ corrupt
           /\ ~orphan /\ tail = NoTail => d \in disk'
<1>1. /\ disk \subseteq Row /\ tail \in Tails /\ corrupt \in BOOLEAN
      /\ Written \subseteq Row /\ disk \subseteq Written
      /\ tail = NoTail => Written = disk
  <2>1. disk \subseteq Row /\ tail \in Tails /\ corrupt \in BOOLEAN
    BY DEF TrailInv, ATypeOK
  <2>2. QED
    BY <2>1, WrittenTyped DEF TrailInv
<1>2. CASE UNCHANGED <<disk, tail, corrupt>> /\ orphan
  BY <1>1, <1>2 DEF Written
<1>3. CASE ~orphan /\ tail = NoTail /\ disk' = disk \cup {d} /\ UNCHANGED <<tail, corrupt>>
  <2>1. Written' = disk'
    BY <1>3 DEF Written, NoTail
  <2>2. QED
    BY <2>1, <1>1, <1>3
<1>4. CASE /\ tail # NoTail /\ tail' = NoTail
           /\ \/ disk' = Written /\ UNCHANGED corrupt
              \/ corrupt' = TRUE /\ UNCHANGED disk
  <2>1. Written' = disk' /\ NoTail \in Tails
    BY <1>4 DEF Written, NoTail, Tails
  <2>2. disk' = disk \/ disk' = Written
    BY <1>4
  <2>3. corrupt' \in BOOLEAN
    BY <1>1, <1>4
  <2>4. QED
    BY <2>1, <2>2, <2>3, <1>1, <1>4
<1>5. QED
  BY <1>2, <1>3, <1>4 DEF WriteLine

LEMMA InsertKeeps ==
    ASSUME TrailInv, NEW r \in Requests, Insert(r)
    PROVE  TrailInv' /\ NoneWaitsAgain
<1>1. /\ pc[r] = "insert" /\ pc' = [pc EXCEPT ![r] = "prune"] /\ DOMAIN pc = Requests
      /\ events' = events \cup {saving[r].row}
      /\ saving[r].row \in Row /\ WriteLine(saving[r].row)
      /\ UNCHANGED <<kind, configFile, backend, opened, process, pending, batch, orphan,
                     damaged, saving, gone, now, reader>>
  BY RequestTyped DEF Insert, Goto, TrailInv, ATypeOK, processVars, queueVars
<1>2. /\ disk' \subseteq Row /\ tail' \in Tails /\ corrupt' \in BOOLEAN
      /\ disk \subseteq disk' /\ Written' \subseteq Written \cup {saving[r].row}
      /\ tail' # NoTail \/ corrupt' => tail # NoTail \/ corrupt
      /\ ~orphan /\ tail = NoTail => saving[r].row \in disk'
  BY <1>1, LineIsWritten
<1>3. ATypeOK'
  <2>1. events' \subseteq Row
    BY <1>1 DEF TrailInv, ATypeOK
  <2>2. process # "refused"
    BY <1>1 DEF TrailInv, ATypeOK
  <2>3. QED
    BY <2>1, <2>2, <1>1, <1>2 DEF TrailInv, ATypeOK
<1>4. OwnEventLast'
  BY <1>1 DEF TrailInv, OwnEventLast
<1>5. FileSound'
  <2>1. ASSUME damaged = {}
        PROVE  ~corrupt' /\ events' \subseteq disk'
    <3>1. tail = NoTail /\ ~corrupt /\ ~orphan /\ events \subseteq disk
      BY <2>1 DEF TrailInv, FileSound, ListedIsDurable
    <3>2. QED
      BY <3>1, <1>1, <1>2
  <2>2. process # "refused"
    BY <1>1 DEF TrailInv, ATypeOK
  <2>3. QED
    BY <2>1, <2>2, <1>1, <1>2 DEF TrailInv, FileSound, ListedIsDurable
<1>6. \A e \in Requests : Own(e)' <=> Own(e)
  BY <1>1 DEF Own
<1>7. \A q, e \in Requests : q # r => (Inserting(q, e)' <=> Inserting(q, e))
  BY <1>1 DEF Inserting
<1>8. /\ \A d \in Written' \ events' : d.event \in gone'
      /\ events \subseteq events' /\ saving[r].row \in events' \cup Written'
      /\ events' \cup Written' \subseteq events \cup Written \cup {saving[r].row}
      /\ gone \subseteq gone'
  BY <1>1, <1>2 DEF TrailInv, NoneForgotten
<1>9. pc'[r] # "insert" /\ UNCHANGED queueVars
  BY <1>1 DEF queueVars
<1>10. EachInOnePlace' /\ NoneForgotten' /\ NoneWaitsAgain
  BY <1>1, <1>6, <1>7, <1>8, <1>9, OneIsStored
<1>11. QED
  BY <1>3, <1>4, <1>5, <1>10 DEF TrailInv

(* What an insertion that fails may do to the storage.                      *)
LEMMA InsertFailsSteps ==
    ASSUME TrailInv, NEW r \in Requests, InsertFails(r)
    PROVE  /\ saving[r].row \in Row
           /\ events' \subseteq Row /\ disk' \subseteq Row /\ tail' \in Tails
           /\ corrupt' \in BOOLEAN /\ orphan' = orphan
           /\ damaged' \subseteq {"append", "reopen"}
           /\ events \subseteq events'
           /\ events' \cup Written' \subseteq events \cup Written \cup {saving[r].row}
           /\ \A d \in Written' \ events' : d \in Written \ events \/ d = saving[r].row
           /\ UNCHANGED <<kind, process>> => FileSound'
<1> DEFINE row == saving[r].row
<1>0. row \in Row
  BY RequestTyped DEF InsertFails, TrailInv
<1>1. /\ events \subseteq Row /\ disk \subseteq Row /\ tail \in Tails
      /\ corrupt \in BOOLEAN /\ damaged \subseteq {"append", "reopen"}
      /\ Written \subseteq Row /\ disk \subseteq Written
      /\ tail = NoTail => Written = disk
  <2>1. /\ events \subseteq Row /\ disk \subseteq Row /\ tail \in Tails
        /\ corrupt \in BOOLEAN /\ damaged \subseteq {"append", "reopen"}
    BY DEF TrailInv, ATypeOK
  <2>2. QED
    BY <2>1, WrittenTyped DEF TrailInv
<1>2. FileSound /\ (damaged = {} => tail = NoTail /\ ~corrupt /\ ~orphan /\ events \subseteq disk)
  BY DEF TrailInv, FileSound, ListedIsDurable
<1>3. \/ UNCHANGED storeVars
      \/ WriteLine(row) /\ UNCHANGED <<events, orphan, damaged>>
      \/ /\ WritePart(row) /\ kind = "file" /\ damaged' = damaged \cup {"append"}
         /\ UNCHANGED <<events, orphan>>
      \/ /\ kind = "table" /\ disk' = disk \cup {row} /\ events' = disk'
         /\ UNCHANGED <<tail, corrupt, orphan, damaged>>
  BY DEF InsertFails, AppendFails, AnswerLost
<1> HIDE DEF row
<1>4. CASE UNCHANGED storeVars
  BY <1>0, <1>1, <1>2, <1>4 DEF storeVars, Written, FileSound, ListedIsDurable, row
<1>5. CASE WriteLine(row) /\ UNCHANGED <<events, orphan, damaged>>
  <2>1. /\ disk' \subseteq Row /\ tail' \in Tails /\ corrupt' \in BOOLEAN
        /\ disk \subseteq disk' /\ Written' \subseteq Written \cup {row}
        /\ tail' # NoTail \/ corrupt' => tail # NoTail \/ corrupt
    BY <1>0, <1>5, LineIsWritten
  <2>2. UNCHANGED <<kind, process>> => FileSound'
    <3>1. SUFFICES ASSUME UNCHANGED <<kind, process>> PROVE FileSound'
      OBVIOUS
    <3>2. process # "refused"
      BY DEF InsertFails, TrailInv, ATypeOK
    <3>3. QED
      BY <2>1, <3>1, <3>2, <1>2, <1>5 DEF FileSound, ListedIsDurable
  <2>3. QED
    BY <1>0, <1>1, <1>5, <2>1, <2>2 DEF row
<1>6. CASE /\ WritePart(row) /\ kind = "file" /\ damaged' = damaged \cup {"append"}
           /\ UNCHANGED <<events, orphan>>
  <2>1. /\ ~orphan /\ tail = NoTail /\ tail' \in {TornTail, WholeTail(row)}
        /\ UNCHANGED <<disk, corrupt>>
    BY <1>6 DEF WritePart
  <2>2. tail' \in Tails /\ Written' \subseteq disk \cup {row}
    BY <2>1, <1>0 DEF Tails, TornTail, WholeTail, Written
  <2>3. "append" \in damaged' /\ damaged' \subseteq {"append", "reopen"}
    BY <1>1, <1>6
  <2>4. UNCHANGED <<kind, process>> => FileSound'
    BY <2>1, <2>3, <1>2, <1>6 DEF FileSound, ListedIsDurable
  <2>5. QED
    BY <1>0, <1>1, <1>6, <2>1, <2>2, <2>3, <2>4 DEF row
<1>7. CASE /\ kind = "table" /\ disk' = disk \cup {row} /\ events' = disk'
           /\ UNCHANGED <<tail, corrupt, orphan, damaged>>
  <2>1. damaged = {} /\ tail = NoTail /\ ~corrupt /\ ~orphan /\ events \subseteq disk
    BY <1>2, <1>7 DEF FileSound
  <2>2. Written' = disk' /\ Written = disk
    BY <2>1, <1>7 DEF Written, NoTail
  <2>3. UNCHANGED <<kind, process>> => FileSound'
    BY <2>1, <1>2, <1>7 DEF FileSound, ListedIsDurable
  <2>4. QED
    BY <1>0, <1>1, <1>7, <2>1, <2>2, <2>3 DEF row
<1>8. QED
  BY <1>3, <1>4, <1>5, <1>6, <1>7

LEMMA InsertFailsKeeps ==
    ASSUME TrailInv, NEW r \in Requests, InsertFails(r)
    PROVE  TrailInv' /\ NoneWaitsAgain
<1>1. /\ pc[r] = "insert" /\ gone' = gone \cup {saving[r].row.event}
      /\ saving[r].row \in Row /\ saving[r].row.event \in Requests
      /\ UNCHANGED <<kind, configFile, backend, opened, process, pending, batch, now, reader>>
      /\ UNCHANGED queueVars /\ Continue(r) /\ pc[r] \in {"insert", "prune"}
  BY RequestTyped DEF InsertFails, TrailInv, ATypeOK, processVars, queueVars
<1>2. /\ events' \subseteq Row /\ disk' \subseteq Row /\ tail' \in Tails
      /\ corrupt' \in BOOLEAN /\ orphan' = orphan
      /\ damaged' \subseteq {"append", "reopen"}
      /\ events \subseteq events'
      /\ events' \cup Written' \subseteq events \cup Written \cup {saving[r].row}
      /\ \A d \in Written' \ events' : d \in Written \ events \/ d = saving[r].row
      /\ FileSound'
  BY <1>1, InsertFailsSteps
<1>3. ATypeOK' /\ OwnEventLast'
  <2>1. gone' \subseteq Requests
    BY <1>1 DEF TrailInv, ATypeOK
  <2>2. /\ saving' \in [Requests -> [row : Row, store : Nat] \cup {Nil}]
        /\ pc' \in [Requests -> {"ready", "take", "save", "insert", "prune",
                                 "putBack", "queue", "ended"}]
        /\ \A q \in Requests :
              /\ saving'[q] # Nil <=> pc'[q] \in {"insert", "prune"}
              /\ batch'[q] # <<>> => pc'[q] \in {"save", "insert", "prune", "putBack"}
        /\ process # "refused" /\ OwnEventLast'
    BY <1>1, ContinueKeeps
  <2>3. QED
    BY <1>1, <1>2, <2>1, <2>2 DEF TrailInv, ATypeOK
<1>4. \A e \in Requests : (Own(e)' <=> Own(e)) /\ (Queued(e)' <=> Queued(e))
  BY <1>1, ContinueKeeps
<1>5. \A q, e \in Requests : /\ Members(batch[q])' = Members(batch[q])
                             /\ Inserting(q, e)' <=> Inserting(q, e) /\ q # r
  BY <1>1, ContinueKeeps
<1>6. pc'[r] # "insert" /\ Injective(pending)' /\ \A q \in Requests : Injective(batch[q])'
  BY <1>1, ContinueKeeps
<1>7. \A d \in Written \ events : d.event \in gone
  BY DEF TrailInv, NoneForgotten
<1>8. gone \subseteq gone' /\ \A d \in Written' \ events' : d.event \in gone'
  BY <1>1, <1>2, <1>7
<1>9. CASE saving[r].row \in events' \cup Written'
  <2>1. EachInOnePlace' /\ NoneForgotten' /\ NoneWaitsAgain
    BY <1>1, <1>2, <1>4, <1>5, <1>6, <1>8, <1>9, OneIsStored
  <2>2. QED
    BY <2>1, <1>2, <1>3 DEF TrailInv
<1>10. CASE saving[r].row \notin events' \cup Written'
  <2>1. \A q, e \in Requests : Inserting(q, e) => Inserting(q, e)' \/ e \in gone'
    BY <1>1, <1>5 DEF Inserting
  <2>2. /\ events' \cup Written' \subseteq events \cup Written
        /\ \A d \in (events \cup Written) \ (events' \cup Written') : d.event \in gone'
    BY <1>2, <1>7, <1>8, <1>10
  <2>3. EachInOnePlace' /\ NoneForgotten' /\ NoneWaitsAgain
    BY <1>4, <1>5, <1>6, <1>8, <2>1, <2>2, SomeLeave
  <2>4. QED
    BY <2>3, <1>2, <1>3 DEF TrailInv
<1>11. QED
  BY <1>9, <1>10

(* What SavePrune may do to the storage.                                    *)
LEMMA PruneSteps ==
    ASSUME TrailInv, NEW r \in Requests, SavePrune(r)
    PROVE  LET kept == Unexpired(now)
           IN  \/ UNCHANGED <<storeVars, gone>>
               \/ /\ Renamed(kept)
                  /\ gone' = gone \cup {e.event : e \in events \ kept}
                  /\ \/ events' = kept /\ orphan' = FALSE /\ damaged' = {}
                     \/ /\ kind = "file"
                        /\ events' = events /\ orphan' = TRUE /\ damaged' = {"reopen"}
<1>1. Unexpired(now) = events =>
         gone \cup {e.event : e \in events \ Unexpired(now)} = gone
  OBVIOUS
<1>2. CASE Prune
  BY <1>1, <1>2 DEF Prune, Expire, storeVars
<1>3. CASE PruneFails
  BY <1>3 DEF PruneFails, Expire
<1>4. CASE UNCHANGED <<storeVars, gone>>
  BY <1>4
<1>5. QED
  BY <1>2, <1>3, <1>4 DEF SavePrune

LEMMA SavePruneKeeps ==
    ASSUME TrailInv, NEW r \in Requests, SavePrune(r)
    PROVE  TrailInv' /\ NoneWaitsAgain
<1> DEFINE kept == Unexpired(now)
<1>1. /\ pc[r] = "prune" /\ pc[r] \in {"insert", "prune"}
      /\ UNCHANGED <<kind, configFile, backend, opened, process, pending, batch, now, reader>>
      /\ UNCHANGED queueVars /\ Continue(r)
  BY DEF SavePrune, processVars, queueVars
<1>2. \/ /\ UNCHANGED <<events, disk, tail, corrupt, orphan, damaged, gone>>
         /\ Written' = Written
      \/ /\ disk' = kept /\ Written' = kept /\ tail' = NoTail /\ corrupt' = FALSE
         /\ gone' = gone \cup {e.event : e \in events \ kept}
         /\ \/ events' = kept /\ orphan' = FALSE /\ damaged' = {}
            \/ /\ kind = "file"
               /\ events' = events /\ orphan' = TRUE /\ damaged' = {"reopen"}
  <2>1. CASE UNCHANGED <<storeVars, gone>>
    BY <2>1 DEF storeVars, Written
  <2>2. ASSUME Renamed(kept)
        PROVE  disk' = kept /\ Written' = kept /\ tail' = NoTail /\ corrupt' = FALSE
    BY <2>2 DEF Renamed, Written, NoTail
  <2>3. QED
    BY <2>1, <2>2, PruneSteps
<1>3. kept \subseteq events /\ events \subseteq Row /\ disk \subseteq Row
      /\ gone \subseteq Requests /\ \A d \in Row : d.event \in Requests
  BY DEF TrailInv, ATypeOK, Unexpired, Row
<1> HIDE DEF kept
<1>4. process # "refused"
  BY <1>1 DEF TrailInv, ATypeOK
<1>5. FileSound'
  BY <1>1, <1>2, <1>4 DEF TrailInv, FileSound, ListedIsDurable
<1>6. ATypeOK' /\ OwnEventLast'
  <2>1. /\ events' \subseteq Row /\ disk' \subseteq Row /\ gone' \subseteq Requests
        /\ tail' \in Tails /\ corrupt' \in BOOLEAN /\ orphan' \in BOOLEAN
        /\ damaged' \subseteq {"append", "reopen"}
    <3>1. /\ events \subseteq Row /\ disk \subseteq Row /\ tail \in Tails
          /\ corrupt \in BOOLEAN /\ orphan \in BOOLEAN
          /\ damaged \subseteq {"append", "reopen"}
      BY DEF TrailInv, ATypeOK
    <3>2. NoTail \in Tails
      BY DEF Tails
    <3>3. events' \subseteq Row /\ disk' \subseteq Row /\ gone' \subseteq Requests
      BY <3>1, <1>2, <1>3
    <3>4. /\ tail' \in Tails /\ corrupt' \in BOOLEAN /\ orphan' \in BOOLEAN
          /\ damaged' \subseteq {"append", "reopen"}
      BY <3>1, <3>2, <1>2
    <3>5. QED
      BY <3>3, <3>4
  <2>2. /\ saving' \in [Requests -> [row : Row, store : Nat] \cup {Nil}]
        /\ pc' \in [Requests -> {"ready", "take", "save", "insert", "prune",
                                 "putBack", "queue", "ended"}]
        /\ \A q \in Requests :
              /\ saving'[q] # Nil <=> pc'[q] \in {"insert", "prune"}
              /\ batch'[q] # <<>> => pc'[q] \in {"save", "insert", "prune", "putBack"}
        /\ OwnEventLast'
    BY <1>1, ContinueKeeps
  <2>3. QED
    BY <1>1, <1>4, <2>1, <2>2 DEF TrailInv, ATypeOK
<1>7. \A e \in Requests : (Own(e)' <=> Own(e)) /\ (Queued(e)' <=> Queued(e))
  BY <1>1, ContinueKeeps
<1>8. \A q, e \in Requests : /\ Members(batch[q])' = Members(batch[q])
                             /\ Inserting(q, e)' <=> Inserting(q, e)
  <2>1. \A q, e \in Requests : /\ Members(batch[q])' = Members(batch[q])
                               /\ Inserting(q, e)' <=> Inserting(q, e) /\ q # r
    BY <1>1, ContinueKeeps
  <2>2. \A e \in Requests : ~Inserting(r, e)
    BY <1>1 DEF Inserting
  <2>3. QED
    BY <2>1, <2>2
<1>9. Injective(pending)' /\ \A q \in Requests : Injective(batch[q])'
  BY <1>1, ContinueKeeps
<1>10. \A d \in Written \ events : d.event \in gone
  BY DEF TrailInv, NoneForgotten
<1>11. /\ events' \cup Written' \subseteq events \cup Written /\ gone \subseteq gone'
       /\ \A d \in (events \cup Written) \ (events' \cup Written') : d.event \in gone'
       /\ \A d \in Written' \ events' : d.event \in gone'
  BY <1>2, <1>3, <1>10
<1>12. EachInOnePlace' /\ NoneForgotten' /\ NoneWaitsAgain
  BY <1>7, <1>8, <1>9, <1>11, SomeLeave
<1>13. QED
  BY <1>5, <1>6, <1>12 DEF TrailInv

(* Which events end with the process.                                       *)
LEMMA UnsavedEvents ==
    ASSUME NEW e
    PROVE  e \in Unsaved <=> \/ Queued(e)
                             \/ \E r \in Requests : e \in Members(batch[r])
                             \/ e \in Requests /\ pc[e] \notin {"ready", "ended"}
                             \/ \E r \in Requests : saving[r] # Nil /\ e = saving[r].row.event
<1>1. e \in UNION {Members(batch[r]) : r \in Requests}
         <=> \E r \in Requests : e \in Members(batch[r])
  OBVIOUS
<1>2. e \in {saving[r].row.event : r \in {q \in Requests : saving[q] # Nil}}
         <=> \E r \in Requests : saving[r] # Nil /\ e = saving[r].row.event
  OBVIOUS
<1>3. e \in {r \in Requests : pc[r] \notin {"ready", "ended"}}
         <=> e \in Requests /\ pc[e] \notin {"ready", "ended"}
  OBVIOUS
<1>4. e \in Unsaved <=>
         \/ e \in Members(pending)
         \/ e \in UNION {Members(batch[r]) : r \in Requests}
         \/ e \in {r \in Requests : pc[r] \notin {"ready", "ended"}}
         \/ e \in {saving[r].row.event : r \in {q \in Requests : saving[q] # Nil}}
  BY DEF Unsaved
<1>5. Queued(e) <=> e \in Members(pending)
  BY DEF Queued
<1>6. QED
  BY <1>1, <1>2, <1>3, <1>4, <1>5

(* Nothing is queued or under way in a process that begins.                 *)
LEMMA EmptyProcessTyped ==
    /\ <<>> \in Seq(Requests)
    /\ [r \in Requests |-> <<>>] \in [Requests -> Seq(Requests)]
    /\ [r \in Requests |-> Nil] \in [Requests -> [row : Row, store : Nat] \cup {Nil}]
<1>1. <<>> \in Seq(Requests)
  OBVIOUS
<1>2. QED
  BY <1>1, Zenon

(* The process ends: what its requests held is gone.                        *)
LEMMA ProcessEndsKeeps ==
    ASSUME TrailInv, ProcessEnds, gone \cup Unsaved \subseteq gone',
           events' \cup Written' \subseteq events \cup Written,
           \A d \in (events \cup Written) \ (events' \cup Written') : d.event \in gone',
           \A d \in Written' \ events' : d.event \in gone'
    PROVE  EachInOnePlace' /\ NoneForgotten' /\ NoneWaitsAgain
<1>1. /\ pc' = [r \in Requests |-> IF pc[r] = "ready" THEN "ready" ELSE "ended"]
      /\ pending' = <<>> /\ batch' = [r \in Requests |-> <<>>]
      /\ saving' = [r \in Requests |-> Nil]
  BY DEF ProcessEnds
<1>6. \A e \in Requests : /\ Own(e)' => Own(e)
                          /\ Own(e) => Own(e)' \/ e \in gone'
                          /\ ~Queued(e)'
                          /\ Queued(e) => e \in gone'
  <2>1. \A e \in Requests : Own(e)' => Own(e)
    BY <1>1 DEF Own
  <2>2. \A e \in Requests : Own(e) => Own(e)' \/ e \in Unsaved
    <3>1. \A e \in Requests : Own(e) /\ ~Own(e)' => pc[e] \notin {"ready", "ended"}
      BY <1>1 DEF Own
    <3>2. QED
      BY <3>1, UnsavedEvents
  <2>3. \A e \in Requests : ~Queued(e)' /\ (Queued(e) => e \in Unsaved)
    <3>1. \A e \in Requests : ~Queued(e)'
      BY <1>1, MembersOfEmpty DEF Queued
    <3>2. QED
      BY <3>1, UnsavedEvents
  <2>4. QED
    BY <2>1, <2>2, <2>3
<1>7. \A q, e \in Requests : /\ e \notin Members(batch[q])'
                             /\ e \in Members(batch[q]) => e \in gone'
                             /\ ~Inserting(q, e)'
                             /\ Inserting(q, e) => e \in gone'
  <2>1. \A q, e \in Requests : e \notin Members(batch[q])' /\ ~Inserting(q, e)'
    BY <1>1, MembersOfEmpty DEF Inserting
  <2>2. \A q, e \in Requests : e \in Members(batch[q]) => e \in Unsaved
    BY UnsavedEvents
  <2>3. ASSUME NEW q \in Requests, NEW e \in Requests, Inserting(q, e)
        PROVE  e \in Unsaved
    <3>1. saving[q] # Nil /\ saving[q].row.event = e
      BY <2>3, RequestTyped DEF Inserting, TrailInv
    <3>2. QED
      BY <3>1, UnsavedEvents
  <2>4. QED
    BY <2>1, <2>2, <2>3
<1>8. Injective(pending)' /\ \A q \in Requests : Injective(batch[q])'
  BY <1>1, MembersOfEmpty
<1>9. gone \subseteq gone'
  OBVIOUS
<1>10. QED
  BY <1>6, <1>7, <1>8, <1>9, SomeLeave

LEMMA ProcessEndsTyped ==
    ASSUME TrailInv, ProcessEnds
    PROVE  /\ Unsaved \subseteq Requests
           /\ pc' \in [Requests -> {"ready", "take", "save", "insert", "prune",
                                    "putBack", "queue", "ended"}]
           /\ pending' \in Seq(Requests) /\ batch' \in [Requests -> Seq(Requests)]
           /\ saving' \in [Requests -> [row : Row, store : Nat] \cup {Nil}]
           /\ \A r \in Requests :
                 /\ saving'[r] # Nil <=> pc'[r] \in {"insert", "prune"}
                 /\ batch'[r] # <<>> => pc'[r] \in {"save", "insert", "prune", "putBack"}
                 /\ pc'[r] \in {"ready", "ended"}
           /\ OwnEventLast'
<1>1. /\ pc' = [r \in Requests |-> IF pc[r] = "ready" THEN "ready" ELSE "ended"]
      /\ pending' = <<>> /\ batch' = [r \in Requests |-> <<>>]
      /\ saving' = [r \in Requests |-> Nil]
  BY DEF ProcessEnds
<1>2. Unsaved \subseteq Requests
  <2>1. \A r \in Requests : /\ Members(batch[r]) \subseteq Requests
                            /\ saving[r] # Nil => saving[r].row.event \in Requests
    BY RequestTyped, MembersTyped DEF TrailInv
  <2>2. Members(pending) \subseteq Requests
    BY MembersTyped DEF TrailInv, ATypeOK
  <2>3. ASSUME NEW e \in Unsaved
        PROVE  e \in Requests
    BY <2>1, <2>2, <2>3, UnsavedEvents DEF Queued
  <2>4. QED
    BY <2>3
<1>3. /\ pending' \in Seq(Requests) /\ batch' \in [Requests -> Seq(Requests)]
      /\ saving' \in [Requests -> [row : Row, store : Nat] \cup {Nil}]
  BY <1>1, EmptyProcessTyped
<1>4. QED
  BY <1>1, <1>2, <1>3 DEF OwnEventLast

LEMMA RestartKeeps ==
    ASSUME TrailInv, Restart
    PROVE  TrailInv' /\ NoneWaitsAgain
<1> DEFINE loaded == {e \in disk : e.at + Days >= now}
<1>1. /\ events' = loaded /\ disk' = loaded /\ tail' = NoTail /\ orphan' = FALSE
      /\ damaged' = {} /\ ~corrupt /\ corrupt' = corrupt /\ process' = "up"
      /\ gone' = gone \cup Unsaved \cup {e.event : e \in (events \cup disk) \ loaded}
      /\ UNCHANGED <<kind, configFile, now, reader>> /\ ProcessEnds
  BY DEF Restart, Open, ProcessEnds
<1>2. backend' \in Nat /\ opened' \in Nat /\ backend' <= opened'
  BY DEF Restart
<1>3. loaded \subseteq disk /\ events \subseteq Row /\ disk \subseteq Row
      /\ gone \subseteq Requests /\ \A d \in Row : d.event \in Requests
  BY DEF TrailInv, ATypeOK, Row
<1> HIDE DEF loaded
<1>4. ATypeOK' /\ OwnEventLast'
  <2>1. gone' \subseteq Requests
    <3>1. {e.event : e \in (events \cup disk) \ loaded} \subseteq Requests
      BY <1>3
    <3>2. QED
      BY <3>1, <1>1, <1>3, ProcessEndsTyped
  <2>2. /\ events' \subseteq Row /\ disk' \subseteq Row /\ tail' \in Tails
        /\ orphan' \in BOOLEAN /\ damaged' \subseteq {"append", "reopen"}
    BY <1>1, <1>3 DEF Tails
  <2>3. QED
    BY <1>1, <1>2, <2>1, <2>2, ProcessEndsTyped DEF TrailInv, ATypeOK
<1>5. FileSound'
  BY <1>1 DEF FileSound, ListedIsDurable
<1>6. Written' = loaded /\ disk \subseteq Written
  BY <1>1, WrittenTyped DEF TrailInv, Written, NoTail
<1>7. \A d \in Written \ events : d.event \in gone
  BY DEF TrailInv, NoneForgotten
<1>8. /\ events' \cup Written' \subseteq events \cup Written
      /\ \A d \in (events \cup Written) \ (events' \cup Written') : d.event \in gone'
      /\ \A d \in Written' \ events' : d.event \in gone'
      /\ gone \cup Unsaved \subseteq gone'
  BY <1>1, <1>3, <1>6, <1>7
<1>9. QED
  BY <1>1, <1>4, <1>5, <1>8, ProcessEndsKeeps DEF TrailInv

(* The list is empty then, and all it showed is gone.                       *)
LEMMA StartRefusedKeeps ==
    ASSUME TrailInv, StartRefused
    PROVE  TrailInv' /\ NoneWaitsAgain
<1>1. /\ events' = {} /\ UNCHANGED <<disk, tail, corrupt, orphan, damaged>>
      /\ corrupt /\ process' = "refused" /\ backend' = 0 /\ opened' = 0
      /\ gone' = gone \cup Unsaved \cup {e.event : e \in events}
      /\ UNCHANGED <<kind, configFile, now, reader>> /\ ProcessEnds
  BY DEF StartRefused, ProcessEnds
<1>2. events \subseteq Row /\ gone \subseteq Requests /\ \A d \in Row : d.event \in Requests
  BY DEF TrailInv, ATypeOK, Row
<1>3. ATypeOK' /\ OwnEventLast'
  <2>1. gone' \subseteq Requests
    <3>1. {e.event : e \in events} \subseteq Requests
      BY <1>2
    <3>2. QED
      BY <3>1, <1>1, <1>2, ProcessEndsTyped
  <2>2. backend' \in Nat /\ opened' \in Nat /\ backend' <= opened'
    BY <1>1
  <2>3. QED
    BY <1>1, <2>1, <2>2, ProcessEndsTyped DEF TrailInv, ATypeOK
<1>4. FileSound'
  BY <1>1 DEF TrailInv, FileSound, ListedIsDurable
<1>5. Written' = Written
  BY <1>1 DEF Written
<1>6. \A d \in Written \ events : d.event \in gone
  BY DEF TrailInv, NoneForgotten
<1>7. /\ events' \cup Written' \subseteq events \cup Written
      /\ \A d \in (events \cup Written) \ (events' \cup Written') : d.event \in gone'
      /\ \A d \in Written' \ events' : d.event \in gone'
      /\ gone \cup Unsaved \subseteq gone'
  BY <1>1, <1>5, <1>6
<1>8. QED
  BY <1>1, <1>3, <1>4, <1>7, ProcessEndsKeeps DEF TrailInv

LEMMA InitTrail ==
    ASSUME AInit
    PROVE  TrailInv
<1>1. ATypeOK /\ OwnEventLast /\ FileSound
  <2>1. /\ pending \in Seq(Requests) /\ batch \in [Requests -> Seq(Requests)]
        /\ saving \in [Requests -> [row : Row, store : Nat] \cup {Nil}]
    BY EmptyProcessTyped DEF AInit
  <2>2. \A r \in Requests :
           /\ saving[r] # Nil <=> pc[r] \in {"insert", "prune"}
           /\ batch[r] # <<>> => pc[r] \in {"save", "insert", "prune", "putBack"}
    BY DEF AInit
  <2>3. /\ pc \in [Requests -> {"ready", "take", "save", "insert", "prune",
                               "putBack", "queue", "ended"}]
        /\ reader \in ReaderTypes
    BY DEF AInit, NoReader, ReaderTypes
  <2>4. /\ kind \in {"file", "table"} /\ configFile \in BOOLEAN /\ process = "up"
        /\ corrupt \in BOOLEAN /\ orphan \in BOOLEAN /\ tail \in Tails
        /\ damaged \subseteq {"append", "reopen"}
        /\ events \subseteq Row /\ disk \subseteq Row /\ gone \subseteq Requests
        /\ backend \in Nat /\ opened \in Nat /\ backend <= opened /\ now \in Nat
    <3>1. /\ kind \in {"file", "table"} /\ configFile = FALSE /\ process = "up"
          /\ orphan = FALSE /\ corrupt = FALSE /\ tail = NoTail /\ damaged = {}
          /\ events = {} /\ disk = {} /\ gone = {}
          /\ backend = 0 /\ opened = 0 /\ now = 0
      BY DEF AInit
    <3>2. configFile \in BOOLEAN /\ corrupt \in BOOLEAN /\ orphan \in BOOLEAN /\ tail \in Tails
      BY <3>1 DEF Tails
    <3>3. backend \in Nat /\ opened \in Nat /\ backend <= opened /\ now \in Nat
      BY <3>1
    <3>4. events \subseteq Row /\ disk \subseteq Row /\ gone \subseteq Requests
      BY <3>1
    <3>5. QED
      BY <3>1, <3>2, <3>3, <3>4
  <2>5. ATypeOK
    BY <2>1, <2>2, <2>3, <2>4 DEF ATypeOK, ReaderTypes
  <2>6. QED
    BY <2>5 DEF AInit, OwnEventLast, FileSound, ListedIsDurable
<1>2. \A e \in Requests : /\ Own(e) /\ ~Queued(e) /\ ~Batched(e) /\ ~Stored(e)
                          /\ \A q \in Requests : ~Inserting(q, e) /\ e \notin Members(batch[q])
  BY MembersOfEmpty DEF AInit, Own, Queued, Batched, Stored, Written, NoTail, Inserting
<1>3. EachInOnePlace
  <2>1. \A e \in Requests : OneEach(e)
    BY <1>2 DEF OneEach, Written, NoTail, AInit
  <2>2. QED
    BY <2>1, MembersOfEmpty DEF EachInOnePlace, AInit
<1>4. NoneForgotten
  BY <1>2 DEF NoneForgotten, Accounted, Written, NoTail, AInit
<1>5. QED
  BY <1>1, <1>3, <1>4 DEF TrailInv

LEMMA NextTrail ==
    ASSUME TrailInv, [ANext]_auditVars
    PROVE  TrailInv' /\ NoneWaitsAgain
<1>1. CASE UNCHANGED auditVars
  <2>1. UNCHANGED <<kind, configFile, backend, opened, process, queueVars, pending, batch,
                    storeVars, events, Written, pc, saving, gone, now, reader>>
    BY <1>1 DEF auditVars, Written, processVars, queueVars, storeVars
  <2>2. ATypeOK' /\ OwnEventLast' /\ FileSound'
    BY <2>1 DEF TrailInv, ATypeOK, OwnEventLast, FileSound, ListedIsDurable, storeVars
  <2>3. /\ \A e \in Requests : Own(e)' <=> Own(e)
        /\ \A q, e \in Requests : Inserting(q, e)' <=> Inserting(q, e)
    BY <2>1 DEF Own, Inserting
  <2>4. QED
    BY <2>1, <2>2, <2>3, NothingMoves DEF TrailInv
<1>2. CASE ANext
  BY <1>2, RecordAuditKeeps, ConfigureKeeps, ConfigureFailsKeeps, FlushTakeKeeps,
     SaveAuditBeginKeeps, SaveAuditNotSetupKeeps, InsertKeeps, InsertFailsKeeps,
     SavePruneKeeps, QueueKeeps, PutBackKeeps, CloseKeeps, RestartKeeps, StartRefusedKeeps,
     ListKeeps
     DEF ANext
<1>3. QED
  BY <1>1, <1>2

(* The inductive invariant of the places: every event is in one of them, or *)
(* gone.                                                                    *)
THEOREM TrailInvariant == ASpec => []TrailInv
  BY InitTrail, NextTrail, PTL DEF ASpec

(* The types, and what a request may hold at which step.                    *)
THEOREM AuditTypes == ASpec => []ATypeOK
<1>1. TrailInv => ATypeOK
  BY DEF TrailInv
<1>2. QED
  BY <1>1, TrailInvariant, PTL

(* A start can read the file and finds every event the list shows, whatever *)
(* insertions and prunes fail, unless one of two failures could not be      *)
(* undone since the file was opened or rewritten: the truncation of a line  *)
(* that was written in part, and the opening of a pruned file.              *)
THEOREM ListIsDurable == ASpec => []ListedIsDurable
<1>1. TrailInv => ListedIsDurable
  BY DEF TrailInv, FileSound
<1>2. QED
  BY <1>1, TrailInvariant, PTL

-----------------------------------------------------------------------------
(* The queue and the batches are bounded.                                   *)

LEMMA LengthsTyped ==
    ASSUME ATypeOK
    PROVE  /\ Len(pending) \in Nat /\ Limit \in Nat /\ Limit > 0
           /\ \A r \in Requests : Len(batch[r]) \in Nat
  BY DEF ATypeOK

(* A step that begins no flush and puts nothing back.                       *)
LEMMA NoFlushBegins ==
    ASSUME ATypeOK, ATypeOK', FlushesAreBounded, UNCHANGED <<process, backend>>,
           Len(pending') <= Len(pending) \/ Len(pending') <= Limit,
           \A q \in Requests : /\ Len(batch'[q]) <= Len(batch[q])
                               /\ batch'[q] # <<>> => batch[q] # <<>>
                               /\ pc'[q] = "take" => pc[q] = "take"
                               /\ pc'[q] = "putBack" =>
                                     pc[q] = "putBack" /\ batch'[q] = batch[q]
    PROVE  FlushesAreBounded'
<1>1. \A q \in Requests : Flushing(q)' => Flushing(q)
  BY DEF Flushing
<1>2. /\ Len(pending) \in Nat /\ Limit \in Nat /\ Limit > 0 /\ Len(pending') \in Nat
      /\ \A r \in Requests : Len(batch[r]) \in Nat /\ Len(batch'[r]) \in Nat
  BY LengthsTyped DEF ATypeOK
<1>3. QueueIsBounded'
  BY <1>2 DEF FlushesAreBounded, QueueIsBounded
<1>4. \A r \in Requests : Len(batch'[r]) <= 2 * Limit
  BY <1>2 DEF FlushesAreBounded
<1>5. process' = "up" \/ backend' = 0 =>
         /\ \A r, q \in Requests : Flushing(r)' /\ Flushing(q)' => r = q
         /\ \A r \in Requests : Len(batch'[r]) <= Limit
  BY <1>1, <1>2 DEF FlushesAreBounded
<1>6. backend' = 0 =>
         \A r \in Requests : Flushing(r)' => process' # "up" /\ Len(pending') <= Limit
  BY <1>1, <1>2 DEF FlushesAreBounded
<1>7. \A r \in Requests : pc'[r] = "putBack" =>
         /\ process' # "up" /\ batch'[r] # <<>>
         /\ Len(batch'[r]) <= Limit /\ Len(pending') <= Limit
         /\ \A q \in Requests : pc'[q] = "putBack" => q = r
  BY <1>2 DEF FlushesAreBounded
<1>8. QED
  BY <1>3, <1>4, <1>5, <1>6, <1>7 DEF FlushesAreBounded

LEMMA RequestStepBounded ==
    ASSUME TrailInv, TrailInv', FlushesAreBounded, NEW r \in Requests,
           \/ RecordAudit(r) \/ ConfigureFails(r) \/ Insert(r) \/ InsertFails(r)
           \/ SavePrune(r)
    PROVE  FlushesAreBounded'
<1>1. UNCHANGED <<process, backend, pending, batch>>
  BY DEF RecordAudit, ConfigureFails, Insert, InsertFails, SavePrune, processVars, queueVars
<1>2. \E p \in {"save", "ended", "prune"} : pc' = [pc EXCEPT ![r] = p]
  BY DEF RecordAudit, ConfigureFails, Insert, InsertFails, SavePrune, Continue, Goto
<1>3. \A q \in Requests : pc'[q] = pc[q] \/ pc'[q] \notin {"take", "putBack"}
  BY <1>2 DEF TrailInv, ATypeOK
<1>4. \A q \in Requests : Len(batch[q]) <= Len(batch[q])
  BY LengthsTyped DEF TrailInv
<1>5. QED
  BY <1>1, <1>3, <1>4, NoFlushBegins, LengthsTyped DEF TrailInv

LEMMA QueueBounded ==
    ASSUME TrailInv, TrailInv', FlushesAreBounded, NEW r \in Requests, Queue(r)
    PROVE  FlushesAreBounded'
<1>1. /\ UNCHANGED <<process, backend, batch>> /\ pending' = Append(Trimmed(pending), r)
      /\ pc' = [pc EXCEPT ![r] = "ended"] /\ DOMAIN pc = Requests /\ pending \in Seq(Requests)
  BY DEF Queue, Goto, processVars, TrailInv, ATypeOK
<1>2. Len(pending') <= Limit
  <2>1. Trimmed(pending) \in Seq(Requests) /\ Len(Trimmed(pending)) < Limit
    BY <1>1, TrimmedProperties
  <2>2. Len(pending') = Len(Trimmed(pending)) + 1 /\ Len(Trimmed(pending)) \in Nat
    BY <1>1, <2>1, AppendProperties
  <2>3. QED
    BY <2>1, <2>2
<1>3. \A q \in Requests : pc'[q] = pc[q] \/ pc'[q] \notin {"take", "putBack"}
  BY <1>1
<1>4. \A q \in Requests : Len(batch[q]) <= Len(batch[q])
  BY LengthsTyped DEF TrailInv
<1>5. QED
  BY <1>1, <1>2, <1>3, <1>4, NoFlushBegins DEF TrailInv

LEMMA SaveAuditBeginBounded ==
    ASSUME TrailInv, TrailInv', FlushesAreBounded, NEW r \in Requests, SaveAuditBegin(r)
    PROVE  FlushesAreBounded'
<1>1. /\ UNCHANGED <<process, backend, pending>>
      /\ batch' = [batch EXCEPT ![r] = IF batch[r] = <<>> THEN batch[r] ELSE Tail(batch[r])]
      /\ batch \in [Requests -> Seq(Requests)] /\ batch[r] \in Seq(Requests)
      /\ pc' = [pc EXCEPT ![r] = "insert"] /\ DOMAIN pc = Requests
  BY DEF SaveAuditBegin, Goto, processVars, TrailInv, ATypeOK
<1>2. \A q \in Requests : pc'[q] = pc[q] \/ pc'[q] \notin {"take", "putBack"}
  BY <1>1
<1>3. \A q \in Requests : q # r => batch'[q] = batch[q] /\ pc'[q] = pc[q]
  BY <1>1
<1>4. Len(batch'[r]) <= Len(batch[r]) /\ (batch'[r] # <<>> => batch[r] # <<>>)
  BY <1>1, MembersOfTail, LengthsTyped DEF TrailInv
<1>5. pc'[r] = "insert" /\ \A q \in Requests : Len(batch[q]) <= Len(batch[q])
  BY <1>1, LengthsTyped DEF TrailInv
<1>6. Len(pending') <= Len(pending)
  BY <1>1, LengthsTyped DEF TrailInv
<1>7. QED
  BY <1>1, <1>2, <1>3, <1>4, <1>5, <1>6, NoFlushBegins DEF TrailInv

LEMMA ReaderStepBounded ==
    ASSUME TrailInv, TrailInv', FlushesAreBounded,
           \/ NextDay \/ ListAudit \/ ListAgain \/ UNCHANGED auditVars
    PROVE  FlushesAreBounded'
<1>1. UNCHANGED <<process, backend, pending, batch, pc>>
  BY DEF NextDay, ListAudit, ListAgain, processVars, queueVars, auditVars
<1>2. \A q \in Requests : Len(batch[q]) <= Len(batch[q])
  BY LengthsTyped DEF TrailInv
<1>3. QED
  BY <1>1, <1>2, NoFlushBegins, LengthsTyped DEF TrailInv

(* A flush begins when none is under way, or after Close.                   *)
LEMMA ConfigureBounded ==
    ASSUME TrailInv, TrailInv', FlushesAreBounded, NEW r \in Requests, Configure(r)
    PROVE  FlushesAreBounded'
<1>1. /\ backend = 0 /\ backend' # 0 /\ UNCHANGED <<process, pending, batch>>
      /\ pc[r] = "ready" /\ pc' = [pc EXCEPT ![r] = "take"] /\ DOMAIN pc = Requests
      /\ batch[r] = <<>>
  BY DEF Configure, Goto, queueVars, TrailInv, ATypeOK
<1>2. process = "up" => \A q \in Requests : Flushing(q)' => q = r
  <2>1. \A q \in Requests : q # r => (Flushing(q)' <=> Flushing(q))
    BY <1>1 DEF Flushing
  <2>2. process = "up" => \A q \in Requests : ~Flushing(q)
    BY <1>1 DEF FlushesAreBounded
  <2>3. QED
    BY <2>1, <2>2
<1>3. \A q \in Requests : pc'[q] = "putBack" <=> pc[q] = "putBack"
  BY <1>1
<1>4. QED
  BY <1>1, <1>2, <1>3 DEF FlushesAreBounded, QueueIsBounded

LEMMA FlushTakeBounded ==
    ASSUME TrailInv, TrailInv', FlushesAreBounded, NEW r \in Requests, FlushTake(r)
    PROVE  FlushesAreBounded'
<1>1. /\ UNCHANGED <<process, backend>> /\ pending' = <<>>
      /\ batch' = [batch EXCEPT ![r] = pending] /\ DOMAIN batch = Requests
      /\ pc[r] = "take" /\ pc' = [pc EXCEPT ![r] = "save"] /\ DOMAIN pc = Requests
  BY DEF FlushTake, Take, Goto, processVars, TrailInv, ATypeOK
<1>2. /\ Len(pending) \in Nat /\ Limit \in Nat /\ Limit > 0 /\ Len(pending') = 0
      /\ \A q \in Requests : Len(batch[q]) \in Nat
  BY <1>1, LengthsTyped DEF TrailInv
<1>3. Flushing(r) /\ \A q \in Requests : Flushing(q)' => Flushing(q)
  BY <1>1 DEF Flushing
<1>4. \A q \in Requests : Len(batch'[q]) = IF q = r THEN Len(pending) ELSE Len(batch[q])
  BY <1>1
<1>5. process = "up" \/ backend = 0 => Len(pending) <= Limit
  BY <1>3 DEF FlushesAreBounded, QueueIsBounded
<1>6. \A q \in Requests : pc'[q] = "putBack" => pc[q] = "putBack" /\ batch'[q] = batch[q]
  BY <1>1
<1>7. QueueIsBounded'
  BY <1>2 DEF QueueIsBounded
<1>8. \A q \in Requests : Len(batch'[q]) <= 2 * Limit
  BY <1>2, <1>4 DEF FlushesAreBounded, QueueIsBounded
<1>9. process' = "up" \/ backend' = 0 =>
         /\ \A p, q \in Requests : Flushing(p)' /\ Flushing(q)' => p = q
         /\ \A q \in Requests : Len(batch'[q]) <= Limit
  BY <1>1, <1>3, <1>4, <1>5 DEF FlushesAreBounded
<1>10. backend' = 0 =>
          \A q \in Requests : Flushing(q)' => process' # "up" /\ Len(pending') <= Limit
  BY <1>1, <1>2, <1>3 DEF FlushesAreBounded
<1>11. \A p \in Requests : pc'[p] = "putBack" =>
         /\ process' # "up" /\ batch'[p] # <<>>
         /\ Len(batch'[p]) <= Limit /\ Len(pending') <= Limit
         /\ \A q \in Requests : pc'[q] = "putBack" => q = p
  BY <1>1, <1>2, <1>6 DEF FlushesAreBounded
<1>12. QED
  BY <1>7, <1>8, <1>9, <1>10, <1>11 DEF FlushesAreBounded

(* A flush that finds the storage closed is the only one.                   *)
LEMMA SaveAuditNotSetupBounded ==
    ASSUME TrailInv, TrailInv', FlushesAreBounded, NEW r \in Requests, SaveAuditNotSetup(r)
    PROVE  FlushesAreBounded'
<1>1. /\ backend = 0 /\ UNCHANGED <<process, backend, pending, batch>>
      /\ pc' = [pc EXCEPT ![r] = IF batch[r] = <<>> THEN "queue" ELSE "putBack"]
      /\ DOMAIN pc = Requests /\ pc[r] = "save"
  BY DEF SaveAuditNotSetup, Goto, processVars, queueVars, TrailInv, ATypeOK
<1>2. \A q \in Requests : Flushing(q)' => Flushing(q)
  BY <1>1 DEF Flushing
<1>3. \A q \in Requests : pc'[q] = "putBack" => Flushing(q) /\ batch'[q] # <<>>
  BY <1>1 DEF Flushing, FlushesAreBounded
<1>4. QED
  BY <1>1, <1>2, <1>3 DEF FlushesAreBounded, QueueIsBounded

LEMMA PutBackBounded ==
    ASSUME TrailInv, TrailInv', FlushesAreBounded, NEW r \in Requests, PutBack(r)
    PROVE  FlushesAreBounded'
<1>1. /\ UNCHANGED <<process, backend>> /\ pending' = batch[r] \o pending
      /\ batch' = [batch EXCEPT ![r] = <<>>] /\ DOMAIN batch = Requests
      /\ pc[r] = "putBack" /\ pc' = [pc EXCEPT ![r] = "save"] /\ DOMAIN pc = Requests
      /\ batch[r] \in Seq(Requests) /\ pending \in Seq(Requests)
  BY DEF PutBack, Goto, processVars, TrailInv, ATypeOK
<1>2. /\ Len(pending) \in Nat /\ Limit \in Nat /\ Limit > 0
      /\ Len(pending') = Len(batch[r]) + Len(pending)
      /\ \A q \in Requests : Len(batch[q]) \in Nat
  BY <1>1, ConcatProperties, LengthsTyped DEF TrailInv
<1>3. /\ process # "up" /\ Len(batch[r]) <= Limit /\ Len(pending) <= Limit
      /\ batch[r] # <<>>
      /\ \A q \in Requests : pc[q] = "putBack" => q = r
  BY <1>1 DEF FlushesAreBounded
<1>4. \A q \in Requests : pc'[q] # "putBack"
  BY <1>1, <1>3
<1>5. \A q \in Requests : Flushing(q)' => Flushing(q) /\ q # r
  BY <1>1 DEF Flushing
<1>6. Flushing(r)
  BY <1>3 DEF Flushing
<1>7. backend = 0 => \A q \in Requests : ~Flushing(q)'
  BY <1>5, <1>6 DEF FlushesAreBounded
<1>8. \A q \in Requests : Len(batch'[q]) <= Len(batch[q])
  BY <1>1, <1>2
<1>9. QueueIsBounded'
  BY <1>1, <1>2, <1>3 DEF QueueIsBounded
<1>10. \A q \in Requests : Len(batch'[q]) <= 2 * Limit /\ (backend = 0 => Len(batch'[q]) <= Limit)
  <2>1. \A q \in Requests : Len(batch'[q]) \in Nat
    BY <1>1, <1>2
  <2>2. QED
    BY <2>1, <1>2, <1>8 DEF FlushesAreBounded
<1>11. QED
  BY <1>1, <1>3, <1>4, <1>7, <1>9, <1>10 DEF FlushesAreBounded

LEMMA CloseBounded ==
    ASSUME TrailInv, FlushesAreBounded, Close
    PROVE  FlushesAreBounded'
<1>1. /\ process = "up" /\ process' # "up" /\ backend' = 0 /\ UNCHANGED <<pending, batch, pc>>
  BY DEF Close, queueVars
<1>2. \A q \in Requests : Flushing(q)' <=> Flushing(q)
  BY <1>1 DEF Flushing
<1>3. Len(pending) <= Limit
  BY <1>1 DEF FlushesAreBounded, QueueIsBounded
<1>4. QED
  BY <1>1, <1>2, <1>3 DEF FlushesAreBounded, QueueIsBounded

(* No flush is under way in a process that begins.                          *)
LEMMA NoFlushBounded ==
    ASSUME pending = <<>>, \A r \in Requests : batch[r] = <<>> /\ pc[r] \in {"ready", "ended"}
    PROVE  FlushesAreBounded
<1>1. /\ Len(pending) = 0 /\ \A r \in Requests : Len(batch[r]) = 0
      /\ Limit \in Nat /\ Limit > 0 /\ 0 <= Limit /\ 0 <= 2 * Limit
  OBVIOUS
<1>2. \A r \in Requests : ~Flushing(r)
  BY DEF Flushing
<1>3. \A r \in Requests : pc[r] # "putBack"
  OBVIOUS
<1>4. QED
  BY <1>1, <1>2, <1>3 DEF FlushesAreBounded, QueueIsBounded

LEMMA RestartBounded ==
    ASSUME Restart \/ StartRefused
    PROVE  FlushesAreBounded'
<1>1. /\ pending' = <<>>
      /\ \A r \in Requests : batch'[r] = <<>> /\ pc'[r] \in {"ready", "ended"}
  BY DEF Restart, StartRefused, ProcessEnds
<1>2. /\ Len(pending') = 0 /\ \A r \in Requests : Len(batch'[r]) = 0
      /\ Limit \in Nat /\ Limit > 0 /\ 0 <= Limit /\ 0 <= 2 * Limit
  BY <1>1
<1>3. \A r \in Requests : ~Flushing(r)' /\ pc'[r] # "putBack"
  BY <1>1 DEF Flushing
<1>4. QED
  BY <1>2, <1>3 DEF FlushesAreBounded, QueueIsBounded

LEMMA NextBounded ==
    ASSUME TrailInv, TrailInv', FlushesAreBounded, [ANext]_auditVars
    PROVE  FlushesAreBounded'
  BY RequestStepBounded, QueueBounded, SaveAuditBeginBounded, ReaderStepBounded,
     ConfigureBounded, FlushTakeBounded, SaveAuditNotSetupBounded, PutBackBounded,
     CloseBounded, RestartBounded DEF ANext

(* The inductive invariant of the flushes: how many may be under way, and   *)
(* how long their batches are.                                              *)
THEOREM FlushInvariant == ASpec => []FlushesAreBounded
<1>1. AInit => FlushesAreBounded
  BY NoFlushBounded DEF AInit
<1>2. QED
  BY <1>1, NextBounded, TrailInvariant, PTL DEF ASpec

(* The queue is bounded by its limit, and by twice the limit once the       *)
(* storage has been closed under a flush: with any number of requests that  *)
(* configure the storage, before and after the close.                       *)
THEOREM PendingIsBounded == ASpec => []QueueIsBounded
<1>1. FlushesAreBounded => QueueIsBounded
  BY DEF FlushesAreBounded
<1>2. QED
  BY <1>1, FlushInvariant, PTL

-----------------------------------------------------------------------------
(* Counting.                                                                *)

LEMMA AtMostOneMember ==
    ASSUME NEW S, \A a, b \in S : a = b
    PROVE  Cardinality(S) = IF S = {} THEN 0 ELSE 1
<1>1. CASE S = {}
  BY <1>1, FS_EmptySet
<1>2. CASE S # {}
  <2>1. PICK a \in S : TRUE
    BY <1>2
  <2>2. S = {a}
    BY <2>1
  <2>3. QED
    BY <2>2, <1>2, FS_Singleton
<1>3. QED
  BY <1>1, <1>2

(* The number of copies is the number of places the event is in.            *)
LEMMA CopiesCounted ==
    ASSUME TrailInv, FlushesAreBounded, NEW e \in Requests
    PROVE  Copies(e) = (IF Queued(e) THEN 1 ELSE 0) + (IF Batched(e) THEN 1 ELSE 0)
                       + (IF \E r \in Requests : Inserting(r, e) THEN 1 ELSE 0)
                       + (IF Stored(e) THEN 1 ELSE 0)
<1> DEFINE A == {i \in DOMAIN pending : pending[i] = e}
           B == {p \in Flushed : batch[p[1]][p[2]] = e}
           C == {r \in Requests : pc[r] = "insert" /\ saving[r].row.event = e}
           D == {d \in events \cup Written : d.event = e}
<1>1. OneEach(e) /\ Injective(pending) /\ \A r \in Requests : Injective(batch[r])
  BY DEF TrailInv, EachInOnePlace
<1>2. Cardinality(A) = IF Queued(e) THEN 1 ELSE 0
  <2>1. \A i, j \in A : i = j
    BY <1>1 DEF Injective
  <2>2. A = {} <=> ~Queued(e)
    BY DEF Queued, Members
  <2>3. QED
    BY <2>1, <2>2, AtMostOneMember
<1>3. Cardinality(B) = IF Batched(e) THEN 1 ELSE 0
  <2>a. \A p : p \in B <=> \E r \in Requests : \E i \in DOMAIN batch[r] :
                              p = <<r, i>> /\ batch[r][i] = e
    BY DEF Flushed
  <2> HIDE DEF B
  <2>1. ASSUME NEW p \in B, NEW q \in B
        PROVE  p = q
    <3>1. PICK r \in Requests : \E i \in DOMAIN batch[r] : p = <<r, i>> /\ batch[r][i] = e
      BY <2>a
    <3>2. PICK i \in DOMAIN batch[r] : p = <<r, i>> /\ batch[r][i] = e
      BY <3>1
    <3>3. PICK t \in Requests : \E j \in DOMAIN batch[t] : q = <<t, j>> /\ batch[t][j] = e
      BY <2>a
    <3>4. PICK j \in DOMAIN batch[t] : q = <<t, j>> /\ batch[t][j] = e
      BY <3>3
    <3>5. e \in Members(batch[r]) /\ e \in Members(batch[t])
      BY <3>2, <3>4 DEF Members
    <3>6. r = t
      BY <3>5, <1>1 DEF OneEach
    <3>7. i = j
      BY <3>2, <3>4, <3>6, <1>1 DEF Injective
    <3>8. QED
      BY <3>2, <3>4, <3>6, <3>7
  <2>2. Batched(e) <=> B # {}
    <3>1. Batched(e) <=> \E r \in Requests : \E i \in DOMAIN batch[r] : batch[r][i] = e
      BY DEF Batched, Members
    <3>2. ASSUME NEW r \in Requests, NEW i \in DOMAIN batch[r], batch[r][i] = e
          PROVE  <<r, i>> \in B
      BY <2>a, <3>2
    <3>3. QED
      BY <2>a, <3>1, <3>2
  <2>3. QED
    BY <2>1, <2>2, AtMostOneMember
<1>4. Cardinality(C) = IF \E r \in Requests : Inserting(r, e) THEN 1 ELSE 0
  <2>1. \A r, q \in C : r = q
    BY <1>1 DEF OneEach, Inserting
  <2>2. C = {} <=> ~\E r \in Requests : Inserting(r, e)
    BY DEF Inserting
  <2>3. QED
    BY <2>1, <2>2, AtMostOneMember
<1>5. Cardinality(D) = IF Stored(e) THEN 1 ELSE 0
  <2>1. \A d, f \in D : d = f
    BY <1>1 DEF OneEach
  <2>2. D = {} <=> ~Stored(e)
    BY DEF Stored
  <2>3. QED
    BY <2>1, <2>2, AtMostOneMember
<1>6. Copies(e) = Cardinality(A) + Cardinality(B) + Cardinality(C) + Cardinality(D)
  BY DEF Copies
<1> HIDE DEF A, B, C, D
<1>7. QED
  BY <1>2, <1>3, <1>4, <1>5, <1>6

(* No event is recorded twice: however flushes, handlers, closes of the     *)
(* storage, failures and restarts follow each other, an event is in one     *)
(* place on its way, or stored once.                                        *)
THEOREM NothingRecordedTwice == ASpec => []NoEventTwice
<1>1. ASSUME TrailInv, FlushesAreBounded
      PROVE  NoEventTwice
  <2>1. SUFFICES ASSUME NEW e \in Requests
                 PROVE  Copies(e) <= 1
    BY DEF NoEventTwice
  <2>2. OneEach(e)
    BY <1>1 DEF TrailInv, EachInOnePlace
  <2>3. QED
    BY <2>2, <1>1, CopiesCounted DEF OneEach
<1>2. QED
  BY <1>1, TrailInvariant, FlushInvariant, PTL

(* No event is forgotten: when its request has ended, it is stored or       *)
(* queued once, or was dropped, expired, failed or lost with the process.   *)
THEOREM NothingForgotten == ASpec => []NoEventForgotten
<1>1. ASSUME TrailInv, FlushesAreBounded
      PROVE  NoEventForgotten
  <2>1. SUFFICES ASSUME NEW e \in Requests, pc[e] = "ended", e \notin gone
                 PROVE  Copies(e) = 1
    BY DEF NoEventForgotten
  <2>2. OneEach(e) /\ Accounted(e)
    BY <1>1 DEF TrailInv, EachInOnePlace, NoneForgotten
  <2>3. ~Own(e)
    BY <2>1 DEF Own
  <2>4. QED
    BY <2>1, <2>2, <2>3, <1>1, CopiesCounted DEF OneEach, Accounted
<1>2. QED
  BY <1>1, TrailInvariant, FlushInvariant, PTL

-----------------------------------------------------------------------------
(* The reader.                                                              *)

LEMMA RowTyped ==
    ASSUME TrailInv
    PROVE  \A d \in Rows : d \in Row /\ d.event \in Requests /\ d.id \in Nat /\ d.at \in Nat
<1>1. \A d \in events \cup Written : d \in Row
  <2>1. events \subseteq Row
    BY DEF TrailInv, ATypeOK
  <2>2. QED
    BY <2>1, WrittenTyped DEF TrailInv
<1>2. \A r \in Requests : saving[r] # Nil => saving[r].row \in Row
  BY RequestTyped DEF TrailInv
<1>3. \A d \in Rows : d \in Row
  BY <1>1, <1>2 DEF Rows
<1>4. QED
  BY <1>3 DEF Row

(* A step of the server: it lists and keeps only what it listed, kept or    *)
(* had waiting, and what it keeps of the list it goes on listing.  A        *)
(* process that was refused the start stays so, and lists nothing new.      *)
LEMMA ServerStepKeepsUp ==
    ASSUME TrailInv, TrailInv', ReaderKeepsUp, NoneWaitsAgain, reader' = reader,
           now' >= now,
           IsFiniteSet(events'), IsFiniteSet(Written'),
           \A d, e \in Rows' : d.id = e.id => d = e,
           process = "refused" => process' = "refused" /\ events' \subseteq events,
           \A d \in events' \cup Written' : d \in events \/ d \in Written \/ Waiting(d.event),
           process' # "refused" => \A d \in Written' : d \in events => d \in events'
    PROVE  ReaderKeepsUp'
<1>1. /\ reader.start \subseteq Row /\ \A d \in Row : d.event \in Requests /\ d.at \in Nat
      /\ now \in Nat /\ now' \in Nat /\ Days \in Nat
  BY DEF TrailInv, ATypeOK, Row
<1>2. \A d \in reader.start : ~Waiting(d.event) /\ ~Waiting(d.event)'
  <2>1. \A d \in reader.start : ~Waiting(d.event) /\ d.event \in Requests
    BY <1>1 DEF ReaderKeepsUp
  <2>2. ASSUME NEW d \in reader.start, NEW e \in Requests, e = d.event
        PROVE  ~Waiting(e)'
    BY <2>1, <2>2 DEF NoneWaitsAgain
  <2>3. ASSUME NEW d \in reader.start
        PROVE  ~Waiting(d.event)'
    <3>1. d.event \in Requests
      BY <2>1
    <3>2. QED
      BY <3>1, <2>2
  <2>4. QED
    BY <2>1, <2>3
<1>3. \A d \in reader.start :
         /\ d \in events' => d \in events
         /\ process' # "refused" /\ d \in Written' => d \in events
  BY <1>2 DEF ReaderKeepsUp
<1>4. process' # "refused" => reader'.start \cap Written' \subseteq events'
  BY <1>3
<1>5. \A d \in reader.start : d \in Unexpired(now)' => d \in Unexpired(now)
  <2>1. ASSUME NEW d \in reader.start, d \in Unexpired(now)'
        PROVE  d \in Unexpired(now)
    <3>1. d \in events' /\ d.at + Days >= now'
      BY <2>1 DEF Unexpired
    <3>2. d \in events /\ d.at \in Nat
      BY <3>1, <1>1, <1>3
    <3>3. d.at + Days >= now
      BY <3>1, <3>2, <1>1
    <3>4. QED
      BY <3>2, <3>3 DEF Unexpired
  <2>2. QED
    BY <2>1
<1>6. Seen' = Seen /\ PagesDescend' /\ CursorIsLowest'
  BY DEF ReaderKeepsUp, Seen, PagesDescend, CursorIsLowest, Below
<1>7. \A e \in reader'.start \cap Unexpired(now)' : e \in Seen' \/ ToCome(e)'
  BY <1>5, <1>6 DEF ReaderKeepsUp, ToCome, Below
<1>8. QED
  BY <1>2, <1>4, <1>6, <1>7 DEF ReaderKeepsUp

(* The rows a step leaves are rows that were there.                         *)
LEMMA NoNewRow ==
    ASSUME ReaderKeepsUp,
           \A q \in Requests : saving'[q] # Nil => saving'[q] = saving[q],
           events' \cup Written' \subseteq Rows
    PROVE  \A d, e \in Rows' : d.id = e.id => d = e
<1>1. ASSUME NEW q \in Requests, saving'[q] # Nil
      PROVE  saving'[q].row \in Rows
  BY <1>1 DEF Rows
<1>2. Rows' \subseteq Rows
  BY <1>1 DEF Rows
<1>3. QED
  BY <1>2 DEF ReaderKeepsUp

LEMMA QuietStepKeepsUp ==
    ASSUME TrailInv, TrailInv', ReaderKeepsUp, NoneWaitsAgain,
           \/ \E r \in Requests : \/ RecordAudit(r) \/ FlushTake(r)
                                  \/ SaveAuditNotSetup(r) \/ Queue(r) \/ PutBack(r)
           \/ Close \/ NextDay
    PROVE  ReaderKeepsUp'
<1>1. UNCHANGED <<events, Written, saving, reader>>
  BY DEF RecordAudit, FlushTake, SaveAuditNotSetup, Queue, PutBack, Close, NextDay,
         storeVars, Written
<1>2. now' >= now
  <2>1. now' = now \/ now' = now + 1
    BY DEF RecordAudit, FlushTake, SaveAuditNotSetup, Queue, PutBack, Close, NextDay
  <2>2. QED
    BY <2>1 DEF TrailInv, ATypeOK
<1>3. IsFiniteSet(events') /\ IsFiniteSet(Written')
  BY <1>1 DEF ReaderKeepsUp
<1>4. \A d, e \in Rows' : d.id = e.id => d = e
  <2>1. events \cup Written \subseteq Rows
    BY DEF Rows
  <2>2. QED
    BY <1>1, <2>1, NoNewRow
<1>5. process = "refused" => process' = "refused"
  BY DEF RecordAudit, FlushTake, SaveAuditNotSetup, Queue, PutBack, Close, NextDay,
         processVars
<1>6. QED
  BY <1>1, <1>2, <1>3, <1>4, <1>5, ServerStepKeepsUp

LEMMA ConfigureKeepsUp ==
    ASSUME TrailInv, TrailInv', ReaderKeepsUp, NoneWaitsAgain,
           NEW r \in Requests, Configure(r) \/ ConfigureFails(r)
    PROVE  ReaderKeepsUp'
<1>1. /\ UNCHANGED <<disk, saving, now, reader>> /\ process # "refused"
      /\ \/ events' = disk /\ tail' = NoTail
         \/ events' = events /\ tail' \in {tail, NoTail}
  BY DEF Configure, ConfigureFails, Open
<1>2. /\ Written' \subseteq Written /\ disk \subseteq Written
      /\ events' = disk => Written' \subseteq events' \/ events' = events
  BY <1>1, WrittenTyped DEF TrailInv, Written, NoTail
<1>3. IsFiniteSet(events') /\ IsFiniteSet(Written')
  <2>1. IsFiniteSet(events) /\ IsFiniteSet(Written)
    BY DEF ReaderKeepsUp
  <2>2. IsFiniteSet(Written') /\ IsFiniteSet(disk)
    BY <1>2, <2>1, FS_Subset
  <2>3. QED
    BY <1>1, <2>1, <2>2
<1>4. \A d, e \in Rows' : d.id = e.id => d = e
  <2>1. events' \cup Written' \subseteq Rows
    BY <1>1, <1>2 DEF Rows
  <2>2. QED
    BY <1>1, <2>1, NoNewRow
<1>5. now' >= now
  BY <1>1 DEF TrailInv, ATypeOK
<1>6. /\ \A d \in events' \cup Written' : d \in events \/ d \in Written
      /\ \A d \in Written' : d \in events => d \in events'
  BY <1>1, <1>2
<1>7. QED
  BY <1>1, <1>3, <1>4, <1>5, <1>6, ServerStepKeepsUp

LEMMA SaveAuditBeginKeepsUp ==
    ASSUME TrailInv, TrailInv', ReaderKeepsUp, NoneWaitsAgain,
           NEW r \in Requests, SaveAuditBegin(r)
    PROVE  ReaderKeepsUp'
<1>1. PICK id \in NewAuditIDs :
         saving' = [saving EXCEPT ![r] = [row |-> [event |-> Event(r), id |-> id, at |-> now],
                                          store |-> backend]]
  BY DEF SaveAuditBegin
<1>2. UNCHANGED <<process, events, Written, now, reader>> /\ DOMAIN saving = Requests
  BY DEF SaveAuditBegin, storeVars, Written, processVars, TrailInv, ATypeOK
<1>3. now' >= now /\ IsFiniteSet(events') /\ IsFiniteSet(Written')
  BY <1>2 DEF ReaderKeepsUp, TrailInv, ATypeOK
<1>4. \A d, e \in Rows' : d.id = e.id => d = e
  <2>1. PICK row : row = [event |-> Event(r), id |-> id, at |-> now]
    OBVIOUS
  <2>2. \A d \in Rows' : d \in Rows \/ d = row
    <3>1. ASSUME NEW q \in Requests, saving'[q] # Nil
          PROVE  saving'[q].row \in Rows \/ saving'[q].row = row
      <4>1. CASE q = r
        BY <4>1, <1>1, <1>2, <2>1
      <4>2. CASE q # r
        <5>1. saving'[q] = saving[q]
          BY <4>2, <1>1, <1>2
        <5>2. QED
          BY <5>1, <3>1 DEF Rows
      <4>3. QED
        BY <4>1, <4>2
    <3>2. QED
      BY <3>1, <1>2 DEF Rows
  <2>3. row.id = id /\ \A d \in Rows : d.id # id
    BY <2>1, NewAuditIDFresh
  <2>4. QED
    BY <2>2, <2>3 DEF ReaderKeepsUp
<1>5. QED
  BY <1>2, <1>3, <1>4, ServerStepKeepsUp

LEMMA InsertKeepsUp ==
    ASSUME TrailInv, TrailInv', ReaderKeepsUp, NoneWaitsAgain,
           NEW r \in Requests, Insert(r) \/ InsertFails(r)
    PROVE  ReaderKeepsUp'
<1> DEFINE row == saving[r].row
<1>1. /\ pc[r] = "insert" /\ UNCHANGED <<process, now, reader>>
      /\ events \subseteq events'
      /\ events' \cup Written' \subseteq events \cup Written \cup {row}
  <2>1. CASE Insert(r)
    <3>1. saving[r].row \in Row
      BY <2>1, RequestTyped DEF Insert, TrailInv
    <3>2. Written' \subseteq Written \cup {row}
      BY <2>1, <3>1, LineIsWritten DEF Insert
    <3>3. QED
      BY <2>1, <3>2 DEF Insert, processVars
  <2>2. CASE InsertFails(r)
    BY <2>2, InsertFailsSteps DEF InsertFails, processVars
  <2>3. QED
    BY <2>1, <2>2
<1>2. /\ saving[r] # Nil /\ row \in Rows /\ Waiting(row.event)
  <2>1. saving[r] # Nil
    BY <1>1, RequestTyped DEF TrailInv
  <2>2. row \in Rows
    BY <2>1 DEF Rows
  <2>3. Inserting(r, row.event)
    BY <1>1 DEF Inserting
  <2>4. QED
    BY <2>1, <2>2, <2>3 DEF Waiting
<1>3. \A q \in Requests : saving'[q] # Nil => saving'[q] = saving[q]
  BY DEF Insert, InsertFails, Continue, TrailInv, ATypeOK
<1> HIDE DEF row
<1>4. now' >= now /\ IsFiniteSet(events') /\ IsFiniteSet(Written')
  <2>1. IsFiniteSet(events \cup Written)
    BY FS_Union DEF ReaderKeepsUp
  <2>2. IsFiniteSet(events \cup Written \cup {row})
    BY <2>1, FS_AddElement
  <2>3. events' \subseteq events \cup Written \cup {row}
        /\ Written' \subseteq events \cup Written \cup {row}
    BY <1>1
  <2>4. IsFiniteSet(events') /\ IsFiniteSet(Written')
    BY <2>2, <2>3, FS_Subset
  <2>5. now' >= now
    BY <1>1 DEF TrailInv, ATypeOK
  <2>6. QED
    BY <2>4, <2>5
<1>5. \A d, e \in Rows' : d.id = e.id => d = e
  <2>1. events' \cup Written' \subseteq Rows
    BY <1>1, <1>2 DEF Rows
  <2>2. QED
    BY <1>3, <2>1, NoNewRow
<1>6. process # "refused"
  BY <1>1 DEF TrailInv, ATypeOK, Insert, InsertFails
<1>7. \A d \in events' \cup Written' : d \in events \/ d \in Written \/ Waiting(d.event)
  BY <1>1, <1>2
<1>8. \A d \in Written' : d \in events => d \in events'
  BY <1>1
<1>9. QED
  BY <1>1, <1>4, <1>5, <1>6, <1>7, <1>8, ServerStepKeepsUp

LEMMA SavePruneKeepsUp ==
    ASSUME TrailInv, TrailInv', ReaderKeepsUp, NoneWaitsAgain,
           NEW r \in Requests, SavePrune(r)
    PROVE  ReaderKeepsUp'
<1> DEFINE kept == Unexpired(now)
<1>1. /\ UNCHANGED <<process, now, reader>> /\ process # "refused"
      /\ \/ events' = events /\ Written' = Written
         \/ events' = kept /\ Written' = kept
         \/ events' = events /\ Written' = kept
  <2>1. CASE UNCHANGED <<storeVars, gone>>
    BY <2>1 DEF SavePrune, storeVars, Written, processVars, TrailInv, ATypeOK
  <2>2. ASSUME Renamed(kept)
        PROVE  Written' = kept
    BY <2>2 DEF Renamed, Written, NoTail
  <2>3. UNCHANGED <<process, now, reader>> /\ process # "refused"
    BY DEF SavePrune, processVars, TrailInv, ATypeOK
  <2>4. QED
    BY <2>1, <2>2, <2>3, PruneSteps
<1>2. kept \subseteq events
  BY DEF Unexpired
<1>3. \A q \in Requests : saving'[q] # Nil => saving'[q] = saving[q]
  BY DEF SavePrune, Continue, TrailInv, ATypeOK
<1> HIDE DEF kept
<1>4. now' >= now /\ IsFiniteSet(events') /\ IsFiniteSet(Written')
  <2>1. IsFiniteSet(events) /\ IsFiniteSet(Written)
    BY DEF ReaderKeepsUp
  <2>2. IsFiniteSet(kept)
    BY <2>1, <1>2, FS_Subset
  <2>3. now' >= now
    BY <1>1 DEF TrailInv, ATypeOK
  <2>4. IsFiniteSet(events') /\ IsFiniteSet(Written')
    BY <1>1, <2>1, <2>2
  <2>5. QED
    BY <2>3, <2>4
<1>5. \A d, e \in Rows' : d.id = e.id => d = e
  <2>1. events' \cup Written' \subseteq Rows
    BY <1>1, <1>2 DEF Rows
  <2>2. QED
    BY <1>3, <2>1, NoNewRow
<1>6. \A d \in events' \cup Written' : d \in events \/ d \in Written \/ Waiting(d.event)
  BY <1>1, <1>2
<1>7. \A d \in Written' : d \in events => d \in events'
  BY <1>1
<1>8. QED
  BY <1>1, <1>4, <1>5, <1>6, <1>7, ServerStepKeepsUp

LEMMA RestartKeepsUp ==
    ASSUME TrailInv, TrailInv', ReaderKeepsUp, NoneWaitsAgain, Restart \/ StartRefused
    PROVE  ReaderKeepsUp'
<1>1. /\ UNCHANGED <<now, reader>>
      /\ saving' = [q \in Requests |-> Nil]
      /\ \/ events' = Written' /\ Written' \subseteq Written /\ process # "refused"
         \/ events' = {} /\ Written' = Written /\ process' = "refused"
  <2>1. CASE Restart
    <3>1. events' = disk' /\ disk' \subseteq disk /\ tail' = NoTail /\ ~corrupt
      BY <2>1 DEF Restart, Open
    <3>2. Written' = disk' /\ disk \subseteq Written /\ process # "refused"
      BY <3>1, WrittenTyped DEF TrailInv, FileSound, Written, NoTail
    <3>3. QED
      BY <2>1, <3>1, <3>2 DEF Restart, ProcessEnds
  <2>2. CASE StartRefused
    BY <2>2 DEF StartRefused, ProcessEnds, Written
  <2>3. QED
    BY <2>1, <2>2
<1>2. now' >= now /\ IsFiniteSet(events') /\ IsFiniteSet(Written')
  <2>1. IsFiniteSet(Written) /\ IsFiniteSet({})
    BY FS_EmptySet DEF ReaderKeepsUp
  <2>2. IsFiniteSet(Written')
    BY <2>1, <1>1, FS_Subset
  <2>3. now' >= now
    BY <1>1 DEF TrailInv, ATypeOK
  <2>4. QED
    BY <1>1, <2>1, <2>2, <2>3
<1>3. \A d, e \in Rows' : d.id = e.id => d = e
  <2>1. events' \cup Written' \subseteq Rows
    BY <1>1 DEF Rows
  <2>2. \A q \in Requests : saving'[q] # Nil => saving'[q] = saving[q]
    BY <1>1
  <2>3. QED
    BY <2>1, <2>2, NoNewRow
<1>4. QED
  BY <1>1, <1>2, <1>3, ServerStepKeepsUp

(* A page is the upper end of what matches: the rest lies below all of it.  *)
LEMMA PageIsUpperEnd ==
    ASSUME TrailInv, ReaderKeepsUp, NEW e \in Matches \ Page, NEW p \in Page
    PROVE  Below(e, p)
<1>1. Page \subseteq Matches /\ Matches \subseteq events /\ events \subseteq Rows
  BY DEF Page, Matches, Unexpired, Rows
<1>2. \A d \in Matches : d.id \in Nat /\ d.at \in Nat
  BY <1>1, RowTyped
<1>3. SUFFICES ASSUME ~Below(e, p) PROVE FALSE
  OBVIOUS
<1>4. e # p => e.id # p.id
  BY <1>1 DEF ReaderKeepsUp
<1>5. Above(e) \subseteq Above(p)
  <2>1. ASSUME NEW d \in Matches, Below(e, d)
        PROVE  Below(p, d)
    BY <2>1, <1>1, <1>2, <1>3, <1>4 DEF Below
  <2>2. QED
    BY <2>1 DEF Above
<1>6. IsFiniteSet(Above(p))
  <2>1. IsFiniteSet(events) /\ Above(p) \subseteq events
    BY <1>1 DEF ReaderKeepsUp, Above
  <2>2. QED
    BY <2>1, FS_Subset
<1>7. /\ Cardinality(Above(e)) <= Cardinality(Above(p))
      /\ Cardinality(Above(e)) \in Nat /\ Cardinality(Above(p)) \in Nat
  BY <1>5, <1>6, FS_Subset, FS_CardinalityType
<1>8. Cardinality(Above(p)) < PageSize /\ ~(Cardinality(Above(e)) < PageSize)
  BY DEF Page
<1>9. QED
  BY <1>7, <1>8

(* What the reader has seen after one more page.                            *)
LEMMA OnePageMore ==
    ASSUME TrailInv, reader'.pages = Append(reader.pages, Page)
    PROVE  /\ Seen' = Seen \cup Page
           /\ /\ PagesDescend
              /\ \A d \in Seen, e \in Page : Below(e, d)
              => PagesDescend'
<1> DEFINE pages == reader.pages
           n == Len(pages)
<1>1. pages \in Seq(SUBSET Row) /\ Page \in SUBSET Row
  BY PageTyped DEF TrailInv, ATypeOK
<1>2. /\ n \in Nat /\ DOMAIN pages = 1..n
      /\ DOMAIN reader'.pages = 1..(n + 1)
      /\ \A i \in 1..n : reader'.pages[i] = pages[i]
      /\ reader'.pages[n + 1] = Page
  BY <1>1, AppendProperties
<1> HIDE DEF pages, n
<1>3. \A x : x \in Seen <=> \E i \in 1..n : x \in pages[i]
  BY <1>2 DEF Seen, pages
<1>4. \A x : x \in Seen' <=> \E i \in 1..(n + 1) : x \in reader'.pages[i]
  BY <1>2 DEF Seen
<1>5. \A i : i \in 1..(n + 1) <=> i \in 1..n \/ i = n + 1
  BY <1>2
<1>6. Seen' = Seen \cup Page
  <2>1. \A x : x \in Seen' <=> x \in Seen \/ x \in Page
    BY <1>2, <1>3, <1>4, <1>5
  <2>2. QED
    BY <2>1
<1>7. ASSUME PagesDescend, \A d \in Seen, e \in Page : Below(e, d)
      PROVE  PagesDescend'
  <2>1. SUFFICES ASSUME NEW i \in 1..(n + 1), NEW j \in 1..(n + 1), i < j,
                        NEW d \in reader'.pages[i], NEW e \in reader'.pages[j]
                 PROVE  Below(e, d)
    BY <1>2 DEF PagesDescend, Below
  <2>2. i \in 1..n /\ d \in pages[i]
    BY <2>1, <1>2
  <2>3. CASE j = n + 1
    BY <2>1, <2>2, <2>3, <1>2, <1>3, <1>7
  <2>4. CASE j \in 1..n
    BY <2>1, <2>2, <2>4, <1>2, <1>7 DEF PagesDescend, pages
  <2>5. QED
    BY <2>3, <2>4, <1>5
<1>8. QED
  BY <1>6, <1>7

(* Below what matches lies nothing the reader has seen.                     *)
LEMMA MatchesAreBelow ==
    ASSUME TrailInv, ReaderKeepsUp, reader.stage # "ended",
           NEW e \in Matches, NEW s \in Seen
    PROVE  Below(e, s)
<1>1. reader.stage = "paging"
  <2>1. reader.stage # "idle"
    <3>1. SUFFICES ASSUME reader.stage = "idle" PROVE FALSE
      OBVIOUS
    <3>2. reader.pages = <<>>
      BY <3>1 DEF ReaderKeepsUp, CursorIsLowest, NoReader
    <3>3. QED
      BY <3>2 DEF Seen
  <2>2. QED
    BY <2>1 DEF TrailInv, ATypeOK
<1>2. /\ reader.cursor # Nil
      /\ \/ s.at = reader.cursor.at /\ s.id = reader.cursor.id
         \/ Below(reader.cursor, s)
  BY <1>1 DEF ReaderKeepsUp, CursorIsLowest
<1>3. Below(e, reader.cursor)
  BY <1>2 DEF Matches
<1>4. reader.cursor \in Cursor /\ e \in Row /\ s \in Row
  <2>1. /\ reader.cursor \in Cursor \cup {Nil} /\ reader.pages \in Seq(SUBSET Row)
        /\ e \in Row
    BY PageTyped DEF TrailInv, ATypeOK
  <2>2. \A i \in DOMAIN reader.pages : reader.pages[i] \subseteq Row
    BY <2>1
  <2>3. QED
    BY <2>1, <2>2, <1>2 DEF Seen
<1>5. QED
  BY <1>2, <1>3, <1>4 DEF Below, Cursor, Row

LEMMA ListAuditKeepsUp ==
    ASSUME TrailInv, TrailInv', ReaderKeepsUp, NoneWaitsAgain, ListAudit
    PROVE  ReaderKeepsUp'
<1>1. /\ UNCHANGED <<process, pending, batch, events, Written, pc, saving, now>>
      /\ reader'.start = IF reader.stage = "idle" THEN events ELSE reader.start
      /\ reader'.pages = Append(reader.pages, Page)
      /\ reader.stage # "ended"
      /\ \/ reader'.stage = "ended" /\ Page = Matches
         \/ /\ reader'.stage = "paging"
            /\ \E last \in Page :
                  /\ \A e \in Page \ {last} : Below(last, e)
                  /\ reader'.cursor = [at |-> last.at, id |-> last.id]
  BY DEF ListAudit, Shown, processVars, queueVars, storeVars, Written
<1>2. Unexpired(now)' = Unexpired(now) /\ Unexpired(now) \subseteq events
      /\ Page \subseteq Matches /\ Matches \subseteq Unexpired(now)
  BY <1>1 DEF Unexpired, Page, Matches
<1>3. \A d, e \in Rows' : d.id = e.id => d = e
  BY <1>1 DEF ReaderKeepsUp, Rows
<1>4. \A d \in reader'.start : ~Waiting(d.event)'
  <2>1. \A d \in reader'.start : d.event \in Requests /\ ~Waiting(d.event)
    <3>1. CASE reader.stage = "idle"
      <4>1. ASSUME NEW d \in events
            PROVE  d.event \in Requests /\ ~Waiting(d.event)
        <5>1. d.event \in Requests /\ Stored(d.event)
          BY DEF TrailInv, ATypeOK, Row, Stored
        <5>2. OneEach(d.event)
          BY <5>1 DEF TrailInv, EachInOnePlace
        <5>3. QED
          BY <5>1, <5>2 DEF OneEach, Waiting
      <4>2. QED
        BY <4>1, <3>1, <1>1
    <3>2. CASE reader.stage # "idle"
      <4>1. reader.start \subseteq Row
        BY DEF TrailInv, ATypeOK
      <4>2. QED
        BY <4>1, <3>2, <1>1 DEF ReaderKeepsUp, Row
    <3>3. QED
      BY <3>1, <3>2
  <2>2. ASSUME NEW d \in reader'.start, NEW e \in Requests, e = d.event
        PROVE  ~Waiting(e)'
    BY <2>1, <2>2 DEF NoneWaitsAgain
  <2>3. QED
    <3>1. ASSUME NEW d \in reader'.start
          PROVE  ~Waiting(d.event)'
      BY <2>1, <2>2
    <3>2. QED
      BY <3>1
<1>5. process' # "refused" => reader'.start \cap Written' \subseteq events'
  BY <1>1 DEF ReaderKeepsUp
<1>6. \A e \in reader'.start \cap Unexpired(now) : e \in Seen \/ e \in Matches
  <2>1. CASE reader.stage = "idle"
    <3>1. reader.cursor = Nil
      BY <2>1 DEF ReaderKeepsUp, CursorIsLowest, NoReader
    <3>2. QED
      BY <3>1 DEF Matches
  <2>2. CASE reader.stage # "idle"
    BY <2>2, <1>1 DEF ReaderKeepsUp, ToCome, Matches
  <2>3. QED
    BY <2>1, <2>2
<1>7. Seen' = Seen \cup Page /\ PagesDescend'
  <2>1. \A d \in Seen, e \in Page : Below(e, d)
    BY <1>1, <1>2, MatchesAreBelow
  <2>2. QED
    BY <2>1, <1>1, OnePageMore DEF ReaderKeepsUp
<1>8. CASE reader'.stage = "ended" /\ Page = Matches
  <2>1. \A e \in reader'.start \cap Unexpired(now)' : e \in Seen' \/ ToCome(e)'
    BY <1>2, <1>6, <1>7, <1>8
  <2>2. CursorIsLowest'
    BY <1>8 DEF CursorIsLowest
  <2>3. QED
    BY <2>1, <2>2, <1>1, <1>3, <1>4, <1>5, <1>7 DEF ReaderKeepsUp
<1>9. ASSUME NEW last \in Page, reader'.stage = "paging",
             \A e \in Page \ {last} : Below(last, e),
             reader'.cursor = [at |-> last.at, id |-> last.id]
      PROVE  ReaderKeepsUp'
  <2>1. \A e : /\ Below(e, reader'.cursor) <=> Below(e, last)
               /\ Below(reader'.cursor, e) <=> Below(last, e)
    BY <1>9 DEF Below
  <2>2. reader'.cursor # Nil
    <3>1. last \in Row
      BY PageTyped DEF TrailInv
    <3>2. reader'.cursor \in Cursor
      BY <3>1, <1>9 DEF Cursor, Row
    <3>3. QED
      BY <3>2, AuditNil
  <2>3. CursorIsLowest'
    <3>1. \A s \in Seen : Below(last, s)
      BY <1>1, <1>2, MatchesAreBelow
    <3>2. \A s \in Seen' : \/ s.at = reader'.cursor.at /\ s.id = reader'.cursor.id
                           \/ Below(reader'.cursor, s)
      BY <3>1, <2>1, <1>7, <1>9
    <3>3. QED
      BY <3>2, <2>2, <1>9 DEF CursorIsLowest, Below
  <2>4. \A e \in reader'.start \cap Unexpired(now)' : e \in Seen' \/ ToCome(e)'
    <3>1. SUFFICES ASSUME NEW e \in reader'.start \cap Unexpired(now), e \notin Seen'
                   PROVE  ToCome(e)'
      BY <1>2
    <3>2. e \in Matches \ Page
      BY <3>1, <1>6, <1>7
    <3>3. Below(e, reader'.cursor)
      BY <3>2, <2>1, PageIsUpperEnd
    <3>4. QED
      BY <3>3, <1>9 DEF ToCome, Below
  <2>5. QED
    BY <2>3, <2>4, <1>1, <1>3, <1>4, <1>5, <1>7 DEF ReaderKeepsUp
<1>10. QED
  BY <1>1, <1>8, <1>9

LEMMA ListAgainKeepsUp ==
    ASSUME ReaderKeepsUp, ListAgain
    PROVE  ReaderKeepsUp'
<1>1. UNCHANGED <<events, Written, saving, now>> /\ reader' = NoReader
  BY DEF ListAgain, storeVars, Written
<1>2. \A d, e \in Rows' : d.id = e.id => d = e
  BY <1>1 DEF ReaderKeepsUp, Rows
<1>3. reader'.start = {} /\ reader'.stage = "idle" /\ reader'.pages = <<>>
  BY <1>1 DEF NoReader
<1>4. CursorIsLowest' /\ PagesDescend'
  BY <1>1, <1>3 DEF CursorIsLowest, PagesDescend, NoReader
<1>5. QED
  BY <1>1, <1>2, <1>3, <1>4 DEF ReaderKeepsUp

LEMMA StutterKeepsUp ==
    ASSUME ReaderKeepsUp, UNCHANGED auditVars
    PROVE  ReaderKeepsUp'
<1>1. UNCHANGED <<process, pending, batch, events, Written, pc, saving, now, reader>>
  BY DEF auditVars, processVars, queueVars, storeVars, Written
<1>2. Rows' = Rows /\ Unexpired(now)' = Unexpired(now)
  BY <1>1 DEF Rows, Unexpired
<1>3. \A e : Waiting(e)' <=> Waiting(e)
  BY <1>1 DEF Waiting, Own, Queued, Batched, Inserting
<1>4. Seen' = Seen /\ PagesDescend' /\ CursorIsLowest'
  BY <1>1 DEF ReaderKeepsUp, Seen, PagesDescend, CursorIsLowest, Below
<1>5. \A e : ToCome(e)' <=> ToCome(e)
  BY <1>1 DEF ToCome, Below
<1>6. QED
  BY <1>1, <1>2, <1>3, <1>4, <1>5 DEF ReaderKeepsUp

LEMMA InitKeepsUp ==
    ASSUME AInit
    PROVE  ReaderKeepsUp
<1>1. Rows = {} /\ Written = {} /\ events = {} /\ reader = NoReader
  BY DEF AInit, Rows, Written, NoTail
<1>2. CursorIsLowest /\ PagesDescend
  BY <1>1 DEF CursorIsLowest, PagesDescend, NoReader
<1>3. reader.start = {}
  BY <1>1 DEF NoReader
<1>4. QED
  BY <1>1, <1>2, <1>3, FS_EmptySet DEF ReaderKeepsUp

LEMMA NextKeepsUp ==
    ASSUME TrailInv, TrailInv', ReaderKeepsUp, [ANext]_auditVars
    PROVE  ReaderKeepsUp'
<1>1. NoneWaitsAgain
  BY NextTrail
<1>2. QED
  BY <1>1, QuietStepKeepsUp, ConfigureKeepsUp, SaveAuditBeginKeepsUp, InsertKeepsUp,
     SavePruneKeepsUp, RestartKeepsUp, ListAuditKeepsUp, ListAgainKeepsUp, StutterKeepsUp
     DEF ANext

(* The reader's invariant, for ids that are given in no order: the cursor   *)
(* is the lowest event he has seen, and what he still has to see lies       *)
(* below it.                                                                *)
THEOREM ReaderInvariant == ASpec => []ReaderKeepsUp
  BY InitKeepsUp, NextKeepsUp, TrailInvariant, PTL DEF ASpec

(* A reader who pages to the end sees every event that was there when he    *)
(* began and still is, for any page size, retention and number of events.   *)
THEOREM PagingIsComplete == ASpec => []PagesAreComplete
<1>1. ReaderKeepsUp => PagesAreComplete
  BY DEF ReaderKeepsUp, PagesAreComplete, ToCome
<1>2. QED
  BY <1>1, ReaderInvariant, PTL

(* No event is shown twice, and every page lies below all of those before   *)
(* it, although a request carries only the last event of the last page.     *)
THEOREM PagingDescends == ASpec => []PagesDescend
<1>1. ReaderKeepsUp => PagesDescend
  BY DEF ReaderKeepsUp
<1>2. QED
  BY <1>1, ReaderInvariant, PTL
=============================================================================
