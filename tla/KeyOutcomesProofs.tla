------------------------- MODULE KeyOutcomesProofs -------------------------
(* Proofs about what the handlers of KeyWrites answer and write, on top of  *)
(* the invariant of KeyWritesProofs and just as general, and about the      *)
(* pages of versions from which a rollback target is chosen.                *)
EXTENDS KeyWritesProofs, RollbackVersions, WellFoundedInduction

(* OInv holds when etcd is empty and no request has arrived.                *)
LEMMA InitOInv == Init => OInv
BY DEF Init, EtcdInit, OInv, LatestIsLive, FoundAt, NoLostUpdate, Fate,
       TargetIsKept, WrittenIsOver, AnswerIsTrue, Request

-----------------------------------------------------------------------------
(* Steps that leave etcd's log alone.                                       *)

(* What such a step may do to the requests: one whose write is in the log   *)
(* is still the same request.                                               *)
Written(r) == \E i \in DOMAIN log : log[i].by = r

(* The parts of OInv about the log alone.                                   *)
LEMMA QuietLog ==
    ASSUME IInv, OInv, UNCHANGED <<log, live>>,
           \A r \in Requests : Written(r) => req'[r] = req[r]
    PROVE  LatestIsLive' /\ NoLostUpdate'
<1>1. LatestIsLive'
  BY DEF OInv, LatestIsLive, FoundAt
<1>2. NoLostUpdate'
  BY DEF OInv, NoLostUpdate, FoundAt, Conditional, Written
<1>3. QED
  BY <1>1, <1>2

(* A request that the step does not concern.                                *)
LEMMA OtherFate ==
    ASSUME OInv, NEW q \in Requests, log' = log,
           pc'[q] = pc[q], req'[q] = req[q], previous'[q] = previous[q],
           wire'[q] = wire[q], outcome'[q] = outcome[q],
           reply'[q] = reply[q], (q \in audited') <=> (q \in audited)
    PROVE  Fate(q)'
<1>1. TargetIsKept(q)'
  BY DEF OInv, Fate, TargetIsKept, OfTarget, IsVersion
<1>2. WrittenIsOver(q)'
  BY DEF OInv, Fate, WrittenIsOver, OfTarget, IsVersion
<1>3. AnswerIsTrue(q)'
  BY DEF OInv, Fate, AnswerIsTrue
<1>4. QED
  BY <1>1, <1>2, <1>3 DEF Fate

(* A step of one request that is not yet written, or stays what it is.      *)
LEMMA QuietOInv ==
    ASSUME IInv, OInv, NEW r \in Requests, UNCHANGED <<log, live>>,
           \A q \in Requests \ {r} :
              /\ pc'[q] = pc[q] /\ req'[q] = req[q]
              /\ previous'[q] = previous[q] /\ wire'[q] = wire[q]
              /\ outcome'[q] = outcome[q] /\ reply'[q] = reply[q]
              /\ (q \in audited') <=> (q \in audited),
           Written(r) => req'[r] = req[r],
           Fate(r)'
    PROVE  OInv'
<1>1. LatestIsLive' /\ NoLostUpdate'
  <2>1. \A q \in Requests : Written(q) => req'[q] = req[q]
    OBVIOUS
  <2>2. QED
    BY <2>1, QuietLog
<1>2. \A q \in Requests \ {r} : Fate(q)'
  BY OtherFate
<1>3. QED
  BY <1>1, <1>2 DEF OInv

(* A request that has sent nothing has written nothing.                     *)
LEMMA UnsentUnwritten ==
    ASSUME OInv, NEW r \in Requests, pc[r] \in BeforeSend
    PROVE  ~Written(r)
BY DEF OInv, Fate, WrittenIsOver, Written, BeforeSend, PC

(* Any early return.                                                        *)
LEMMA RefuseOInv ==
    ASSUME IInv, OInv, NEW r \in Requests, NEW from \in BeforeSend,
           Refuse(r, from)
    PROVE  OInv'
<1> USE DEF Refuse, Answer, Goto, etcdVars
<1>1. /\ pc[r] = from /\ ~Written(r)
      /\ wire[r] = Nil
  BY UnsentUnwritten DEF IInv, WireIsOwned, BeforeSend, PC
<1>2. Fate(r)'
  BY <1>1 DEF IInv, TypeOK, OInv, Fate, TargetIsKept, WrittenIsOver,
              AnswerIsTrue, Written, Request
<1>3. QED
  BY <1>1, <1>2, QuietOInv DEF IInv, TypeOK

(* A request is accepted.                                                   *)
LEMMA AcceptOInv ==
    ASSUME IInv, OInv, NEW r \in Requests, NEW q,
           NEW first \in {"archive", "target"}, Accept(r, q, first)
    PROVE  OInv'
<1> USE DEF Accept, Goto, etcdVars, locals
<1>1. pc[r] = "idle" /\ ~Written(r) /\ wire[r] = Nil
  BY UnsentUnwritten DEF IInv, WireIsOwned, BeforeSend, PC
<1>2. Fate(r)'
  BY <1>1 DEF IInv, TypeOK, OInv, Fate, TargetIsKept, WrittenIsOver,
              AnswerIsTrue, Written
<1>3. QED
  BY <1>1, <1>2, QuietOInv DEF IInv, TypeOK

(* A request that arrives keeps OInv.                                       *)
LEMMA ReceiveOInv ==
    ASSUME IInv, OInv, NEW r \in Requests, Receive(r)
    PROVE  OInv'
<1>1. CASE Reject(r)
  BY <1>1, RefuseOInv DEF Reject, BeforeSend, PC
<1>2. ASSUME NEW q, NEW first \in {"archive", "target"}, Accept(r, q, first)
      PROVE  OInv'
  BY <1>2, AcceptOInv
<1>3. QED
  BY <1>1, <1>2 DEF Receive, ReceivePut, ReceiveDelete, ReceiveRollback

(* A handler goes on to its next step before the write.                     *)
LEMMA ForwardOInv ==
    ASSUME IInv, OInv, NEW r \in Requests, pc[r] \in BeforeSend,
           NEW to \in BeforeSend, pc' = [pc EXCEPT ![r] = to],
           UNCHANGED <<log, live, req, wire, outcome, reply, audited>>,
           \A q \in Requests \ {r} : previous'[q] = previous[q],
           req[r].op = "rollback"
              /\ to \in {"saveTarget", "saveCurrent", "send"} =>
                 previous'[r].mod = req[r].target
    PROVE  OInv'
<1>1. ~Written(r) /\ wire[r] = Nil
  BY UnsentUnwritten DEF IInv, WireIsOwned, BeforeSend
<1>2. reply[r] # "refused"
  BY DEF OInv, Fate, AnswerIsTrue, BeforeSend
<1>3. Fate(r)'
  BY <1>1, <1>2 DEF IInv, TypeOK, OInv, Fate, TargetIsKept, WrittenIsOver,
                    AnswerIsTrue, Written
<1>4. QED
  BY <1>3, QuietOInv DEF IInv, TypeOK

(* The steps that read entries and look for the target keep OInv.           *)
LEMMA ReadOInv ==
    ASSUME IInv, OInv, NEW r \in Requests,
           \/ ArchiveFound(r) \/ ArchiveMissingPut(r) \/ TargetCurrent(r)
           \/ TargetStored(r) \/ TargetNotStored(r) \/ TargetInEtcd(r)
    PROVE  OInv'
<1> USE DEF Goto, etcdVars, locals, BeforeSend, PC
<1>1. CASE ArchiveFound(r) \/ ArchiveMissingPut(r)
  <2>1. pc[r] = "archive" /\ req[r].op # "rollback"
    BY <1>1 DEF ArchiveFound, ReadCurrent, ArchiveMissingPut, IInv,
                LocalsAreVersions
  <2>2. PICK to \in {"saveCurrent", "send"} : pc' = [pc EXCEPT ![r] = to]
    BY <1>1 DEF ArchiveFound, ReadCurrent, ArchiveMissingPut
  <2>3. UNCHANGED <<log, live, req, previous, wire, outcome, reply, audited>>
    BY <1>1 DEF ArchiveFound, ReadCurrent, ArchiveMissingPut
  <2>4. QED
    BY <2>1, <2>2, <2>3, ForwardOInv
<1>2. CASE TargetCurrent(r) \/ TargetNotStored(r)
  <2>1. pc[r] \in {"target", "storedTarget"}
    BY <1>2 DEF TargetCurrent, ReadCurrent, TargetNotStored
  <2>2. PICK to \in {"storedTarget", "etcdTarget"} :
            pc' = [pc EXCEPT ![r] = to]
    BY <1>2 DEF TargetCurrent, ReadCurrent, TargetNotStored
  <2>3. UNCHANGED <<log, live, req, previous, wire, outcome, reply, audited>>
    BY <1>2 DEF TargetCurrent, ReadCurrent, TargetNotStored
  <2>4. QED
    BY <2>1, <2>2, <2>3, ForwardOInv
<1>3. CASE TargetStored(r) \/ TargetInEtcd(r)
  <2>1. pc[r] \in {"storedTarget", "etcdTarget"}
    BY <1>3 DEF TargetStored, TargetInEtcd
  <2>2. PICK to \in {"saveCurrent", "saveTarget"} :
            pc' = [pc EXCEPT ![r] = to]
    BY <1>3 DEF TargetStored, TargetInEtcd
  <2>3. UNCHANGED <<log, live, req, wire, outcome, reply, audited>>
    BY <1>3 DEF TargetStored, TargetInEtcd
  <2>4. \E s : previous' = [previous EXCEPT ![r] = s] /\ s.mod = req[r].target
    <3>1. CASE TargetStored(r)
      BY <3>1 DEF TargetStored, StoredTargets
    <3>2. CASE TargetInEtcd(r)
      <4>1. PICK m : /\ m = req[r].target
                     /\ previous' = [previous EXCEPT
                                       ![r] = [mod |-> m, val |-> log[m].val]]
        BY <3>2 DEF TargetInEtcd
      <4>2. [mod |-> m, val |-> log[m].val].mod = req[r].target
        BY <4>1
      <4>3. QED
        BY <4>1, <4>2
    <3>3. QED
      BY <1>3, <3>1, <3>2
  <2>5. QED
    BY <2>1, <2>2, <2>3, <2>4, ForwardOInv DEF IInv, TypeOK
<1>4. QED
  BY <1>1, <1>2, <1>3

(* A Save that ends well lets the handler go on; the entries stay.          *)
LEMMA SaveDoneOInv ==
    ASSUME IInv, OInv, NEW r \in Requests, SaveSnapshotDone(r)
    PROVE  OInv'
<1>1. PICK to \in {"saveCurrent", "send"} : pc' = [pc EXCEPT ![r] = to]
  BY DEF SaveSnapshotDone, Goto
<1>2. /\ pc[r] \in SaveStates
      /\ UNCHANGED <<log, live, req, previous, wire, outcome, reply, audited>>
  BY DEF SaveSnapshotDone, Goto, SaveStates, etcdVars, locals
<1>3. req[r] \in Request
  BY <1>2 DEF SaveStates, IInv, ExpectedIsPast
<1>4. req[r].op = "rollback" => previous[r].mod = req[r].target
  BY <1>2, <1>3 DEF SaveStates, OInv, Fate, TargetIsKept
<1>5. QED
  BY <1>1, <1>2, <1>4, ForwardOInv DEF SaveStates, BeforeSend, PC

(* Steps that leave etcd and the handlers alone.                            *)
LEMMA ElsewhereOInv ==
    ASSUME IInv, OInv, UNCHANGED <<log, live, handlerVars>>
    PROVE  OInv'
<1> USE DEF handlerVars, locals
<1>1. LatestIsLive' /\ NoLostUpdate'
  BY QuietLog
<1>2. \A q \in Requests : Fate(q)'
  BY OtherFate
<1>3. QED
  BY <1>1, <1>2 DEF OInv

(* The process ends: nobody waits for an answer any more.                   *)
LEMMA RestartOInv ==
    ASSUME IInv, OInv, ProcessRestart
    PROVE  OInv'
<1> USE DEF ProcessRestart, etcdVars
<1>1. LatestIsLive' /\ NoLostUpdate'
  BY QuietLog
<1>2. ASSUME NEW q \in Requests
      PROVE  Fate(q)'
  <2>1. pc'[q] = IF pc[q] \in {"idle", "answered"} THEN pc[q] ELSE "gone"
    OBVIOUS
  <2>2. TargetIsKept(q)'
    BY <2>1 DEF OInv, Fate, TargetIsKept, OfTarget, IsVersion
  <2>3. WrittenIsOver(q)'
    BY <2>1 DEF OInv, Fate, WrittenIsOver, OfTarget, IsVersion
  <2>4. AnswerIsTrue(q)'
    BY <2>1 DEF OInv, Fate, AnswerIsTrue
  <2>5. QED
    BY <2>2, <2>3, <2>4 DEF Fate
<1>3. QED
  BY <1>1, <1>2 DEF OInv

-----------------------------------------------------------------------------
(* The write.                                                               *)

(* What a rollback sends is the value of its target.                        *)
LEMMA WriteOfTarget ==
    ASSUME IInv, OInv, NEW r \in Requests, pc[r] = "send",
           req[r].op = "rollback"
    PROVE  OfTarget(r, WriteOf(r).val)
<1>1. req[r] \in Request
  BY DEF IInv, ExpectedIsPast
<1>2. /\ previous[r].mod = req[r].target
      /\ IsVersion(req[r].key, previous[r])
  BY <1>1 DEF OInv, Fate, TargetIsKept, IInv, LocalsAreVersions
<1>3. WriteOf(r).val = previous[r].val
  BY DEF WriteOf
<1>4. QED
  BY <1>2, <1>3 DEF OfTarget, IsVersion

(* Handing the write to the network keeps OInv.                             *)
LEMMA SendWriteOInv ==
    ASSUME IInv, OInv, NEW r \in Requests, SendWrite(r)
    PROVE  OInv'
<1> USE DEF SendWrite, Goto, etcdVars, locals
<1>1. ~Written(r) /\ reply[r] # "refused"
  <2>1. pc[r] \in BeforeSend
    BY DEF BeforeSend, PC
  <2>2. QED
    BY <2>1, UnsentUnwritten DEF OInv, Fate, AnswerIsTrue
<1>2. /\ pc'[r] = "await" /\ wire'[r] = WriteOf(r)
      /\ \A q \in Requests \ {r} : pc'[q] = pc[q] /\ wire'[q] = wire[q]
  BY DEF IInv, TypeOK
<1>3. TargetIsKept(r)'
  BY <1>2, WriteOfTarget DEF TargetIsKept, OfTarget, IsVersion
<1>4. WrittenIsOver(r)' /\ AnswerIsTrue(r)'
  BY <1>1, <1>2 DEF WrittenIsOver, Written, OInv, Fate, AnswerIsTrue
<1>5. QED
  BY <1>2, <1>3, <1>4, QuietOInv DEF Fate

(* A handler takes the answer, or stops waiting for it: it refuses only     *)
(* when etcd did.                                                           *)
LEMMA WriteEndsOInv ==
    ASSUME IInv, OInv, NEW r \in Requests, WriteReturns(r) \/ WriteTimesOut(r)
    PROVE  OInv'
<1>1. PICK answer \in {"ok", "refused", "unknown"} :
          /\ Answer(r, "await", answer)
          /\ answer = "refused" => outcome[r] \notin {"none", "ok"}
          /\ answer = "ok" \/ audited' # audited => outcome[r] = "ok"
          /\ outcome' = [outcome EXCEPT ![r] = "none"]
          /\ audited' \in {audited, audited \cup {r}}
          /\ UNCHANGED <<etcdVars, wire>>
  <2>1. CASE WriteReturns(r)
    BY <2>1 DEF WriteReturns
  <2>2. CASE WriteTimesOut(r)
    BY <2>2 DEF WriteTimesOut
  <2>3. QED
    BY <2>1, <2>2
<1> USE <1>1 DEF Answer, Goto, etcdVars
<1>2. /\ pc[r] = "await" /\ pc'[r] = "answered" /\ reply'[r] = answer
      /\ outcome'[r] = "none"
      /\ req'[r] = IF answer = "refused" THEN Nil ELSE req[r]
      /\ \A q \in Requests \ {r} :
            /\ pc'[q] = pc[q] /\ req'[q] = req[q]
            /\ previous'[q] = previous[q] /\ wire'[q] = wire[q]
            /\ outcome'[q] = outcome[q] /\ reply'[q] = reply[q]
            /\ (q \in audited') <=> (q \in audited)
  BY DEF IInv, TypeOK
<1>3. answer = "refused" => ~Written(r) /\ wire[r] = Nil
  BY <1>2 DEF OInv, Fate, WrittenIsOver, Written, IInv, WireIsOwned
<1>4. TargetIsKept(r)'
  <2>1. CASE answer = "refused"
    BY <1>2, <1>3, <2>1 DEF TargetIsKept
  <2>2. CASE answer # "refused"
    BY <1>2, <2>2 DEF OInv, Fate, TargetIsKept, OfTarget, IsVersion
  <2>3. QED
    BY <2>1, <2>2
<1>5. WrittenIsOver(r)'
  BY <1>2, <1>3 DEF OInv, Fate, WrittenIsOver, Written, OfTarget, IsVersion
<1>6. AnswerIsTrue(r)'
  BY <1>2, <1>3 DEF OInv, Fate, AnswerIsTrue
<1>7. QED
  BY <1>2, <1>3, <1>4, <1>5, <1>6, QuietOInv DEF Fate

(* etcd refuses the write; a handler that waits will learn it.              *)
LEMMA EtcdRefusesOInv ==
    ASSUME IInv, OInv, NEW r \in Requests, EtcdRefuses(r)
    PROVE  OInv'
<1>1. PICK result \in {"conflict", "not_found"} :
          Delivered(r, result) /\ wire[r] # Nil /\ UNCHANGED <<log, live>>
  BY DEF EtcdRefuses, etcdVars
<1> USE <1>1 DEF Delivered, locals
<1>2. ~Written(r)
  BY DEF OInv, Fate, WrittenIsOver, Written
<1>3. /\ wire'[r] = Nil /\ outcome'[r] \in {outcome[r], result}
      /\ \A q \in Requests \ {r} :
            wire'[q] = wire[q] /\ outcome'[q] = outcome[q]
  BY DEF IInv, TypeOK
<1>4. Fate(r)'
  BY <1>2, <1>3 DEF OInv, Fate, TargetIsKept, WrittenIsOver, AnswerIsTrue,
                    Written
<1>5. QED
  BY <1>3, <1>4, QuietOInv

(* A write leaves the entries of every earlier revision to be found.        *)
LEMMA WriteKeepsFound ==
    ASSUME IInv, NEW k \in Keys, NEW v \in Values \cup {Deleted},
           NEW w \in Requests \cup {External}, Write(k, v, w),
           NEW j, NEW rev \in 0..Len(log), NEW m
    PROVE  FoundAt(j, rev, m)' <=> FoundAt(j, rev, m)
<1>1. /\ \A i \in 1..Len(log) : log'[i] = log[i]
      /\ Len(log) \in Nat
  BY WriteExtendsLog DEF IInv
<1>2. m \in 1..rev => log'[m] = log[m]
  BY <1>1
<1>3. m \in 1..rev => \A i \in (m + 1)..rev : log'[i] = log[i]
  BY <1>1
<1>4. QED
  BY <1>2, <1>3 DEF FoundAt

(* A write keeps etcd's index complete.                                     *)
LEMMA WriteLatest ==
    ASSUME IInv, OInv, NEW k \in Keys, NEW v \in Values \cup {Deleted},
           NEW w \in Requests \cup {External}, Write(k, v, w)
    PROVE  LatestIsLive'
<1>0. Len(log) \in Nat /\ live \in [Keys -> Nat]
  BY DEF IInv, TypeOK
<1>1. /\ Len(log') = Len(log) + 1
      /\ log'[Len(log) + 1] = [key |-> k, val |-> v, by |-> w]
  BY WriteExtendsLog DEF IInv
<1>2. /\ live'[k] = IF v = Deleted THEN 0 ELSE Len(log) + 1
      /\ \A j \in Keys : j # k => live'[j] = live[j]
  BY <1>0 DEF Write
<1> SUFFICES ASSUME NEW j \in Keys, NEW m \in 1..Len(log'),
                    FoundAt(j, Len(log), m)'
             PROVE  live'[j] = m
  BY DEF LatestIsLive
<1>3. /\ log'[m].key = j /\ log'[m].val # Deleted
      /\ \A i \in (m + 1)..Len(log') : log'[i].key # j
  BY DEF FoundAt
<1>4. CASE m = Len(log) + 1
  BY <1>1, <1>2, <1>3, <1>4
<1>5. CASE m # Len(log) + 1
  <2> DEFINE n == Len(log)
  <2>1. m \in 1..n /\ n \in 0..Len(log)
    BY <1>0, <1>1, <1>5
  <2>2. log'[Len(log) + 1].key # j
    BY <1>0, <1>1, <1>3, <2>1
  <2>3. \A i \in (m + 1)..n : log'[i].key # j
    BY <1>0, <1>1, <1>3
  <2>4. /\ \A i \in 1..n : log'[i] = log[i]
    BY WriteExtendsLog DEF IInv
  <2>5. /\ log[m].key = j /\ log[m].val # Deleted
        /\ \A i \in (m + 1)..n : log[i].key # j
    BY <1>0, <1>3, <2>1, <2>3, <2>4
  <2>6. FoundAt(j, Len(log), m)
    BY <2>1, <2>5 DEF FoundAt
  <2>7. QED
    BY <1>1, <1>2, <2>1, <2>2, <2>6 DEF OInv, LatestIsLive
<1>6. QED
  BY <1>4, <1>5

(* The new revision follows the one its writer named, and the others still  *)
(* do.                                                                      *)
LEMMA WriteFollows ==
    ASSUME IInv, OInv, NEW k \in Keys, NEW v \in Values \cup {Deleted},
           NEW w \in Requests \cup {External}, Write(k, v, w), req' = req,
           w \in Requests /\ Conditional(w) => live[k] = req[w].expected
    PROVE  NoLostUpdate'
<1>1. /\ Len(log') = Len(log) + 1 /\ Len(log) \in Nat
      /\ \A i \in 1..Len(log) : log'[i] = log[i]
      /\ log'[Len(log) + 1] = [key |-> k, val |-> v, by |-> w]
      /\ log' \in Seq(Version) /\ log \in Seq(Version)
  BY WriteExtendsLog DEF IInv, TypeOK
<1>1a. DOMAIN log = 1..Len(log) /\ DOMAIN log' = 1..Len(log')
  BY <1>1
<1> SUFFICES ASSUME NEW i \in DOMAIN log', NEW r \in Requests, NEW j, NEW e,
                    log'[i].by = r, log'[i].key = j, Conditional(r),
                    req[r].expected = e
             PROVE  IF e = 0
                    THEN ~\E m \in 1..(i - 1) : FoundAt(j, i - 1, m)'
                    ELSE FoundAt(j, i - 1, e)'
  BY DEF NoLostUpdate, Conditional, FoundAt
<1>2. i \in 1..(Len(log) + 1) /\ i - 1 \in 0..Len(log)
  BY <1>1, <1>1a
<1>3. ASSUME NEW m
      PROVE  FoundAt(j, i - 1, m)' <=> FoundAt(j, i - 1, m)
  <2> DEFINE n == i - 1
  <2> HIDE DEF n
  <2>1. n \in 0..Len(log)
    BY <1>2 DEF n
  <2>2. FoundAt(j, n, m)' <=> FoundAt(j, n, m)
    BY <2>1, WriteKeepsFound
  <2>3. QED
    BY <2>2 DEF n
<1>4. CASE i \in 1..Len(log)
  <2>1. log'[i] = log[i] /\ i \in DOMAIN log
    BY <1>1, <1>1a, <1>4
  <2>2. IF e = 0 THEN ~\E m \in 1..(i - 1) : FoundAt(j, i - 1, m)
                 ELSE FoundAt(j, i - 1, e)
    BY <2>1 DEF OInv, NoLostUpdate
  <2>3. QED
    BY <1>3, <2>2
<1>5. CASE i = Len(log) + 1
  <2>1. r = w /\ j = k /\ i - 1 = Len(log) /\ live[k] = e
    BY <1>1, <1>5
  <2>2. CASE e = 0
    <3>1. ~\E m \in 1..(i - 1) : FoundAt(j, i - 1, m)
      BY <1>1, <2>1, <2>2 DEF OInv, LatestIsLive
    <3>2. QED
      BY <1>3, <2>2, <3>1
  <2>3. CASE e # 0
    <3>1. FoundAt(j, i - 1, e)
      BY <2>1, <2>3 DEF IInv, LiveIsLatest
    <3>2. QED
      BY <1>3, <2>3, <3>1
  <2>4. QED
    BY <2>2, <2>3
<1>6. QED
  BY <1>1, <1>2, <1>4, <1>5

(* A request other than the writer.                                         *)
LEMMA OtherFateOnWrite ==
    ASSUME IInv, OInv, NEW k \in Keys, NEW v \in Values \cup {Deleted},
           NEW w \in Requests \cup {External}, Write(k, v, w),
           NEW q \in Requests, q # w,
           pc'[q] = pc[q], req'[q] = req[q], previous'[q] = previous[q],
           wire'[q] = wire[q], outcome'[q] = outcome[q],
           reply'[q] = reply[q], (q \in audited') <=> (q \in audited)
    PROVE  Fate(q)'
<1>1. /\ Len(log') = Len(log) + 1 /\ Len(log) \in Nat
      /\ \A i \in 1..Len(log) : log'[i] = log[i]
      /\ log'[Len(log) + 1] = [key |-> k, val |-> v, by |-> w]
      /\ log' \in Seq(Version) /\ log \in Seq(Version)
  BY WriteExtendsLog DEF IInv, TypeOK
<1>2. /\ DOMAIN log = 1..Len(log) /\ DOMAIN log' = 1..(Len(log) + 1)
      /\ log'[Len(log) + 1].by # q
  BY <1>1
<1>3. ASSUME NEW val, OfTarget(q, val)
      PROVE  OfTarget(q, val)'
  BY <1>1, <1>3 DEF OfTarget, IsVersion
<1>4. TargetIsKept(q)'
  BY <1>3 DEF OInv, Fate, TargetIsKept, OfTarget
<1>5. WrittenIsOver(q)'
  <2> SUFFICES ASSUME NEW i \in DOMAIN log', log'[i].by = q
               PROVE  /\ pc[q] \in {"await", "answered", "gone"}
                      /\ pc[q] = "await" => outcome[q] = "ok"
                      /\ wire[q] = Nil
                      /\ reply[q] # "refused"
                      /\ req[q] \in Request /\ log'[i].key = req[q].key
                      /\ req[q].op = "rollback" =>
                            /\ req[q].target \in 1..Len(log')
                            /\ log'[req[q].target].key = req[q].key
                            /\ log'[req[q].target].val = log'[i].val
    BY DEF WrittenIsOver, OfTarget, IsVersion
  <2>1. i \in DOMAIN log /\ log'[i] = log[i]
    BY <1>1, <1>2
  <2>2. QED
    BY <1>1, <2>1 DEF OInv, Fate, WrittenIsOver, OfTarget, IsVersion
<1>6. AnswerIsTrue(q)'
  BY <1>1, <1>2 DEF OInv, Fate, AnswerIsTrue
<1>7. QED
  BY <1>4, <1>5, <1>6 DEF Fate

(* The request whose write etcd applies.                                    *)
LEMMA EtcdAppliesOInv ==
    ASSUME IInv, OInv, NEW r \in Requests, EtcdApplies(r)
    PROVE  OInv'
<1> USE DEF EtcdApplies, Delivered, locals
<1>1. /\ wire[r] \in Message /\ req[r] \in Request
      /\ wire[r].key = req[r].key /\ wire[r].expected = req[r].expected
      /\ wire[r].key \in Keys /\ wire[r].val \in Values \cup {Deleted}
  BY DEF IInv, ExpectedIsPast, Message
<1>2. /\ wire'[r] = Nil
      /\ pc[r] = "await" => outcome'[r] = "ok"
      /\ \A q \in Requests \ {r} :
            wire'[q] = wire[q] /\ outcome'[q] = outcome[q]
  BY DEF IInv, TypeOK
<1>3. LatestIsLive'
  BY <1>1, WriteLatest
<1>4. NoLostUpdate'
  <2>1. Conditional(r) => live[wire[r].key] = req[r].expected
    <3>1. CompareModRevision(wire[r].key, wire[r].expected)
      OBVIOUS
    <3>2. Conditional(r) => req[r].expected # Nil
      BY <1>1, NilAssumption DEF Conditional, Request, Revision
    <3>3. QED
      BY <1>1, <3>1, <3>2 DEF CompareModRevision
  <2>2. QED
    BY <1>1, <2>1, WriteFollows
<1>5. \A q \in Requests \ {r} : Fate(q)'
  BY <1>1, <1>2, OtherFateOnWrite
<1>6. /\ Len(log') = Len(log) + 1 /\ Len(log) \in Nat
      /\ \A i \in 1..Len(log) : log'[i] = log[i]
      /\ log'[Len(log) + 1] = [key |-> wire[r].key, val |-> wire[r].val,
                               by |-> r]
      /\ log' \in Seq(Version) /\ log \in Seq(Version)
  BY <1>1, WriteExtendsLog DEF IInv, TypeOK
<1>7. /\ DOMAIN log = 1..Len(log) /\ DOMAIN log' = 1..(Len(log) + 1)
      /\ \A i \in DOMAIN log : log[i].by # r
  BY <1>6 DEF OInv, Fate, WrittenIsOver
<1>8. TargetIsKept(r)'
  BY <1>2 DEF IInv, WireIsOwned, TargetIsKept
<1>9. WrittenIsOver(r)'
  <2> SUFFICES ASSUME NEW i \in DOMAIN log', log'[i].by = r
               PROVE  /\ pc[r] \in {"await", "answered", "gone"}
                      /\ pc[r] = "await" => outcome'[r] = "ok"
                      /\ wire'[r] = Nil
                      /\ reply[r] # "refused"
                      /\ req[r] \in Request /\ log'[i].key = req[r].key
                      /\ req[r].op = "rollback" =>
                            /\ req[r].target \in 1..Len(log')
                            /\ log'[req[r].target].key = req[r].key
                            /\ log'[req[r].target].val = log'[i].val
    BY DEF WrittenIsOver, OfTarget, IsVersion
  <2>1. i = Len(log) + 1
    BY <1>6, <1>7
  <2>2. pc[r] \in {"await", "answered", "gone"} /\ reply[r] # "refused"
    BY DEF IInv, WireIsOwned, OInv, Fate, AnswerIsTrue
  <2>3. req[r].op = "rollback" => OfTarget(r, wire[r].val)
    BY <1>1 DEF OInv, Fate, TargetIsKept
  <2>4. QED
    BY <1>1, <1>2, <1>6, <2>1, <2>2, <2>3 DEF OfTarget, IsVersion
<1>10. AnswerIsTrue(r)'
  <2>1. \E i \in DOMAIN log' : log'[i].by = r
    BY <1>6, <1>7
  <2>2. QED
    BY <1>2, <2>1 DEF OInv, Fate, AnswerIsTrue
<1>11. QED
  BY <1>3, <1>4, <1>5, <1>8, <1>9, <1>10 DEF OInv, Fate

(* A write of another client.                                               *)
LEMMA OtherWriterOInv ==
    ASSUME IInv, OInv, NEW k \in Keys, NEW v \in Values \cup {Deleted},
           OtherWriter(k, v)
    PROVE  OInv'
<1>1. Write(k, v, External) /\ UNCHANGED handlerVars
  BY DEF OtherWriter, ExternalWrite
<1> USE <1>1, ExternalAssumption DEF handlerVars, locals
<1>2. LatestIsLive'
  BY WriteLatest
<1>3. NoLostUpdate'
  BY WriteFollows
<1>4. \A q \in Requests : Fate(q)'
  BY OtherFateOnWrite
<1>5. QED
  BY <1>2, <1>3, <1>4 DEF OInv

-----------------------------------------------------------------------------
(* Every step of a handler keeps OInv.                                      *)
LEMMA HandlerOInv ==
    ASSUME IInv, OInv, NEW r \in Requests, Handler(r)
    PROVE  OInv'
<1>1. ASSUME \/ EtcdReadFails(r) \/ ArchiveConflict(r)
             \/ ArchiveMissingDelete(r) \/ TargetRefused(r)
             \/ HistoryReadFails(r) \/ TargetUnavailable(r)
             \/ SaveSnapshotFails(r)
      PROVE  OInv'
  <2>1. PICK from \in BeforeSend : Refuse(r, from)
    BY <1>1 DEF EtcdReadFails, ArchiveConflict, ArchiveMissingDelete,
                TargetRefused, HistoryReadFails, TargetUnavailable,
                SaveSnapshotFails, SaveStates, BeforeSend, PC
  <2>2. QED
    BY <2>1, RefuseOInv
<1>2. ASSUME SaveSnapshotBegin(r) \/ SaveSnapshotAppend(r)
      PROVE  OInv'
  BY <1>2, ElsewhereOInv DEF SaveSnapshotBegin, SaveSnapshotAppend, etcdVars
<1>3. QED
  BY <1>1, <1>2, ReadOInv, SaveDoneOInv, SendWriteOInv, WriteEndsOInv
     DEF Handler

(* Every step keeps OInv.                                                   *)
LEMMA NextOInv ==
    ASSUME IInv, OInv, [Next]_vars
    PROVE  OInv'
<1>1. CASE Environment
  <2>1. CASE Compaction \/ Administration
    BY <2>1, ElsewhereOInv DEF Compaction, Compact, Administration, etcdVars
  <2>2. QED
    BY <1>1, <2>1, OtherWriterOInv, RestartOInv DEF Environment
<1>2. CASE UNCHANGED vars
  BY <1>2, ElsewhereOInv DEF vars, etcdVars
<1>3. ASSUME NEW r \in Requests, Wire(r)
      PROVE  OInv'
  BY <1>3, EtcdAppliesOInv, EtcdRefusesOInv DEF Wire
<1>4. QED
  BY <1>1, <1>2, <1>3, ReceiveOInv, HandlerOInv DEF Next

(* The invariant about answers holds in every reachable state.              *)
THEOREM OutcomeInvariance == Spec => []OInv
BY InitOInv, NextOInv, Invariance, PTL DEF Spec

(* No update is lost: a conditional write follows exactly the revision its  *)
(* request names, however late it arrives and whatever was retried.         *)
THEOREM NoUpdateIsLost == Spec => []NoLostUpdate
<1>1. OInv => NoLostUpdate
  BY DEF OInv
<1>2. QED
  BY <1>1, OutcomeInvariance, PTL

(* A rollback writes the value of the revision it was asked for.            *)
THEOREM RollbacksRestore == Spec => []RollbackRestoresTarget
<1>1. OInv => RollbackRestoresTarget
  BY DEF OInv, Fate, WrittenIsOver, OfTarget, IsVersion,
         RollbackRestoresTarget
<1>2. QED
  BY <1>1, OutcomeInvariance, PTL

(* A refusal is final: nothing was written and nothing will be.             *)
THEOREM RefusalsAreFinal == Spec => []RefusedChangesNothing
<1>1. OInv => RefusedChangesNothing
  BY DEF OInv, Fate, WrittenIsOver, AnswerIsTrue, RefusedChangesNothing
<1>2. QED
  BY <1>1, OutcomeInvariance, PTL

(* A success that was answered or audited was written.                      *)
THEOREM ReportsAreTrue == Spec => []ReportedIsWritten
<1>1. OInv => ReportedIsWritten
  BY DEF OInv, Fate, AnswerIsTrue, ReportedIsWritten
<1>2. QED
  BY <1>1, OutcomeInvariance, PTL

-----------------------------------------------------------------------------
(* The versions listed for rollback: sets of revisions, and their newest.   *)

(* The newer ones among S.                                                  *)
Above(S, m) == {i \in S : i > m}

(* Of any sets within a finite set one is smallest.                         *)
LEMMA SmallestSet ==
    ASSUME NEW S, IsFiniteSet(S), NEW T \in SUBSET (SUBSET S), T # {}
    PROVE  \E x \in T : \A y \in T : ~(y \subseteq x /\ x # y)
<1>1. IsWellFoundedOn(StrictSubsetOrdering(S), FiniteSubsetsOf(S))
  BY FS_StrictSubsetOrderingWellFounded, Zenon
<1>2. T \subseteq FiniteSubsetsOf(S)
  BY FS_Subset DEF FiniteSubsetsOf
<1>3. \E x \in T : \A y \in T : ~ (<<y, x>> \in StrictSubsetOrdering(S))
  BY <1>1, <1>2, WFMin, Zenon
<1>4. QED
  BY <1>2, <1>3 DEF StrictSubsetOrdering, FiniteSubsetsOf

(* A set of numbers up to N has a least ...                                 *)
LEMMA SmallestNumber ==
    ASSUME NEW N \in Nat, NEW S \in SUBSET (0..N), S # {}
    PROVE  \E x \in S : \A y \in S : x <= y
<1> DEFINE T == {0..i : i \in S}
<1>1. IsFiniteSet(0..N)
  BY FS_Interval
<1>2. T \in SUBSET (SUBSET (0..N))
  <2>1. ASSUME NEW i \in S PROVE 0..i \in SUBSET (0..N)
    OBVIOUS
  <2>2. QED
    BY <2>1
<1>a. T # {}
  <2>1. PICK i \in S : TRUE
    OBVIOUS
  <2>2. 0..i \in T
    OBVIOUS
  <2>3. QED
    BY <2>2
<1>3. PICK s \in T : \A t \in T : ~(t \subseteq s /\ s # t)
  <2> DEFINE D == 0..N
  <2>1. IsFiniteSet(D) /\ T \in SUBSET (SUBSET D)
    BY <1>1, <1>2
  <2> HIDE DEF T, D
  <2>2. QED
    BY <1>a, <2>1, SmallestSet
<1>4. PICK x \in S : s = 0..x
  OBVIOUS
<1>5. ASSUME NEW y \in S PROVE x <= y
  <2>1. x \in Int /\ y \in Int /\ 0..y \in T
    OBVIOUS
  <2>2. ~(0..y \subseteq 0..x /\ 0..x # 0..y)
    BY <1>3, <1>4, <2>1
  <2>3. SUFFICES ASSUME y < x PROVE FALSE
    BY <2>1
  <2>4. 0..y \subseteq 0..x
    BY <2>1, <2>3
  <2>5. x \in 0..x /\ x \notin 0..y
    BY <2>1, <2>3
  <2>6. QED
    BY <2>2, <2>4, <2>5
<1>6. QED
  BY <1>5

(* ... and a greatest element.                                              *)
LEMMA GreatestNumber ==
    ASSUME NEW N \in Nat, NEW S \in SUBSET (0..N), S # {}
    PROVE  \E x \in S : \A y \in S : y <= x
<1> DEFINE T == {N - i : i \in S}
<1>1. T \in SUBSET (0..N)
  <2>1. ASSUME NEW i \in S PROVE N - i \in 0..N
    OBVIOUS
  <2>2. QED
    BY <2>1
<1>a. T # {}
  <2>1. PICK i \in S : TRUE
    OBVIOUS
  <2>2. N - i \in T
    OBVIOUS
  <2>3. QED
    BY <2>2
<1>2. PICK t \in T : \A u \in T : t <= u
  <2> HIDE DEF T
  <2>1. QED
    BY <1>1, <1>a, SmallestNumber, Zenon
<1>3. PICK x \in S : t = N - x
  OBVIOUS
<1>4. \A y \in S : y <= x
  BY <1>2, <1>3
<1>5. QED
  BY <1>4

(* Counting what is above a revision makes sense in a finite set.           *)
LEMMA AboveFinite ==
    ASSUME NEW S, IsFiniteSet(S), NEW m
    PROVE  IsFiniteSet(Above(S, m)) /\ Cardinality(Above(S, m)) \in Nat
<1>1. Above(S, m) \in SUBSET S
  BY DEF Above
<1>2. QED
  BY <1>1, FS_Subset, FS_CardinalityType

(* Newest, with what is above a revision named.                             *)
LEMMA NewestIs ==
    ASSUME NEW S, NEW n, NEW m
    PROVE  m \in Newest(S, n) <=> m \in S /\ Cardinality(Above(S, m)) < n
  BY DEF Newest, Above

(* Sets of revisions are finite.                                            *)
LEMMA NumbersFinite ==
    ASSUME NEW N \in Nat, NEW S \in SUBSET (0..N)
    PROVE  IsFiniteSet(S) /\ Cardinality(S) \in Nat
<1>1. IsFiniteSet(0..N)
  BY FS_Interval
<1>2. QED
  BY <1>1, FS_Subset, FS_CardinalityType

(* Everything above the newest of those left out is kept, and is enough.    *)
LEMMA LastLeftOut ==
    ASSUME NEW N \in Nat, NEW S \in SUBSET (0..N), NEW n \in Nat,
           NEW m \in S, m \notin Newest(S, n)
    PROVE  \E b \in S : /\ b \notin Newest(S, n) /\ m <= b
                        /\ Above(S, b) \subseteq Newest(S, n)
                        /\ Cardinality(Above(S, b)) >= n
<1> DEFINE Out == S \ Newest(S, n)
<1>1. Out \in SUBSET (0..N) /\ Out # {}
  OBVIOUS
<1>2. PICK b \in Out : \A y \in Out : y <= b
  <2> HIDE DEF Out
  <2>1. QED
    BY <1>1, GreatestNumber
<1>3. Above(S, b) \subseteq Newest(S, n)
  <2>1. ASSUME NEW i \in Above(S, b) PROVE i \in Newest(S, n)
    <3>1. i \in S /\ i > b /\ i \in Int /\ b \in Int
      BY DEF Above
    <3>2. QED
      BY <3>1, <1>2
  <2>2. QED
    BY <2>1
<1>4. Cardinality(Above(S, b)) \in Nat
  BY NumbersFinite, AboveFinite
<1>5. ~(Cardinality(Above(S, b)) < n)
  BY NewestIs
<1>6. QED
  BY <1>2, <1>3, <1>4, <1>5

(* Above one that is left out, at least n are kept.                         *)
LEMMA EnoughAbove ==
    ASSUME NEW N \in Nat, NEW S \in SUBSET (0..N), NEW n \in Nat,
           NEW m \in S, m \notin Newest(S, n)
    PROVE  Cardinality(Above(Newest(S, n), m)) >= n
<1>1. PICK b \in S : /\ m <= b /\ Above(S, b) \subseteq Newest(S, n)
                     /\ Cardinality(Above(S, b)) >= n
  BY LastLeftOut
<1>2. Newest(S, n) \in SUBSET (0..N)
  BY DEF Newest
<1>3. /\ IsFiniteSet(Above(Newest(S, n), m))
      /\ Cardinality(Above(Newest(S, n), m)) \in Nat
  BY <1>2, NumbersFinite, AboveFinite
<1>4. Above(S, b) \in SUBSET Above(Newest(S, n), m)
  <2>1. ASSUME NEW i \in Above(S, b) PROVE i \in Above(Newest(S, n), m)
    <3>1. /\ i \in S /\ i > b /\ i \in Newest(S, n)
          /\ i \in Int /\ b \in Int /\ m \in Int
      BY <1>1 DEF Above
    <3>2. i > m
      BY <1>1, <3>1
    <3>3. QED
      BY <3>1, <3>2 DEF Above
  <2>2. QED
    BY <2>1
<1>5. Cardinality(Above(S, b)) <= Cardinality(Above(Newest(S, n), m))
  BY <1>3, <1>4, FS_Subset
<1>6. Cardinality(Above(S, b)) \in Nat
  BY NumbersFinite, AboveFinite
<1>7. QED
  BY <1>1, <1>3, <1>5, <1>6

(* Newest(S, n) has at most n elements.                                     *)
LEMMA AtMost ==
    ASSUME NEW N \in Nat, NEW S \in SUBSET (0..N), NEW n \in Nat
    PROVE  Cardinality(Newest(S, n)) <= n
<1>1. Newest(S, n) \in SUBSET (0..N)
  BY DEF Newest
<1>2. CASE Newest(S, n) = {}
  BY <1>2, FS_EmptySet
<1>3. CASE Newest(S, n) # {}
  <2>1. PICK z \in Newest(S, n) : \A y \in Newest(S, n) : z <= y
    BY <1>1, <1>3, SmallestNumber
  <2>2. Cardinality(Above(S, z)) < n
    BY <2>1, NewestIs
  <2>3. IsFiniteSet(Above(S, z)) /\ Cardinality(Above(S, z)) \in Nat
    BY NumbersFinite, AboveFinite
  <2>4. z \notin Above(S, z)
    BY <1>1 DEF Above
  <2>5. /\ IsFiniteSet(Above(S, z) \cup {z})
        /\ Cardinality(Above(S, z) \cup {z}) = Cardinality(Above(S, z)) + 1
    BY <2>3, <2>4, FS_AddElement
  <2>6. Newest(S, n) \in SUBSET (Above(S, z) \cup {z})
    <3>1. ASSUME NEW y \in Newest(S, n), y # z PROVE y \in Above(S, z)
      BY <1>1, <2>1, <3>1 DEF Above, Newest
    <3>2. QED
      BY <3>1
  <2>7. Cardinality(Newest(S, n)) <= Cardinality(Above(S, z) \cup {z})
    BY <2>5, <2>6, FS_Subset
  <2>8. Cardinality(Newest(S, n)) \in Nat
    BY <1>1, NumbersFinite
  <2>9. QED
    BY <2>2, <2>3, <2>5, <2>7, <2>8
<1>4. QED
  BY <1>2, <1>3

(* Two facts about sets, named so that they are not expanded.               *)
Upto(S, N) == S \in SUBSET (0..N)

Merged(S, A, B) == S = A \cup B

(* The newest of either source, merged and cut, are the newest of both.     *)
LEMMA MergedNewest ==
    ASSUME NEW N \in Nat, NEW A, NEW B, Upto(A, N), Upto(B, N),
           NEW n \in Nat, NEW U, Merged(U, A, B),
           NEW C, Merged(C, Newest(A, n), Newest(B, n))
    PROVE  Newest(U, n) \subseteq C /\ C \in SUBSET U
<1> USE DEF Upto, Merged
<1>1. ASSUME NEW m \in Newest(U, n), NEW S \in {A, B}, m \in S
      PROVE  m \in Newest(S, n)
  <2>1. U \in SUBSET (0..N) /\ S \in SUBSET U /\ S \in SUBSET (0..N)
    OBVIOUS
  <2>2. IsFiniteSet(Above(U, m)) /\ Cardinality(Above(U, m)) \in Nat
    BY <2>1, NumbersFinite, AboveFinite
  <2>3. Above(S, m) \in SUBSET Above(U, m)
    BY <2>1 DEF Above
  <2>4. Cardinality(Above(S, m)) <= Cardinality(Above(U, m))
    BY <2>2, <2>3, FS_Subset
  <2>5. Cardinality(Above(U, m)) < n
    BY NewestIs
  <2>6. Cardinality(Above(S, m)) \in Nat
    BY <2>1, NumbersFinite, AboveFinite
  <2>7. Cardinality(Above(S, m)) < n
    BY <2>2, <2>4, <2>5, <2>6
  <2>8. QED
    BY <1>1, <2>7, NewestIs
<1>2. Newest(U, n) \subseteq U
  BY DEF Newest
<1>3. QED
  BY <1>1, <1>2 DEF Newest

(* What a page shows of the candidates is what it would show of all.        *)
LEMMA CutOfSample ==
    ASSUME NEW N \in Nat, NEW U \in SUBSET (0..N), NEW C \in SUBSET U,
           NEW n \in Nat, Newest(U, n) \subseteq C
    PROVE  Newest(C, n) = Newest(U, n)
<1>0. /\ C \in SUBSET (0..N) /\ Newest(U, n) \in SUBSET (0..N)
      /\ Newest(U, n) \in SUBSET U
  BY DEF Newest
<1>1. ASSUME NEW m \in Newest(U, n) PROVE m \in Newest(C, n)
  <2>1. m \in C /\ Cardinality(Above(U, m)) < n
    BY NewestIs
  <2>2. IsFiniteSet(Above(U, m)) /\ Cardinality(Above(U, m)) \in Nat
    BY NumbersFinite, AboveFinite
  <2>3. Above(C, m) \in SUBSET Above(U, m)
    BY DEF Above
  <2>4. Cardinality(Above(C, m)) <= Cardinality(Above(U, m))
    BY <2>2, <2>3, FS_Subset
  <2>5. Cardinality(Above(C, m)) \in Nat
    BY <1>0, NumbersFinite, AboveFinite
  <2>6. Cardinality(Above(C, m)) < n
    BY <2>1, <2>2, <2>4, <2>5
  <2>7. QED
    BY <2>1, <2>6, NewestIs
<1>2. ASSUME NEW m \in Newest(C, n) PROVE m \in Newest(U, n)
  <2>1. m \in C /\ Cardinality(Above(C, m)) < n /\ m \in U
    BY NewestIs
  <2>2. SUFFICES ASSUME m \notin Newest(U, n) PROVE FALSE
    OBVIOUS
  <2>3. Cardinality(Above(Newest(U, n), m)) >= n
    BY <2>1, <2>2, EnoughAbove
  <2>4. IsFiniteSet(Above(C, m)) /\ Cardinality(Above(C, m)) \in Nat
    BY <1>0, NumbersFinite, AboveFinite
  <2>5. Above(Newest(U, n), m) \in SUBSET Above(C, m)
    BY DEF Above
  <2>6. Cardinality(Above(Newest(U, n), m)) <= Cardinality(Above(C, m))
    BY <2>4, <2>5, FS_Subset
  <2>7. Cardinality(Above(Newest(U, n), m)) \in Nat
    BY <1>0, NumbersFinite, AboveFinite
  <2>8. QED
    BY <2>1, <2>3, <2>4, <2>6, <2>7
<1>3. QED
  BY <1>1, <1>2

(* A page and its flag, from the newest of either source.                   *)
LEMMA PageOfMerged ==
    ASSUME NEW N \in Nat, NEW A, NEW B, Upto(A, N), Upto(B, N),
           NEW l \in Nat, NEW p \in Nat, p = l + 1,
           NEW U, Merged(U, A, B),
           NEW C, Merged(C, Newest(A, p), Newest(B, p))
    PROVE  /\ Newest(C, l) = Newest(U, l)
           /\ Cardinality(C) > l <=> Newest(U, l) # U
<1>1. U \in SUBSET (0..N)
  BY DEF Upto, Merged
<1>2. Newest(U, p) \subseteq C /\ C \in SUBSET U
  BY MergedNewest
<1>3. C \in SUBSET (0..N)
  BY <1>1, <1>2
<1>4. IsFiniteSet(C) /\ Cardinality(C) \in Nat
  BY <1>3, NumbersFinite
<1>5. Newest(U, l) \subseteq C
  <2>1. ASSUME NEW m \in Newest(U, l) PROVE m \in Newest(U, p)
    <3>1. m \in U /\ Cardinality(Above(U, m)) < l
      BY NewestIs
    <3>2. Cardinality(Above(U, m)) \in Nat
      BY <1>1, NumbersFinite, AboveFinite
    <3>3. Cardinality(Above(U, m)) < p
      BY <3>1, <3>2
    <3>4. QED
      BY <3>1, <3>3, NewestIs
  <2>2. QED
    BY <1>2, <2>1
<1>6. Newest(C, l) = Newest(U, l)
  BY <1>1, <1>2, <1>5, CutOfSample
<1>7. ASSUME Newest(U, l) = U PROVE ~(Cardinality(C) > l)
  <2>1. Cardinality(U) <= l /\ IsFiniteSet(U) /\ Cardinality(U) \in Nat
    BY <1>1, <1>7, AtMost, NumbersFinite
  <2>2. Cardinality(C) <= Cardinality(U)
    BY <1>2, <2>1, FS_Subset
  <2>3. QED
    BY <1>4, <2>1, <2>2
<1>8. ASSUME Newest(U, l) # U PROVE Cardinality(C) > l
  <2>1. PICK m \in U : m \notin Newest(U, l)
    BY <1>8 DEF Newest
  <2>2. PICK b \in U : /\ b \notin Newest(U, l)
                       /\ Above(U, b) \subseteq Newest(U, l)
                       /\ Cardinality(Above(U, b)) >= l
    BY <1>1, <2>1, LastLeftOut
  <2> DEFINE D == Above(U, b)
  <2>3. IsFiniteSet(D) /\ Cardinality(D) \in Nat
    BY <1>1, NumbersFinite, AboveFinite
  <2>4. Cardinality(D) <= l
    <3>1. Newest(U, l) \in SUBSET (0..N)
      BY <1>1 DEF Newest
    <3>2. /\ IsFiniteSet(Newest(U, l)) /\ Cardinality(Newest(U, l)) \in Nat
          /\ Cardinality(Newest(U, l)) <= l
      BY <1>1, <3>1, NumbersFinite, AtMost
    <3>3. Cardinality(D) <= Cardinality(Newest(U, l))
      BY <2>2, <3>2, FS_Subset
    <3>4. QED
      BY <2>3, <3>2, <3>3
  <2>5. Cardinality(D) < p
    BY <2>3, <2>4
  <2>6. b \in C
    BY <1>2, <2>5, NewestIs
  <2>7. b \notin D
    BY <1>1 DEF Above
  <2>8. D \cup {b} \in SUBSET C
    BY <1>5, <2>2, <2>6
  <2> HIDE DEF D
  <2>9. Cardinality(D \cup {b}) = Cardinality(D) + 1
    BY <2>3, <2>7, FS_AddElement
  <2>10. Cardinality(D \cup {b}) <= Cardinality(C)
    BY <1>4, <2>8, FS_Subset
  <2>11. Cardinality(D) >= l
    BY <2>2 DEF D
  <2>12. QED
    BY <1>4, <2>3, <2>9, <2>10, <2>11
<1>9. QED
  BY <1>6, <1>7, <1>8

(* The newest of a set and a number above it.                               *)
LEMMA NewestWithTop ==
    ASSUME NEW m \in Nat, NEW R \in SUBSET (0..(m - 1)), NEW n \in Nat \ {0}
    PROVE  Newest({m} \cup R, n) = {m} \cup Newest(R, n - 1)
<1> DEFINE U == {m} \cup R
<1>1. R \in SUBSET (0..m) /\ U \in SUBSET (0..m)
  OBVIOUS
<1>2. m \in Newest(U, n)
  <2>1. Above(U, m) = {}
    <3>1. ASSUME NEW i \in U PROVE ~(i > m)
      BY <1>1
    <3>2. QED
      BY <3>1 DEF Above
  <2>2. Cardinality(Above(U, m)) < n
    BY <2>1, FS_EmptySet
  <2>3. QED
    BY <2>2, NewestIs
<1>3. ASSUME NEW i \in R
      PROVE  i \in Newest(U, n) <=> i \in Newest(R, n - 1)
  <2>1. Above(U, i) = Above(R, i) \cup {m}
    BY DEF Above
  <2>2. m \notin Above(R, i)
    BY DEF Above
  <2>3. IsFiniteSet(Above(R, i)) /\ Cardinality(Above(R, i)) \in Nat
    BY <1>1, NumbersFinite, AboveFinite
  <2>4. Cardinality(Above(U, i)) = Cardinality(Above(R, i)) + 1
    BY <2>1, <2>2, <2>3, FS_AddElement
  <2>5. Cardinality(Above(U, i)) < n <=> Cardinality(Above(R, i)) < n - 1
    BY <2>3, <2>4
  <2>6. i \in U
    OBVIOUS
  <2> HIDE DEF U
  <2>7. QED
    BY <2>5, <2>6, NewestIs
<1>4. Newest(U, n) \subseteq U /\ Newest(R, n - 1) \subseteq R
  BY DEF Newest
<1>5. QED
  BY <1>2, <1>3, <1>4

-----------------------------------------------------------------------------
(* The walk through etcd's revisions.                                       *)

(* The versions in etcd, up to a revision, that no deletion separates from  *)
(* it and that can be read.                                                 *)
Reach(k, rev) ==
    {m \in 1..rev :
        /\ \A i \in m..rev : log[i].key = k => log[i].val # Deleted
        /\ \E at \in m..rev : m \in EntriesAt(k, at)}

(* What GetAtRevision finds.                                                *)
LEMMA EntryIs ==
    ASSUME NEW k, NEW rev, NEW m
    PROVE  m \in EntriesAt(k, rev) <=>
              /\ m \in 1..rev /\ rev >= compacted
              /\ log[m].key = k /\ log[m].val # Deleted
              /\ \A i \in (m + 1)..rev : log[i].key # k
BY DEF EntriesAt, FoundAt

(* It finds one version at most.                                            *)
LEMMA OneEntry ==
    ASSUME NEW k, NEW rev \in Nat,
           NEW m \in EntriesAt(k, rev), NEW n \in EntriesAt(k, rev)
    PROVE  m = n
<1>1. /\ m \in 1..rev /\ log[m].key = k
      /\ \A i \in (m + 1)..rev : log[i].key # k
  BY EntryIs
<1>2. /\ n \in 1..rev /\ log[n].key = k
      /\ \A i \in (n + 1)..rev : log[i].key # k
  BY EntryIs
<1>3. ~(n \in (m + 1)..rev) /\ ~(m \in (n + 1)..rev)
  BY <1>1, <1>2
<1>4. QED
  BY <1>1, <1>2, <1>3

(* Nothing at a revision, nothing before it.                                *)
LEMMA NothingFurther ==
    ASSUME NEW k, NEW rev \in Nat, compacted \in Nat, EntriesAt(k, rev) = {}
    PROVE  Reach(k, rev) = {}
<1> SUFFICES ASSUME NEW m \in Reach(k, rev) PROVE FALSE
  OBVIOUS
<1>1. /\ m \in 1..rev
      /\ \A i \in m..rev : log[i].key = k => log[i].val # Deleted
  BY DEF Reach
<1>2. PICK at \in m..rev : m \in EntriesAt(k, at)
  BY DEF Reach
<1>3. at >= compacted /\ log[m].key = k
  BY <1>2, EntryIs
<1> DEFINE S == {i \in m..rev : log[i].key = k}
<1>4. S \in SUBSET (0..rev) /\ m \in S
  BY <1>1, <1>3
<1>5. PICK g \in S : \A y \in S : y <= g
  <2> HIDE DEF S
  <2>1. S # {}
    BY <1>4
  <2>2. QED
    BY <1>4, <2>1, GreatestNumber, Zenon
<1>6. /\ g \in m..rev /\ g \in 1..rev /\ log[g].key = k
      /\ log[g].val # Deleted
  BY <1>1, <1>5
<1>7. ASSUME NEW i \in (g + 1)..rev PROVE log[i].key # k
  <2>1. i \in m..rev /\ ~(i <= g)
    BY <1>1, <1>6, <1>7
  <2>2. QED
    BY <1>5, <2>1
<1>8. rev >= compacted
  BY <1>1, <1>2, <1>3
<1>9. g \in EntriesAt(k, rev)
  BY <1>6, <1>7, <1>8, EntryIs
<1>10. QED
  BY <1>9

(* The version found, and then what is reached from just before it.         *)
LEMMA FoundAndBefore ==
    ASSUME NEW k, NEW rev \in Nat, NEW m \in EntriesAt(k, rev)
    PROVE  Reach(k, rev) = {m} \cup Reach(k, m - 1)
<1>1. /\ m \in 1..rev /\ log[m].key = k /\ log[m].val # Deleted
      /\ \A i \in (m + 1)..rev : log[i].key # k
  BY EntryIs
<1>2. m \in Reach(k, rev)
  <2>1. ASSUME NEW i \in m..rev, log[i].key = k PROVE log[i].val # Deleted
    <3>1. i = m \/ i \in (m + 1)..rev
      BY <1>1
    <3>2. QED
      BY <1>1, <2>1, <3>1
  <2>2. rev \in m..rev
    BY <1>1
  <2>3. QED
    BY <1>1, <2>1, <2>2 DEF Reach
<1>3. ASSUME NEW n \in Reach(k, m - 1) PROVE n \in Reach(k, rev)
  <2>1. /\ n \in 1..(m - 1)
        /\ \A i \in n..(m - 1) : log[i].key = k => log[i].val # Deleted
    BY DEF Reach
  <2>2. PICK at \in n..(m - 1) : n \in EntriesAt(k, at)
    BY DEF Reach
  <2>3. ASSUME NEW i \in n..rev, log[i].key = k PROVE log[i].val # Deleted
    <3>1. i \in n..(m - 1) \/ i = m \/ i \in (m + 1)..rev
      BY <1>1, <2>1
    <3>2. QED
      BY <1>1, <2>1, <2>3, <3>1
  <2>4. at \in n..rev /\ n \in 1..rev
    BY <1>1, <2>1
  <2>5. QED
    BY <2>2, <2>3, <2>4 DEF Reach
<1>4. ASSUME NEW n \in Reach(k, rev), n # m PROVE n \in Reach(k, m - 1)
  <2>1. /\ n \in 1..rev
        /\ \A i \in n..rev : log[i].key = k => log[i].val # Deleted
    BY DEF Reach
  <2>2. PICK at \in n..rev : n \in EntriesAt(k, at)
    BY DEF Reach
  <2>3. log[n].key = k /\ \A i \in (n + 1)..at : log[i].key # k
    BY <2>2, EntryIs
  <2>4. ~(n \in (m + 1)..rev) /\ ~(m \in (n + 1)..at)
    BY <1>1, <2>3
  <2>5. n \in 1..(m - 1) /\ at \in n..(m - 1)
    BY <1>1, <1>4, <2>1, <2>4
  <2>6. ASSUME NEW i \in n..(m - 1), log[i].key = k
        PROVE  log[i].val # Deleted
    <3>1. i \in n..rev
      BY <1>1, <2>1
    <3>2. QED
      BY <2>1, <2>6, <3>1
  <2>7. QED
    BY <2>2, <2>5, <2>6 DEF Reach
<1>5. QED
  BY <1>2, <1>3, <1>4

(* One step of the walk.                                                    *)
LEMMA WalkStep ==
    ASSUME NEW k, NEW rev \in Nat, compacted \in Nat, NEW n \in Nat \ {0}
    PROVE  UNION {{m} \cup Newest(Reach(k, m - 1), n - 1) :
                     m \in EntriesAt(k, rev)} = Newest(Reach(k, rev), n)
<1>1. CASE EntriesAt(k, rev) = {}
  <2>1. Reach(k, rev) = {}
    BY <1>1, NothingFurther
  <2>2. Newest({}, n) = {}
    BY DEF Newest
  <2>3. QED
    BY <1>1, <2>1, <2>2
<1>2. CASE EntriesAt(k, rev) # {}
  <2>1. PICK m \in EntriesAt(k, rev) : TRUE
    BY <1>2
  <2>2. EntriesAt(k, rev) = {m}
    BY <2>1, OneEntry
  <2>3. m \in Nat /\ Reach(k, m - 1) \in SUBSET (0..(m - 1))
    BY <2>1, EntryIs DEF Reach
  <2>4. Newest({m} \cup Reach(k, m - 1), n)
            = {m} \cup Newest(Reach(k, m - 1), n - 1)
    BY <2>3, NewestWithTop
  <2>5. Reach(k, rev) = {m} \cup Reach(k, m - 1)
    BY <2>1, FoundAndBefore
  <2> DEFINE F(i) == {i} \cup Newest(Reach(k, i - 1), n - 1)
  <2>6. UNION {F(i) : i \in EntriesAt(k, rev)} = F(m)
    <3> HIDE DEF F
    <3>1. QED
      BY <2>2
  <2>7. QED
    BY <2>4, <2>5, <2>6
<1>3. QED
  BY <1>1, <1>2

(* The walk finds the newest of what can be reached.                        *)
LEMMA WalkFindsNewest ==
    ASSUME log \in Seq(Version), compacted \in Nat,
           NEW k, NEW before \in 1..(Len(log) + 1), NEW limit \in Nat
    PROVE  EtcdVersionsBefore(k, before, limit)
               = Newest(Reach(k, before - 1), limit)
<1> DEFINE Row(f, n) ==
        [rev \in 0..Len(log) |->
            IF n = 0 THEN {}
            ELSE UNION {{m} \cup f[n - 1][m - 1] : m \in EntriesAt(k, rev)}]
           Walk(f) == f = [n \in 0..limit |-> Row(f, n)]
           Reached == [n \in 0..limit |->
                          [rev \in 0..Len(log) |-> Newest(Reach(k, rev), n)]]
<1>1. Len(log) \in Nat
  OBVIOUS
<1>2. ASSUME NEW f, NEW n \in 0..limit,
             n # 0 => \A rev \in 0..Len(log) :
                         f[n - 1][rev] = Newest(Reach(k, rev), n - 1)
      PROVE  Row(f, n) = [rev \in 0..Len(log) |-> Newest(Reach(k, rev), n)]
  <2>1. ASSUME NEW rev \in 0..Len(log)
        PROVE  (IF n = 0 THEN {}
                ELSE UNION {{m} \cup f[n - 1][m - 1] :
                               m \in EntriesAt(k, rev)})
                   = Newest(Reach(k, rev), n)
    <3>1. CASE n = 0
      <4>1. ASSUME NEW m \in Newest(Reach(k, rev), 0) PROVE FALSE
        <5>1. Reach(k, rev) \in SUBSET (0..Len(log))
          BY <1>1 DEF Reach
        <5>2. /\ Cardinality(Above(Reach(k, rev), m)) < 0
              /\ Cardinality(Above(Reach(k, rev), m)) \in Nat
          BY <1>1, <4>1, <5>1, NewestIs, NumbersFinite, AboveFinite
        <5>3. QED
          BY <5>2
      <4>2. QED
        BY <3>1, <4>1
    <3>2. CASE n # 0
      <4>1. \A m \in EntriesAt(k, rev) :
               f[n - 1][m - 1] = Newest(Reach(k, m - 1), n - 1)
        <5>1. ASSUME NEW m \in EntriesAt(k, rev)
              PROVE  m - 1 \in 0..Len(log)
          BY <1>1, EntryIs
        <5>2. QED
          BY <1>2, <3>2, <5>1
      <4>2. {{m} \cup f[n - 1][m - 1] : m \in EntriesAt(k, rev)}
              = {{m} \cup Newest(Reach(k, m - 1), n - 1) :
                     m \in EntriesAt(k, rev)}
        BY <4>1
      <4>3. rev \in Nat /\ n \in Nat \ {0}
        BY <1>1, <3>2
      <4>4. UNION {{m} \cup Newest(Reach(k, m - 1), n - 1) :
                      m \in EntriesAt(k, rev)} = Newest(Reach(k, rev), n)
        BY <4>3, WalkStep
      <4>5. QED
        BY <3>2, <4>2, <4>4
    <3>3. QED
      BY <3>1, <3>2
  <2>2. QED
    BY <2>1
<1>3. Walk(Reached)
  <2>1. ASSUME NEW n \in 0..limit
        PROVE  Row(Reached, n)
                 = [rev \in 0..Len(log) |-> Newest(Reach(k, rev), n)]
    <3>1. n # 0 => \A rev \in 0..Len(log) :
             Reached[n - 1][rev] = Newest(Reach(k, rev), n - 1)
      <4>1. n # 0 => n - 1 \in 0..limit
        OBVIOUS
      <4>2. QED
        BY <4>1
    <3> HIDE DEF Reached, Row
    <3>2. QED
      BY <1>2, <3>1
  <2> HIDE DEF Row
  <2>2. QED
    BY <2>1
<1>4. ASSUME NEW f, Walk(f), NEW n \in 0..limit
      PROVE  f[n] = [rev \in 0..Len(log) |-> Newest(Reach(k, rev), n)]
  <2> DEFINE Wrong == {i \in 0..limit :
                 f[i] # [rev \in 0..Len(log) |-> Newest(Reach(k, rev), i)]}
  <2>1. Wrong \in SUBSET (0..limit)
    OBVIOUS
  <2>2. ASSUME Wrong # {} PROVE FALSE
    <3>1. PICK i \in Wrong : \A j \in Wrong : i <= j
      <4> HIDE DEF Wrong
      <4>1. QED
        BY <2>1, <2>2, SmallestNumber, Zenon
    <3>2. i \in 0..limit
      OBVIOUS
    <3>3. ASSUME i # 0
          PROVE  \A rev \in 0..Len(log) :
                    f[i - 1][rev] = Newest(Reach(k, rev), i - 1)
      <4>1. i - 1 \in 0..limit /\ ~(i <= i - 1)
        BY <3>2, <3>3
      <4>2. i - 1 \notin Wrong
        BY <3>1, <4>1
      <4>3. f[i - 1] = [rev \in 0..Len(log) |-> Newest(Reach(k, rev), i - 1)]
        BY <4>1, <4>2
      <4>4. QED
        BY <4>3
    <3>4. Row(f, i) = [rev \in 0..Len(log) |-> Newest(Reach(k, rev), i)]
      <4> HIDE DEF Row, Wrong
      <4>1. QED
        BY <1>2, <3>2, <3>3
    <3>5. f[i] = Row(f, i)
      <4> HIDE DEF Row
      <4>1. f = [j \in 0..limit |-> Row(f, j)]
        BY <1>4
      <4>2. QED
        BY <3>2, <4>1
    <3>6. f[i] # [rev \in 0..Len(log) |-> Newest(Reach(k, rev), i)]
      OBVIOUS
    <3> HIDE DEF Row
    <3>7. QED
      BY <3>4, <3>5, <3>6
  <2>3. QED
    BY <2>2
<1>5. \E f : Walk(f)
  <2> HIDE DEF Walk, Reached
  <2>1. QED
    BY <1>3
<1> DEFINE walk == CHOOSE f : Walk(f)
<1>6. Walk(walk)
  <2> HIDE DEF Walk
  <2>1. QED
    BY <1>5, Zenon
<1>7. EtcdVersionsBefore(k, before, limit) = walk[limit][before - 1]
  BY Zenon DEF EtcdVersionsBefore
<1>8. limit \in 0..limit /\ before - 1 \in 0..Len(log)
  BY <1>1
<1>9. walk[limit]
        = [rev \in 0..Len(log) |-> Newest(Reach(k, rev), limit)]
  <2> HIDE DEF walk, Walk
  <2>1. QED
    BY <1>4, <1>6, <1>8
<1> HIDE DEF walk
<1>10. QED
  BY <1>7, <1>8, <1>9

-----------------------------------------------------------------------------
(* The walk and the stored snapshots together make the page.                *)
LEMMA IInvPage == IInv => PageIsNewest
<1> SUFFICES ASSUME IInv, NEW k \in Keys, NEW limit \in PageSizes,
                    NEW before \in 1..live[k]
             PROVE  /\ Page(k, before, limit)
                          = Newest(Available(k, before), limit)
                    /\ HasMore(k, before, limit)
                          <=> Page(k, before, limit) # Available(k, before)
  BY DEF PageIsNewest
<1>1. /\ log \in Seq(Version) /\ compacted \in Nat /\ live[k] \in Nat
      /\ history[k] \in SUBSET Snapshot /\ Len(log) \in Nat
  BY DEF IInv, TypeOK, HMTypeOK
<1>2. live[k] \in 1..Len(log)
  BY <1>1 DEF IInv, LiveIsLatest, FoundAt
<1>3. before \in 1..Len(log) /\ before \in Nat
  BY <1>1, <1>2
<1>4. limit \in Nat /\ limit + 1 \in Nat
  BY PageSizeAssumption
<1> DEFINE A == StoredBefore(k, before)
           B == Reach(k, before - 1)
<1>5. A \in SUBSET (0..before)
  BY <1>1, <1>3 DEF StoredBefore, Snapshot
<1>6. B \in SUBSET (0..before)
  BY <1>3 DEF Reach
<1> DEFINE U == Available(k, before)
           C == Candidates(k, before, limit)
           p == limit + 1
<1>7. U = A \cup B
  BY DEF Available, Reach
<1>8. EtcdVersionsBefore(k, before, p) = Newest(B, p)
  BY <1>1, <1>3, <1>4, WalkFindsNewest
<1>9. C = Newest(A, p) \cup Newest(B, p) /\ p \in Nat /\ p = limit + 1
  BY <1>4, <1>8 DEF Candidates
<1>10. /\ Newest(C, limit) = Newest(U, limit)
       /\ Cardinality(C) > limit <=> Newest(U, limit) # U
  <2>1. /\ Upto(A, before) /\ Upto(B, before) /\ Merged(U, A, B)
        /\ Merged(C, Newest(A, p), Newest(B, p))
    BY <1>5, <1>6, <1>7, <1>9 DEF Upto, Merged
  <2>2. p \in Nat /\ p = limit + 1
    BY <1>9
  <2> HIDE DEF A, B, C, U, p
  <2>3. QED
    BY <1>3, <1>4, <2>1, <2>2, PageOfMerged
<1>11. QED
  BY <1>10 DEF Page, HasMore

(* Whatever was written, compacted or pruned, a page of                     *)
(* handleRollbackVersions has the newest versions there are, without gaps,  *)
(* and says whether there are more.                                         *)
THEOREM PagesAreNewest == Spec => []PageIsNewest
BY IInvPage, Invariance, PTL

(* What can be said of ListedCanBeRestored in spite of compaction: a listed *)
(* version that the history lacks can be restored unless its own revision   *)
(* is compacted.                                                            *)
ListedIsLostOnlyByCompaction ==
    \A k \in Keys, limit \in PageSizes :
        live[k] # 0 =>
            \A m \in Page(k, live[k], limit) :
                m >= compacted => Restorable(k, m)

(* rollbackTarget finds every version of a page of handleRollbackVersions,  *)
(* in the history or in etcd, unless the version's revision is compacted.   *)
THEOREM ListedRestorable == Spec => []ListedIsLostOnlyByCompaction
<1>1. IInv => ListedIsLostOnlyByCompaction
  <2> SUFFICES ASSUME IInv, NEW k \in Keys, NEW limit \in PageSizes,
                      live[k] # 0, NEW m \in Page(k, live[k], limit),
                      m >= compacted
               PROVE  Restorable(k, m)
    BY DEF ListedIsLostOnlyByCompaction
  <2> DEFINE before == live[k]
  <2>1. /\ before \in Nat /\ before # 0 /\ compacted \in Nat
        /\ history[k] \in SUBSET Snapshot
    BY DEF IInv, TypeOK, HMTypeOK
  <2>2. before \in 1..before
    BY <2>1
  <2>3. Page(k, before, limit) = Newest(Available(k, before), limit)
    BY <2>2, IInvPage DEF PageIsNewest
  <2>4. m \in Available(k, before)
    BY <2>3 DEF Newest
  <2> HIDE DEF before
  <2>5. CASE m \in StoredBefore(k, before)
    <3>1. PICK s \in history[k] : s.mod = m
      BY <2>5 DEF StoredBefore
    <3>2. s.mod < m + 1
      BY <2>1, <3>1 DEF Snapshot
    <3>3. m \in StoredBefore(k, m + 1)
      BY <3>1, <3>2 DEF StoredBefore
    <3>4. QED
      BY <3>3 DEF Restorable
  <2>6. CASE m \notin StoredBefore(k, before)
    <3>1. PICK at \in m..(before - 1) : m \in EntriesAt(k, at)
      BY <2>4, <2>6 DEF Available
    <3>2. /\ m \in 1..(before - 1)
          /\ log[m].key = k /\ log[m].val # Deleted
      BY <2>4, <2>6, <3>1, EntryIs DEF Available
    <3>3. m \in 1..m /\ (m + 1)..m = {}
      BY <2>1, <3>2
    <3>4. m \in EntriesAt(k, m)
      BY <3>2, <3>3, EntryIs
    <3>5. QED
      BY <3>4 DEF Restorable
  <2>7. QED
    BY <2>5, <2>6
<1>2. QED
  BY <1>1, Invariance, PTL
=============================================================================
