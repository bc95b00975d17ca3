---------------------------- MODULE LedgerProofs ----------------------------
(* Proofs about Ledger for every set of transfers and keys, every answer   *)
(* of the bank, wherever busy timeouts strike and however often the        *)
(* process crashes.                                                        *)
EXTENDS Ledger, SequenceTheorems, TLAPS

----------------------------------------------------------------------------
(* What the operators on databases return.                                 *)

LEMMA EmptyDatabaseType == EmptyDatabase \in Database
BY EmptySeq DEF EmptyDatabase, Database

LEMMA GenesisType == Genesis \in Digest
BY EmptySeq DEF Genesis, Digest

LEMMA LastHashType ==
    ASSUME NEW d \in Database
    PROVE  LastHash(d) \in Digest
<1>1. d.audit \in Seq(AuditRow)
  BY DEF Database
<1>2. CASE d.audit = <<>>
  BY <1>2, EmptySeq DEF LastHash, Genesis, Digest
<1>3. CASE d.audit # <<>>
  <2>1. d.audit[Len(d.audit)] \in AuditRow
    BY <1>1, <1>3, LenProperties, ElementOfSeq, EmptySeq
  <2> QED
    BY <1>3, <2>1 DEF LastHash, AuditRow
<1> QED
  BY <1>2, <1>3

LEMMA HashType ==
    ASSUME NEW p \in Digest, NEW t \in Transfer, NEW action \in Action
    PROVE  Hash(p, t, action) \in Digest
BY AppendProperties DEF Hash, Digest

LEMMA WithIntentType ==
    ASSUME NEW d \in Database, NEW row \in IntentRow
    PROVE  WithIntent(d, row) \in Database
BY DEF WithIntent, Database

LEMMA WithStatusType ==
    ASSUME NEW d \in Database, NEW t \in Transfer, NEW s \in Status
    PROVE  WithStatus(d, t, s) \in Database
<1>1. \A row \in d.intents :
        (IF row.id = t THEN [row EXCEPT !.status = s] ELSE row) \in IntentRow
  BY DEF Database, IntentRow
<1> QED
  BY <1>1 DEF WithStatus, Database

LEMMA WithEventType ==
    ASSUME NEW d \in Database, NEW t \in Transfer, NEW type \in EventType
    PROVE  WithEvent(d, t, type) \in Database
<1>1. [agg |-> t, type |-> type, status |-> "PENDING"] \in OutboxRow
  BY DEF OutboxRow
<1>2. Append(d.outbox, [agg |-> t, type |-> type, status |-> "PENDING"]) \in Seq(OutboxRow)
  BY <1>1, AppendProperties DEF Database
<1> QED
  BY <1>2 DEF WithEvent, Database

LEMMA WithRecordType ==
    ASSUME NEW d \in Database, NEW t \in Transfer, NEW action \in Action, NEW p \in Digest
    PROVE  WithRecord(d, t, action, p) \in Database
<1> DEFINE r == [tx |-> t, action |-> action, prev |-> p, hash |-> Hash(p, t, action)]
<1>1. r \in AuditRow
  BY HashType DEF AuditRow
<1>2. Append(d.audit, r) \in Seq(AuditRow)
  BY <1>1, AppendProperties DEF Database
<1> QED
  BY <1>2 DEF WithRecord, Database

LEMMA WithPublishedType ==
    ASSUME NEW d \in Database, NEW i \in Nat
    PROVE  WithPublished(d, i) \in Database
<1> DEFINE o == [d.outbox EXCEPT ![i].status = "PUBLISHED"]
<1>1. d.outbox \in Seq(OutboxRow) /\ DOMAIN d.outbox = 1 .. Len(d.outbox)
  BY LenProperties DEF Database
<1>2. o \in Seq(OutboxRow)
  <2>1. CASE i \in DOMAIN d.outbox
    <3>1. d.outbox[i] \in OutboxRow
      BY <1>1, <2>1, ElementOfSeq
    <3>2. [d.outbox[i] EXCEPT !.status = "PUBLISHED"] \in OutboxRow
      BY <3>1 DEF OutboxRow
    <3> QED
      BY <1>1, <2>1, <3>2, ExceptSeq
  <2>2. CASE i \notin DOMAIN d.outbox
    <3>1. o = d.outbox
      BY <1>1, <2>2, LenProperties
    <3> QED
      BY <1>1, <3>1
  <2> QED
    BY <2>1, <2>2
<1>3. WithPublished(d, i) = [d EXCEPT !.outbox = o]
  BY DEF WithPublished, Database
<1> QED
  BY <1>2, <1>3 DEF Database

----------------------------------------------------------------------------
(* Types.                                                                  *)

USE DEF Conn, files, locals, relay, ghosts, vars, Goto, Write, Install, Discard,
        WaitForReaders, Return

LEMMA TypeInitially == Init => TypeOK
<1> SUFFICES ASSUME Init
             PROVE  TypeOK
  OBVIOUS
<1> USE DEF Init
<1>1. db \in Database /\ work \in Database /\ pending \in BOOLEAN
  BY EmptyDatabaseType
<1>2. writer \in Conn \cup {Nobody} /\ shared \in SUBSET Conn
  OBVIOUS
<1>3. pc \in [Transfer -> Phase] /\ stage \in [Transfer -> {1, 2}]
  BY DEF Phase
<1>4. prev \in [Transfer -> Digest] /\ approved \in [Transfer -> BOOLEAN]
  BY GenesisType
<1>5. answer \in [Transfer -> Answer]
  BY DEF Answer, NoAnswer
<1>6. rpc \in RelayPhase /\ batch \in SUBSET Nat /\ inTx \in BOOLEAN
  BY DEF RelayPhase
<1>7. charged \in SUBSET Transfer /\ delivered \in SUBSET Nat /\ crashes \in Nat
  OBVIOUS
<1> QED
  BY <1>1, <1>2, <1>3, <1>4, <1>5, <1>6, <1>7 DEF TypeOK

LEMMA TransferStepTypes ==
    ASSUME TypeOK, NEW t \in Transfer, TransferStep(t)
    PROVE  TypeOK'
<1> USE ConstantsAssumption DEF TypeOK, Phase
<1>1. CASE SelectBeneficiary(t)
  BY <1>1 DEF SelectBeneficiary
<1>16. CASE FetchBeneficiary(t)
  BY <1>16 DEF FetchBeneficiary
<1>2. CASE WriteIntent(t)
  <2>1. [key |-> keyOf[t], id |-> t, status |-> "AUTHORIZING"] \in IntentRow
    BY DEF IntentRow, Status
  <2> QED
    BY <1>2, <2>1, WithIntentType DEF WriteIntent
<1>3. CASE RejectDuplicate(t)
  BY <1>3 DEF RejectDuplicate
<1>4. CASE WriteResult(t)
  <2>1. NewStatus(t) \in Status
    BY DEF NewStatus, Status
  <2> QED
    BY <1>4, <2>1, WithStatusType DEF WriteResult
<1>5. CASE AppendOutbox(t)
  <2>1. (IF stage[t] = 1 THEN "AUTH_STARTED" ELSE Outcome(t)) \in EventType
    BY DEF Outcome, EventType, Settlement
  <2> QED
    BY <1>5, <2>1, WithEventType DEF AppendOutbox
<1>6. CASE ReadHead(t)
  <2>1. LastHash(View(t)) \in Digest
    BY LastHashType DEF View
  <2> QED
    BY <1>6, <2>1 DEF ReadHead
<1>7. CASE AppendAudit(t)
  <2>1. (IF stage[t] = 1 THEN "INTENT_CREATED" ELSE Outcome(t)) \in Action
    BY DEF Outcome, Action, Settlement
  <2> QED
    BY <1>7, <2>1, GenesisType, WithRecordType DEF AppendAudit
<1>8. CASE CommitIntent(t) \/ CommitWaits(t)
  <2>1. CASE CommitIntent(t)
    BY <2>1 DEF CommitIntent
  <2>2. CASE CommitWaits(t)
    BY <2>2 DEF CommitWaits
  <2> QED BY <1>8, <2>1, <2>2
<1>9. CASE AskBank(t)
  BY <1>9 DEF AskBank
<1>10. CASE CommitResult(t)
  <2>1. [id |-> t, status |-> NewStatus(t)] \in Answer
    BY DEF Answer, NewStatus, Status
  <2> QED
    BY <1>10, <2>1 DEF CommitResult
<1>11. CASE WriteTimesOut(t)
  BY <1>11 DEF WriteTimesOut
<1>17. CASE CommitTimesOut(t)
  BY <1>17 DEF CommitTimesOut
<1>12. Raised \in Answer
  BY DEF Raised, Answer
<1>13. CASE Rollback(t)
  <2>1. /\ work' \in Database /\ db' \in Database
        /\ writer' \in Conn \cup {Nobody} /\ pending' \in BOOLEAN
    BY <1>13 DEF Rollback
  <2>2. pc' \in [Transfer -> Phase] /\ answer' \in [Transfer -> Answer]
    BY <1>12, <1>13 DEF Rollback
  <2> QED
    BY <1>13, <2>1, <2>2 DEF Rollback
<1>14. CASE SelectExisting(t)
  BY <1>14 DEF SelectExisting
<1>18. CASE NothingExisting(t)
  BY <1>12, <1>18 DEF NothingExisting
<1>19. CASE ReadTimesOut(t)
  BY <1>12, <1>19 DEF ReadTimesOut
<1>15. CASE FetchExisting(t)
  <2>1. \A row \in db.intents : [id |-> row.id, status |-> row.status] \in Answer
    BY DEF Database, IntentRow, Answer
  <2> QED
    BY <1>15, <2>1 DEF FetchExisting
<1> QED
  BY <1>1, <1>2, <1>3, <1>4, <1>5, <1>6, <1>7, <1>8, <1>9, <1>10, <1>11, <1>13,
     <1>14, <1>15, <1>16, <1>17, <1>18, <1>19 DEF TransferStep

LEMMA RelayStepTypes ==
    ASSUME TypeOK, RelayStep
    PROVE  TypeOK'
<1> USE ConstantsAssumption DEF TypeOK, RelayPhase
<1>1. CASE RelaySelect
  BY <1>1 DEF RelaySelect
<1>2. CASE RelayFetch
  <2>1. Selected(View(Relay)) \in SUBSET Nat
    BY LenProperties DEF Selected, PendingEvents, View, Database
  <2> QED
    BY <1>2, <2>1 DEF RelayFetch
<1>3. ASSUME NEW k \in batch, RelayPublish(k)
      PROVE  TypeOK'
  BY <1>3 DEF RelayPublish
<1>4. ASSUME NEW k \in batch, RelayMark(k)
      PROVE  TypeOK'
  <2>1. View(Relay) \in Database
    BY DEF View
  <2>2. WithPublished(View(Relay), k) \in Database
    BY <2>1, WithPublishedType
  <2> QED
    BY <1>4, <2>2 DEF RelayMark
<1>5. CASE RelayMarkFails
  BY <1>5 DEF RelayMarkFails
<1>6. CASE RelayCommit \/ RelayCommitWaits \/ RelayCommitTimesOut
  BY <1>6 DEF RelayCommit, RelayCommitWaits, RelayCommitTimesOut
<1> QED
  BY <1>1, <1>2, <1>3, <1>4, <1>5, <1>6 DEF RelayStep

LEMMA CrashTypes ==
    ASSUME TypeOK, Crash
    PROVE  TypeOK'
<1> USE DEF TypeOK, Crash
<1>1. pc' \in [Transfer -> Phase] /\ prev' \in [Transfer -> Digest]
  BY GenesisType DEF Phase
<1>2. rpc' \in RelayPhase /\ batch' \in SUBSET Nat /\ inTx' \in BOOLEAN
  BY DEF RelayPhase
<1>3. /\ db' \in Database /\ work' \in Database /\ pending' \in BOOLEAN
      /\ writer' \in Conn \cup {Nobody} /\ shared' \in SUBSET Conn
  OBVIOUS
<1>4. crashes' \in Nat
  BY ConstantsAssumption
<1> QED
  BY <1>1, <1>2, <1>3, <1>4

\* Every variable, and every row of the three tables, keeps its type: the
\* code writes no row its readers could not read.
THEOREM TypeCorrect == Spec => []TypeOK
<1>1. TypeOK /\ [Next]_vars => TypeOK'
  <2>1. CASE UNCHANGED vars
    BY <2>1 DEF TypeOK
  <2> QED
    BY <2>1, TransferStepTypes, RelayStepTypes, CrashTypes DEF Next
<1> QED
  BY <1>1, TypeInitially, PTL DEF Spec

----------------------------------------------------------------------------
(* The audit chain.  The argument: the first statement of each transaction *)
(* takes RESERVED, and the writer keeps it until COMMIT or ROLLBACK.  So   *)
(* no other record comes between the reading of the head and the record    *)
(* linked to it, and the writer's copy is always a chain.                  *)

\* A transfer that is inside a transaction has the write lock ...
Locked == {"outbox", "head", "audit", "commit"}

LockHeld ==
    /\ \A t \in Transfer : pc[t] \in Locked => writer = t
    /\ rpc = "commit" => writer = Relay

\* ... nobody's copy is the database, and the head that was read is the head.
WorkKnown ==
    /\ writer = Nobody => work = db
    /\ \A t \in Transfer : pc[t] = "audit" => prev[t] = LastHash(work)

ChainInv == LockHeld /\ WorkKnown /\ ChainOK(db) /\ ChainOK(work)

\* Only a new record can break a chain: the other operators leave it alone.
LEMMA AuditUntouched ==
    ASSUME NEW d \in Database
    PROVE  /\ \A row : WithIntent(d, row).audit = d.audit
           /\ \A t, s : WithStatus(d, t, s).audit = d.audit
           /\ \A t, type : WithEvent(d, t, type).audit = d.audit
           /\ \A i : WithPublished(d, i).audit = d.audit
BY DEF Database, WithIntent, WithStatus, WithEvent, WithPublished

LEMMA SameAuditSameChain ==
    ASSUME NEW d, NEW e, e.audit = d.audit
    PROVE  (ChainOK(d) => ChainOK(e)) /\ LastHash(e) = LastHash(d)
BY DEF ChainOK, LastHash

\* A record linked to the head extends the chain.
LEMMA RecordExtendsChain ==
    ASSUME NEW d \in Database, ChainOK(d), NEW t \in Transfer, NEW action \in Action
    PROVE  ChainOK(WithRecord(d, t, action, LastHash(d)))
<1> DEFINE p == LastHash(d)
           r == [tx |-> t, action |-> action, prev |-> p, hash |-> Hash(p, t, action)]
           n == Len(d.audit)
           a == Append(d.audit, r)
<1>1. d.audit \in Seq(AuditRow) /\ r \in AuditRow
  BY LastHashType, HashType DEF Database, AuditRow
<1>2. /\ n \in Nat /\ DOMAIN d.audit = 1 .. n
      /\ a \in Seq(AuditRow) /\ DOMAIN a = 1 .. n + 1
      /\ a[n + 1] = r
      /\ \A i \in 1 .. n : a[i] = d.audit[i]
  BY <1>1, LenProperties, AppendProperties
<1>3. WithRecord(d, t, action, p).audit = a
  BY DEF WithRecord, Database
<1>4. ASSUME NEW i \in 1 .. n + 1
      PROVE  /\ a[i].prev = IF i = 1 THEN Genesis ELSE a[i - 1].hash
             /\ a[i].hash = Hash(a[i].prev, a[i].tx, a[i].action)
  <2>1. CASE i \in 1 .. n
    <3>1. i # 1 => i - 1 \in 1 .. n
      BY <2>1, <1>2
    <3> QED
      BY <1>2, <2>1, <3>1 DEF ChainOK
  <2>2. CASE i = n + 1 /\ n = 0
    <3>1. d.audit = <<>>
      BY <1>1, <2>2, EmptySeq
    <3>2. p = Genesis
      BY <3>1 DEF LastHash
    <3> QED
      BY <1>2, <2>2, <3>2
  <2>3. CASE i = n + 1 /\ n # 0
    <3>1. p = d.audit[n].hash
      BY <1>1, <2>3, EmptySeq DEF LastHash
    <3>2. i # 1 /\ a[i - 1] = d.audit[n]
      BY <1>2, <2>3
    <3> QED
      BY <1>2, <2>3, <3>1, <3>2
  <2> QED
    BY <1>2, <2>1, <2>2, <2>3
<1> HIDE DEF p, r, n, a
<1> QED
  BY <1>2, <1>3, <1>4 DEF ChainOK, p

LEMMA ChainInitially == Init => ChainInv
<1>1. DOMAIN EmptyDatabase.audit = {}
  BY DEF EmptyDatabase
<1> QED
  BY <1>1 DEF Init, ChainInv, LockHeld, Locked, WorkKnown, ChainOK

\* The steps that touch neither copy of the database nor the write lock.
Passive(t) ==
    \/ SelectBeneficiary(t) \/ FetchBeneficiary(t) \/ AskBank(t) \/ CommitWaits(t)
    \/ WriteTimesOut(t) \/ CommitTimesOut(t)
    \/ SelectExisting(t) \/ NothingExisting(t) \/ FetchExisting(t) \/ ReadTimesOut(t)

LEMMA PassiveStep ==
    ASSUME NEW t \in Transfer, TypeOK, Passive(t)
    PROVE  /\ UNCHANGED <<db, work, writer, prev, rpc, batch>>
           /\ pc' \in [Transfer -> Phase]
           /\ pc'[t] \in Locked => pc[t] = pc'[t] /\ stage'[t] = stage[t]
           /\ pc'[t] # "bank"
           /\ charged' = charged \/ (pc[t] = "bank" /\ charged' = charged \cup {t})
           /\ \A u \in Transfer \ {t} : pc'[u] = pc[u] /\ stage'[u] = stage[u]
<1> USE DEF TypeOK, Locked, Phase
<1>1. CASE SelectBeneficiary(t)
  BY <1>1 DEF SelectBeneficiary
<1>2. CASE FetchBeneficiary(t)
  BY <1>2 DEF FetchBeneficiary
<1>3. CASE AskBank(t)
  BY <1>3 DEF AskBank
<1>4. CASE CommitWaits(t)
  BY <1>4 DEF CommitWaits
<1>5. CASE WriteTimesOut(t)
  BY <1>5 DEF WriteTimesOut
<1>6. CASE CommitTimesOut(t)
  BY <1>6 DEF CommitTimesOut
<1>7. CASE SelectExisting(t)
  BY <1>7 DEF SelectExisting
<1>8. CASE NothingExisting(t)
  BY <1>8 DEF NothingExisting
<1>9. CASE FetchExisting(t)
  BY <1>9 DEF FetchExisting
<1>10. CASE ReadTimesOut(t)
  BY <1>10 DEF ReadTimesOut
<1> QED
  BY <1>1, <1>2, <1>3, <1>4, <1>5, <1>6, <1>7, <1>8, <1>9, <1>10 DEF Passive

LEMMA TransferStepChain ==
    ASSUME TypeOK, ChainInv, NEW t \in Transfer, TransferStep(t)
    PROVE  ChainInv'
<1> USE ConstantsAssumption DEF TypeOK, Phase, ChainInv, LockHeld, Locked, WorkKnown
<1>1. CASE Passive(t)
  BY <1>1, PassiveStep DEF ChainOK, LastHash
<1>2. ASSUME writer = Nobody, writer' = t, UNCHANGED <<db, prev, rpc>>,
             work'.audit = db.audit, pc[t] = "write",
             \E q \in {"outbox", "rollback"} : Goto(t, q)
      PROVE  ChainInv'
  <2>1. ChainOK(work') /\ ChainOK(db')
    BY <1>2, SameAuditSameChain
  <2>2. \A u \in Transfer : pc'[u] \in Locked => u = t
    BY <1>2
  <2>3. \A u \in Transfer : pc'[u] # "audit"
    BY <1>2
  <2> QED
    BY <1>2, <2>1, <2>2, <2>3 DEF ChainOK
<1>3. CASE WriteIntent(t)
  BY <1>2, <1>3, AuditUntouched DEF WriteIntent
<1>4. CASE RejectDuplicate(t)
  BY <1>2, <1>4 DEF RejectDuplicate
<1>5. CASE WriteResult(t)
  BY <1>2, <1>5, AuditUntouched DEF WriteResult
<1>6. CASE AppendOutbox(t)
  <2>1. work'.audit = work.audit
    BY <1>6, AuditUntouched DEF AppendOutbox
  <2>2. ChainOK(work') /\ LastHash(work') = LastHash(work)
    BY <2>1, SameAuditSameChain
  <2> QED
    BY <1>6, <2>2 DEF AppendOutbox, ChainOK
<1>7. CASE ReadHead(t)
  <2>1. prev'[t] = LastHash(work)
    BY <1>7 DEF ReadHead, View
  <2> QED
    BY <1>7, <2>1 DEF ReadHead, ChainOK, LastHash
<1>8. CASE AppendAudit(t)
  <2>1. (IF stage[t] = 1 THEN "INTENT_CREATED" ELSE Outcome(t)) \in Action
    BY DEF Outcome, Action, Settlement
  <2>2. ChainOK(work')
    BY <1>8, <2>1, RecordExtendsChain DEF AppendAudit
  <2>3. \A u \in Transfer : pc'[u] # "audit"
    BY <1>8 DEF AppendAudit
  <2> QED
    BY <1>8, <2>2, <2>3 DEF AppendAudit, ChainOK
<1>9. CASE CommitIntent(t) \/ CommitResult(t)
  <2>1. /\ writer = t /\ writer' = Nobody /\ db' = work /\ work' = work
        /\ UNCHANGED <<prev, rpc>>
        /\ \A u \in Transfer : pc'[u] \notin Locked
    BY <1>9 DEF CommitIntent, CommitResult
  <2> QED
    BY <2>1 DEF ChainOK
<1>10. CASE Rollback(t)
  <2>1. CASE writer = t
    <3>1. /\ writer' = Nobody /\ db' = db /\ work' = db /\ UNCHANGED <<prev, rpc>>
          /\ \A u \in Transfer : pc'[u] \notin Locked
      BY <1>10, <2>1 DEF Rollback
    <3> QED
      BY <2>1, <3>1 DEF ChainOK
  <2>2. CASE writer # t
    <3>1. /\ UNCHANGED <<db, work, writer, prev, rpc>>
          /\ \A u \in Transfer : pc'[u] \in Locked => pc'[u] = pc[u]
      BY <1>10, <2>2 DEF Rollback
    <3> QED
      BY <3>1 DEF ChainOK, LastHash
  <2> QED
    BY <2>1, <2>2
<1> QED
  BY <1>1, <1>3, <1>4, <1>5, <1>6, <1>7, <1>8, <1>9, <1>10 DEF TransferStep, Passive

LEMMA RelayStepChain ==
    ASSUME TypeOK, ChainInv, RelayStep
    PROVE  ChainInv'
<1> USE ConstantsAssumption DEF TypeOK, ChainInv, LockHeld, Locked, WorkKnown
<1>1. ASSUME UNCHANGED <<db, work, writer, pc, prev>>, rpc' = "commit" => rpc = "commit"
      PROVE  ChainInv'
  BY <1>1 DEF ChainOK, LastHash
<1>2. CASE RelaySelect
  BY <1>1, <1>2 DEF RelaySelect
<1>3. CASE RelayFetch
  BY <1>1, <1>3 DEF RelayFetch
<1>4. CASE \E k \in batch : RelayPublish(k)
  BY <1>1, <1>4 DEF RelayPublish
<1>5. ASSUME NEW k \in batch, RelayMark(k)
      PROVE  ChainInv'
  <2>1. View(Relay) = work
    BY <1>5 DEF RelayMark, View
  <2>2. work'.audit = work.audit
    BY <1>5, <2>1, AuditUntouched DEF RelayMark
  <2>3. ChainOK(work') /\ LastHash(work') = LastHash(work)
    BY <2>2, SameAuditSameChain
  <2>4. \A t \in Transfer : pc[t] \notin Locked
    BY <1>5 DEF RelayMark
  <2> QED
    BY <1>5, <2>3, <2>4 DEF RelayMark, ChainOK
<1>6. CASE RelayMarkFails
  BY <1>1, <1>6 DEF RelayMarkFails
<1>7. CASE RelayCommit
  <2>1. \A t \in Transfer : pc[t] \notin Locked
    BY <1>7 DEF RelayCommit
  <2> QED
    BY <1>7, <2>1 DEF RelayCommit, ChainOK
<1>8. CASE RelayCommitWaits
  BY <1>1, <1>8 DEF RelayCommitWaits
<1>9. CASE RelayCommitTimesOut
  BY <1>1, <1>9 DEF RelayCommitTimesOut
<1> QED
  BY <1>2, <1>3, <1>4, <1>5, <1>6, <1>7, <1>8, <1>9 DEF RelayStep

LEMMA CrashChain ==
    ASSUME TypeOK, ChainInv, Crash
    PROVE  ChainInv'
<1>1. \A t \in Transfer : pc'[t] \notin Locked
  BY DEF Crash, Locked
<1> QED
  BY <1>1, ConstantsAssumption DEF Crash, ChainInv, LockHeld, Locked, WorkKnown, ChainOK

LEMMA ChainInvariant == Spec => []ChainInv
<1>1. TypeOK /\ ChainInv /\ [Next]_vars => ChainInv'
  <2>1. CASE UNCHANGED vars
    BY <2>1 DEF ChainInv, LockHeld, WorkKnown, ChainOK, LastHash
  <2> QED
    BY <2>1, TransferStepChain, RelayStepChain, CrashChain DEF Next
<1> QED
  BY <1>1, ChainInitially, TypeCorrect, PTL DEF Spec

\* verify_chain.py finds the chain whole at any moment and after any crash,
\* however many transfers and whatever timeouts there are.
THEOREM ChainAlwaysVerifies == Spec => []ChainVerifies
<1>1. ChainInv => ChainVerifies
  BY DEF ChainInv, ChainVerifies
<1> QED
  BY <1>1, ChainInvariant, PTL

----------------------------------------------------------------------------
(* The bank.  The argument: idempotency_key is UNIQUE in both copies of    *)
(* the table, no row is ever removed, and the bank is asked only after the *)
(* transaction that inserted the row has been committed.                   *)

KeysUnique(d) ==
    /\ \A r, s \in d.intents : r.key = s.key => r = s
    /\ \A r \in d.intents : r.key = keyOf[r.id]

HasIntent(d, t) == \E row \in d.intents : row.id = t

ChargeInv ==
    /\ KeysUnique(db) /\ KeysUnique(work)
    /\ \A t \in Transfer : t \in charged \/ pc[t] = "bank" =>
          HasIntent(db, t) /\ HasIntent(work, t)
    /\ \A t \in Transfer : pc[t] \in Locked /\ stage[t] = 1 => HasIntent(work, t)

LEMMA IntentsUntouched ==
    ASSUME NEW d \in Database
    PROVE  /\ \A t, type : WithEvent(d, t, type).intents = d.intents
           /\ \A t, action, h : WithRecord(d, t, action, h).intents = d.intents
           /\ \A i : WithPublished(d, i).intents = d.intents
BY DEF Database, WithEvent, WithRecord, WithPublished

LEMMA SameIntents ==
    ASSUME NEW d, NEW e, e.intents = d.intents
    PROVE  /\ KeysUnique(d) => KeysUnique(e)
           /\ \A t : HasIntent(e, t) <=> HasIntent(d, t)
BY DEF KeysUnique, HasIntent

\* An INSERT that meets no row with its key.
LEMMA InsertKeepsKeys ==
    ASSUME NEW d \in Database, KeysUnique(d), NEW t \in Transfer, ~KeyTaken(d, keyOf[t])
    PROVE  LET e == WithIntent(d, [key |-> keyOf[t], id |-> t, status |-> "AUTHORIZING"])
           IN  /\ KeysUnique(e)
               /\ HasIntent(e, t)
               /\ \A u : HasIntent(d, u) => HasIntent(e, u)
<1> DEFINE row == [key |-> keyOf[t], id |-> t, status |-> "AUTHORIZING"]
           e == WithIntent(d, row)
<1>1. e.intents = d.intents \cup {row}
  BY DEF WithIntent, Database
<1>2. \A r \in d.intents : r.key # row.key
  BY DEF KeyTaken
<1> HIDE DEF e
<1>3. KeysUnique(e)
  BY <1>1, <1>2 DEF KeysUnique
<1>4. HasIntent(e, t)
  <2>1. row \in e.intents /\ row.id = t
    BY <1>1
  <2> QED
    BY <2>1 DEF HasIntent
<1>5. \A u : HasIntent(d, u) => HasIntent(e, u)
  BY <1>1 DEF HasIntent
<1> QED
  BY <1>3, <1>4, <1>5 DEF e

\* An UPDATE of the status.
LEMMA UpdateKeepsKeys ==
    ASSUME NEW d \in Database, KeysUnique(d), NEW t \in Transfer, NEW s \in Status
    PROVE  /\ KeysUnique(WithStatus(d, t, s))
           /\ \A u : HasIntent(d, u) => HasIntent(WithStatus(d, t, s), u)
<1> DEFINE new(row) == IF row.id = t THEN [row EXCEPT !.status = s] ELSE row
           e == WithStatus(d, t, s)
<1>1. e.intents = {new(row) : row \in d.intents}
  BY DEF WithStatus, Database
<1>2. \A row \in d.intents : new(row).key = row.key /\ new(row).id = row.id
  BY DEF Database, IntentRow
<1> HIDE DEF e, new
<1>3. KeysUnique(e)
  BY <1>1, <1>2 DEF KeysUnique
<1>4. \A u : HasIntent(d, u) => HasIntent(e, u)
  BY <1>1, <1>2 DEF HasIntent
<1> QED
  BY <1>3, <1>4 DEF e

LEMMA ChargeInitially == Init => ChargeInv
BY DEF Init, ChargeInv, KeysUnique, EmptyDatabase, Locked

LEMMA TransferStepCharge ==
    ASSUME TypeOK, ChainInv, ChargeInv, NEW t \in Transfer, TransferStep(t)
    PROVE  ChargeInv'
<1> USE ConstantsAssumption DEF TypeOK, Phase, Locked, ChargeInv
<1>1. CASE Passive(t)
  <2>1. UNCHANGED <<db, work>>
    BY <1>1, PassiveStep
  <2>2. \A u \in Transfer : u \in charged' \/ pc'[u] = "bank" => u \in charged \/ pc[u] = "bank"
    BY <1>1, PassiveStep
  <2>3. \A u \in Transfer : pc'[u] \in Locked /\ stage'[u] = 1 =>
                              pc[u] \in Locked /\ stage[u] = 1
    BY <1>1, PassiveStep
  <2> QED
    BY <2>1, <2>2, <2>3 DEF KeysUnique, HasIntent
<1>2. CASE WriteIntent(t)
  <2>1. work = db
    BY <1>2 DEF WriteIntent, ChainInv, WorkKnown
  <2>2. /\ KeysUnique(work') /\ HasIntent(work', t)
        /\ \A u : HasIntent(work, u) => HasIntent(work', u)
    BY <1>2, <2>1, InsertKeepsKeys DEF WriteIntent
  <2>3. /\ db' = db /\ charged' = charged /\ stage' = stage
        /\ \A u \in Transfer : pc'[u] = IF u = t THEN "outbox" ELSE pc[u]
    BY <1>2 DEF WriteIntent
  <2>4. KeysUnique(db') /\ \A u : HasIntent(db', u) <=> HasIntent(db, u)
    BY <2>3 DEF KeysUnique, HasIntent
  <2> QED
    BY <2>2, <2>3, <2>4
<1>3. CASE RejectDuplicate(t)
  BY <1>3 DEF RejectDuplicate, KeysUnique, HasIntent, ChainInv, WorkKnown
<1>4. CASE WriteResult(t)
  <2>1. work = db
    BY <1>4 DEF WriteResult, ChainInv, WorkKnown
  <2>2. NewStatus(t) \in Status
    BY DEF NewStatus, Status
  <2>3. KeysUnique(work') /\ \A u : HasIntent(work, u) => HasIntent(work', u)
    BY <1>4, <2>1, <2>2, UpdateKeepsKeys DEF WriteResult
  <2>4. /\ db' = db /\ charged' = charged /\ stage' = stage /\ stage[t] # 1
        /\ \A u \in Transfer : pc'[u] = IF u = t THEN "outbox" ELSE pc[u]
    BY <1>4 DEF WriteResult
  <2>5. KeysUnique(db') /\ \A u : HasIntent(db', u) <=> HasIntent(db, u)
    BY <2>4 DEF KeysUnique, HasIntent
  <2> QED
    BY <2>3, <2>4, <2>5
<1>5. ASSUME work'.intents = work.intents, UNCHANGED <<db, stage, charged>>,
             pc[t] \in Locked, \E q \in Locked : Goto(t, q)
      PROVE  ChargeInv'
  <2>1. KeysUnique(work') /\ \A u : HasIntent(work', u) <=> HasIntent(work, u)
    BY <1>5, SameIntents
  <2> QED
    BY <1>5, <2>1 DEF KeysUnique, HasIntent
<1>6. CASE AppendOutbox(t)
  BY <1>5, <1>6, IntentsUntouched DEF AppendOutbox
<1>7. CASE ReadHead(t)
  BY <1>5, <1>7 DEF ReadHead
<1>8. CASE AppendAudit(t)
  BY <1>5, <1>8, IntentsUntouched DEF AppendAudit
<1>9. CASE CommitIntent(t)
  BY <1>9 DEF CommitIntent, KeysUnique, HasIntent
<1>10. CASE CommitResult(t)
  BY <1>10 DEF CommitResult, KeysUnique, HasIntent
<1>11. CASE Rollback(t)
  <2>1. /\ db' = db /\ work' \in {work, db} /\ UNCHANGED <<stage, charged>>
        /\ pc'[t] \notin Locked \cup {"bank"}
        /\ \A u \in Transfer \ {t} : pc'[u] = pc[u]
    BY <1>11 DEF Rollback
  <2>2. \A u \in Transfer \ {t} : pc[u] \in Locked => writer = u
    BY DEF ChainInv, LockHeld
  <2>3. writer = t => work' = db
    BY <1>11 DEF Rollback
  <2>4. writer # t => work' = work
    BY <1>11 DEF Rollback
  <2>5. \A u \in Transfer : pc'[u] \in Locked => pc[u] \in Locked /\ work' = work
    BY <2>1, <2>2, <2>4
  <2> QED
    BY <2>1, <2>5 DEF KeysUnique, HasIntent
<1> QED
  BY <1>1, <1>2, <1>3, <1>4, <1>6, <1>7, <1>8, <1>9, <1>10, <1>11 DEF TransferStep, Passive

LEMMA RelayStepCharge ==
    ASSUME TypeOK, ChainInv, ChargeInv, RelayStep
    PROVE  ChargeInv'
<1> USE ConstantsAssumption DEF TypeOK, ChargeInv
<1>1. ASSUME UNCHANGED <<db, work, pc, stage, charged>>
      PROVE  ChargeInv'
  BY <1>1 DEF KeysUnique, HasIntent
<1>2. CASE RelaySelect
  BY <1>1, <1>2 DEF RelaySelect
<1>3. CASE RelayFetch
  BY <1>1, <1>3 DEF RelayFetch
<1>4. CASE \E k \in batch : RelayPublish(k)
  BY <1>1, <1>4 DEF RelayPublish
<1>5. ASSUME NEW k \in batch, RelayMark(k)
      PROVE  ChargeInv'
  <2>1. View(Relay) = work
    BY <1>5 DEF RelayMark, View, ChainInv, WorkKnown
  <2>2. work'.intents = work.intents
    BY <1>5, <2>1, IntentsUntouched DEF RelayMark
  <2>3. KeysUnique(work') /\ \A u : HasIntent(work', u) <=> HasIntent(work, u)
    BY <2>2, SameIntents
  <2> QED
    BY <1>5, <2>3 DEF RelayMark, KeysUnique, HasIntent
<1>6. CASE RelayMarkFails
  BY <1>1, <1>6 DEF RelayMarkFails
<1>7. CASE RelayCommit
  BY <1>7 DEF RelayCommit, KeysUnique, HasIntent
<1>8. CASE RelayCommitWaits
  BY <1>1, <1>8 DEF RelayCommitWaits
<1>9. CASE RelayCommitTimesOut
  BY <1>1, <1>9 DEF RelayCommitTimesOut
<1> QED
  BY <1>2, <1>3, <1>4, <1>5, <1>6, <1>7, <1>8, <1>9 DEF RelayStep

LEMMA CrashCharge ==
    ASSUME ChargeInv, Crash
    PROVE  ChargeInv'
BY DEF Crash, ChargeInv, KeysUnique, HasIntent, Locked

LEMMA ChargeInvariant == Spec => []ChargeInv
<1>1. TypeOK /\ ChainInv /\ ChargeInv /\ [Next]_vars => ChargeInv'
  <2>1. CASE UNCHANGED vars
    BY <2>1 DEF ChargeInv, KeysUnique, HasIntent
  <2> QED
    BY <2>1, TransferStepCharge, RelayStepCharge, CrashCharge DEF Next
<1> QED
  BY <1>1, ChargeInitially, TypeCorrect, ChainInvariant, PTL DEF Spec

\* The bank is asked at most once for a key, and only for an intent that is
\* in the database, whatever is retried and whenever the process dies.
THEOREM BankAskedOnce == Spec => []ChargedOnce
<1>1. TypeOK /\ ChargeInv => ChargedOnce
  <2> SUFFICES ASSUME TypeOK, ChargeInv
               PROVE  ChargedOnce
    OBVIOUS
  <2>1. \A t \in charged : \E row \in db.intents : row.id = t /\ row.key = keyOf[t]
    BY DEF TypeOK, ChargeInv, KeysUnique, HasIntent
  <2>2. \A t, u \in charged : keyOf[t] = keyOf[u] => t = u
    BY <2>1 DEF ChargeInv, KeysUnique
  <2> QED
    BY <2>1, <2>2 DEF ChargedOnce
<1> QED
  BY <1>1, ChargeInvariant, TypeCorrect, PTL
=============================================================================
