-------------------------- MODULE LedgerStoryProofs --------------------------
(* Proofs about what Ledger commits: the order of delivery, the agreement  *)
(* of intents, outbox and audit chain, what callers are told, and the      *)
(* refinement of AtomicLedger, for every value of the constants.           *)
EXTENDS LedgerProofs, FiniteSetTheorems

USE DEF Conn, files, locals, relay, ghosts, vars, Goto, Write, Install, Discard,
        WaitForReaders, Return

----------------------------------------------------------------------------
(* The order of delivery.  The argument: what the relay selects are the    *)
(* first pending events of what it sees, an event that is not pending was  *)
(* sent, and transfers only append.                                        *)

\* What is no longer pending in d was sent.
SentIn(d, sent) == \A i \in DOMAIN d.outbox : d.outbox[i].status # "PENDING" => i \in sent

\* The relay has sent, or holds, whatever comes before what it holds.
BatchInv ==
    /\ rpc \in {"publish", "mark"} =>
          /\ batch \subseteq DOMAIN db.outbox
          /\ \A i \in batch, j \in DOMAIN db.outbox : j < i => j \in batch \cup delivered
    /\ rpc = "mark" => \A i \in batch : Current(i) => i \in delivered

DeliveryInv ==
    /\ delivered \subseteq DOMAIN db.outbox
    /\ \A i \in delivered : 1 .. i \subseteq delivered
    /\ SentIn(db, delivered) /\ SentIn(work, delivered)
    /\ Len(db.outbox) <= Len(work.outbox)
    /\ writer = Relay => Len(work.outbox) = Len(db.outbox)
    /\ BatchInv

\* A sequence's domain tells its length.
LEMMA SameLength ==
    ASSUME NEW S, NEW seq \in Seq(S), NEW m \in Nat, DOMAIN seq = 1 .. m
    PROVE  Len(seq) = m
<1> DEFINE n == Len(seq)
<1>1. n \in Nat /\ 1 .. n = 1 .. m
  BY LenProperties
<1> HIDE DEF n
<1>2. n <= m
  <2>1. n # 0 => n \in 1 .. m
    BY <1>1
  <2> QED BY <1>1, <2>1
<1>3. m <= n
  <2>1. m # 0 => m \in 1 .. n
    BY <1>1
  <2> QED BY <1>1, <2>1
<1>4. n = m
  BY <1>1, <1>2, <1>3
<1> QED BY <1>4 DEF n

LEMMA OutboxType ==
    ASSUME NEW d \in Database
    PROVE  /\ d.outbox \in Seq(OutboxRow)
           /\ Len(d.outbox) \in Nat
           /\ DOMAIN d.outbox = 1 .. Len(d.outbox)
BY LenProperties DEF Database

\* Only an event or its mark changes the outbox.
LEMMA OutboxUntouched ==
    ASSUME NEW d \in Database
    PROVE  /\ \A row : WithIntent(d, row).outbox = d.outbox
           /\ \A t, s : WithStatus(d, t, s).outbox = d.outbox
           /\ \A t, action, p : WithRecord(d, t, action, p).outbox = d.outbox
BY DEF Database, WithIntent, WithStatus, WithRecord

LEMMA EventAppended ==
    ASSUME NEW d \in Database, NEW t \in Transfer, NEW type \in EventType
    PROVE  LET e == WithEvent(d, t, type)
           IN  /\ DOMAIN e.outbox = 1 .. Len(d.outbox) + 1
               /\ Len(e.outbox) = Len(d.outbox) + 1
               /\ \A i \in DOMAIN d.outbox : e.outbox[i] = d.outbox[i]
               /\ e.outbox[Len(d.outbox) + 1] = [agg |-> t, type |-> type, status |-> "PENDING"]
<1> DEFINE row == [agg |-> t, type |-> type, status |-> "PENDING"]
           o == Append(d.outbox, row)
<1>1. row \in OutboxRow
  BY DEF OutboxRow
<1>2. WithEvent(d, t, type).outbox = o
  BY DEF WithEvent, Database
<1>3. /\ DOMAIN o = 1 .. Len(d.outbox) + 1
      /\ Len(o) = Len(d.outbox) + 1
      /\ \A i \in DOMAIN d.outbox : o[i] = d.outbox[i]
      /\ o[Len(d.outbox) + 1] = row
  BY <1>1, OutboxType, AppendProperties, LenProperties
<1> QED BY <1>2, <1>3

LEMMA EventMarked ==
    ASSUME NEW d \in Database, NEW k \in DOMAIN d.outbox
    PROVE  LET e == WithPublished(d, k)
           IN  /\ DOMAIN e.outbox = DOMAIN d.outbox
               /\ Len(e.outbox) = Len(d.outbox)
               /\ \A i \in DOMAIN d.outbox :
                     /\ e.outbox[i].agg = d.outbox[i].agg
                     /\ e.outbox[i].type = d.outbox[i].type
                     /\ i # k => e.outbox[i] = d.outbox[i]
<1> DEFINE e == WithPublished(d, k)
<1>1. e.outbox = [d.outbox EXCEPT ![k].status = "PUBLISHED"]
  BY DEF WithPublished, Database
<1>2. DOMAIN e.outbox = DOMAIN d.outbox
  BY <1>1
<1>3. e \in Database
  BY OutboxType, WithPublishedType
<1>4. Len(e.outbox) = Len(d.outbox)
  BY <1>2, <1>3, OutboxType, SameLength
<1>5. \A i \in DOMAIN d.outbox : d.outbox[i] \in OutboxRow
  BY OutboxType, ElementOfSeq
<1>6. \A i \in DOMAIN d.outbox :
        /\ e.outbox[i].agg = d.outbox[i].agg
        /\ e.outbox[i].type = d.outbox[i].type
        /\ i # k => e.outbox[i] = d.outbox[i]
  BY <1>1, <1>5 DEF OutboxRow
<1> HIDE DEF e
<1> QED BY <1>2, <1>4, <1>6 DEF e

\* The relay takes the first pending events: none that it leaves comes
\* before one that it takes.
LEMMA SelectedFirst ==
    ASSUME NEW d \in Database, NEW i \in Selected(d), NEW j \in PendingEvents(d), j < i
    PROVE  j \in Selected(d)
<1> DEFINE upTo(n) == {k \in PendingEvents(d) : k <= n}
<1>1. PendingEvents(d) \subseteq 1 .. Len(d.outbox) /\ Len(d.outbox) \in Nat
  BY OutboxType DEF PendingEvents
<1>2. i \in 1 .. Len(d.outbox) /\ j \in 1 .. Len(d.outbox)
  BY <1>1 DEF Selected
<1>3. IsFiniteSet(upTo(i))
  <2>1. IsFiniteSet(1 .. Len(d.outbox))
    BY <1>1, FS_Interval
  <2> QED BY <1>1, <2>1, FS_Subset
<1>4. upTo(j) \subseteq upTo(i)
  BY <1>1, <1>2
<1>5. /\ Cardinality(upTo(j)) \in Nat /\ Cardinality(upTo(i)) \in Nat
      /\ Cardinality(upTo(j)) <= Cardinality(upTo(i))
  BY <1>3, <1>4, FS_Subset, FS_CardinalityType
<1>6. Cardinality(upTo(i)) <= BatchLimit
  BY DEF Selected
<1> QED BY <1>5, <1>6, ConstantsAssumption DEF Selected

LEMMA DeliveryInitially == Init => DeliveryInv
<1>1. EmptyDatabase.outbox = <<>>
  BY DEF EmptyDatabase
<1>2. Len(EmptyDatabase.outbox) = 0 /\ DOMAIN EmptyDatabase.outbox = {}
  BY <1>1, EmptySeq
<1> QED
  BY <1>2 DEF Init, DeliveryInv, SentIn, BatchInv

\* As long as the relay stands still and nothing is published, the database
\* may only grow.
LEMMA OutboxGrows ==
    ASSUME TypeOK, DeliveryInv, UNCHANGED <<relay, delivered>>,
           db' \in Database, work' \in Database,
           Len(db.outbox) <= Len(db'.outbox), Len(db'.outbox) <= Len(work'.outbox),
           writer' = Relay => Len(work'.outbox) = Len(db'.outbox),
           SentIn(db', delivered), SentIn(work', delivered),
           batch \subseteq DOMAIN db.outbox \/ rpc \notin {"publish", "mark"}
    PROVE  DeliveryInv'
<1>1. DOMAIN db.outbox = 1 .. Len(db.outbox) /\ DOMAIN db'.outbox = 1 .. Len(db'.outbox)
  BY OutboxType DEF TypeOK
<1>2. Len(db.outbox) \in Nat /\ Len(db'.outbox) \in Nat
  BY OutboxType DEF TypeOK
<1>3. DOMAIN db.outbox \subseteq DOMAIN db'.outbox
  BY <1>1, <1>2
<1>4. BatchInv'
  <2>1. \A i \in batch, j \in DOMAIN db'.outbox :
           rpc \in {"publish", "mark"} /\ j < i => j \in DOMAIN db.outbox
    BY <1>1, <1>2 DEF DeliveryInv, BatchInv
  <2> QED BY <1>3, <2>1 DEF DeliveryInv, BatchInv, Current
<1> QED BY <1>3, <1>4 DEF DeliveryInv

\* The steps that touch neither copy of the database nor the relay.
LEMMA PassiveDelivery ==
    ASSUME NEW t \in Transfer, TypeOK, Passive(t)
    PROVE  UNCHANGED <<db, work, writer, relay, delivered>>
<1>1. CASE SelectBeneficiary(t) \/ FetchBeneficiary(t) \/ AskBank(t) \/ CommitWaits(t)
  BY <1>1 DEF SelectBeneficiary, FetchBeneficiary, AskBank, CommitWaits
<1>2. CASE WriteTimesOut(t) \/ CommitTimesOut(t) \/ ReadTimesOut(t)
  BY <1>2 DEF WriteTimesOut, CommitTimesOut, ReadTimesOut
<1>3. CASE SelectExisting(t) \/ NothingExisting(t) \/ FetchExisting(t)
  BY <1>3 DEF SelectExisting, NothingExisting, FetchExisting
<1> QED BY <1>1, <1>2, <1>3 DEF Passive

LEMMA TransferStepDelivery ==
    ASSUME TypeOK, ChainInv, DeliveryInv, TypeOK', NEW t \in Transfer, TransferStep(t)
    PROVE  DeliveryInv'
<1>1. /\ db \in Database /\ work \in Database /\ db' \in Database /\ work' \in Database
      /\ Len(db.outbox) \in Nat /\ Len(work.outbox) \in Nat
  BY OutboxType DEF TypeOK
<1>2. batch \subseteq DOMAIN db.outbox \/ rpc \notin {"publish", "mark"}
  BY DEF DeliveryInv, BatchInv
<1>3. SentIn(db, delivered) /\ SentIn(work, delivered) /\ Len(db.outbox) <= Len(work.outbox)
  BY DEF DeliveryInv
<1>4. t # Relay
  BY ConstantsAssumption
<1>5. CASE Passive(t)
  <2>1. UNCHANGED <<db, work, writer, relay, delivered>>
    BY <1>5, PassiveDelivery
  <2> QED
    BY <1>1, <1>2, <1>3, <2>1, OutboxGrows DEF DeliveryInv
<1>6. ASSUME UNCHANGED <<db, relay, delivered>>, writer' = t,
             work'.outbox \in {db.outbox, work.outbox}
      PROVE  DeliveryInv'
  <2>1. SentIn(work', delivered) /\ Len(db'.outbox) <= Len(work'.outbox)
    BY <1>1, <1>3, <1>6 DEF SentIn
  <2> QED
    BY <1>1, <1>2, <1>3, <1>4, <1>6, <2>1, OutboxGrows
<1>7. CASE WriteIntent(t) \/ RejectDuplicate(t) \/ WriteResult(t)
  BY <1>1, <1>6, <1>7, OutboxUntouched DEF WriteIntent, RejectDuplicate, WriteResult
<1>8. CASE AppendOutbox(t)
  <2> DEFINE type == IF stage[t] = 1 THEN "AUTH_STARTED" ELSE Outcome(t)
  <2>1. type \in EventType
    BY DEF Outcome, EventType, Settlement
  <2>2. work' = WithEvent(work, t, type) /\ writer' = t /\ UNCHANGED <<db, relay, delivered>>
    BY <1>8 DEF AppendOutbox
  <2> HIDE DEF type
  <2>3. /\ DOMAIN work'.outbox = 1 .. Len(work.outbox) + 1
        /\ Len(work'.outbox) = Len(work.outbox) + 1
        /\ \A i \in DOMAIN work.outbox : work'.outbox[i] = work.outbox[i]
        /\ work'.outbox[Len(work.outbox) + 1] = [agg |-> t, type |-> type, status |-> "PENDING"]
    <3>1. LET e == WithEvent(work, t, type)
          IN  /\ DOMAIN e.outbox = 1 .. Len(work.outbox) + 1
              /\ Len(e.outbox) = Len(work.outbox) + 1
              /\ \A i \in DOMAIN work.outbox : e.outbox[i] = work.outbox[i]
              /\ e.outbox[Len(work.outbox) + 1] =
                    [agg |-> t, type |-> type, status |-> "PENDING"]
      BY <1>1, <2>1, EventAppended
    <3> QED BY <2>2, <3>1
  <2>4. DOMAIN work.outbox = 1 .. Len(work.outbox)
    BY <1>1, OutboxType
  <2>5. SentIn(work', delivered)
    <3> SUFFICES ASSUME NEW i \in DOMAIN work'.outbox, work'.outbox[i].status # "PENDING"
                 PROVE  i \in delivered
      BY DEF SentIn
    <3>1. i \in DOMAIN work.outbox
      BY <1>1, <2>3, <2>4
    <3> QED BY <1>3, <2>3, <3>1 DEF SentIn
  <2> QED
    BY <1>1, <1>2, <1>3, <1>4, <2>2, <2>3, <2>5, OutboxGrows
<1>9. CASE ReadHead(t)
  <2>1. writer = t
    BY <1>9 DEF ReadHead, ChainInv, LockHeld, Locked
  <2> QED
    BY <1>1, <1>6, <1>9, <2>1 DEF ReadHead
<1>10. CASE AppendAudit(t)
  BY <1>1, <1>6, <1>10, OutboxUntouched DEF AppendAudit
<1>11. CASE CommitIntent(t) \/ CommitResult(t)
  <2>1. db' = work /\ work' = work /\ writer' = Nobody /\ UNCHANGED <<relay, delivered>>
    BY <1>11 DEF CommitIntent, CommitResult
  <2> QED
    BY <1>1, <1>2, <1>3, <2>1, ConstantsAssumption, OutboxGrows
<1>12. CASE Rollback(t)
  <2>1. db' = db /\ UNCHANGED <<relay, delivered>>
    BY <1>12 DEF Rollback
  <2>2. CASE writer = t
    <3>1. work' = db /\ writer' = Nobody
      BY <1>12, <2>2 DEF Rollback
    <3> QED
      BY <1>1, <1>2, <1>3, <2>1, <3>1, ConstantsAssumption, OutboxGrows
  <2>3. CASE writer # t
    <3>1. work' = work /\ writer' = writer
      BY <1>12, <2>3 DEF Rollback
    <3> QED
      BY <1>1, <1>2, <1>3, <2>1, <3>1, OutboxGrows DEF DeliveryInv
  <2> QED BY <2>2, <2>3
<1> QED
  BY <1>5, <1>7, <1>8, <1>9, <1>10, <1>11, <1>12 DEF TransferStep, Passive

LEMMA RelayStepDelivery ==
    ASSUME TypeOK, ChainInv, DeliveryInv, TypeOK', RelayStep
    PROVE  DeliveryInv'
<1>1. /\ db \in Database /\ work \in Database /\ db' \in Database /\ work' \in Database
      /\ Len(db.outbox) \in Nat /\ Len(work.outbox) \in Nat
      /\ DOMAIN db.outbox = 1 .. Len(db.outbox) /\ DOMAIN work.outbox = 1 .. Len(work.outbox)
  BY OutboxType DEF TypeOK
<1>2. View(Relay) \in Database
  BY <1>1 DEF View
<1>3. /\ DOMAIN View(Relay).outbox = DOMAIN db.outbox
      /\ SentIn(View(Relay), delivered)
  BY <1>1 DEF View, DeliveryInv
<1>4. CASE RelaySelect
  BY <1>4 DEF RelaySelect, DeliveryInv, BatchInv, SentIn
<1>5. CASE RelayFetch
  <2>1. /\ batch' = Selected(View(Relay)) /\ rpc' \in {"select", "publish"}
        /\ UNCHANGED <<db, work, writer, delivered>>
    BY <1>5 DEF RelayFetch
  <2>2. batch' \subseteq DOMAIN db.outbox
    BY <1>3, <2>1 DEF Selected, PendingEvents
  <2>3. ASSUME NEW i \in batch', NEW j \in DOMAIN db.outbox, j < i
        PROVE  j \in batch' \cup delivered
    <3>1. CASE View(Relay).outbox[j].status = "PENDING"
      <4>1. j \in PendingEvents(View(Relay))
        BY <1>3, <3>1 DEF PendingEvents
      <4> QED
        BY <1>2, <2>1, <2>3, <4>1, SelectedFirst
    <3>2. CASE View(Relay).outbox[j].status # "PENDING"
      BY <1>3, <3>2 DEF SentIn
    <3> QED BY <3>1, <3>2
  <2> QED
    BY <2>1, <2>2, <2>3 DEF DeliveryInv, BatchInv, SentIn
<1>6. ASSUME NEW k \in batch, RelayPublish(k)
      PROVE  DeliveryInv'
  <2>1. /\ rpc = "publish" /\ rpc' = "mark" /\ Current(k)
        /\ delivered' = delivered \cup {k}
        /\ UNCHANGED <<db, work, writer, batch>>
    BY <1>6 DEF RelayPublish
  <2>2. /\ batch \subseteq DOMAIN db.outbox
        /\ \A i \in batch, j \in DOMAIN db.outbox : j < i => j \in batch \cup delivered
    BY <2>1 DEF DeliveryInv, BatchInv
  <2>3. ASSUME NEW j \in 1 .. k PROVE j \in delivered'
    <3>1. k \in Nat /\ j \in DOMAIN db.outbox
      BY <1>1, <2>2
    <3>2. j # k => j \in delivered
      BY <1>1, <2>1, <2>2, <3>1 DEF Current
    <3> QED BY <2>1, <3>2
  <2>4. \A i \in delivered' : 1 .. i \subseteq delivered'
    BY <2>1, <2>3 DEF DeliveryInv
  <2>5. \A i \in batch : Current(i) => i = k
    BY <1>1, <2>1, <2>2 DEF Current
  <2>6. BatchInv'
    BY <2>1, <2>2, <2>5 DEF BatchInv, Current
  <2>7. SentIn(db', delivered') /\ SentIn(work', delivered') /\ delivered' \subseteq DOMAIN db'.outbox
    BY <2>1, <2>2 DEF DeliveryInv, SentIn
  <2> QED
    BY <2>1, <2>4, <2>6, <2>7 DEF DeliveryInv
<1>7. ASSUME NEW k \in batch, RelayMark(k)
      PROVE  DeliveryInv'
  <2>1. /\ rpc = "mark" /\ Current(k) /\ writer' = Relay
        /\ work' = WithPublished(View(Relay), k)
        /\ batch' = batch \ {k} /\ rpc' \in {"commit", "publish"}
        /\ UNCHANGED <<db, delivered>>
    BY <1>7 DEF RelayMark
  <2>2. /\ batch \subseteq DOMAIN db.outbox
        /\ \A i \in batch, j \in DOMAIN db.outbox : j < i => j \in batch \cup delivered
        /\ k \in delivered
    BY <2>1 DEF DeliveryInv, BatchInv
  <2>3. k \in DOMAIN View(Relay).outbox
    BY <1>3, <2>2
  <2>4. /\ DOMAIN work'.outbox = DOMAIN View(Relay).outbox
        /\ Len(work'.outbox) = Len(View(Relay).outbox)
        /\ \A i \in DOMAIN View(Relay).outbox : i # k => work'.outbox[i] = View(Relay).outbox[i]
    BY <1>2, <2>1, <2>3, EventMarked
  <2>5. SentIn(work', delivered')
    BY <1>3, <2>1, <2>2, <2>4 DEF SentIn
  <2>6. Len(View(Relay).outbox) = Len(db.outbox)
    BY DEF View, DeliveryInv
  <2>7. BatchInv'
    BY <2>1, <2>2 DEF BatchInv
  <2>8. Len(db'.outbox) <= Len(work'.outbox) /\ Len(work'.outbox) = Len(db'.outbox)
    BY <1>1, <2>1, <2>4, <2>6
  <2> QED
    BY <2>1, <2>5, <2>7, <2>8 DEF DeliveryInv, SentIn
<1>8. CASE RelayMarkFails
  BY <1>8 DEF RelayMarkFails, DeliveryInv, BatchInv, SentIn
<1>9. CASE RelayCommit
  <2>1. writer = Relay
    BY <1>9 DEF RelayCommit, ChainInv, LockHeld
  <2>2. /\ db' = work /\ work' = work /\ writer' = Nobody /\ rpc' = "select"
        /\ UNCHANGED delivered
    BY <1>9 DEF RelayCommit
  <2>3. DOMAIN work.outbox = DOMAIN db.outbox
    BY <1>1, <2>1 DEF DeliveryInv
  <2> QED
    BY <1>1, <2>2, <2>3, ConstantsAssumption DEF DeliveryInv, BatchInv, SentIn
<1>10. CASE RelayCommitWaits
  BY <1>10 DEF RelayCommitWaits, DeliveryInv, BatchInv, SentIn
<1>11. CASE RelayCommitTimesOut
  BY <1>11 DEF RelayCommitTimesOut, DeliveryInv, BatchInv, SentIn
<1> QED
  BY <1>4, <1>5, <1>6, <1>7, <1>8, <1>9, <1>10, <1>11 DEF RelayStep

LEMMA CrashDelivery ==
    ASSUME TypeOK, DeliveryInv, Crash
    PROVE  DeliveryInv'
<1>1. db' = db /\ work' = db /\ writer' = Nobody /\ rpc' = "select" /\ delivered' = delivered
  BY DEF Crash
<1>2. Len(db.outbox) \in Nat
  BY OutboxType DEF TypeOK
<1> QED
  BY <1>1, <1>2, ConstantsAssumption DEF DeliveryInv, BatchInv, SentIn

LEMMA StepTypes == TypeOK /\ [Next]_vars => TypeOK'
<1>1. CASE UNCHANGED vars
  BY <1>1 DEF TypeOK
<1> QED
  BY <1>1, TransferStepTypes, RelayStepTypes, CrashTypes DEF Next

LEMMA DeliveryInvariant == Spec => []DeliveryInv
<1>1. TypeOK /\ ChainInv /\ DeliveryInv /\ [Next]_vars => DeliveryInv'
  <2>1. CASE UNCHANGED vars
    BY <2>1 DEF DeliveryInv, BatchInv, SentIn, Current
  <2> QED
    BY <2>1, StepTypes, TransferStepDelivery, RelayStepDelivery, CrashDelivery DEF Next
<1> QED
  BY <1>1, DeliveryInitially, TypeCorrect, ChainInvariant, PTL DEF Spec

\* Downstream gets only committed events, gets them first in the order they
\* were committed, and the relay marks none that it has not sent: with any
\* number of transfers appending meanwhile, busy timeouts and crashes.
THEOREM DeliveryInOrderHolds == Spec => []DeliveryInOrder
<1>1. DeliveryInv => DeliveryInOrder
  BY DEF DeliveryInv, DeliveryInOrder, SentIn, PendingEvents
<1> QED BY <1>1, DeliveryInvariant, PTL

----------------------------------------------------------------------------
(* One story.  Only two commits tell anything new: that of an intent and   *)
(* that of its result.  The lemmas of this part say what one more record   *)
(* does to a database whose tables agree.                                  *)

\* The row of the intent as its record i tells it.
RowAt(d, i) ==
    [key |-> keyOf[d.audit[i].tx], id |-> d.audit[i].tx, status |-> StatusFor(d.audit[i].action)]

EventsAgree(d) ==
    /\ Len(d.outbox) = Len(d.audit)
    /\ \A i \in DOMAIN d.audit :
          /\ d.outbox[i].agg = d.audit[i].tx
          /\ d.outbox[i].type = EventFor(d.audit[i].action)

IntentsAgree(d) == d.intents = {RowAt(d, i) : i \in {j \in DOMAIN d.audit : IsLatest(d, j)}}

\* The intent of t is still AUTHORIZING.
Open(d, t) == \E row \in d.intents : row.id = t /\ row.status = "AUTHORIZING"

\* Every record is about an intent, every intent has its first record, and
\* while it is open no other.
RecordsAgree(d) ==
    /\ \A i \in DOMAIN d.audit : HasIntent(d, d.audit[i].tx)
    /\ \A t \in Transfer : HasIntent(d, t) =>
          \E i \in DOMAIN d.audit : d.audit[i].tx = t /\ d.audit[i].action = "INTENT_CREATED"
    /\ \A t \in Transfer, i \in DOMAIN d.audit :
          Open(d, t) /\ d.audit[i].tx = t => d.audit[i].action = "INTENT_CREATED"

Agree(d) == EventsAgree(d) /\ IntentsAgree(d) /\ RecordsAgree(d)

\* e tells of the same events as d, or of one more.
SameEvents(d, e) ==
    /\ Len(e.outbox) = Len(d.outbox)
    /\ \A i \in DOMAIN d.outbox :
          e.outbox[i].agg = d.outbox[i].agg /\ e.outbox[i].type = d.outbox[i].type

OneMoreEvent(d, e, t, type) ==
    /\ Len(e.outbox) = Len(d.outbox) + 1
    /\ \A i \in DOMAIN d.outbox :
          e.outbox[i].agg = d.outbox[i].agg /\ e.outbox[i].type = d.outbox[i].type
    /\ e.outbox[Len(d.outbox) + 1].agg = t /\ e.outbox[Len(d.outbox) + 1].type = type

OneMoreRecord(d, e, t, action) ==
    /\ Len(e.audit) = Len(d.audit) + 1
    /\ \A i \in DOMAIN d.audit : e.audit[i] = d.audit[i]
    /\ e.audit[Len(d.audit) + 1].tx = t /\ e.audit[Len(d.audit) + 1].action = action

LEMMA AuditType ==
    ASSUME NEW d \in Database
    PROVE  /\ d.audit \in Seq(AuditRow)
           /\ Len(d.audit) \in Nat
           /\ DOMAIN d.audit = 1 .. Len(d.audit)
           /\ \A i \in DOMAIN d.audit : d.audit[i].tx \in Transfer /\ d.audit[i].action \in Action
<1>1. d.audit \in Seq(AuditRow)
  BY DEF Database
<1>2. Len(d.audit) \in Nat /\ DOMAIN d.audit = 1 .. Len(d.audit)
  BY <1>1, LenProperties
<1>3. \A i \in DOMAIN d.audit : d.audit[i] \in AuditRow
  BY <1>1, ElementOfSeq, <1>2
<1> QED BY <1>1, <1>2, <1>3 DEF AuditRow

LEMMA RecordAppended ==
    ASSUME NEW d \in Database, NEW t \in Transfer, NEW action \in Action, NEW p \in Digest
    PROVE  OneMoreRecord(d, WithRecord(d, t, action, p), t, action)
<1> DEFINE r == [tx |-> t, action |-> action, prev |-> p, hash |-> Hash(p, t, action)]
           a == Append(d.audit, r)
<1>1. r \in AuditRow /\ r.tx = t /\ r.action = action
  BY HashType DEF AuditRow
<1>2. WithRecord(d, t, action, p).audit = a
  BY DEF WithRecord, Database
<1> HIDE DEF r
<1>3. /\ Len(a) = Len(d.audit) + 1
      /\ \A i \in DOMAIN d.audit : a[i] = d.audit[i]
      /\ a[Len(d.audit) + 1] = r
  BY <1>1, AuditType, AppendProperties, LenProperties
<1> QED BY <1>1, <1>2, <1>3 DEF OneMoreRecord

\* One record and its event more, in both tables.
LEMMA EventsStayAgreed ==
    ASSUME NEW d \in Database, NEW e \in Database, EventsAgree(d),
           NEW t \in Transfer, NEW action \in Action,
           OneMoreRecord(d, e, t, action), OneMoreEvent(d, e, t, EventFor(action))
    PROVE  EventsAgree(e)
<1> DEFINE n == Len(d.audit)
<1>1. /\ n \in Nat /\ DOMAIN d.audit = 1 .. n /\ DOMAIN e.audit = 1 .. n + 1
      /\ DOMAIN d.outbox = 1 .. n /\ Len(d.outbox) = n
  BY AuditType, OutboxType DEF EventsAgree, OneMoreRecord
<1>2. Len(e.outbox) = Len(e.audit)
  BY <1>1 DEF OneMoreRecord, OneMoreEvent
<1>3. ASSUME NEW i \in DOMAIN e.audit
      PROVE  e.outbox[i].agg = e.audit[i].tx /\ e.outbox[i].type = EventFor(e.audit[i].action)
  <2>1. CASE i \in 1 .. n
    BY <1>1, <2>1 DEF EventsAgree, OneMoreRecord, OneMoreEvent
  <2>2. CASE i = n + 1
    BY <1>1, <2>2 DEF OneMoreRecord, OneMoreEvent
  <2> QED BY <1>1, <2>1, <2>2
<1> QED BY <1>2, <1>3 DEF EventsAgree

\* Which records are the latest after one more.
LEMMA LatestMoves ==
    ASSUME NEW d \in Database, NEW e \in Database, NEW t \in Transfer, NEW action \in Action,
           OneMoreRecord(d, e, t, action)
    PROVE  LET n == Len(d.audit)
           IN  /\ n \in Nat /\ DOMAIN d.audit = 1 .. n /\ DOMAIN e.audit = 1 .. n + 1
               /\ IsLatest(e, n + 1)
               /\ RowAt(e, n + 1) = [key |-> keyOf[t], id |-> t, status |-> StatusFor(action)]
               /\ \A i \in 1 .. n :
                     /\ RowAt(e, i) = RowAt(d, i)
                     /\ IsLatest(e, i) <=> IsLatest(d, i) /\ d.audit[i].tx # t
<1> DEFINE n == Len(d.audit)
<1>1. /\ n \in Nat /\ DOMAIN d.audit = 1 .. n /\ DOMAIN e.audit = 1 .. n + 1
      /\ \A i \in 1 .. n : e.audit[i] = d.audit[i]
      /\ e.audit[n + 1].tx = t /\ e.audit[n + 1].action = action
  BY AuditType DEF OneMoreRecord
<1> HIDE DEF n
<1>2. IsLatest(e, n + 1)
  BY <1>1 DEF IsLatest
<1>3. RowAt(e, n + 1) = [key |-> keyOf[t], id |-> t, status |-> StatusFor(action)]
  BY <1>1 DEF RowAt
<1>4. ASSUME NEW i \in 1 .. n
      PROVE  RowAt(e, i) = RowAt(d, i)
  BY <1>1 DEF RowAt
<1>5. ASSUME NEW i \in 1 .. n, IsLatest(e, i)
      PROVE  IsLatest(d, i) /\ d.audit[i].tx # t
  <2>1. \A j \in 1 .. n : d.audit[j].tx = d.audit[i].tx => j <= i
    BY <1>1, <1>5 DEF IsLatest
  <2>2. n + 1 \in DOMAIN e.audit /\ ~(n + 1 <= i)
    BY <1>1
  <2>3. e.audit[n + 1].tx # e.audit[i].tx
    BY <1>5, <2>2 DEF IsLatest
  <2> QED BY <1>1, <2>1, <2>3 DEF IsLatest
<1>6. ASSUME NEW i \in 1 .. n, IsLatest(d, i), d.audit[i].tx # t
      PROVE  IsLatest(e, i)
  BY <1>1, <1>6 DEF IsLatest
<1> QED BY <1>1, <1>2, <1>3, <1>4, <1>5, <1>6 DEF n

\* A new intent, with its first record and its event.
LEMMA CreationAgrees ==
    ASSUME NEW d \in Database, NEW e \in Database, Agree(d), NEW t \in Transfer, ~HasIntent(d, t),
           e.intents = d.intents \cup {[key |-> keyOf[t], id |-> t, status |-> "AUTHORIZING"]},
           OneMoreRecord(d, e, t, "INTENT_CREATED"), OneMoreEvent(d, e, t, "AUTH_STARTED")
    PROVE  Agree(e)
<1> DEFINE n == Len(d.audit)
           row == [key |-> keyOf[t], id |-> t, status |-> "AUTHORIZING"]
<1>1. "INTENT_CREATED" \in Action /\ EventFor("INTENT_CREATED") = "AUTH_STARTED"
      /\ StatusFor("INTENT_CREATED") = "AUTHORIZING"
  BY DEF Action, EventFor, StatusFor
<1>2. EventsAgree(e)
  BY <1>1, EventsStayAgreed DEF Agree
<1>3. /\ n \in Nat /\ DOMAIN d.audit = 1 .. n /\ DOMAIN e.audit = 1 .. n + 1
      /\ IsLatest(e, n + 1)
      /\ RowAt(e, n + 1) = row
      /\ \A i \in 1 .. n :
            /\ RowAt(e, i) = RowAt(d, i)
            /\ IsLatest(e, i) <=> IsLatest(d, i) /\ d.audit[i].tx # t
  BY <1>1, LatestMoves
<1>4. /\ \A i \in 1 .. n : e.audit[i] = d.audit[i]
      /\ e.audit[n + 1].tx = t /\ e.audit[n + 1].action = "INTENT_CREATED"
  BY <1>3 DEF OneMoreRecord
<1>5. \A i \in 1 .. n : d.audit[i].tx # t
  BY <1>3 DEF Agree, RecordsAgree
<1>6. e.intents = d.intents \cup {row} /\ row.id = t
  OBVIOUS
<1> HIDE DEF n, row
<1>7. IntentsAgree(e)
  <2>1. d.intents = {RowAt(d, i) : i \in {j \in 1 .. n : IsLatest(d, j)}}
    BY <1>3 DEF Agree, IntentsAgree
  <2>2. {RowAt(e, i) : i \in {j \in 1 .. n + 1 : IsLatest(e, j)}}
        = {RowAt(d, i) : i \in {j \in 1 .. n : IsLatest(d, j)}} \cup {row}
    <3>1. {j \in 1 .. n + 1 : IsLatest(e, j)} = {j \in 1 .. n : IsLatest(d, j)} \cup {n + 1}
      <4>1. \A j \in 1 .. n + 1 : j \in 1 .. n \/ j = n + 1
        BY <1>3
      <4>2. \A j \in 1 .. n : IsLatest(e, j) <=> IsLatest(d, j)
        BY <1>3, <1>5
      <4>3. n + 1 \in 1 .. n + 1 /\ \A j \in 1 .. n : j \in 1 .. n + 1
        BY <1>3
      <4> QED BY <1>3, <4>1, <4>2, <4>3
    <3> QED BY <1>3, <3>1
  <2> QED BY <1>3, <1>6, <2>1, <2>2 DEF IntentsAgree
<1>8. \A u : HasIntent(e, u) <=> HasIntent(d, u) \/ u = t
  BY <1>6 DEF HasIntent
<1>9. \A u : u # t => (Open(e, u) <=> Open(d, u))
  BY <1>6 DEF Open
<1>10. RecordsAgree(e)
  <2>1. \A i \in DOMAIN e.audit : HasIntent(e, e.audit[i].tx)
    BY <1>3, <1>4, <1>8 DEF Agree, RecordsAgree
  <2>2. ASSUME NEW u \in Transfer, HasIntent(e, u)
        PROVE  \E i \in DOMAIN e.audit : e.audit[i].tx = u /\ e.audit[i].action = "INTENT_CREATED"
    <3>1. CASE u = t
      <4>1. n + 1 \in DOMAIN e.audit
        BY <1>3
      <4> QED BY <1>4, <3>1, <4>1
    <3>2. CASE u # t
      <4>1. PICK i \in 1 .. n : d.audit[i].tx = u /\ d.audit[i].action = "INTENT_CREATED"
        BY <1>3, <1>8, <2>2, <3>2 DEF Agree, RecordsAgree
      <4>2. i \in DOMAIN e.audit
        BY <1>3
      <4> QED BY <1>4, <4>1, <4>2
    <3> QED BY <3>1, <3>2
  <2>3. ASSUME NEW u \in Transfer, NEW i \in DOMAIN e.audit, Open(e, u), e.audit[i].tx = u
        PROVE  e.audit[i].action = "INTENT_CREATED"
    <3>1. CASE i = n + 1
      BY <1>4, <3>1
    <3>2. CASE i # n + 1
      <4>1. i \in 1 .. n
        BY <1>3, <3>2
      <4>2. u # t /\ d.audit[i].tx = u
        BY <1>4, <1>5, <2>3, <4>1
      <4>3. Open(d, u)
        BY <1>9, <2>3, <4>2
      <4> QED BY <1>3, <1>4, <4>1, <4>2, <4>3 DEF Agree, RecordsAgree
    <3> QED BY <3>1, <3>2
  <2> QED BY <2>1, <2>2, <2>3 DEF RecordsAgree
<1> QED BY <1>2, <1>7, <1>10 DEF Agree

\* The result of an open intent, with its record and its event.
LEMMA SettlementAgrees ==
    ASSUME NEW d \in Database, NEW e \in Database, Agree(d), KeysUnique(d),
           NEW t \in Transfer, Open(d, t),
           NEW action \in Settlement, NEW s \in {"AUTHORIZED", "FAILED"}, s = StatusFor(action),
           e.intents = WithStatus(d, t, s).intents,
           OneMoreRecord(d, e, t, action), OneMoreEvent(d, e, t, action)
    PROVE  Agree(e)
<1> DEFINE n == Len(d.audit)
           new(r) == IF r.id = t THEN [r EXCEPT !.status = s] ELSE r
           row == [key |-> keyOf[t], id |-> t, status |-> s]
<1>1. action \in Action /\ EventFor(action) = action
  BY DEF Action, Settlement, EventFor
<1>2. EventsAgree(e)
  BY <1>1, EventsStayAgreed DEF Agree
<1>3. /\ n \in Nat /\ DOMAIN d.audit = 1 .. n /\ DOMAIN e.audit = 1 .. n + 1
      /\ IsLatest(e, n + 1)
      /\ RowAt(e, n + 1) = row
      /\ \A i \in 1 .. n :
            /\ RowAt(e, i) = RowAt(d, i)
            /\ IsLatest(e, i) <=> IsLatest(d, i) /\ d.audit[i].tx # t
  BY <1>1, LatestMoves
<1>4. /\ \A i \in 1 .. n : e.audit[i] = d.audit[i]
      /\ e.audit[n + 1].tx = t
  BY <1>3 DEF OneMoreRecord
<1>5. e.intents = {new(r) : r \in d.intents}
  BY DEF WithStatus, Database
<1>6. \A r \in d.intents :
        /\ r.id = t => new(r) = row
        /\ r.id # t => new(r) = r
  <2>1. \A r \in d.intents : r \in IntentRow /\ r.key = keyOf[r.id]
    BY DEF Database, KeysUnique
  <2>2. ASSUME NEW r \in d.intents, r.id = t PROVE [r EXCEPT !.status = s] = row
    BY <2>1, <2>2 DEF IntentRow
  <2> QED BY <2>2
<1>7. row.id = t /\ row.status = s
  OBVIOUS
<1> HIDE DEF n, new, row
<1>8. e.intents = {r \in d.intents : r.id # t} \cup {row}
  <2>1. PICK r0 \in d.intents : r0.id = t
    BY DEF Open
  <2>2. row \in e.intents
    BY <1>5, <1>6, <2>1
  <2>3. \A r \in d.intents : r.id # t => r \in e.intents
    BY <1>5, <1>6
  <2>4. \A r \in e.intents : r = row \/ (r \in d.intents /\ r.id # t)
    BY <1>5, <1>6
  <2> QED BY <2>2, <2>3, <2>4
<1>9. IntentsAgree(e)
  <2>1. d.intents = {RowAt(d, i) : i \in {j \in 1 .. n : IsLatest(d, j)}}
    BY <1>3 DEF Agree, IntentsAgree
  <2>2. \A i \in 1 .. n : RowAt(d, i).id = d.audit[i].tx
    BY DEF RowAt
  <2>3. {r \in d.intents : r.id # t}
        = {RowAt(d, i) : i \in {j \in 1 .. n : IsLatest(d, j) /\ d.audit[j].tx # t}}
    BY <2>1, <2>2
  <2>4. {j \in 1 .. n + 1 : IsLatest(e, j)}
        = {j \in 1 .. n : IsLatest(d, j) /\ d.audit[j].tx # t} \cup {n + 1}
    <3>1. \A j \in 1 .. n + 1 : j \in 1 .. n \/ j = n + 1
      BY <1>3
    <3>2. n + 1 \in 1 .. n + 1 /\ \A j \in 1 .. n : j \in 1 .. n + 1
      BY <1>3
    <3> QED BY <1>3, <3>1, <3>2
  <2>5. {RowAt(e, i) : i \in {j \in 1 .. n + 1 : IsLatest(e, j)}}
        = {RowAt(d, i) : i \in {j \in 1 .. n : IsLatest(d, j) /\ d.audit[j].tx # t}} \cup {row}
    BY <1>3, <2>4
  <2> QED BY <1>3, <1>8, <2>3, <2>5 DEF IntentsAgree
<1>10. \A u : HasIntent(e, u) <=> HasIntent(d, u)
  BY <1>7, <1>8 DEF HasIntent, Open
<1>11. \A u : Open(e, u) => u # t /\ Open(d, u)
  BY <1>7, <1>8 DEF Open
<1>12. RecordsAgree(e)
  <2>1. ASSUME NEW i \in DOMAIN e.audit PROVE HasIntent(e, e.audit[i].tx)
    <3>1. HasIntent(d, t)
      BY DEF Open, HasIntent
    <3>2. i \in 1 .. n \/ i = n + 1
      BY <1>3
    <3> QED BY <1>3, <1>4, <1>10, <3>1, <3>2 DEF Agree, RecordsAgree
  <2>2. ASSUME NEW u \in Transfer, HasIntent(e, u)
        PROVE  \E i \in DOMAIN e.audit : e.audit[i].tx = u /\ e.audit[i].action = "INTENT_CREATED"
    <3>1. PICK i \in 1 .. n : d.audit[i].tx = u /\ d.audit[i].action = "INTENT_CREATED"
      BY <1>3, <1>10, <2>2 DEF Agree, RecordsAgree
    <3>2. i \in DOMAIN e.audit
      BY <1>3
    <3> QED BY <1>4, <3>1, <3>2
  <2>3. ASSUME NEW u \in Transfer, NEW i \in DOMAIN e.audit, Open(e, u), e.audit[i].tx = u
        PROVE  e.audit[i].action = "INTENT_CREATED"
    <3>1. u # t /\ Open(d, u)
      BY <1>11, <2>3
    <3>2. i \in 1 .. n
      BY <1>3, <1>4, <2>3, <3>1
    <3> QED BY <1>3, <1>4, <2>3, <3>1, <3>2 DEF Agree, RecordsAgree
  <2> QED BY <2>1, <2>2, <2>3 DEF RecordsAgree
<1> QED BY <1>2, <1>9, <1>12 DEF Agree

\* Marks and the relay's commits tell nothing.
LEMMA SameStory ==
    ASSUME NEW d \in Database, NEW e \in Database, Agree(d),
           e.intents = d.intents, e.audit = d.audit, SameEvents(d, e)
    PROVE  Agree(e)
<1>1. DOMAIN d.outbox = DOMAIN d.audit
  BY AuditType, OutboxType DEF Agree, EventsAgree
<1>2. EventsAgree(e)
  BY <1>1 DEF Agree, EventsAgree, SameEvents
<1>3. IntentsAgree(e)
  BY DEF Agree, IntentsAgree, IsLatest, RowAt
<1>4. RecordsAgree(e)
  BY DEF Agree, RecordsAgree, HasIntent, Open
<1> QED BY <1>2, <1>3, <1>4 DEF Agree

----------------------------------------------------------------------------
(* The argument: what a transfer has done of its transaction tells how its *)
(* copy differs from the database, and nobody else can commit meanwhile.   *)

EventOf(t)  == IF stage[t] = 1 THEN "AUTH_STARTED" ELSE Outcome(t)
ActionOf(t) == IF stage[t] = 1 THEN "INTENT_CREATED" ELSE Outcome(t)

\* The first statement of the transaction of t.
Written(t) ==
    /\ stage[t] = 1 =>
          /\ ~KeyTaken(db, keyOf[t])
          /\ work.intents = db.intents \cup
                               {[key |-> keyOf[t], id |-> t, status |-> "AUTHORIZING"]}
    /\ stage[t] = 2 => work.intents = WithStatus(db, t, NewStatus(t)).intents

InTransaction(t) ==
    /\ pc[t] \in Locked => Written(t)
    /\ pc[t] = "outbox" => SameEvents(db, work)
    /\ pc[t] \in {"head", "audit", "commit"} => OneMoreEvent(db, work, t, EventOf(t))
    /\ pc[t] \in {"outbox", "head", "audit"} => work.audit = db.audit
    /\ pc[t] = "commit" => OneMoreRecord(db, work, t, ActionOf(t))

RelayTellsNothing ==
    writer = Relay =>
        work.intents = db.intents /\ work.audit = db.audit /\ SameEvents(db, work)

\* t is between its transactions, or on its way through the second.
Unsettled(t) == pc[t] = "bank" \/ (stage[t] = 2 /\ pc[t] # "done")

UnsettledAreOpen == \A t \in Transfer : Unsettled(t) => Open(db, t)

StoryInv ==
    /\ Agree(db)
    /\ \A t \in Transfer : InTransaction(t)
    /\ RelayTellsNothing
    /\ UnsettledAreOpen
    /\ AnswersHonest

LEMMA StoryInitially == Init => StoryInv
<1>1. /\ EmptyDatabase.outbox = <<>> /\ EmptyDatabase.audit = <<>> /\ EmptyDatabase.intents = {}
      /\ DOMAIN EmptyDatabase.audit = {}
  BY DEF EmptyDatabase
<1> SUFFICES ASSUME Init PROVE StoryInv
  OBVIOUS
<1>2. Agree(db)
  BY <1>1 DEF Init, Agree, EventsAgree, IntentsAgree, RecordsAgree, HasIntent, Open
<1>3. RelayTellsNothing
  BY ConstantsAssumption DEF Init, RelayTellsNothing
<1>4. \A t \in Transfer : pc[t] = "enforce" /\ stage[t] = 1 /\ answer[t].id = Nobody
  BY DEF Init, NoAnswer
<1> QED
  BY <1>2, <1>3, <1>4
     DEF StoryInv, InTransaction, Locked, UnsettledAreOpen, Unsettled, AnswersHonest

\* The database stays, and t alone may be inside a transaction.
LEMMA TransactionGoesOn ==
    ASSUME StoryInv, db' = db, answer' = answer, NEW t \in Transfer,
           \A u \in Transfer \ {t} :
               pc[u] \notin Locked /\ pc'[u] = pc[u] /\ stage'[u] = stage[u],
           InTransaction(t)', RelayTellsNothing', Unsettled(t)' => Open(db, t)
    PROVE  StoryInv'
<1>1. Agree(db') /\ AnswersHonest'
  BY DEF StoryInv, AnswersHonest
<1>2. \A u \in Transfer : InTransaction(u)'
  BY DEF InTransaction, Locked
<1>3. UnsettledAreOpen'
  <2>1. \A u \in Transfer \ {t} : Unsettled(u)' => Unsettled(u)
    BY DEF Unsettled
  <2> QED BY <2>1 DEF StoryInv, UnsettledAreOpen
<1> QED BY <1>1, <1>2, <1>3 DEF StoryInv

\* Nobody's copy or locks change.
LEMMA PassiveStory ==
    ASSUME TypeOK, StoryInv, NEW t \in Transfer, Passive(t)
    PROVE  StoryInv'
<1> USE DEF TypeOK, Phase
<1>1. UNCHANGED <<db, work, writer>>
  BY PassiveStep
<1>2. /\ \A u \in Transfer \ {t} :
            pc'[u] = pc[u] /\ stage'[u] = stage[u] /\ approved'[u] = approved[u] /\ answer'[u] = answer[u]
      /\ pc'[t] \in Locked => pc'[t] = pc[t] /\ stage'[t] = stage[t] /\ approved'[t] = approved[t]
      /\ Unsettled(t)' => Unsettled(t)
      /\ \/ answer'[t] = answer[t]
         \/ answer'[t].id = Nobody
         \/ \E row \in db.intents :
               row.key = keyOf[t] /\ answer'[t] = [id |-> row.id, status |-> row.status]
  <2> USE DEF Locked, Unsettled
  <2>1. CASE SelectBeneficiary(t)
    BY <2>1 DEF SelectBeneficiary
  <2>2. CASE FetchBeneficiary(t)
    BY <2>2 DEF FetchBeneficiary
  <2>3. CASE AskBank(t)
    BY <2>3 DEF AskBank
  <2>4. CASE CommitWaits(t)
    BY <2>4 DEF CommitWaits
  <2>5. CASE WriteTimesOut(t)
    BY <2>5 DEF WriteTimesOut
  <2>6. CASE CommitTimesOut(t)
    BY <2>6 DEF CommitTimesOut
  <2>7. CASE SelectExisting(t)
    BY <2>7 DEF SelectExisting
  <2>8. CASE NothingExisting(t)
    BY <2>8 DEF NothingExisting, Raised
  <2>9. CASE FetchExisting(t)
    BY <2>9 DEF FetchExisting
  <2>10. CASE ReadTimesOut(t)
    BY <2>10 DEF ReadTimesOut, Raised
  <2> QED
    BY <2>1, <2>2, <2>3, <2>4, <2>5, <2>6, <2>7, <2>8, <2>9, <2>10 DEF Passive
<1>3. \A u \in Transfer : InTransaction(u)'
  <2>1. ASSUME NEW u \in Transfer, pc'[u] \in Locked PROVE InTransaction(u)'
    <3>1. pc'[u] = pc[u] /\ stage'[u] = stage[u] /\ approved'[u] = approved[u]
      BY <1>2, <2>1
    <3>2. /\ EventOf(u)' = EventOf(u) /\ ActionOf(u)' = ActionOf(u)
          /\ NewStatus(u)' = NewStatus(u)
      BY <3>1 DEF EventOf, ActionOf, NewStatus, Outcome
    <3>3. Written(u) => Written(u)'
      BY <1>1, <3>1, <3>2 DEF Written, KeyTaken, WithStatus
    <3> QED
      BY <1>1, <3>1, <3>2, <3>3 DEF StoryInv, InTransaction, SameEvents, OneMoreEvent, OneMoreRecord
  <2> QED BY <2>1 DEF InTransaction, Locked
<1>4. RelayTellsNothing'
  BY <1>1 DEF StoryInv, RelayTellsNothing, SameEvents
<1>5. UnsettledAreOpen'
  <2>1. \A u \in Transfer : Unsettled(u)' => Unsettled(u)
    BY <1>2 DEF Unsettled
  <2> QED BY <1>1, <2>1 DEF StoryInv, UnsettledAreOpen, Open
<1>6. AnswersHonest'
  <2> SUFFICES ASSUME NEW u \in Transfer, answer'[u].id # Nobody
               PROVE  \E row \in db.intents :
                         /\ row.key = keyOf[u]
                         /\ row.id = answer'[u].id
                         /\ answer'[u].status \in {row.status, "AUTHORIZING"}
    BY <1>1 DEF AnswersHonest
  <2>1. CASE answer'[u] = answer[u]
    BY <2>1 DEF StoryInv, AnswersHonest
  <2>2. CASE answer'[u] # answer[u]
    <3>1. u = t
      BY <1>2, <2>2
    <3>2. PICK row \in db.intents :
             row.key = keyOf[t] /\ answer'[t] = [id |-> row.id, status |-> row.status]
      BY <1>2, <2>2, <3>1
    <3>3. answer'[t].id = row.id /\ answer'[t].status = row.status
      BY <3>2
    <3> QED BY <3>1, <3>2, <3>3
  <2> QED BY <2>1, <2>2
<1>7. Agree(db')
  BY <1>1 DEF StoryInv
<1> QED BY <1>3, <1>4, <1>5, <1>6, <1>7 DEF StoryInv

\* What CommitIntent(t) and CommitResult(t) install tells one thing more.
LEMMA CommitTells ==
    ASSUME TypeOK, ChargeInv, StoryInv, NEW t \in Transfer, pc[t] = "commit"
    PROVE  /\ Agree(work)
           /\ OneMoreRecord(db, work, t, ActionOf(t))
           /\ stage[t] = 1 => /\ ~KeyTaken(db, keyOf[t])
                              /\ Open(work, t)
                              /\ db.intents \subseteq work.intents
           /\ stage[t] = 2 => /\ Open(db, t)
                              /\ work.intents = WithStatus(db, t, NewStatus(t)).intents
<1>1. /\ Written(t)
      /\ OneMoreEvent(db, work, t, EventOf(t))
      /\ OneMoreRecord(db, work, t, ActionOf(t))
  BY DEF StoryInv, InTransaction, Locked
<1>2. Agree(db) /\ db \in Database /\ work \in Database /\ KeysUnique(db)
  BY DEF StoryInv, TypeOK, ChargeInv
<1>3. CASE stage[t] = 1
  <2>1. ~KeyTaken(db, keyOf[t]) /\ EventOf(t) = "AUTH_STARTED" /\ ActionOf(t) = "INTENT_CREATED"
    BY <1>1, <1>3 DEF Written, EventOf, ActionOf
  <2>2. ~HasIntent(db, t)
    BY <1>2, <2>1 DEF KeyTaken, HasIntent, KeysUnique
  <2>3. Agree(work)
    BY <1>1, <1>2, <1>3, <2>1, <2>2, CreationAgrees DEF Written
  <2>4. Open(work, t) /\ db.intents \subseteq work.intents
    <3> DEFINE row == [key |-> keyOf[t], id |-> t, status |-> "AUTHORIZING"]
    <3>1. row.id = t /\ row.status = "AUTHORIZING"
      OBVIOUS
    <3>2. work.intents = db.intents \cup {row}
      BY <1>1, <1>3 DEF Written
    <3> HIDE DEF row
    <3> QED BY <3>1, <3>2 DEF Open
  <2> QED BY <1>1, <1>3, <2>1, <2>3, <2>4
<1>4. CASE stage[t] = 2
  <2>1. EventOf(t) = Outcome(t) /\ ActionOf(t) = Outcome(t)
    BY <1>4 DEF EventOf, ActionOf
  <2>2. /\ Outcome(t) \in Settlement /\ NewStatus(t) \in {"AUTHORIZED", "FAILED"}
        /\ NewStatus(t) = StatusFor(Outcome(t))
    BY DEF Outcome, Settlement, NewStatus, StatusFor
  <2>3. Open(db, t)
    BY <1>4 DEF StoryInv, UnsettledAreOpen, Unsettled
  <2>4. work.intents = WithStatus(db, t, NewStatus(t)).intents
    BY <1>1, <1>4 DEF Written
  <2>5. Agree(work)
    BY <1>1, <1>2, <2>1, <2>2, <2>3, <2>4, SettlementAgrees
  <2> QED BY <1>1, <1>4, <2>3, <2>4, <2>5
<1> QED BY <1>3, <1>4 DEF TypeOK

LEMMA CommitStory ==
    ASSUME TypeOK, ChainInv, ChargeInv, StoryInv, NEW t \in Transfer,
           CommitIntent(t) \/ CommitResult(t)
    PROVE  StoryInv'
<1>1. /\ pc[t] = "commit" /\ writer = t
      /\ db' = work /\ work' = work /\ writer' = Nobody /\ stage' = stage
  BY DEF CommitIntent, CommitResult, ChainInv, LockHeld, Locked
<1>2. \A u \in Transfer \ {t} : pc[u] \notin Locked /\ pc'[u] = pc[u] /\ answer'[u] = answer[u]
  BY <1>1 DEF CommitIntent, CommitResult, ChainInv, LockHeld, TypeOK
<1>3. pc'[t] \in {"bank", "done"}
  BY DEF CommitIntent, CommitResult, TypeOK
<1>4. Agree(db')
  BY <1>1, CommitTells
<1>5. \A u \in Transfer : InTransaction(u)'
  BY <1>2, <1>3 DEF InTransaction, Locked
<1>6. RelayTellsNothing'
  BY <1>1, ConstantsAssumption DEF RelayTellsNothing
<1>7. CASE CommitIntent(t)
  <2>1. stage[t] = 1 /\ answer' = answer /\ pc'[t] = "bank"
    BY <1>7 DEF CommitIntent, TypeOK
  <2>2. Open(work, t) /\ db.intents \subseteq work.intents
    BY <1>1, <2>1, CommitTells
  <2>3. UnsettledAreOpen'
    BY <1>1, <1>2, <2>2 DEF StoryInv, UnsettledAreOpen, Unsettled, Open
  <2>4. AnswersHonest'
    BY <1>1, <2>1, <2>2 DEF StoryInv, AnswersHonest
  <2> QED BY <1>4, <1>5, <1>6, <2>3, <2>4 DEF StoryInv
<1>8. CASE CommitResult(t)
  <2>1. stage[t] = 2 /\ pc'[t] = "done" /\ answer'[t] = [id |-> t, status |-> NewStatus(t)]
    BY <1>8 DEF CommitResult, TypeOK
  <2>2. Open(db, t) /\ work.intents = WithStatus(db, t, NewStatus(t)).intents
    BY <1>1, <2>1, CommitTells
  <2> DEFINE new(r) == IF r.id = t THEN [r EXCEPT !.status = NewStatus(t)] ELSE r
  <2>3. work.intents = {new(r) : r \in db.intents}
    BY <2>2 DEF WithStatus, TypeOK, Database
  <2>4. \A r \in db.intents :
          /\ new(r).id = r.id /\ new(r).key = r.key
          /\ r.id # t => new(r) = r
          /\ r.id = t => new(r).status = NewStatus(t)
    BY DEF TypeOK, Database, IntentRow
  <2> HIDE DEF new
  <2>5. \A r, s \in db.intents : r.id = s.id => r = s
    BY DEF ChargeInv, KeysUnique
  <2>6. PICK mine \in db.intents : mine.id = t /\ mine.status = "AUTHORIZING"
    BY <2>2 DEF Open
  <2>7. UnsettledAreOpen'
    <3> SUFFICES ASSUME NEW u \in Transfer, Unsettled(u)' PROVE Open(work, u)
      BY <1>1 DEF UnsettledAreOpen
    <3>1. u # t
      BY <2>1 DEF Unsettled
    <3>2. Unsettled(u)
      BY <1>1, <1>2, <3>1 DEF Unsettled
    <3>3. PICK r \in db.intents : r.id = u /\ r.status = "AUTHORIZING"
      BY <3>2 DEF StoryInv, UnsettledAreOpen, Open
    <3> QED BY <2>3, <2>4, <3>1, <3>3 DEF Open
  <2>8. AnswersHonest'
    <3> SUFFICES ASSUME NEW u \in Transfer, answer'[u].id # Nobody
                 PROVE  \E row \in work.intents :
                           /\ row.key = keyOf[u]
                           /\ row.id = answer'[u].id
                           /\ answer'[u].status \in {row.status, "AUTHORIZING"}
      BY <1>1 DEF AnswersHonest
    <3>1. CASE u = t
      <4>1. mine.key = keyOf[t]
        BY <2>6 DEF ChargeInv, KeysUnique
      <4>2. new(mine) \in work.intents
        BY <2>3
      <4> QED BY <2>1, <2>4, <2>6, <3>1, <4>1, <4>2
    <3>2. CASE u # t
      <4>1. PICK r \in db.intents :
               /\ r.key = keyOf[u]
               /\ r.id = answer[u].id
               /\ answer[u].status \in {r.status, "AUTHORIZING"}
        BY <1>2, <3>2 DEF StoryInv, AnswersHonest
      <4>2. new(r) \in work.intents
        BY <2>3
      <4>3. answer[u].status \in {new(r).status, "AUTHORIZING"}
        BY <2>4, <2>5, <2>6, <4>1
      <4> QED BY <1>2, <2>4, <3>2, <4>1, <4>2, <4>3
    <3> QED BY <3>1, <3>2
  <2> QED BY <1>4, <1>5, <1>6, <2>7, <2>8 DEF StoryInv
<1> QED BY <1>7, <1>8

LEMMA TransferStepStory ==
    ASSUME TypeOK, ChainInv, ChargeInv, StoryInv, NEW t \in Transfer, TransferStep(t)
    PROVE  StoryInv'
<1>1. /\ db \in Database /\ work \in Database /\ t # Relay /\ t # Nobody
      /\ pc \in [Transfer -> Phase]
  BY ConstantsAssumption DEF TypeOK
<1>2. \A u \in Transfer \ {t} : writer \in {t, Nobody} => pc[u] \notin Locked
  BY ConstantsAssumption DEF ChainInv, LockHeld
<1>3. InTransaction(t) /\ (Unsettled(t) => Open(db, t))
  BY DEF StoryInv, UnsettledAreOpen
<1>4. ASSUME db' = db, UNCHANGED <<stage, answer, approved>>, writer \in {t, Nobody}, writer' = t,
             NEW q \in Locked \cup {"rollback"}, pc' = [pc EXCEPT ![t] = q],
             pc[t] \in Locked \cup {"write"},
             InTransaction(t)'
      PROVE  StoryInv'
  <2>1. \A u \in Transfer \ {t} :
           pc[u] \notin Locked /\ pc'[u] = pc[u] /\ stage'[u] = stage[u]
    BY <1>1, <1>2, <1>4
  <2>2. RelayTellsNothing'
    BY <1>1, <1>4 DEF RelayTellsNothing
  <2>3. Unsettled(t)' => Unsettled(t)
    BY <1>1, <1>4 DEF Unsettled, Locked
  <2> QED BY <1>3, <1>4, <2>1, <2>2, <2>3, TransactionGoesOn
<1>5. CASE Passive(t)
  BY <1>5, PassiveStory
<1>6. CASE WriteIntent(t)
  <2>1. /\ pc' = [pc EXCEPT ![t] = "outbox"] /\ pc[t] = "write" /\ stage[t] = 1 /\ writer = Nobody
        /\ writer' = t /\ db' = db /\ UNCHANGED <<stage, answer, approved>>
        /\ ~KeyTaken(db, keyOf[t])
        /\ work' = WithIntent(db, [key |-> keyOf[t], id |-> t, status |-> "AUTHORIZING"])
    BY <1>6 DEF WriteIntent
  <2>2. /\ work'.outbox = db.outbox /\ work'.audit = db.audit
        /\ work'.intents = db.intents \cup
              {[key |-> keyOf[t], id |-> t, status |-> "AUTHORIZING"]}
    BY <1>1, <2>1, OutboxUntouched, AuditUntouched DEF WithIntent, Database
  <2>3. pc'[t] = "outbox" /\ stage'[t] = 1
    BY <1>1, <2>1
  <2>4. Written(t)'
    BY <2>1, <2>2, <2>3 DEF Written, KeyTaken
  <2>5. InTransaction(t)'
    BY <2>1, <2>2, <2>3, <2>4 DEF InTransaction, SameEvents
  <2> QED BY <1>4, <2>1, <2>5 DEF Locked
<1>7. CASE RejectDuplicate(t)
  <2>1. /\ pc' = [pc EXCEPT ![t] = "rollback"] /\ pc[t] = "write" /\ writer = Nobody
        /\ writer' = t /\ db' = db /\ UNCHANGED <<stage, answer, approved>>
    BY <1>7 DEF RejectDuplicate
  <2>2. InTransaction(t)'
    BY <1>1, <2>1 DEF InTransaction, Locked
  <2> QED BY <1>4, <2>1, <2>2
<1>8. CASE WriteResult(t)
  <2>1. /\ pc' = [pc EXCEPT ![t] = "outbox"] /\ pc[t] = "write" /\ stage[t] = 2 /\ writer = Nobody
        /\ writer' = t /\ db' = db /\ UNCHANGED <<stage, answer, approved>>
        /\ work' = WithStatus(db, t, NewStatus(t))
    BY <1>8 DEF WriteResult
  <2>2. /\ work'.outbox = db.outbox /\ work'.audit = db.audit
        /\ NewStatus(t)' = NewStatus(t)
    BY <1>1, <2>1, OutboxUntouched, AuditUntouched DEF NewStatus
  <2>3. pc'[t] = "outbox" /\ stage'[t] = 2
    BY <1>1, <2>1
  <2>4. Written(t)'
    BY <2>1, <2>2, <2>3 DEF Written
  <2>5. InTransaction(t)'
    BY <2>1, <2>2, <2>3, <2>4 DEF InTransaction, SameEvents
  <2> QED BY <1>4, <2>1, <2>5 DEF Locked
<1>9. ASSUME pc[t] \in Locked, db' = db, UNCHANGED <<stage, approved>>, work'.intents = work.intents
      PROVE  Written(t)' /\ EventOf(t)' = EventOf(t) /\ ActionOf(t)' = ActionOf(t) /\ writer = t
  <2>1. Written(t) /\ writer = t
    BY <1>3, <1>9 DEF InTransaction, ChainInv, LockHeld
  <2>2. NewStatus(t)' = NewStatus(t) /\ Outcome(t)' = Outcome(t)
    BY <1>9 DEF NewStatus, Outcome
  <2> QED BY <1>9, <2>1, <2>2 DEF Written, KeyTaken, EventOf, ActionOf
<1>10. CASE AppendOutbox(t)
  <2>1. /\ pc' = [pc EXCEPT ![t] = "head"] /\ pc[t] = "outbox"
        /\ writer' = t /\ db' = db /\ UNCHANGED <<stage, answer, approved>>
        /\ work' = WithEvent(work, t, EventOf(t))
    BY <1>10 DEF AppendOutbox, EventOf
  <2>2. EventOf(t) \in EventType
    BY DEF EventOf, Outcome, EventType, Settlement
  <2>3. /\ Len(work'.outbox) = Len(work.outbox) + 1
        /\ \A i \in DOMAIN work.outbox : work'.outbox[i] = work.outbox[i]
        /\ work'.outbox[Len(work.outbox) + 1] =
              [agg |-> t, type |-> EventOf(t), status |-> "PENDING"]
    <3>1. LET e == WithEvent(work, t, EventOf(t))
          IN  /\ Len(e.outbox) = Len(work.outbox) + 1
              /\ \A i \in DOMAIN work.outbox : e.outbox[i] = work.outbox[i]
              /\ e.outbox[Len(work.outbox) + 1] =
                    [agg |-> t, type |-> EventOf(t), status |-> "PENDING"]
      BY <1>1, <2>2, EventAppended
    <3> QED BY <2>1, <3>1
  <2>4. SameEvents(db, work) /\ work.audit = db.audit
    BY <1>3, <2>1 DEF InTransaction
  <2>5. DOMAIN work.outbox = DOMAIN db.outbox
    BY <1>1, <2>4, OutboxType DEF SameEvents
  <2>6. OneMoreEvent(db, work', t, EventOf(t))
    BY <2>3, <2>4, <2>5 DEF SameEvents, OneMoreEvent
  <2>7. work'.audit = db.audit /\ work'.intents = work.intents
    BY <1>1, <2>1, <2>4, AuditUntouched, IntentsUntouched
  <2>8. Written(t)' /\ EventOf(t)' = EventOf(t) /\ writer = t
    BY <1>9, <2>1, <2>7 DEF Locked
  <2>9. pc'[t] = "head"
    BY <1>1, <2>1
  <2>10. InTransaction(t)'
    BY <2>1, <2>6, <2>7, <2>8, <2>9 DEF InTransaction, OneMoreEvent
  <2> QED BY <1>4, <2>1, <2>8, <2>10 DEF Locked
<1>11. CASE ReadHead(t)
  <2>1. /\ pc' = [pc EXCEPT ![t] = "audit"] /\ pc[t] = "head"
        /\ UNCHANGED <<db, work, writer, stage, answer, approved>>
    BY <1>11 DEF ReadHead
  <2>2. Written(t)' /\ EventOf(t)' = EventOf(t) /\ writer = t
    BY <1>9, <2>1 DEF Locked
  <2>3. pc'[t] = "audit"
    BY <1>1, <2>1
  <2>4. InTransaction(t)'
    BY <1>3, <2>1, <2>2, <2>3 DEF InTransaction, OneMoreEvent
  <2> QED BY <1>4, <2>1, <2>2, <2>4 DEF Locked
<1>12. CASE AppendAudit(t)
  <2>1. /\ pc' = [pc EXCEPT ![t] = "commit"] /\ pc[t] = "audit"
        /\ writer' = t /\ db' = db /\ UNCHANGED <<stage, answer, approved>>
        /\ work' = WithRecord(work, t, ActionOf(t), prev[t])
    BY <1>12 DEF AppendAudit, ActionOf
  <2>2. ActionOf(t) \in Action /\ prev[t] \in Digest
    BY DEF ActionOf, Outcome, Action, Settlement, TypeOK
  <2>3. OneMoreRecord(work, work', t, ActionOf(t))
    BY <1>1, <2>1, <2>2, RecordAppended
  <2>4. work.audit = db.audit /\ OneMoreEvent(db, work, t, EventOf(t))
    BY <1>3, <2>1 DEF InTransaction
  <2>5. OneMoreRecord(db, work', t, ActionOf(t))
    BY <2>3, <2>4 DEF OneMoreRecord
  <2>6. work'.outbox = work.outbox /\ work'.intents = work.intents
    BY <1>1, <2>1, OutboxUntouched, IntentsUntouched
  <2>7. /\ Written(t)' /\ EventOf(t)' = EventOf(t) /\ ActionOf(t)' = ActionOf(t) /\ writer = t
    BY <1>9, <2>1, <2>6 DEF Locked
  <2>8. pc'[t] = "commit"
    BY <1>1, <2>1
  <2>9. InTransaction(t)'
    BY <2>1, <2>4, <2>5, <2>6, <2>7, <2>8 DEF InTransaction, OneMoreEvent, OneMoreRecord
  <2> QED BY <1>4, <2>1, <2>7, <2>9 DEF Locked
<1>13. CASE CommitIntent(t) \/ CommitResult(t)
  BY <1>13, CommitStory
<1>14. CASE Rollback(t)
  <2>1. /\ pc[t] = "rollback" /\ pc'[t] \in {"lookup", "done"} /\ db' = db /\ stage' = stage
        /\ stage[t] = 2 => pc'[t] = "done"
        /\ approved' = approved
        /\ \A u \in Transfer \ {t} : pc'[u] = pc[u] /\ answer'[u] = answer[u]
        /\ answer'[t] = answer[t] \/ answer'[t].id = Nobody
    BY <1>1, <1>14 DEF Rollback, TypeOK, Raised
  <2>2. InTransaction(t)' /\ ~Unsettled(t)'
    BY <2>1 DEF InTransaction, Locked, Unsettled
  <2>3. AnswersHonest'
    BY <2>1 DEF StoryInv, AnswersHonest
  <2>4. UnsettledAreOpen'
    <3>1. \A u \in Transfer \ {t} : Unsettled(u)' => Unsettled(u)
      BY <2>1 DEF Unsettled
    <3> QED BY <2>1, <2>2, <3>1 DEF StoryInv, UnsettledAreOpen
  <2>5. CASE writer = t
    <3>1. writer' = Nobody
      BY <1>14, <2>5 DEF Rollback
    <3>2. \A u \in Transfer \ {t} : InTransaction(u)'
      BY <1>2, <2>1, <2>5 DEF InTransaction, Locked
    <3>3. RelayTellsNothing'
      BY <3>1, ConstantsAssumption DEF RelayTellsNothing
    <3> QED BY <2>1, <2>2, <2>3, <2>4, <3>2, <3>3 DEF StoryInv
  <2>6. CASE writer # t
    <3>1. work' = work /\ writer' = writer
      BY <1>14, <2>6 DEF Rollback
    <3>2. ASSUME NEW u \in Transfer \ {t} PROVE InTransaction(u)'
      <4>1. pc'[u] = pc[u] /\ stage'[u] = stage[u] /\ InTransaction(u)
        BY <2>1 DEF StoryInv
      <4>2. /\ EventOf(u)' = EventOf(u) /\ ActionOf(u)' = ActionOf(u)
            /\ NewStatus(u)' = NewStatus(u)
        BY <2>1, <4>1 DEF EventOf, ActionOf, NewStatus, Outcome
      <4>3. Written(u) => Written(u)'
        BY <2>1, <3>1, <4>1, <4>2 DEF Written, KeyTaken, WithStatus
      <4> QED
        BY <2>1, <3>1, <4>1, <4>2, <4>3 DEF InTransaction, SameEvents, OneMoreEvent, OneMoreRecord
    <3>3. RelayTellsNothing'
      BY <2>1, <3>1 DEF StoryInv, RelayTellsNothing, SameEvents
    <3> QED BY <2>1, <2>2, <2>3, <2>4, <3>2, <3>3 DEF StoryInv
  <2> QED BY <2>5, <2>6
<1> QED
  BY <1>5, <1>6, <1>7, <1>8, <1>10, <1>11, <1>12, <1>13, <1>14 DEF TransferStep, Passive

\* A step that changes nothing the story is about.
LEMMA IdleStory ==
    ASSUME StoryInv, UNCHANGED <<db, work, writer, pc, locals>>
    PROVE  StoryInv'
BY DEF StoryInv, InTransaction, Written, EventOf, ActionOf, NewStatus, Outcome, KeyTaken,
       WithStatus, SameEvents, OneMoreEvent, OneMoreRecord, RelayTellsNothing,
       UnsettledAreOpen, Unsettled, Open, AnswersHonest

LEMMA RelayStepStory ==
    ASSUME TypeOK, ChainInv, StoryInv, DeliveryInv, RelayStep
    PROVE  StoryInv'
<1>1. CASE \/ RelaySelect \/ RelayFetch \/ RelayMarkFails
           \/ RelayCommitWaits \/ RelayCommitTimesOut
           \/ \E k \in batch : RelayPublish(k)
  <2>1. UNCHANGED <<db, work, writer, pc, locals>>
    BY <1>1 DEF RelaySelect, RelayFetch, RelayMarkFails, RelayCommitWaits,
                RelayCommitTimesOut, RelayPublish
  <2> QED BY <2>1, IdleStory
<1>2. \A t \in Transfer : writer \in {Relay, Nobody} => pc[t] \notin Locked
  BY ConstantsAssumption DEF ChainInv, LockHeld
<1>3. ASSUME NEW k \in batch, RelayMark(k)
      PROVE  StoryInv'
  <2>1. /\ writer \in {Nobody, Relay} /\ writer' = Relay /\ rpc = "mark"
        /\ work' = WithPublished(View(Relay), k)
        /\ UNCHANGED <<db, pc, locals>>
    BY <1>3 DEF RelayMark
  <2>2. /\ View(Relay) \in Database
        /\ View(Relay).intents = db.intents /\ View(Relay).audit = db.audit
        /\ SameEvents(db, View(Relay))
    BY <2>1 DEF View, TypeOK, StoryInv, RelayTellsNothing, SameEvents
  <2>3. DOMAIN View(Relay).outbox = DOMAIN db.outbox
    BY <2>2, OutboxType DEF SameEvents, TypeOK
  <2>4. k \in DOMAIN View(Relay).outbox
    BY <2>1, <2>3 DEF DeliveryInv, BatchInv
  <2>5. /\ Len(work'.outbox) = Len(View(Relay).outbox)
        /\ \A i \in DOMAIN View(Relay).outbox :
              /\ work'.outbox[i].agg = View(Relay).outbox[i].agg
              /\ work'.outbox[i].type = View(Relay).outbox[i].type
    BY <2>1, <2>2, <2>4, EventMarked
  <2>6. work'.intents = db.intents /\ work'.audit = db.audit
    BY <2>1, <2>2, IntentsUntouched, AuditUntouched
  <2>7. RelayTellsNothing'
    BY <2>1, <2>2, <2>3, <2>5, <2>6 DEF RelayTellsNothing, SameEvents
  <2>8. \A t \in Transfer : InTransaction(t)'
    BY <1>2, <2>1 DEF InTransaction, Locked
  <2> QED
    BY <2>1, <2>7, <2>8 DEF StoryInv, UnsettledAreOpen, Unsettled, AnswersHonest
<1>4. CASE RelayCommit
  <2>1. /\ writer = Relay /\ db' = work /\ writer' = Nobody /\ UNCHANGED <<pc, locals>>
    BY <1>4 DEF RelayCommit, ChainInv, LockHeld
  <2>2. work.intents = db.intents /\ work.audit = db.audit /\ SameEvents(db, work)
    BY <2>1 DEF StoryInv, RelayTellsNothing
  <2>3. Agree(db')
    BY <2>1, <2>2, SameStory DEF StoryInv, TypeOK
  <2>4. \A t \in Transfer : InTransaction(t)'
    BY <1>2, <2>1 DEF InTransaction, Locked
  <2>5. RelayTellsNothing'
    BY <2>1, ConstantsAssumption DEF RelayTellsNothing
  <2>6. UnsettledAreOpen' /\ AnswersHonest'
    BY <2>1, <2>2 DEF StoryInv, UnsettledAreOpen, Unsettled, Open, AnswersHonest
  <2> QED BY <2>3, <2>4, <2>5, <2>6 DEF StoryInv
<1> QED BY <1>1, <1>3, <1>4 DEF RelayStep

LEMMA CrashStory ==
    ASSUME TypeOK, StoryInv, Crash
    PROVE  StoryInv'
<1>1. /\ db' = db /\ writer' = Nobody /\ UNCHANGED <<stage, answer>>
      /\ \A t \in Transfer : pc'[t] = IF pc[t] = "enforce" THEN "enforce" ELSE "done"
  BY DEF Crash
<1>2. \A t \in Transfer : InTransaction(t)'
  BY <1>1 DEF InTransaction, Locked
<1>3. UnsettledAreOpen'
  <2>1. \A t \in Transfer : Unsettled(t)' => Unsettled(t)
    BY <1>1 DEF Unsettled
  <2> QED BY <1>1, <2>1 DEF StoryInv, UnsettledAreOpen
<1> QED
  BY <1>1, <1>2, <1>3, ConstantsAssumption DEF StoryInv, RelayTellsNothing, AnswersHonest

LEMMA StoryInvariant == Spec => []StoryInv
<1>1. TypeOK /\ ChainInv /\ ChargeInv /\ DeliveryInv /\ StoryInv /\ [Next]_vars => StoryInv'
  <2>1. CASE UNCHANGED vars
    BY <2>1, IdleStory
  <2> QED
    BY <2>1, TransferStepStory, RelayStepStory, CrashStory DEF Next
<1> QED
  BY <1>1, StoryInitially, TypeCorrect, ChainInvariant, ChargeInvariant, DeliveryInvariant,
     PTL DEF Spec

\* No dual write: in every committed state intents, outbox and audit chain
\* tell the same story, in one order.
THEOREM LedgersAlwaysAgree == Spec => []LedgersAgree
<1>1. StoryInv => LedgersAgree
  BY DEF StoryInv, Agree, EventsAgree, IntentsAgree, RowAt, LedgersAgree
<1> QED BY <1>1, StoryInvariant, PTL

\* A caller is told only what is in the database: its key's intent, in its
\* present status or in AUTHORIZING.
THEOREM AnswersHonestHolds == Spec => []AnswersHonest
<1>1. StoryInv => AnswersHonest
  BY DEF StoryInv
<1> QED BY <1>1, StoryInvariant, PTL

----------------------------------------------------------------------------
(* The refinement.                                                         *)

Log == [i \in DOMAIN db.audit |-> <<db.audit[i].tx, db.audit[i].action>>]

\* The two commits that append to the log.
LEMMA CommitAppends ==
    ASSUME TypeOK, ChainInv, ChargeInv, StoryInv, NEW t \in Transfer,
           CommitIntent(t) \/ CommitResult(t)
    PROVE  Log' = Append(Log, <<t, ActionOf(t)>>)
<1>1. pc[t] = "commit" /\ db' = work
  BY DEF CommitIntent, CommitResult
<1>2. OneMoreRecord(db, db', t, ActionOf(t))
  BY <1>1, CommitTells
<1>3. db \in Database /\ db' \in Database
  BY <1>1 DEF TypeOK
<1> DEFINE n == Len(db.audit)
           S == Transfer \X Action
<1>4. /\ n \in Nat /\ DOMAIN db.audit = 1 .. n /\ DOMAIN db'.audit = 1 .. n + 1
      /\ \A i \in 1 .. n : db'.audit[i] = db.audit[i]
      /\ db'.audit[n + 1].tx = t /\ db'.audit[n + 1].action = ActionOf(t)
  BY <1>2, <1>3, AuditType DEF OneMoreRecord
<1>5. ActionOf(t) \in Action
  BY DEF ActionOf, Outcome, Action, Settlement
<1>6. Log \in Seq(S) /\ Len(Log) = n
  <2>1. DOMAIN Log = 1 .. n
    BY <1>4 DEF Log
  <2>2. Log \in [1 .. n -> S]
    BY <1>3, <1>4, AuditType DEF Log
  <2> HIDE DEF n, S
  <2>3. Log \in Seq(S)
    BY <1>4, <2>2, SeqDef
  <2>4. Len(Log) = n
    BY <1>4, <2>1, <2>3, SameLength
  <2> QED BY <2>3, <2>4
<1>7. /\ Append(Log, <<t, ActionOf(t)>>) \in Seq(S)
      /\ Len(Append(Log, <<t, ActionOf(t)>>)) = n + 1
      /\ \A i \in 1 .. n : Append(Log, <<t, ActionOf(t)>>)[i] = Log[i]
      /\ Append(Log, <<t, ActionOf(t)>>)[n + 1] = <<t, ActionOf(t)>>
  BY <1>5, <1>6, AppendProperties
<1>8. Append(Log, <<t, ActionOf(t)>>)
      = [i \in 1 .. n + 1 |-> Append(Log, <<t, ActionOf(t)>>)[i]]
  BY <1>7, LenProperties
<1>9. Log' = [i \in 1 .. n + 1 |-> <<db'.audit[i].tx, db'.audit[i].action>>]
  BY <1>4 DEF Log
<1>10. ASSUME NEW i \in 1 .. n + 1
       PROVE  Append(Log, <<t, ActionOf(t)>>)[i] = <<db'.audit[i].tx, db'.audit[i].action>>
  <2>1. CASE i \in 1 .. n
    <3>1. Append(Log, <<t, ActionOf(t)>>)[i] = Log[i]
      BY <1>7, <2>1
    <3>2. Log[i] = <<db.audit[i].tx, db.audit[i].action>>
      BY <1>4, <2>1 DEF Log
    <3>3. db'.audit[i] = db.audit[i]
      BY <1>4, <2>1
    <3> QED BY <3>1, <3>2, <3>3
  <2>2. CASE i = n + 1
    <3>1. Append(Log, <<t, ActionOf(t)>>)[i] = <<t, ActionOf(t)>>
      BY <1>7, <2>2
    <3>2. db'.audit[i].tx = t /\ db'.audit[i].action = ActionOf(t)
      BY <1>4, <2>2
    <3> QED BY <3>1, <3>2
  <2>3. i \in 1 .. n \/ i = n + 1
    BY <1>4
  <2> QED BY <2>1, <2>2, <2>3
<1> QED BY <1>8, <1>9, <1>10

LEMMA LogStays ==
    ASSUME TypeOK, ChainInv, StoryInv, [Next]_vars,
           \A t \in Transfer : ~CommitIntent(t) /\ ~CommitResult(t)
    PROVE  Log' = Log
<1>1. CASE UNCHANGED vars \/ Crash
  BY <1>1 DEF Crash, Log
<1>2. ASSUME NEW t \in Transfer, TransferStep(t) PROVE Log' = Log
  <2>1. CASE Passive(t)
    BY <2>1, PassiveStep DEF Log
  <2>2. CASE ~Passive(t)
    BY <1>2, <2>2 DEF TransferStep, Passive, WriteIntent, RejectDuplicate, WriteResult,
                      AppendOutbox, ReadHead, AppendAudit, Rollback, Log
  <2> QED BY <2>1, <2>2
<1>3. CASE RelayStep
  <2>1. CASE RelayCommit
    <3>1. db' = work /\ writer = Relay
      BY <2>1 DEF RelayCommit, ChainInv, LockHeld
    <3>2. db'.audit = db.audit
      BY <3>1 DEF StoryInv, RelayTellsNothing
    <3> QED BY <3>2 DEF Log
  <2>2. CASE ~RelayCommit
    <3>1. db' = db
      BY <1>3, <2>2 DEF RelayStep, RelaySelect, RelayFetch, RelayPublish, RelayMark,
                        RelayMarkFails, RelayCommitWaits, RelayCommitTimesOut
    <3> QED BY <3>1 DEF Log
  <2> QED BY <2>1, <2>2
<1> QED BY <1>1, <1>2, <1>3 DEF Next

\* The core with its tables, locks, timeouts and crashes implements the
\* atomic log: its committed audit chain grows by whole transitions, a key is
\* created once, and what was created is settled at most once.
THEOREM LedgerImplementsAtomicLedger == Spec => ImplementsAtomicLedger
<1>1. Init => Atomic!Init
  <2>1. EmptyDatabase.audit = <<>>
    BY DEF EmptyDatabase
  <2> QED BY <2>1 DEF Init, Atomic!Init
<1>2. ASSUME TypeOK, ChainInv, ChargeInv, StoryInv, NEW t \in Transfer, CommitIntent(t)
      PROVE  Atomic!Create(t)
  <2>1. pc[t] = "commit" /\ stage[t] = 1
    BY <1>2 DEF CommitIntent
  <2>2. ActionOf(t) = "INTENT_CREATED" /\ ~KeyTaken(db, keyOf[t])
    BY <1>2, <2>1, CommitTells DEF ActionOf
  <2>3. Log' = Append(Log, <<t, "INTENT_CREATED">>)
    BY <1>2, <2>2, CommitAppends
  <2>4. ASSUME NEW u \in Transfer, Atomic!Created(u) PROVE keyOf[u] # keyOf[t]
    <3>1. PICK i \in DOMAIN db.audit : db.audit[i].tx = u
      BY <2>4 DEF Atomic!Created
    <3>2. HasIntent(db, u)
      BY <1>2, <3>1 DEF StoryInv, Agree, RecordsAgree
    <3> QED BY <1>2, <2>2, <3>2 DEF HasIntent, KeyTaken, ChargeInv, KeysUnique
  <2> QED BY <2>3, <2>4 DEF Atomic!Create, Log
<1>3. ASSUME TypeOK, ChainInv, ChargeInv, StoryInv, NEW t \in Transfer, CommitResult(t)
      PROVE  Atomic!Settle(t)
  <2>1. pc[t] = "commit" /\ stage[t] = 2
    BY <1>3 DEF CommitResult
  <2>2. ActionOf(t) = Outcome(t) /\ Open(db, t)
    BY <1>3, <2>1, CommitTells DEF ActionOf
  <2>3. Log' = Append(Log, <<t, Outcome(t)>>) /\ Outcome(t) \in {"AUTH_APPROVED", "AUTH_FAILED"}
    BY <1>3, <2>2, CommitAppends DEF Outcome
  <2>4. HasIntent(db, t)
    BY <2>2 DEF Open, HasIntent
  <2>5. PICK i \in DOMAIN db.audit : db.audit[i].tx = t /\ db.audit[i].action = "INTENT_CREATED"
    BY <1>3, <2>4 DEF StoryInv, Agree, RecordsAgree
  <2>6. Atomic!Created(t)
    BY <2>5 DEF Atomic!Created
  <2>7. ~Atomic!Settled(t)
    BY <1>3, <2>2 DEF Atomic!Settled, StoryInv, Agree, RecordsAgree
  <2> QED BY <2>3, <2>6, <2>7 DEF Atomic!Settle, Log
<1>4. TypeOK /\ ChainInv /\ ChargeInv /\ StoryInv /\ [Next]_vars => [Atomic!Next]_Log
  BY <1>2, <1>3, LogStays DEF Atomic!Next
<1> QED
  BY <1>1, <1>4, TypeCorrect, ChainInvariant, ChargeInvariant, StoryInvariant, PTL
     DEF Spec, ImplementsAtomicLedger, Atomic!Spec, Log
=============================================================================
