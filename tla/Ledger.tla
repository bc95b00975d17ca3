------------------------------- MODULE Ledger -------------------------------
(***************************************************************************)
(* The transactional core of one gateway process: TransactionManager       *)
(* (core/transaction.py), the audit chain (security/audit_chain.py), the   *)
(* outbox relay (core/relay.py) and the SQLite file they share             *)
(* (core/database.py).  Every request has a connection of its own, and the *)
(* relay has one; SQLite runs in its default rollback-journal mode, with   *)
(* deferred BEGIN and a busy timeout of five seconds.                      *)
(*                                                                         *)
(* SQLite's locks are modelled as they are: readers hold SHARED while a    *)
(* statement is open, one writer holds RESERVED and works on its own copy, *)
(* COMMIT needs all other readers gone and keeps new ones out while it     *)
(* waits (PENDING).  Every await is a step; the process may crash between  *)
(* any two.                                                                *)
(***************************************************************************)
EXTENDS Integers, Sequences, FiniteSets

CONSTANTS
    Transfer,      \* calls of authorize_transfer, each with its fresh uuid4
    Key,           \* idempotency keys
    keyOf,         \* [Transfer -> Key]
    Relay,         \* the relay's connection
    Nobody,        \* no connection, no transfer
    BatchLimit,    \* LIMIT of the relay's SELECT
    BankAnswers,   \* what the bank may say; the emulation says TRUE
    BusyAt,        \* where the busy timeout may run out while a lock conflict lasts
    MaxCrashes     \* bound: crashes of the process

ASSUME ConstantsAssumption ==
    /\ keyOf \in [Transfer -> Key]
    /\ Relay \notin Transfer
    /\ Nobody \notin Transfer \cup {Relay}
    /\ BatchLimit \in Nat \ {0}
    /\ BankAnswers \subseteq BOOLEAN
    /\ BusyAt \subseteq {"read", "write", "commit"}
    /\ MaxCrashes \in Nat

Conn == Transfer \cup {Relay}

VARIABLES
    db,        \* the committed database
    work,      \* the writer's uncommitted copy of it
    writer,    \* the connection that holds RESERVED, or Nobody
    shared,    \* the connections that hold SHARED for an open statement
    pending,   \* the writer waits for EXCLUSIVE: no new readers
    pc,        \* where each transfer is
    stage,     \* which of its two transactions a transfer is in
    prev,      \* the last hash a transfer read from the audit ledger
    approved,  \* bank_approved
    answer,    \* what authorize_transfer returned
    rpc,       \* where the relay is
    batch,     \* the relay's `events`, as positions in the outbox
    inTx,      \* the relay's connection has an open transaction
    charged,   \* history: transfers the bank was asked to authorise
    delivered, \* history: outbox positions published at least once
    crashes

files  == <<db, work, writer, pending>>
locals == <<stage, prev, approved, answer>>
relay  == <<rpc, batch, inTx>>
ghosts == <<charged, delivered, crashes>>
vars   == <<files, shared, pc, locals, relay, ghosts>>

----------------------------------------------------------------------------
(* Tables.                                                                 *)

Status     == {"AUTHORIZING", "AUTHORIZED", "FAILED"}
Settlement == {"AUTH_APPROVED", "AUTH_FAILED"}
EventType  == {"AUTH_STARTED"} \cup Settlement
Action     == {"INTENT_CREATED"} \cup Settlement

\* SHA-256 as a free term: a hash is the list of what was hashed into it.
Digest  == Seq(Transfer \X Action)
Genesis == <<>>
Hash(p, tx, action) == Append(p, <<tx, action>>)

IntentRow == [key : Key, id : Transfer, status : Status]
OutboxRow == [agg : Transfer, type : EventType, status : {"PENDING", "PUBLISHED"}]
AuditRow  == [tx : Transfer, action : Action, prev : Digest, hash : Digest]
Database  == [intents : SUBSET IntentRow, outbox : Seq(OutboxRow), audit : Seq(AuditRow)]

EmptyDatabase == [intents |-> {}, outbox |-> <<>>, audit |-> <<>>]

Answer   == [id : Transfer \cup {Nobody}, status : Status \cup {"NONE", "RAISED"}]
NoAnswer == [id |-> Nobody, status |-> "NONE"]
Raised   == [id |-> Nobody, status |-> "RAISED"]

\* What connection c sees: its own uncommitted work, or the committed data.
View(c) == IF writer = c THEN work ELSE db

\* SELECT current_hash ... ORDER BY seq_id DESC LIMIT 1, or the genesis hash.
LastHash(d) == IF d.audit = <<>> THEN Genesis ELSE d.audit[Len(d.audit)].hash

WithIntent(d, row) == [d EXCEPT !.intents = @ \cup {row}]

WithStatus(d, t, s) ==
    [d EXCEPT !.intents =
        {IF row.id = t THEN [row EXCEPT !.status = s] ELSE row : row \in @}]

WithEvent(d, t, type) ==
    [d EXCEPT !.outbox = Append(@, [agg |-> t, type |-> type, status |-> "PENDING"])]

WithRecord(d, t, action, p) ==
    [d EXCEPT !.audit =
        Append(@, [tx |-> t, action |-> action, prev |-> p, hash |-> Hash(p, t, action)])]

WithPublished(d, i) == [d EXCEPT !.outbox[i].status = "PUBLISHED"]

\* (mutant) idempotency_key is not UNIQUE
KeyTaken_Never(d, k) == FALSE

KeyTaken(d, k) == \E row \in d.intents : row.key = k

----------------------------------------------------------------------------

Phase == {"enforce", "enforce_fetch", "write", "outbox", "head", "audit", "commit",
          "rollback", "lookup", "lookup_fetch", "bank", "done"}

RelayPhase == {"select", "fetch", "publish", "mark", "commit"}

TypeOK ==
    /\ db \in Database
    /\ work \in Database
    /\ writer \in Conn \cup {Nobody}
    /\ shared \in SUBSET Conn
    /\ pending \in BOOLEAN
    /\ pc \in [Transfer -> Phase]
    /\ stage \in [Transfer -> {1, 2}]
    /\ prev \in [Transfer -> Digest]
    /\ approved \in [Transfer -> BOOLEAN]
    /\ answer \in [Transfer -> Answer]
    /\ rpc \in RelayPhase
    /\ batch \in SUBSET Nat
    /\ inTx \in BOOLEAN
    /\ charged \in SUBSET Transfer
    /\ delivered \in SUBSET Nat
    /\ crashes \in Nat

Init ==
    /\ db = EmptyDatabase
    /\ work = EmptyDatabase
    /\ writer = Nobody
    /\ shared = {}
    /\ pending = FALSE
    /\ pc = [t \in Transfer |-> "enforce"]
    /\ stage = [t \in Transfer |-> 1]
    /\ prev = [t \in Transfer |-> Genesis]
    /\ approved = [t \in Transfer |-> FALSE]
    /\ answer = [t \in Transfer |-> NoAnswer]
    /\ rpc = "select"
    /\ batch = {}
    /\ inTx = FALSE
    /\ charged = {}
    /\ delivered = {}
    /\ crashes = 0

----------------------------------------------------------------------------
(* SQLite.                                                                 *)

Goto(t, p) == pc' = [pc EXCEPT ![t] = p]

\* A statement can take SHARED, or its connection has it already.
CanRead(c) == pending => c \in shared \cup {writer}

\* COMMIT gets EXCLUSIVE once no other connection reads.
CanCommit(c) == shared \subseteq {c}

\* The connection writes: it holds RESERVED from now on.
Write(c, d) == writer' = c /\ work' = d /\ UNCHANGED <<db, pending>>

\* COMMIT makes the work of the writer the database and lets go of its locks.
Install == db' = work /\ writer' = Nobody /\ pending' = FALSE /\ UNCHANGED work

\* The uncommitted work is dropped with the locks.
Discard == work' = db /\ writer' = Nobody /\ pending' = FALSE /\ UNCHANGED db

\* COMMIT waits with PENDING; the connection's transaction stays open.
WaitForReaders == pending' = TRUE /\ UNCHANGED <<db, work, writer>>

----------------------------------------------------------------------------
(* handle_transfer's reading of the beneficiary, on the same connection.   *)

SelectBeneficiary(t) ==
    /\ pc[t] = "enforce"
    /\ CanRead(t)
    /\ shared' = shared \cup {t}
    /\ Goto(t, "enforce_fetch")
    /\ UNCHANGED <<files, locals, relay, ghosts>>

\* The enforcer and the Rust core let the transfer pass, or it ends here.
FetchBeneficiary(t) ==
    /\ pc[t] = "enforce_fetch"
    /\ shared' = shared \ {t}
    /\ \E p \in {"write", "done"} : Goto(t, p)
    /\ UNCHANGED <<files, locals, relay, ghosts>>

----------------------------------------------------------------------------
(* authorize_transfer.  The first statement of each transaction writes, so *)
(* it takes RESERVED before anything is read.                              *)

\* BEGIN; INSERT INTO payment_intents, status AUTHORIZING.
WriteIntent(t) ==
    /\ pc[t] = "write" /\ stage[t] = 1
    /\ writer = Nobody
    /\ ~KeyTaken(db, keyOf[t])
    /\ Write(t, WithIntent(db, [key |-> keyOf[t], id |-> t, status |-> "AUTHORIZING"]))
    /\ Goto(t, "outbox")
    /\ UNCHANGED <<shared, locals, relay, ghosts>>

\* (mutant) INSERT OR REPLACE
RejectDuplicate_Replaces(t) ==
    /\ pc[t] = "write" /\ stage[t] = 1
    /\ writer = Nobody
    /\ KeyTaken(db, keyOf[t])
    /\ Write(t, [db EXCEPT !.intents =
                    {row \in @ : row.key # keyOf[t]} \cup
                    {[key |-> keyOf[t], id |-> t, status |-> "AUTHORIZING"]}])
    /\ Goto(t, "outbox")
    /\ UNCHANGED <<shared, locals, relay, ghosts>>

\* The same INSERT against the UNIQUE idempotency_key of an earlier intent.
RejectDuplicate(t) ==
    /\ pc[t] = "write" /\ stage[t] = 1
    /\ writer = Nobody
    /\ KeyTaken(db, keyOf[t])
    /\ Write(t, db)
    /\ Goto(t, "rollback")
    /\ UNCHANGED <<shared, locals, relay, ghosts>>

\* (mutant) the event's name is stored as the status
NewStatus_Event(t) == IF approved[t] THEN "AUTH_APPROVED" ELSE "AUTH_FAILED"

NewStatus(t) == IF approved[t] THEN "AUTHORIZED" ELSE "FAILED"

\* BEGIN; UPDATE payment_intents SET status.
WriteResult(t) ==
    /\ pc[t] = "write" /\ stage[t] = 2
    /\ writer = Nobody
    /\ Write(t, WithStatus(db, t, NewStatus(t)))
    /\ Goto(t, "outbox")
    /\ UNCHANGED <<shared, locals, relay, ghosts>>

Outcome(t) == IF approved[t] THEN "AUTH_APPROVED" ELSE "AUTH_FAILED"

\* (mutant) the event is inserted outside the transaction
AppendOutbox_Autocommit(t) ==
    LET type == IF stage[t] = 1 THEN "AUTH_STARTED" ELSE Outcome(t)
    IN  /\ pc[t] = "outbox"
        /\ db' = WithEvent(db, t, type)
        /\ work' = WithEvent(work, t, type)
        /\ Goto(t, "head")
        /\ UNCHANGED <<writer, pending, shared, locals, relay, ghosts>>

\* _append_outbox.
AppendOutbox(t) ==
    /\ pc[t] = "outbox"
    /\ Write(t, WithEvent(work, t, IF stage[t] = 1 THEN "AUTH_STARTED" ELSE Outcome(t)))
    /\ Goto(t, "head")
    /\ UNCHANGED <<shared, locals, relay, ghosts>>

\* (mutant) the hash of the transfer's own first record is kept and reused
ReadHead_Kept(t) ==
    /\ pc[t] = "head"
    /\ prev' = [prev EXCEPT ![t] =
                    IF stage[t] = 1 THEN LastHash(View(t))
                    ELSE (CHOOSE r \in {db.audit[i] : i \in DOMAIN db.audit} : r.tx = t).hash]
    /\ Goto(t, "audit")
    /\ UNCHANGED <<files, shared, stage, approved, answer, relay, ghosts>>

\* append_record reads the head of the chain ...
ReadHead(t) ==
    /\ pc[t] = "head"
    /\ prev' = [prev EXCEPT ![t] = LastHash(View(t))]
    /\ Goto(t, "audit")
    /\ UNCHANGED <<files, shared, stage, approved, answer, relay, ghosts>>

\* ... and links the new record to it.
AppendAudit(t) ==
    /\ pc[t] = "audit"
    /\ Write(t, WithRecord(work, t,
                    IF stage[t] = 1 THEN "INTENT_CREATED" ELSE Outcome(t), prev[t]))
    /\ prev' = [prev EXCEPT ![t] = Genesis]
    /\ Goto(t, "commit")
    /\ UNCHANGED <<shared, stage, approved, answer, relay, ghosts>>

CommitIntent(t) ==
    /\ pc[t] = "commit" /\ stage[t] = 1
    /\ CanCommit(t)
    /\ Install
    /\ Goto(t, "bank")
    /\ UNCHANGED <<shared, locals, relay, ghosts>>

\* Between the transactions the bank is asked.
AskBank(t) ==
    /\ pc[t] = "bank"
    /\ charged' = charged \cup {t}
    /\ \E yes \in BankAnswers : approved' = [approved EXCEPT ![t] = yes]
    /\ stage' = [stage EXCEPT ![t] = 2]
    /\ Goto(t, "write")
    /\ UNCHANGED <<files, shared, prev, answer, relay, delivered, crashes>>

Return(t, result) ==
    /\ answer' = [answer EXCEPT ![t] = result]
    /\ Goto(t, "done")

CommitResult(t) ==
    /\ pc[t] = "commit" /\ stage[t] = 2
    /\ CanCommit(t)
    /\ Install
    /\ Return(t, [id |-> t, status |-> NewStatus(t)])
    /\ UNCHANGED <<shared, stage, prev, approved, relay, ghosts>>

CommitWaits(t) ==
    /\ pc[t] = "commit"
    /\ ~CanCommit(t)
    /\ ~pending
    /\ WaitForReaders
    /\ UNCHANGED <<shared, pc, locals, relay, ghosts>>

----------------------------------------------------------------------------
(* The `except` branches.                                                  *)

\* (mutant) no timeout
WriteTimesOut_Never(t) == FALSE

\* "database is locked": five seconds went by while another one wrote.
WriteTimesOut(t) ==
    /\ pc[t] = "write"
    /\ "write" \in BusyAt
    /\ writer # Nobody
    /\ Goto(t, "rollback")
    /\ UNCHANGED <<files, shared, locals, relay, ghosts>>

\* ... or while a reader kept COMMIT waiting.
CommitTimesOut(t) ==
    /\ pc[t] = "commit"
    /\ "commit" \in BusyAt
    /\ ~CanCommit(t)
    /\ WaitForReaders
    /\ Goto(t, "rollback")
    /\ UNCHANGED <<shared, locals, relay, ghosts>>

\* (mutant) the second `except` does not raise
Rollback_Swallows(t) ==
    /\ pc[t] = "rollback"
    /\ IF writer = t THEN Discard ELSE UNCHANGED files
    /\ \/ stage[t] = 1 /\ Goto(t, "lookup") /\ UNCHANGED answer
       \/ stage[t] = 2 /\ Return(t, [id |-> t, status |-> NewStatus(t)])
    /\ UNCHANGED <<shared, stage, prev, approved, relay, ghosts>>

\* ROLLBACK, then in the first transaction a look for the earlier intent.
Rollback(t) ==
    /\ pc[t] = "rollback"
    /\ IF writer = t THEN Discard ELSE UNCHANGED files
    /\ \/ stage[t] = 1 /\ Goto(t, "lookup") /\ UNCHANGED answer
       \/ stage[t] = 2 /\ Return(t, Raised)
    /\ UNCHANGED <<shared, stage, prev, approved, relay, ghosts>>

SelectExisting(t) ==
    /\ pc[t] = "lookup"
    /\ CanRead(t)
    /\ KeyTaken(db, keyOf[t])
    /\ shared' = shared \cup {t}
    /\ Goto(t, "lookup_fetch")
    /\ UNCHANGED <<files, locals, relay, ghosts>>

\* No such intent: the exception is raised again.
NothingExisting(t) ==
    /\ pc[t] = "lookup"
    /\ CanRead(t)
    /\ ~KeyTaken(db, keyOf[t])
    /\ Return(t, Raised)
    /\ UNCHANGED <<files, shared, stage, prev, approved, relay, ghosts>>

\* return dict(existing).
FetchExisting(t) ==
    /\ pc[t] = "lookup_fetch"
    /\ shared' = shared \ {t}
    /\ \E row \in db.intents :
          /\ row.key = keyOf[t]
          /\ Return(t, [id |-> row.id, status |-> row.status])
    /\ UNCHANGED <<files, stage, prev, approved, relay, ghosts>>

\* A SELECT outside a transaction meets a COMMIT that waits too long.
ReadTimesOut(t) ==
    /\ pc[t] \in {"enforce", "lookup"}
    /\ "read" \in BusyAt
    /\ ~CanRead(t)
    /\ Return(t, Raised)
    /\ UNCHANGED <<files, shared, stage, prev, approved, relay, ghosts>>

----------------------------------------------------------------------------
(* outbox_relay_worker.                                                    *)

PendingEvents(d) == {i \in DOMAIN d.outbox : d.outbox[i].status = "PENDING"}

\* The rows SELECT ... WHERE status = 'PENDING' LIMIT 10 returns: SQLite
\* scans the table in the order of insertion.
Selected(d) ==
    {i \in PendingEvents(d) :
        Cardinality({j \in PendingEvents(d) : j <= i}) <= BatchLimit}

\* The event the loop is at: the first one left.
Current(i) == i \in batch /\ \A j \in batch : i <= j

RelaySelect ==
    /\ rpc = "select"
    /\ CanRead(Relay)
    /\ inTx \/ PendingEvents(View(Relay)) # {}
    /\ shared' = shared \cup {Relay}
    /\ rpc' = "fetch"
    /\ UNCHANGED <<files, pc, locals, batch, inTx, ghosts>>

\* fetchall; inside an open transaction SHARED is kept.
RelayFetch ==
    /\ rpc = "fetch"
    /\ batch' = Selected(View(Relay))
    /\ shared' = IF inTx THEN shared ELSE shared \ {Relay}
    /\ rpc' = IF batch' = {} THEN "select" ELSE "publish"
    /\ UNCHANGED <<files, pc, locals, inTx, ghosts>>

RelayPublish(i) ==
    /\ rpc = "publish"
    /\ Current(i)
    /\ delivered' = delivered \cup {i}
    /\ rpc' = "mark"
    /\ UNCHANGED <<files, shared, pc, locals, batch, inTx, charged, crashes>>

\* (mutant) UPDATE without WHERE id = ?
RelayMark_All(k) ==
    /\ rpc = "mark"
    /\ Current(k)
    /\ writer \in {Nobody, Relay}
    /\ Write(Relay, [View(Relay) EXCEPT !.outbox =
                        [i \in DOMAIN @ |-> [@[i] EXCEPT !.status = "PUBLISHED"]]])
    /\ inTx' = TRUE
    /\ batch' = batch \ {k}
    /\ rpc' = IF batch' = {} THEN "commit" ELSE "publish"
    /\ UNCHANGED <<shared, pc, locals, ghosts>>

\* UPDATE ... SET status = 'PUBLISHED', in a transaction opened implicitly.
RelayMark(k) ==
    /\ rpc = "mark"
    /\ Current(k)
    /\ writer \in {Nobody, Relay}
    /\ Write(Relay, WithPublished(View(Relay), k))
    /\ inTx' = TRUE
    /\ batch' = batch \ {k}
    /\ rpc' = IF batch' = {} THEN "commit" ELSE "publish"
    /\ UNCHANGED <<shared, pc, locals, ghosts>>

\* (mutant) `try` around the loop: the first error ends the worker
RelayMarkFails_Ends ==
    /\ rpc = "mark"
    /\ writer \notin {Nobody, Relay}
    /\ Relay \in shared \/ "write" \in BusyAt
    /\ inTx' = TRUE
    /\ batch' = {}
    /\ rpc' = "ended"
    /\ UNCHANGED <<files, shared, pc, locals, ghosts>>

\* The UPDATE fails: after the timeout, or at once when the connection
\* holds SHARED already.  BEGIN was executed; the transaction stays open.
RelayMarkFails ==
    /\ rpc = "mark"
    /\ writer \notin {Nobody, Relay}
    /\ Relay \in shared \/ "write" \in BusyAt
    /\ inTx' = TRUE
    /\ batch' = {}
    /\ rpc' = "select"
    /\ UNCHANGED <<files, shared, pc, locals, ghosts>>

RelayCommit ==
    /\ rpc = "commit"
    /\ CanCommit(Relay)
    /\ Install
    /\ shared' = shared \ {Relay}
    /\ inTx' = FALSE
    /\ rpc' = "select"
    /\ UNCHANGED <<pc, locals, batch, ghosts>>

RelayCommitWaits ==
    /\ rpc = "commit"
    /\ ~CanCommit(Relay)
    /\ ~pending
    /\ WaitForReaders
    /\ UNCHANGED <<shared, pc, locals, relay, ghosts>>

\* COMMIT fails; nothing rolls back, the loop goes on with the locks.
RelayCommitTimesOut ==
    /\ rpc = "commit"
    /\ "commit" \in BusyAt
    /\ ~CanCommit(Relay)
    /\ WaitForReaders
    /\ rpc' = "select"
    /\ UNCHANGED <<shared, pc, locals, batch, inTx, ghosts>>

----------------------------------------------------------------------------

\* The process dies and is started again: requests in flight are gone, the
\* relay starts over, SQLite rolls back what was not committed.
Crash ==
    /\ crashes < MaxCrashes
    /\ crashes' = crashes + 1
    /\ Discard
    /\ shared' = {}
    /\ pc' = [t \in Transfer |-> IF pc[t] = "enforce" THEN "enforce" ELSE "done"]
    /\ prev' = [t \in Transfer |-> Genesis]
    /\ rpc' = "select" /\ batch' = {} /\ inTx' = FALSE
    /\ UNCHANGED <<stage, approved, answer, charged, delivered>>

TransferStep(t) ==
    \/ SelectBeneficiary(t) \/ FetchBeneficiary(t)
    \/ WriteIntent(t) \/ RejectDuplicate(t) \/ WriteResult(t)
    \/ AppendOutbox(t) \/ ReadHead(t) \/ AppendAudit(t)
    \/ CommitIntent(t) \/ AskBank(t) \/ CommitResult(t) \/ CommitWaits(t)
    \/ WriteTimesOut(t) \/ CommitTimesOut(t) \/ Rollback(t)
    \/ SelectExisting(t) \/ NothingExisting(t) \/ FetchExisting(t) \/ ReadTimesOut(t)

RelayStep ==
    \/ RelaySelect \/ RelayFetch
    \/ \E k \in batch : RelayPublish(k) \/ RelayMark(k)
    \/ RelayMarkFails
    \/ RelayCommit \/ RelayCommitWaits \/ RelayCommitTimesOut

Next == (\E t \in Transfer : TransferStep(t)) \/ RelayStep \/ Crash

Spec == Init /\ [][Next]_vars

\* Coroutines that can run do run, and a busy timeout ends in time.
FairSpec ==
    /\ Spec
    /\ \A t \in Transfer : WF_vars(TransferStep(t))
    /\ WF_vars(RelayStep)

----------------------------------------------------------------------------
(* Properties.                                                             *)

\* verify_chain.py succeeds: it reads the committed records in the order of
\* seq_id, with one SELECT.
ChainOK(d) ==
    \A i \in DOMAIN d.audit :
        /\ d.audit[i].prev = IF i = 1 THEN Genesis ELSE d.audit[i - 1].hash
        /\ d.audit[i].hash = Hash(d.audit[i].prev, d.audit[i].tx, d.audit[i].action)

\* At any moment, and after any crash, verify_chain.py finds the audit chain
\* whole, however many transfers append to it.
ChainVerifies == ChainOK(db)

\* The outbox's name for an action of the audit chain.
EventFor(action) == IF action = "INTENT_CREATED" THEN "AUTH_STARTED" ELSE action

StatusFor(action) ==
    CASE action = "INTENT_CREATED" -> "AUTHORIZING"
      [] action = "AUTH_APPROVED"  -> "AUTHORIZED"
      [] action = "AUTH_FAILED"    -> "FAILED"

\* The last record of transfer t.
IsLatest(d, i) == \A j \in DOMAIN d.audit : d.audit[j].tx = d.audit[i].tx => j <= i

\* No dual write: intents, outbox and audit chain tell the same story.  The
\* outbox has the events of the chain in the chain's order, and every
\* intent has the status its last record says, and no other intents exist.
LedgersAgree ==
    /\ Len(db.outbox) = Len(db.audit)
    /\ \A i \in DOMAIN db.audit :
          /\ db.outbox[i].agg = db.audit[i].tx
          /\ db.outbox[i].type = EventFor(db.audit[i].action)
    /\ db.intents =
          {[key |-> keyOf[db.audit[i].tx], id |-> db.audit[i].tx,
            status |-> StatusFor(db.audit[i].action)] :
           i \in {j \in DOMAIN db.audit : IsLatest(db, j)}}

\* The bank is asked at most once for a key, and only for an intent that
\* is in the database, whatever is retried and whenever the process dies.
ChargedOnce ==
    /\ \A t, u \in charged : keyOf[t] = keyOf[u] => t = u
    /\ \A t \in charged : \E row \in db.intents : row.id = t /\ row.key = keyOf[t]

\* A caller is told only what is in the database: its key's intent, in its
\* present status or in AUTHORIZING.
AnswersHonest ==
    \A t \in Transfer : answer[t].id # Nobody =>
        \E row \in db.intents :
            /\ row.key = keyOf[t]
            /\ row.id = answer[t].id
            /\ answer[t].status \in {row.status, "AUTHORIZING"}

\* Downstream gets only committed events, gets them first in the order they
\* were committed, and no event is marked PUBLISHED before it was sent.
DeliveryInOrder ==
    /\ delivered \subseteq DOMAIN db.outbox
    /\ \A i \in delivered : 1 .. i \subseteq delivered
    /\ DOMAIN db.outbox \ PendingEvents(db) \subseteq delivered

\* The core implements the atomic log: its log is the audit chain.
Atomic == INSTANCE AtomicLedger
              WITH log <- [i \in DOMAIN db.audit |-> <<db.audit[i].tx, db.audit[i].action>>]

ImplementsAtomicLedger == Atomic!Spec

\* Every committed event is published in the end.
EventsDelivered ==
    \A i \in 1 .. 2 * Cardinality(Transfer) :
        i \in DOMAIN db.outbox ~> i \in delivered

\* Every call of authorize_transfer ends: no lock is waited for for ever.
TransfersEnd == \A t \in Transfer : pc[t] # "enforce" ~> pc[t] = "done"

\* A caller who is told AUTHORIZING sees the intent settled in the end.
AuthorizingSettles ==
    \A t \in Transfer :
        answer[t].status = "AUTHORIZING" ~>
            \E row \in db.intents : row.id = answer[t].id /\ row.status # "AUTHORIZING"

\* The relay does not keep the write lock.
RelayLetsGo == writer = Relay ~> writer # Relay
=============================================================================
