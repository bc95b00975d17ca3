---------------------------- MODULE AuditPipeline ----------------------------
(***************************************************************************)
(* The forensic audit path of one gateway: ForensicAuditStage, flush_batch,*)
(* periodic_flush and retry_worker (core/app/stages.py), the head of the   *)
(* chain in MerkleManager (core/crypto_audit.py), the write-ahead file and *)
(* the SIEM witness that stores the roots (siem_service.py).               *)
(*                                                                         *)
(* A step is what the event loop runs between two awaits.  AUDIT_LOCK is   *)
(* never held over an await, and /ingest has none, so each is one step.  A *)
(* request may be lost, its answer may be lost or late, and a request the  *)
(* gateway gave up on may still be handled.                                *)
(***************************************************************************)
EXTENDS Integers, Sequences, FiniteSets

CONSTANTS
    Event,           \* audit events, up to their SHA-256; each has its own tx_id
    FlushThreshold,  \* FLUSH_THRESHOLD
    MaxBufferSize,   \* MAX_BUFFER_SIZE
    MaxFailures,     \* bound: posts that fail, answers of 500
    MaxRestarts      \* bound: restarts of the gateway

ASSUME ConstantsAssumption ==
    /\ FlushThreshold \in Nat \ {0}
    /\ MaxBufferSize \in Nat
    /\ MaxFailures \in Nat
    /\ MaxRestarts \in Nat

VARIABLES
    audited,   \* history: the events ForensicAuditStage was given
    buffer,    \* AUDIT_BUFFER
    created,   \* batches of flush_batch tasks that have not run yet
    posting,   \* payloads of flush_batch tasks that await client.post
    prevRoot,  \* merkle_manager.prev_root
    wal,       \* the lines of WAL_FILE
    lines,     \* retry_worker: its lines from the one it is posting on
    remaining, \* retry_worker: `remaining`
    unread,    \* history: what was appended to the file since retry_worker read it
    wire,      \* requests the SIEM has not handled
    answers,   \* answers of the SIEM on their way to who awaits them
    siem,      \* the rows of the SIEM's audit_chain
    refused,     \* history: events whose 409 or 500 the gateway took for success
    overwritten, \* history: events in lines retry_worker wrote over unread
    forgotten,   \* history: events that were in memory when the gateway restarted
    failures,
    restarts

gateway == <<audited, buffer, created, posting, prevRoot>>
worker  == <<lines, remaining, unread>>
network == <<wire, answers>>
losses  == <<refused, overwritten, forgotten>>
bounds  == <<failures, restarts>>
vars    == <<gateway, wal, worker, network, siem, losses, bounds>>

----------------------------------------------------------------------------
(* Hashes.                                                                 *)

\* SHA-256 as a free term: a root is the list of the batches hashed into it.
\* The Merkle root of a batch of distinct events stands for the batch.
Batch   == Seq(Event)
Root    == Seq(Batch)
Genesis == <<>>

\* root_hash and prev_hash; the signature is good whenever the gateway signs.
Payload == [root : Root \ {Genesis}, prev : Root]

Seal(batch, prev) == [root |-> Append(prev, batch), prev |-> prev]

BatchOf(p) == p.root[Len(p.root)]

EventsOf(s) == {s[i] : i \in DOMAIN s}

InSome(payloads) == UNION {EventsOf(BatchOf(p)) : p \in payloads}

Request == [from : {"flush", "retry"}, payload : Payload]

Flush(p) == [from |-> "flush", payload |-> p]
Retry(p) == [from |-> "retry", payload |-> p]

\* ok: the status is 200, accepted or already_processed; not ok: 409 or 500.
Answer == [from : {"flush", "retry"}, payload : Payload, ok : BOOLEAN]

AnswersTo(req) == {a \in answers : a.from = req.from /\ a.payload = req.payload}

TypeOK ==
    /\ audited \in SUBSET Event
    /\ buffer \in Batch
    /\ created \in SUBSET Batch
    /\ posting \in SUBSET Payload
    /\ prevRoot \in Root
    /\ wal \in Seq(Payload)
    /\ lines \in Seq(Payload)
    /\ remaining \in Seq(Payload)
    /\ unread \in SUBSET Payload
    /\ wire \in SUBSET Request
    /\ answers \in SUBSET Answer
    /\ siem \in Seq(Payload)
    /\ refused \in SUBSET Event
    /\ overwritten \in SUBSET Event
    /\ forgotten \in SUBSET Event
    /\ failures \in 0 .. MaxFailures
    /\ restarts \in 0 .. MaxRestarts

Init ==
    /\ audited = {}
    /\ buffer = <<>>
    /\ created = {}
    /\ posting = {}
    /\ prevRoot = Genesis
    /\ wal = <<>>
    /\ lines = <<>> /\ remaining = <<>> /\ unread = {}
    /\ wire = {} /\ answers = {}
    /\ siem = <<>>
    /\ refused = {} /\ overwritten = {} /\ forgotten = {}
    /\ failures = 0 /\ restarts = 0

----------------------------------------------------------------------------
(* Buffering.                                                              *)

\* (mutant) the task gets the event instead of the batch
Audit_TaskOfEvent(e) ==
    LET full == Append(buffer, e)
    IN  /\ e \notin audited
        /\ Len(buffer) < MaxBufferSize
        /\ audited' = audited \cup {e}
        /\ IF Len(full) >= FlushThreshold
           THEN buffer' = <<>> /\ created' = created \cup {e}
           ELSE buffer' = full /\ UNCHANGED created
        /\ UNCHANGED <<posting, prevRoot, wal, worker, network, siem, losses, bounds>>

\* ForensicAuditStage.process: at the threshold the buffer becomes a task.
Audit(e) ==
    LET full == Append(buffer, e)
    IN  /\ e \notin audited
        /\ Len(buffer) < MaxBufferSize
        /\ audited' = audited \cup {e}
        /\ IF Len(full) >= FlushThreshold
           THEN buffer' = <<>> /\ created' = created \cup {full}
           ELSE buffer' = full /\ UNCHANGED created
        /\ UNCHANGED <<posting, prevRoot, wal, worker, network, siem, losses, bounds>>

\* (mutant) the buffer is not cleared
PeriodicFlush_KeepsBuffer ==
    /\ buffer # <<>>
    /\ created' = created \cup {buffer}
    /\ UNCHANGED <<buffer, audited, posting, prevRoot, wal, worker, network, siem, losses, bounds>>

\* (mutant) the timer is not started
PeriodicFlush_Never == FALSE

\* periodic_flush: what the threshold has not flushed.
PeriodicFlush ==
    /\ buffer # <<>>
    /\ created' = created \cup {buffer}
    /\ buffer' = <<>>
    /\ UNCHANGED <<audited, posting, prevRoot, wal, worker, network, siem, losses, bounds>>

----------------------------------------------------------------------------
(* flush_batch.                                                            *)

\* (mutant) the head is moved on before the answer
FlushPosts_MovesHead(batch) ==
    LET p == Seal(batch, prevRoot)
    IN  /\ batch \in created
        /\ created' = created \ {batch}
        /\ posting' = posting \cup {p}
        /\ prevRoot' = p.root
        /\ wire' = wire \cup {Flush(p)}
        /\ UNCHANGED <<audited, buffer, wal, worker, answers, siem, losses, bounds>>

\* The task runs up to client.post: the chain hash uses the head of now,
\* whatever else is on its way.
FlushPosts(batch) ==
    LET p == Seal(batch, prevRoot)
    IN  /\ batch \in created
        /\ created' = created \ {batch}
        /\ posting' = posting \cup {p}
        /\ wire' = wire \cup {Flush(p)}
        /\ UNCHANGED <<audited, buffer, prevRoot, wal, worker, answers, siem, losses, bounds>>

\* httpx does not raise for a status: an answer of 409 or 500 is success.
TakenForSuccess(a) ==
    /\ answers' = answers \ {a}
    /\ prevRoot' = a.payload.root
    /\ refused' = IF a.ok THEN refused ELSE refused \cup EventsOf(BatchOf(a.payload))

FlushAnswered(p) ==
    /\ \E a \in AnswersTo(Flush(p)) : TakenForSuccess(a)
    /\ posting' = posting \ {p}
    /\ UNCHANGED <<audited, buffer, created, wal, worker, wire, siem,
                   overwritten, forgotten, bounds>>

\* The connection fails or two seconds pass; whether the SIEM gets the
\* request, or has got it, is open.
Abandon(req) ==
    /\ failures < MaxFailures
    /\ failures' = failures + 1
    /\ answers' = answers \ AnswersTo(req)
    /\ wire' \in {wire, wire \ {req}}

FlushFails(p) ==
    /\ p \in posting
    /\ Abandon(Flush(p))
    /\ posting' = posting \ {p}
    /\ wal' = Append(wal, p)
    /\ unread' = IF lines = <<>> THEN {} ELSE unread \cup {p}
    /\ UNCHANGED <<audited, buffer, created, prevRoot, lines, remaining, siem, losses, restarts>>

----------------------------------------------------------------------------
(* retry_worker.                                                           *)

\* The file is read once, and its first line posted.
RetryStarts ==
    /\ lines = <<>>
    /\ wal # <<>>
    /\ lines' = wal
    /\ remaining' = <<>>
    /\ wire' = wire \cup {Retry(Head(wal))}
    /\ UNCHANGED <<gateway, wal, unread, answers, siem, losses, bounds>>

\* On to the next line, or, after the last one, the file is written anew.
RetryGoesOn(rest, onWire) ==
    \/ /\ Len(lines) > 1
       /\ lines' = Tail(lines)
       /\ remaining' = rest
       /\ wire' = onWire \cup {Retry(lines[2])}
       /\ UNCHANGED <<wal, unread, overwritten>>
    \/ /\ Len(lines) = 1
       /\ lines' = <<>>
       /\ remaining' = <<>>
       /\ wire' = onWire
       /\ wal' = rest
       /\ unread' = {}
       /\ overwritten' = overwritten \cup InSome(unread)

RetryAnswered ==
    /\ lines # <<>>
    /\ \E a \in AnswersTo(Retry(Head(lines))) : TakenForSuccess(a)
    /\ RetryGoesOn(remaining, wire)
    /\ UNCHANGED <<audited, buffer, created, posting, siem, forgotten, bounds>>

\* (mutant) a line that could not be sent is not kept
RetryFails_Forgets ==
    /\ lines # <<>>
    /\ failures < MaxFailures
    /\ failures' = failures + 1
    /\ answers' = answers \ AnswersTo(Retry(Head(lines)))
    /\ \E onWire \in {wire, wire \ {Retry(Head(lines))}} : RetryGoesOn(remaining, onWire)
    /\ UNCHANGED <<gateway, siem, refused, forgotten, restarts>>

RetryFails ==
    /\ lines # <<>>
    /\ failures < MaxFailures
    /\ failures' = failures + 1
    /\ answers' = answers \ AnswersTo(Retry(Head(lines)))
    /\ \E onWire \in {wire, wire \ {Retry(Head(lines))}} :
          RetryGoesOn(Append(remaining, Head(lines)), onWire)
    /\ UNCHANGED <<gateway, siem, refused, forgotten, restarts>>

----------------------------------------------------------------------------
(* The SIEM's /ingest.                                                     *)

Stored(root) == \E i \in DOMAIN siem : siem[i].root = root

ChainBroken(p) == siem # <<>> /\ p.prev # siem[Len(siem)].root

Awaited(req) ==
    \/ req.from = "flush" /\ req.payload \in posting
    \/ req.from = "retry" /\ lines # <<>> /\ req.payload = Head(lines)

AnswerTo(req, ok) ==
    /\ wire' = wire \ {req}
    /\ answers' = IF Awaited(req)
                  THEN answers \cup {[from |-> req.from, payload |-> req.payload, ok |-> ok]}
                  ELSE answers

\* 200: stored now.
Accept(req) ==
    /\ req \in wire
    /\ ~Stored(req.payload.root)
    /\ ~ChainBroken(req.payload)
    /\ siem' = Append(siem, req.payload)
    /\ AnswerTo(req, TRUE)
    /\ UNCHANGED <<gateway, wal, worker, losses, bounds>>

\* 200 already_processed: nothing is stored.
Ignore(req) ==
    /\ req \in wire
    /\ Stored(req.payload.root)
    /\ AnswerTo(req, TRUE)
    /\ UNCHANGED <<gateway, wal, worker, siem, losses, bounds>>

\* 409 Chain broken.
Refuse(req) ==
    /\ req \in wire
    /\ ~Stored(req.payload.root)
    /\ ChainBroken(req.payload)
    /\ AnswerTo(req, FALSE)
    /\ UNCHANGED <<gateway, wal, worker, siem, losses, bounds>>

\* 500: the INSERT failed.
IngestFails(req) ==
    /\ req \in wire
    /\ ~Stored(req.payload.root)
    /\ ~ChainBroken(req.payload)
    /\ failures < MaxFailures
    /\ failures' = failures + 1
    /\ AnswerTo(req, FALSE)
    /\ UNCHANGED <<gateway, wal, worker, siem, losses, restarts>>

----------------------------------------------------------------------------

\* The gateway is started again: MerkleManager begins with "0" * 64, and
\* nobody asks /latest.  The file and the SIEM's table remain.
Restart ==
    /\ restarts < MaxRestarts
    /\ restarts' = restarts + 1
    /\ buffer' = <<>> /\ created' = {} /\ posting' = {}
    /\ prevRoot' = Genesis
    /\ lines' = <<>> /\ remaining' = <<>> /\ unread' = {}
    /\ answers' = {}
    /\ forgotten' = forgotten \cup EventsOf(buffer)
                              \cup (UNION {EventsOf(b) : b \in created})
                              \cup InSome(posting)
    /\ UNCHANGED <<audited, wal, wire, siem, refused, overwritten, failures>>

\* What goes on by itself once events are there.
Progress ==
    \/ PeriodicFlush
    \/ \E batch \in created : FlushPosts(batch)
    \/ \E p \in posting : FlushAnswered(p)
    \/ RetryStarts \/ RetryAnswered
    \/ \E req \in wire : Accept(req) \/ Ignore(req) \/ Refuse(req)

Fault ==
    \/ \E p \in posting : FlushFails(p)
    \/ RetryFails
    \/ \E req \in wire : IngestFails(req)
    \/ Restart

Next == (\E e \in Event : Audit(e)) \/ Progress \/ Fault

Spec == Init /\ [][Next]_vars

\* The timers go off, tasks run, and the SIEM answers what it gets.
FairSpec == Spec /\ WF_vars(Progress)

----------------------------------------------------------------------------
(* Properties.                                                             *)

\* No event is witnessed in two rows, however often its batch is posted
\* from memory and from the file.
EventsOnce ==
    \A i, j \in DOMAIN siem :
        i # j => EventsOf(BatchOf(siem[i])) \cap EventsOf(BatchOf(siem[j])) = {}

Witnessed == InSome(EventsOf(siem))

\* The events that are witnessed or that the gateway will still see to.
Kept ==
    EventsOf(buffer)
        \cup (UNION {EventsOf(b) : b \in created})
        \cup InSome(posting \cup EventsOf(wal))
        \cup Witnessed

\* An audited event gets lost in three ways only: an answer of 409 or 500
\* was taken for success, retry_worker wrote over a line it had not read, or
\* it was in memory at a restart.  Failed, late and repeated posts, posts
\* that overlap, and a restart in the middle of retry_worker's round, lose
\* nothing by themselves.
LossesHaveCause == audited \subseteq Kept \cup refused \cup overwritten \cup forgotten

\* flush_batch and retry_worker keep the head together, with posts in any
\* number on their way: unless one of the losses has occurred or the gateway
\* has restarted, prev_root is the root of the witness's last row, or it is
\* that row's own prev_hash and the row still has to be answered for.
HeadFollows ==
    (refused = {} /\ overwritten = {} /\ restarts = 0) =>
        IF siem = <<>>
        THEN prevRoot = Genesis
        ELSE LET last == siem[Len(siem)]
             IN  \/ prevRoot = last.root
                 \/ prevRoot = last.prev /\ last \in posting \cup EventsOf(wal)

\* retry_worker recovers: a line it counts as synced is stored by the SIEM.
RetryRecovers ==
    [][\A p \in EventsOf(lines) :
          AnswersTo(Retry(p)) # {} /\ prevRoot' = p.root => Stored(p.root)]_vars

\* Nothing stays in the buffer, in a task, in a post or in the file for
\* ever: an event that is audited comes to be stored by the SIEM, or is lost
\* in one of the three ways.
EventsSettled ==
    \A e \in Event :
        e \in audited ~> e \in Witnessed \cup refused \cup overwritten \cup forgotten
=============================================================================
