------------------------------- MODULE Gateway -------------------------------
(***************************************************************************)
(* POST /v1/banking/transfer on one gateway, end to end: security_gate and *)
(* handle_transfer (core/gateway.py) with the control plane, the           *)
(* idempotency layer, the enforcer (security/enforcer.py), the Rust core   *)
(* (core/sentinel-core/src/lib.rs) and the transactional core.             *)
(*                                                                         *)
(* Redis knows a key within the scope of a client, and for a day at most;  *)
(* the payment_intents table knows it as it is, and for ever.  A lock runs *)
(* out under a live worker too, and a worker deletes whoever's lock there  *)
(* is, so two requests may be in the handler for one key.                  *)
(*                                                                         *)
(* What is one step here: SET NX, GET and SET STARTED of the middleware    *)
(* (Idempotency has them apart, and what goes wrong in between), and each  *)
(* transaction of the transactional core (Ledger has its statements).      *)
(***************************************************************************)
EXTENDS ControlPlane, Sequences

CONSTANTS
    Request,       \* calls of the endpoint; a retry is another element
    Client,        \* request.client.host
    HeaderKey,     \* values of the Idempotency-Key header
    NoHeader,      \* the header is absent
    EmptyHeader,   \* the header is there, with an empty value
    TxId, TxHash, Role, Beneficiary,
    req,           \* [Request -> RequestRecord]
    whitelist,     \* approved_beneficiaries
    HardLimit,     \* 50000
    RiskLimit,     \* 80
    Sanctioned,    \* country codes
    NoTarget,      \* the empty string as a target
    Bounds         \* the bounds a behaviour may have, one record each

RequestRecord == [client : Client, header : HeaderKey \cup {NoHeader, EmptyHeader},
                  tx : TxId, hash : TxHash, role : Role, amount : Nat \ {0},
                  target : Beneficiary]

ASSUME GatewayAssumption ==
    /\ req \in [Request -> RequestRecord]
    /\ NoHeader \notin HeaderKey \cup {EmptyHeader}
    /\ EmptyHeader \notin HeaderKey
    /\ None \notin Request
    /\ None \notin TxHash
    /\ None # "SUCCESS"
    /\ Bounds \subseteq [sent : SUBSET Request, changes : Nat, redisErrors : Nat,
                        restarts : Nat]

VARIABLES
    pc,        \* where the coroutine of each request is suspended
    record,    \* Redis, per scope and key: the state record
    worker,    \* Redis, per scope and key: the request whose lock it is
    expired,   \* history: the scopes and keys whose record ran out once
    rocks,     \* RocksDB: tx_id to hash
    failSafe,  \* FAIL_SAFE
    log,       \* the ledger: its committed state transitions
    reply,     \* the response call_next returned, until it is saved
    answer,    \* what the client got
    restarts   \* bound: restarts that are left

layer == <<record, worker, expired>>
core  == <<rocks, failSafe>>
vars  == <<controlVars, pc, layer, core, log, reply, answer, restarts>>

----------------------------------------------------------------------------
(* Requests, keys and answers.                                             *)

\* The middleware takes part only when the header has a value.
Keyed(r) == req[r].header \in HeaderKey

Scope == Client \X HeaderKey

\* idem:state:{path}:{client}:{key}.
ScopeOf(r) == <<req[r].client, req[r].header>>

\* request.headers.get("Idempotency-Key", req.tx_id): the table's key.
LedgerKey(r) == IF req[r].header = NoHeader THEN req[r].tx ELSE req[r].header

\* What payload_hash is the hash of.
Body(r) == <<req[r].tx, req[r].hash, req[r].role, req[r].amount, req[r].target>>

Ledgers == INSTANCE AtomicLedger
             WITH Transfer <- Request, Key <- TxId \cup HeaderKey \cup {EmptyHeader},
                  keyOf <- [r \in Request |-> LedgerKey(r)]

Detail == {"SECURITY_INTERVENTION", "INTEGRITY_MISMATCH", "SYSTEM_FROZEN",
           "SYSTEM_READ_ONLY", "RECOVERY_RAMP_UP", "MISMATCH", "TIMEOUT", "ERROR"}

Refusal(detail) == [detail |-> detail, payment |-> None, status |-> None]

Success(p, status) == [detail |-> "SUCCESS", payment |-> p, status |-> status]

Answer ==
    {Refusal(d) : d \in Detail} \cup
    {Success(p, s) : p \in Request, s \in {"AUTHORIZING", "AUTHORIZED", "FAILED"}}

NoAnswer == Refusal(None)

\* What the handler answers with a status_code < 500.
Cacheable ==
    {Refusal("SECURITY_INTERVENTION"), Refusal("INTEGRITY_MISMATCH")} \cup
    {Success(p, s) : p \in Request, s \in {"AUTHORIZING", "AUTHORIZED", "FAILED"}}

Unused == [status |-> "ABSENT", payload |-> None, response |-> None]

Phase == {"unsent", "new", "idem", "enforce", "create", "settle", "save", "done"}

TypeOK ==
    /\ ControlTypeOK
    /\ pc \in [Request -> Phase]
    /\ \A k \in Scope :
          /\ record[k].status \in {"ABSENT", "STARTED", "COMPLETED"}
          /\ record[k].payload \in {Body(r) : r \in Request} \cup {None}
          /\ record[k].response \in Cacheable \cup {None}
    /\ worker \in [Scope -> Request \cup {None}]
    /\ expired \subseteq Scope
    /\ rocks \in [TxId -> TxHash \cup {None}]
    /\ failSafe \in BOOLEAN
    /\ log \in Seq(Request \X {"INTENT_CREATED", "AUTH_APPROVED", "AUTH_FAILED"})
    /\ reply \in [Request -> Answer \cup {NoAnswer}]
    /\ answer \in [Request -> Answer \cup {NoAnswer}]
    /\ restarts \in Nat

Init ==
    /\ \E b \in Bounds :
          /\ ControlInit(b.changes, b.redisErrors)
          /\ pc = [r \in Request |-> IF r \in b.sent THEN "new" ELSE "unsent"]
          /\ restarts = b.restarts
    /\ record = [k \in Scope |-> Unused]
    /\ worker = [k \in Scope |-> None]
    /\ expired = {}
    /\ rocks = [x \in TxId |-> None]
    /\ failSafe = FALSE
    /\ log = <<>>
    /\ reply = [r \in Request |-> NoAnswer]
    /\ answer = [r \in Request |-> NoAnswer]

Goto(r, p) == pc' = [pc EXCEPT ![r] = p]

\* The client of r gets its answer.
Tell(r, a) ==
    /\ answer' = [answer EXCEPT ![r] = a]
    /\ reply' = [reply EXCEPT ![r] = NoAnswer]
    /\ Goto(r, "done")

SetRecord(k, rec) == record' = [record EXCEPT ![k] = rec]

SetWorker(k, r) == worker' = [worker EXCEPT ![k] = r]

----------------------------------------------------------------------------
(* security_gate, the outermost middleware.                                *)

Frozen == failSafe \/ recovery.mode = "FROZEN"

\* random.random() is in [0, 1): the full rate turns nobody away.
MayTurnAway == recovery.mode = "RAMP_UP" /\ recovery.rate < FullRate

TurnedAway(r, detail) ==
    /\ pc[r] = "new"
    /\ Tell(r, Refusal(detail))
    /\ UNCHANGED <<controlVars, layer, core, log, restarts>>

GateFrozen(r)   == Frozen /\ TurnedAway(r, "SYSTEM_FROZEN")
GateReadOnly(r) == ~Frozen /\ recovery.mode = "READ_ONLY" /\ TurnedAway(r, "SYSTEM_READ_ONLY")
GateRampUp(r)   == ~Frozen /\ MayTurnAway /\ TurnedAway(r, "RECOVERY_RAMP_UP")

GatePasses(r) ==
    /\ pc[r] = "new"
    /\ ~Frozen
    /\ recovery.mode # "READ_ONLY"
    /\ Goto(r, IF Keyed(r) THEN "idem" ELSE "enforce")
    /\ UNCHANGED <<controlVars, layer, core, log, reply, answer, restarts>>

----------------------------------------------------------------------------
(* FinTechIdempotencyMiddleware.                                           *)

\* (mutant) the payload's hash is compared with a completed record's only
SamePayload_Completed(r) ==
    record[ScopeOf(r)].status = "COMPLETED" => record[ScopeOf(r)].payload = Body(r)

SamePayload(r) ==
    record[ScopeOf(r)].status # "ABSENT" => record[ScopeOf(r)].payload = Body(r)

IsCompleted(k) == record[k].status = "COMPLETED"

TakeUp(r) ==
    LET k == ScopeOf(r)
    IN  /\ pc[r] = "idem"
        /\ worker[k] = None
        /\ ~IsCompleted(k)
        /\ SamePayload(r)
        /\ SetRecord(k, [status |-> "STARTED", payload |-> Body(r), response |-> None])
        /\ SetWorker(k, r)
        /\ Goto(r, "enforce")
        /\ UNCHANGED <<controlVars, expired, core, log, reply, answer, restarts>>

\* The saved answer, or 409, for whoever gets the lock or needs none; the
\* `finally` deletes the lock, its own or another's.
AnswerFromRecord(r) ==
    LET k == ScopeOf(r)
    IN  /\ pc[r] = "idem"
        /\ worker[k] = None \/ IsCompleted(k)
        /\ \/ SamePayload(r) /\ IsCompleted(k) /\ Tell(r, record[k].response)
           \/ ~SamePayload(r) /\ Tell(r, Refusal("MISMATCH"))
        /\ SetWorker(k, None)
        /\ UNCHANGED <<controlVars, record, expired, core, log, restarts>>

\* 408: somebody else has the lock for longer than MAX_WAIT_TIME.
GiveUp(r) ==
    /\ pc[r] = "idem"
    /\ worker[ScopeOf(r)] # None
    /\ ~IsCompleted(ScopeOf(r))
    /\ Tell(r, Refusal("TIMEOUT"))
    /\ UNCHANGED <<controlVars, layer, core, log, restarts>>

\* The handler answers below 500: the middleware has still to save it.
Respond(r, a) ==
    IF Keyed(r)
    THEN reply' = [reply EXCEPT ![r] = a] /\ Goto(r, "save") /\ UNCHANGED answer
    ELSE Tell(r, a)

\* The handler raises: 500, nothing is saved, the lock is deleted, the one of
\* another request too if this one's has run out.
Fail(r) ==
    /\ Tell(r, Refusal("ERROR"))
    /\ worker' = IF Keyed(r) THEN [worker EXCEPT ![ScopeOf(r)] = None] ELSE worker

Save(r) ==
    LET k == ScopeOf(r)
    IN  /\ pc[r] = "save"
        /\ SetRecord(k, [status |-> "COMPLETED", payload |-> Body(r), response |-> reply[r]])
        /\ SetWorker(k, None)
        /\ Tell(r, reply[r])
        /\ UNCHANGED <<controlVars, expired, core, log, restarts>>

----------------------------------------------------------------------------
(* handle_transfer.                                                        *)

\* DeterministicEnforcer.validate_transfer_intent; user_id is the role.
IntentApproved(r) ==
    /\ req[r].target # NoTarget
    /\ req[r].amount <= HardLimit
    /\ \E b \in whitelist :
          /\ b.id = req[r].target
          /\ b.owner = req[r].role
          /\ b.active
          /\ b.risk <= RiskLimit
          /\ b.country \notin Sanctioned

Intervene(r) ==
    /\ pc[r] = "enforce"
    /\ ~IntentApproved(r)
    /\ Respond(r, Refusal("SECURITY_INTERVENTION"))
    /\ UNCHANGED <<controlVars, layer, core, log, restarts>>

\* (mutant) the hash is stored once the payment is settled
Remember_Later(r) == UNCHANGED rocks

\* self.db.put(key, current_hash_bytes), for a tx_id that is new.
Remember(r) == rocks' = [rocks EXCEPT ![req[r].tx] = req[r].hash]

Known(r) == rocks[req[r].tx] # None

\* audit_and_verify returns true.  It is one call, and nothing is awaited
\* between it and what the enforcer's SELECT has returned.
VerifyPasses(r) ==
    /\ pc[r] = "enforce"
    /\ IntentApproved(r)
    /\ ~failSafe
    /\ \/ ~Known(r) /\ Remember(r)
       \/ rocks[req[r].tx] = req[r].hash /\ UNCHANGED rocks
    /\ Goto(r, "create")
    /\ UNCHANGED <<controlVars, layer, failSafe, log, reply, answer, restarts>>

\* It returns false: another hash is stored, or FAIL_SAFE was set already.
VerifyRefuses(r) ==
    /\ pc[r] = "enforce"
    /\ IntentApproved(r)
    /\ \/ failSafe /\ UNCHANGED failSafe
       \/ ~failSafe /\ Known(r) /\ rocks[req[r].tx] # req[r].hash /\ failSafe' = TRUE
    /\ Respond(r, Refusal("INTEGRITY_MISMATCH"))
    /\ UNCHANGED <<controlVars, layer, rocks, log, restarts>>

StatusOf(p) ==
    CASE <<p, "AUTH_APPROVED">> \in {log[i] : i \in DOMAIN log} -> "AUTHORIZED"
      [] <<p, "AUTH_FAILED">> \in {log[i] : i \in DOMAIN log}   -> "FAILED"
      [] OTHER -> "AUTHORIZING"

\* authorize_transfer: the first transaction commits, ...
Authorize(r) ==
    /\ pc[r] = "create"
    /\ Ledgers!Create(r)
    /\ Goto(r, "settle")
    /\ UNCHANGED <<controlVars, layer, core, reply, answer, restarts>>

\* ... or idempotency_key is taken: return dict(existing).
FindExisting(r) ==
    /\ pc[r] = "create"
    /\ \E p \in Request :
          /\ Ledgers!Created(p)
          /\ LedgerKey(p) = LedgerKey(r)
          /\ Respond(r, Success(p, StatusOf(p)))
    /\ UNCHANGED <<controlVars, layer, core, log, restarts>>

\* The second transaction commits with the bank's answer.
SettlePayment(r) ==
    /\ pc[r] = "settle"
    /\ Ledgers!Settle(r)
    /\ Respond(r, Success(r, IF log'[Len(log')][2] = "AUTH_APPROVED"
                             THEN "AUTHORIZED" ELSE "FAILED"))
    /\ UNCHANGED <<controlVars, layer, core, restarts>>

\* (mutant) the exception's answer goes back through the middleware
HandlerRaises_Answers(r) ==
    /\ pc[r] \in {"enforce", "create", "settle"}
    /\ Respond(r, Refusal("ERROR"))
    /\ UNCHANGED <<controlVars, layer, core, log, restarts>>

\* (mutant) the second transaction's exception is not raised again
HandlerRaises_NotInSettle(r) ==
    /\ pc[r] \in {"enforce", "create", "settle", "save"}
    /\ IF pc[r] = "settle"
       THEN Respond(r, Success(r, "AUTHORIZED")) /\ UNCHANGED layer
       ELSE Fail(r) /\ UNCHANGED <<record, expired>>
    /\ UNCHANGED <<controlVars, core, log, restarts>>

\* An exception of SQLite, RocksDB or Redis: "database is locked", a full
\* disk, a SET of the answer that is refused.
HandlerRaises(r) ==
    /\ pc[r] \in {"enforce", "create", "settle", "save"}
    /\ Fail(r)
    /\ UNCHANGED <<controlVars, record, expired, core, log, restarts>>

----------------------------------------------------------------------------

\* The process ends and is started again.  Redis, RocksDB and the ledger
\* keep what they have; FAIL_SAFE and RecoveryState are memory.
Restart ==
    /\ restarts > 0
    /\ restarts' = restarts - 1
    /\ pc' = [r \in Request |-> IF pc[r] \in {"unsent", "new"} THEN pc[r] ELSE "done"]
    /\ reply' = [r \in Request |-> NoAnswer]
    /\ failSafe' = FALSE
    /\ Reboot
    /\ UNCHANGED <<layer, rocks, log, answer>>

\* (mutant) the lock key has no TTL
LockExpires_Never(k) == FALSE /\ UNCHANGED vars

\* LOCK_TTL ends, whether the request that took the lock is dead or only slow.
LockExpires(k) ==
    /\ worker[k] # None
    /\ SetWorker(k, None)
    /\ UNCHANGED <<controlVars, pc, record, expired, core, log, reply, answer, restarts>>

\* IDEMPOTENCY_TTL ends.
RecordExpires(k) ==
    /\ record[k].status # "ABSENT"
    /\ SetRecord(k, Unused)
    /\ expired' = expired \cup {k}
    /\ UNCHANGED <<controlVars, pc, worker, core, log, reply, answer, restarts>>

Gate(r) == GateFrozen(r) \/ GateReadOnly(r) \/ GateRampUp(r) \/ GatePasses(r)

Middleware(r) == TakeUp(r) \/ AnswerFromRecord(r) \/ GiveUp(r) \/ Save(r)

Handler(r) ==
    \/ Intervene(r) \/ VerifyPasses(r) \/ VerifyRefuses(r)
    \/ Authorize(r) \/ FindExisting(r) \/ SettlePayment(r) \/ HandlerRaises(r)

Step(r) == Middleware(r) \/ Handler(r)

Control == ControlNext /\ UNCHANGED <<pc, layer, core, log, reply, answer, restarts>>

Next ==
    \/ \E r \in Request : Gate(r) \/ Step(r)
    \/ \E k \in Scope : LockExpires(k) \/ RecordExpires(k)
    \/ Control \/ Restart

Spec == Init /\ [][Next]_vars

\* Whoever took the lock of k is not at work any more.
Orphaned(k) == worker[k] # None /\ pc[worker[k]] = "done"

\* Coroutines that can go on do, and the polling task among them; the lock of
\* a request that is gone runs out.
FairSpec ==
    /\ Spec
    /\ \A r \in Request : WF_vars(Step(r))
    /\ \A k \in Scope : WF_vars(Orphaned(k) /\ LockExpires(k))
    /\ WF_vars(Poll /\ UNCHANGED <<pc, layer, core, log, reply, answer, restarts>>)

----------------------------------------------------------------------------
(* Properties.                                                             *)

Paid(r) == Ledgers!Created(r)

\* The key of r means the same in Redis and in the table: no other client
\* uses it, it is not one time a header and another time a tx_id, and not the
\* empty header.  Where Redis cannot tell bodies apart the client has to:
\* without the header if the tx_hash does not, and with it once the record has
\* run out, since the table still knows the key.
OwnsKey(r) ==
    /\ req[r].header # EmptyHeader
    /\ \A s \in Request : pc[s] # "unsent" /\ LedgerKey(s) = LedgerKey(r) =>
          /\ req[s].client = req[r].client
          /\ req[s].header = req[r].header
          /\ ~Keyed(r) /\ req[s].hash = req[r].hash => Body(s) = Body(r)
          /\ ScopeOf(r) \in expired => Body(s) = Body(r)

\* A client who is told of a payment is told of one that was made, for this
\* client and for this very body, across duplicates, reused keys, two workers
\* of one key, records that run out, failures and restarts, and everyone who
\* has the key is told of the same one.
AnswersOwn ==
    \A r \in Request : answer[r].detail = "SUCCESS" /\ OwnsKey(r) =>
        /\ Paid(answer[r].payment)
        /\ req[answer[r].payment].client = req[r].client
        /\ Body(answer[r].payment) = Body(r)
        /\ \A s \in Request :
              answer[s].detail = "SUCCESS" /\ LedgerKey(s) = LedgerKey(r)
                  => answer[s].payment = answer[r].payment

\* A client who is told how a payment ended is told what the ledger has, then
\* and for ever, be the answer the handler's, a duplicate's or one saved in
\* Redis long ago; AUTHORIZING is told only to those whose own call did not
\* make the payment.
StatusesStand ==
    \A r \in Request : answer[r].detail = "SUCCESS" =>
        \/ answer[r].status = StatusOf(answer[r].payment)
        \/ answer[r].status = "AUTHORIZING" /\ answer[r].payment # r

\* Whatever was paid for under a tx_id was paid for with one hash, the one
\* RocksDB has: tampered data gets no payment, before or after a freeze, a
\* failed transfer or a restart.
PaidHashesHold ==
    \A r \in Request : Paid(r) => rocks[req[r].tx] = req[r].hash

\* No lock is held for ever, whatever becomes of the request that took it:
\* it is answered, its handler raises, its gateway dies.
LocksLetGo == \A k \in Scope : worker[k] # None ~> worker[k] = None
=============================================================================
