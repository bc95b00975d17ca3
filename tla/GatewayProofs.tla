---------------------------- MODULE GatewayProofs ----------------------------
(***************************************************************************)
(* Proofs about Gateway, for any requests, clients, keys, operators and    *)
(* any bounds on restarts, announcements and Redis errors.                 *)
(***************************************************************************)
EXTENDS Gateway, ControlPlaneProofs

\* A request past audit_and_verify has its hash in RocksDB.
Verified == {"create", "settle"}

HashStored == \A r \in Request : pc[r] \in Verified => rocks[req[r].tx] = req[r].hash

LogType == Seq(Request \X {"INTENT_CREATED", "AUTH_APPROVED", "AUTH_FAILED"})

HashInv ==
    /\ pc \in [Request -> Phase]
    /\ rocks \in [TxId -> TxHash \cup {None}]
    /\ log \in LogType
    /\ HashStored
    /\ PaidHashesHold

----------------------------------------------------------------------------

\* What a record of a request is made of.
LEMMA RequestFacts ==
    ASSUME NEW r \in Request
    PROVE  /\ req[r].client \in Client
           /\ req[r].header \in HeaderKey \cup {NoHeader, EmptyHeader}
           /\ req[r].tx \in TxId
           /\ req[r].hash \in TxHash
BY GatewayAssumption DEF RequestRecord

\* The gateway acts on the control plane by its polls and restarts alone.
LEMMA NextIsControlStep == [Next]_vars => [ControlStep]_controlVars
BY DEF Next, vars, Control, ControlStep, Restart, LockExpires, RecordExpires, Gate, GateFrozen,
       GateReadOnly, GateRampUp, GatePasses, TurnedAway, Step, Middleware, TakeUp, AnswerFromRecord, GiveUp,
       Save, Handler, Intervene, VerifyPasses, VerifyRefuses, Authorize, FindExisting,
       SettlePayment, HandlerRaises

\* Operators who announce one after the other are obeyed: once a whole poll
\* lies after the announcement, mode and rate are the announced ones, through
\* restarts, failing polls and requests (gateway.py:50-75, admin_panel.py).
THEOREM OperatorsObeyedHolds == Spec => []OperatorsObeyed
<1>1. Init => ControlInv
  BY ControlInitInv, GatewayAssumption DEF Init
<1>2. ControlInv /\ [Next]_vars => ControlInv'
  BY NextIsControlStep, ControlInvStep
<1>3. ControlInv => OperatorsObeyed
  BY DEF ControlInv
<1> QED BY <1>1, <1>2, <1>3, PTL DEF Spec

----------------------------------------------------------------------------

\* A step that is neither of these appends nothing to the ledger, stores no
\* hash and lets no request past audit_and_verify.
LEMMA Bystanders ==
    ASSUME HashInv, [Next]_vars,
           \A r \in Request : ~VerifyPasses(r) /\ ~Authorize(r) /\ ~SettlePayment(r)
    PROVE  /\ rocks' = rocks /\ log' = log
           /\ pc' \in [Request -> Phase]
           /\ \A r \in Request : pc'[r] \in Verified => pc[r] \in Verified
<1> USE DEF HashInv, Phase, Verified, Goto, Tell, core, layer
<1>1. ASSUME NEW r \in Request, Gate(r)
      PROVE  /\ rocks' = rocks /\ log' = log
             /\ \E p \in Phase \ Verified : pc' = [pc EXCEPT ![r] = p]
  BY <1>1 DEF Gate, GateFrozen, GateReadOnly, GateRampUp, GatePasses, TurnedAway
<1>2. ASSUME NEW r \in Request, Middleware(r)
      PROVE  /\ rocks' = rocks /\ log' = log
             /\ \E p \in Phase \ Verified : pc' = [pc EXCEPT ![r] = p]
  BY <1>2 DEF Middleware, TakeUp, AnswerFromRecord, GiveUp, Save
<1>3. ASSUME NEW r \in Request, Handler(r)
      PROVE  /\ rocks' = rocks /\ log' = log
             /\ \E p \in Phase \ Verified : pc' = [pc EXCEPT ![r] = p]
  BY <1>3 DEF Handler, Intervene, VerifyRefuses, FindExisting, HandlerRaises, Respond, Fail
<1>4. CASE Restart
  BY <1>4 DEF Restart
<1>5. CASE UNCHANGED <<pc, core, log>>
  BY <1>5
<1>6. (\E r \in Request : Gate(r) \/ Step(r)) \/ Restart \/ UNCHANGED <<pc, core, log>>
  BY DEF Next, Control, LockExpires, RecordExpires, vars
<1>7. ASSUME NEW r \in Request, NEW p \in Phase \ Verified, pc' = [pc EXCEPT ![r] = p]
      PROVE  /\ pc' \in [Request -> Phase]
             /\ \A s \in Request : pc'[s] \in Verified => pc[s] \in Verified
  BY <1>7
<1> QED BY <1>1, <1>2, <1>3, <1>4, <1>5, <1>6, <1>7 DEF Step

\* A hash that is stored is never replaced: Remember is for a new tx_id.
LEMMA HashesStay ==
    ASSUME HashInv, NEW r \in Request, VerifyPasses(r)
    PROVE  /\ rocks' \in [TxId -> TxHash \cup {None}]
           /\ rocks'[req[r].tx] = req[r].hash
           /\ \A x \in TxId : rocks[x] # None => rocks'[x] = rocks[x]
BY RequestFacts DEF HashInv, VerifyPasses, Remember, Known

\* Nobody is paid for but after VerifyPasses, which has stored or compared
\* the hash.
LEMMA HashStep == HashInv /\ [Next]_vars => HashInv'
<1> SUFFICES ASSUME HashInv, [Next]_vars PROVE HashInv'
  OBVIOUS
<1>1. \A r \in Request : req[r].tx \in TxId /\ req[r].hash \in TxHash /\ req[r].hash # None
  BY RequestFacts, GatewayAssumption
<1>2. CASE \A r \in Request : ~VerifyPasses(r) /\ ~Authorize(r) /\ ~SettlePayment(r)
  BY <1>2, Bystanders
  DEF HashInv, HashStored, PaidHashesHold, Paid, Ledgers!Created
<1>3. ASSUME NEW r \in Request, VerifyPasses(r) PROVE HashInv'
  <2>1. pc' = [pc EXCEPT ![r] = "create"] /\ log' = log
    BY <1>3 DEF VerifyPasses, Goto
  <2>2. HashStored'
    BY <1>1, <1>3, <2>1, HashesStay DEF HashInv, HashStored, Verified
  <2>3. PaidHashesHold'
    BY <1>1, <1>3, <2>1, HashesStay DEF HashInv, PaidHashesHold, Paid, Ledgers!Created
  <2> QED BY <1>3, <2>1, <2>2, <2>3, HashesStay DEF HashInv, Phase
<1>4. ASSUME NEW r \in Request, NEW a \in {"INTENT_CREATED", "AUTH_APPROVED", "AUTH_FAILED"},
             NEW p \in Phase, pc' = [pc EXCEPT ![r] = p],
             pc[r] \in Verified, rocks' = rocks, log' = Append(log, <<r, a>>)
      PROVE  HashInv'
  <2>1. log' \in LogType
    BY <1>4 DEF HashInv, LogType
  <2>2. HashStored'
    BY <1>4 DEF HashInv, HashStored
  <2>3. ASSUME NEW s \in Request, Paid(s)' PROVE s = r \/ Paid(s)
    <3>1. PICK i \in DOMAIN log' : log'[i] = <<s, "INTENT_CREATED">>
      BY <2>3 DEF Paid, Ledgers!Created
    <3>2. CASE i \in DOMAIN log
      BY <1>4, <3>1, <3>2 DEF HashInv, LogType, Paid, Ledgers!Created
    <3>3. CASE i \notin DOMAIN log
      <4>1. log'[i] = <<r, a>>
        BY <1>4, <3>3 DEF HashInv, LogType
      <4> QED BY <3>1, <4>1
    <3> QED BY <3>2, <3>3
  <2>4. PaidHashesHold'
    BY <1>4, <2>3 DEF HashInv, HashStored, PaidHashesHold
  <2> QED BY <1>4, <2>1, <2>2, <2>4 DEF HashInv
<1>5. ASSUME NEW r \in Request, Authorize(r) PROVE HashInv'
  BY <1>4, <1>5 DEF Authorize, Ledgers!Create, Goto, Phase, Verified, core
<1>6. ASSUME NEW r \in Request, SettlePayment(r) PROVE HashInv'
  BY <1>4, <1>6 DEF SettlePayment, Ledgers!Settle, Respond, Tell, Goto, Phase, Verified, core
<1> QED BY <1>2, <1>3, <1>5, <1>6

\* Before the first request nothing is stored and nothing is paid.
LEMMA HashInit == Init => HashInv
BY DEF Init, HashInv, Phase, LogType, HashStored, Verified, PaidHashesHold, Paid,
       Ledgers!Created

\* Tampered data is never paid for: each payment's hash is the one RocksDB
\* has for its tx_id, through freezes, failures, duplicates and restarts
\* (lib.rs:44-76, gateway.py:168-196).
THEOREM PaidHashesHoldAlways == Spec => []PaidHashesHold
<1>1. HashInv => PaidHashesHold
  BY DEF HashInv
<1> QED BY <1>1, HashInit, HashStep, PTL DEF Spec

----------------------------------------------------------------------------

\* Requests between TakeUp and the answer.
AtWork == {"enforce", "create", "settle", "save"}

RecordType == [status : {"ABSENT", "STARTED", "COMPLETED"},
               payload : {Body(r) : r \in Request} \cup {None},
               response : Cacheable \cup {None}]

\* A key's record is unused, started, or completed with a response to repeat.
RecordsWellFormed ==
    \A k \in Scope : \/ record[k].status = "COMPLETED" /\ record[k].response \in Cacheable
                     \/ /\ record[k].status # "COMPLETED"
                        /\ record[k].response = None
                        /\ record[k].status = "ABSENT" => record[k].payload = None

\* Whoever waits for a key or saves has one, and an answer when it saves.
Answerable ==
    \A r \in Request :
        /\ pc[r] \in {"idem", "save"} => Keyed(r)
        /\ pc[r] = "save" => reply[r] \in Cacheable

LayerInv ==
    /\ pc \in [Request -> Phase]
    /\ record \in [Scope -> RecordType]
    /\ worker \in [Scope -> Request \cup {None}]
    /\ expired \subseteq Scope
    /\ reply \in [Request -> Cacheable \cup {NoAnswer}]
    /\ RecordsWellFormed
    /\ Answerable

\* A request with a key has a place in Redis.
LEMMA ScopeOfKeyed == \A r \in Request : Keyed(r) => ScopeOf(r) \in Scope
BY RequestFacts DEF Keyed, ScopeOf, Scope

\* The statuses the handler answers with are cacheable.
LEMMA PaymentsCacheable ==
    ASSUME NEW p \in Request
    PROVE  /\ Success(p, StatusOf(p)) \in Cacheable
           /\ Success(p, "AUTHORIZED") \in Cacheable
           /\ Success(p, "FAILED") \in Cacheable
<1>1. StatusOf(p) \in {"AUTHORIZING", "AUTHORIZED", "FAILED"}
  BY DEF StatusOf
<1> QED BY <1>1 DEF Cacheable

\* What a step of the request r has to keep to, and LayerInv is kept.
LEMMA LayerKeeps ==
    ASSUME LayerInv, NEW r \in Request, NEW p \in Phase,
           NEW a \in Cacheable \cup {NoAnswer},
           pc' = [pc EXCEPT ![r] = p],
           reply' = [reply EXCEPT ![r] = a],
           p \in {"idem", "save"} => Keyed(r),
           p = "save" => a \in Cacheable,
           \/ record' = record
           \/ \E b \in Cacheable :
                 record' = [record EXCEPT ![ScopeOf(r)] =
                              [status |-> "COMPLETED", payload |-> Body(r), response |-> b]]
           \/ record' = [record EXCEPT ![ScopeOf(r)] =
                           [status |-> "STARTED", payload |-> Body(r), response |-> None]],
           worker' \in [Scope -> Request \cup {None}],
           expired' = expired
    PROVE  LayerInv'
<1>1. pc' \in [Request -> Phase] /\ reply' \in [Request -> Cacheable \cup {NoAnswer}]
  BY DEF LayerInv
<1>2. record' \in [Scope -> RecordType] /\ RecordsWellFormed'
  <2>1. CASE record' = record
    BY <2>1 DEF LayerInv, RecordsWellFormed
  <2>2. ASSUME NEW rec \in RecordType, record' = [record EXCEPT ![ScopeOf(r)] = rec],
               \/ rec.status = "COMPLETED" /\ rec.response \in Cacheable
               \/ rec.status = "STARTED" /\ rec.response = None
        PROVE  record' \in [Scope -> RecordType] /\ RecordsWellFormed'
    BY <2>2 DEF LayerInv, RecordsWellFormed
  <2>3. [status |-> "STARTED", payload |-> Body(r), response |-> None] \in RecordType
    BY DEF RecordType
  <2>4. \A b \in Cacheable :
            [status |-> "COMPLETED", payload |-> Body(r), response |-> b] \in RecordType
    BY DEF RecordType
  <2> QED BY <2>1, <2>2, <2>3, <2>4
<1>3. Answerable'
  BY <1>1 DEF LayerInv, Answerable, Keyed
<1> QED BY <1>1, <1>2, <1>3 DEF LayerInv

\* A request leaves the handler with an answer, to be saved or to be told.
LEMMA RespondKeeps ==
    ASSUME LayerInv, NEW r \in Request, NEW a \in Cacheable, Respond(r, a), UNCHANGED layer
    PROVE  LayerInv'
<1>1. CASE Keyed(r)
  <2>1. reply' = [reply EXCEPT ![r] = a] /\ pc' = [pc EXCEPT ![r] = "save"]
    BY <1>1 DEF Respond, Goto
  <2> QED BY <1>1, <2>1, LayerKeeps DEF layer, LayerInv, Phase
<1>2. CASE ~Keyed(r)
  <2>1. reply' = [reply EXCEPT ![r] = NoAnswer] /\ pc' = [pc EXCEPT ![r] = "done"]
    BY <1>2 DEF Respond, Tell, Goto
  <2> QED BY <2>1, LayerKeeps DEF layer, LayerInv, Phase
<1> QED BY <1>1, <1>2

\* The steps of the middleware, and a handler that raises.
LEMMA MiddlewareKeeps ==
    ASSUME LayerInv, NEW r \in Request, Middleware(r) \/ HandlerRaises(r)
    PROVE  LayerInv'
<1>1. reply[r] \in Cacheable \cup {NoAnswer} /\ reply' \in {reply, [reply EXCEPT ![r] = NoAnswer]}
  BY DEF LayerInv, Middleware, TakeUp, AnswerFromRecord, GiveUp, Save, HandlerRaises, Fail, Tell
<1>2. PICK a \in Cacheable \cup {NoAnswer} : reply' = [reply EXCEPT ![r] = a]
  BY <1>1 DEF LayerInv
<1>3. CASE TakeUp(r)
  <2>1. /\ pc' = [pc EXCEPT ![r] = "enforce"]
        /\ record' = [record EXCEPT ![ScopeOf(r)] =
                        [status |-> "STARTED", payload |-> Body(r), response |-> None]]
        /\ worker' = [worker EXCEPT ![ScopeOf(r)] = r]
        /\ expired' = expired
    BY <1>3 DEF TakeUp, SetRecord, SetWorker, Goto
  <2>2. worker' \in [Scope -> Request \cup {None}]
    BY <2>1 DEF LayerInv
  <2> QED BY <1>2, <2>1, <2>2, LayerKeeps DEF Phase
<1>4. CASE Save(r)
  <2>1. /\ pc' = [pc EXCEPT ![r] = "done"]
        /\ record' = [record EXCEPT ![ScopeOf(r)] =
                        [status |-> "COMPLETED", payload |-> Body(r), response |-> reply[r]]]
        /\ worker' = [worker EXCEPT ![ScopeOf(r)] = None]
        /\ expired' = expired /\ pc[r] = "save"
    BY <1>4 DEF Save, SetRecord, SetWorker, Tell, Goto
  <2>2. worker' \in [Scope -> Request \cup {None}] /\ reply[r] \in Cacheable
    BY <2>1 DEF LayerInv, Answerable
  <2> QED BY <1>2, <2>1, <2>2, LayerKeeps DEF Phase
<1>5. CASE AnswerFromRecord(r) \/ GiveUp(r) \/ HandlerRaises(r)
  <2>1. /\ pc' = [pc EXCEPT ![r] = "done"]
        /\ record' = record /\ expired' = expired
        /\ worker' \in {worker, [worker EXCEPT ![ScopeOf(r)] = None]}
    BY <1>5
    DEF AnswerFromRecord, GiveUp, HandlerRaises, Fail, Tell, Goto, SetWorker, layer
  <2>2. worker' \in [Scope -> Request \cup {None}]
    BY <2>1 DEF LayerInv
  <2> QED BY <1>2, <2>1, <2>2, LayerKeeps DEF Phase
<1> QED BY <1>3, <1>4, <1>5 DEF Middleware

\* A lock or a record that runs out.
LEMMA ExpiryKeeps ==
    ASSUME LayerInv, NEW k \in Scope, LockExpires(k) \/ RecordExpires(k)
    PROVE  LayerInv'
<1>1. UNCHANGED <<pc, reply>>
  BY DEF LockExpires, RecordExpires
<1>2. Answerable'
  BY <1>1 DEF LayerInv, Answerable, Keyed
<1>3. Unused \in RecordType
  BY DEF Unused, RecordType
<1>4. CASE LockExpires(k)
  BY <1>1, <1>2, <1>4 DEF LockExpires, SetWorker, LayerInv, RecordsWellFormed
<1>5. CASE RecordExpires(k)
  BY <1>1, <1>2, <1>3, <1>5 DEF RecordExpires, SetRecord, Unused, LayerInv, RecordsWellFormed
<1> QED BY <1>4, <1>5

\* Every step keeps what Redis has well-formed.
LEMMA LayerStep == LayerInv /\ [Next]_vars => LayerInv'
<1> SUFFICES ASSUME LayerInv, [Next]_vars PROVE LayerInv'
  OBVIOUS
<1>1. ASSUME NEW r \in Request, Gate(r) \/ VerifyPasses(r) \/ Authorize(r) PROVE LayerInv'
  <2>1. PICK p \in {"done", "idem", "enforce", "create", "settle"} :
            /\ pc' = [pc EXCEPT ![r] = p]
            /\ p = "idem" => Keyed(r)
            /\ reply' \in {reply, [reply EXCEPT ![r] = NoAnswer]}
            /\ UNCHANGED layer
    BY <1>1 DEF Gate, GateFrozen, GateReadOnly, GateRampUp, GatePasses, TurnedAway, Tell, Goto,
                VerifyPasses, Authorize
  <2>2. PICK a \in Cacheable \cup {NoAnswer} : reply' = [reply EXCEPT ![r] = a]
    BY <2>1 DEF LayerInv
  <2> QED BY <2>1, <2>2, LayerKeeps DEF layer, LayerInv, Phase
<1>2. ASSUME NEW r \in Request,
             Intervene(r) \/ VerifyRefuses(r) \/ FindExisting(r) \/ SettlePayment(r)
      PROVE  LayerInv'
  <2>1. UNCHANGED layer
    BY <1>2 DEF Intervene, VerifyRefuses, FindExisting, SettlePayment
  <2>2. \E a \in Cacheable : Respond(r, a)
    <3>1. CASE Intervene(r) \/ VerifyRefuses(r)
      BY <3>1 DEF Intervene, VerifyRefuses, Cacheable
    <3>2. CASE FindExisting(r)
      BY <3>2, PaymentsCacheable DEF FindExisting
    <3>3. CASE SettlePayment(r)
      BY <3>3, PaymentsCacheable DEF SettlePayment
    <3> QED BY <1>2, <3>1, <3>2, <3>3
  <2> QED BY <2>1, <2>2, RespondKeeps
<1>3. CASE Restart
  <2>1. /\ pc' = [r \in Request |-> IF pc[r] \in {"unsent", "new"} THEN pc[r] ELSE "done"]
        /\ reply' = [r \in Request |-> NoAnswer]
        /\ UNCHANGED layer
    BY <1>3 DEF Restart
  <2>2. Answerable' /\ pc' \in [Request -> Phase]
    BY <2>1 DEF LayerInv, Answerable, Phase
  <2> QED BY <2>1, <2>2 DEF LayerInv, RecordsWellFormed, layer
<1>4. CASE UNCHANGED <<pc, layer, reply>>
  BY <1>4 DEF LayerInv, RecordsWellFormed, Answerable, Keyed, layer
<1>5. \/ \E r \in Request : Gate(r) \/ Step(r)
      \/ \E k \in Scope : LockExpires(k) \/ RecordExpires(k)
      \/ Restart \/ UNCHANGED <<pc, layer, reply>>
  BY DEF Next, Control, vars
<1> QED
  BY <1>1, <1>2, <1>3, <1>4, <1>5, MiddlewareKeeps, ExpiryKeeps DEF Step, Handler

\* Before the first request no key is used.
LEMMA LayerInit == Init => LayerInv
<1> SUFFICES ASSUME Init PROVE LayerInv
  OBVIOUS
<1>1. Unused \in RecordType
  BY DEF Unused, RecordType
<1> QED BY <1>1 DEF Init, LayerInv, RecordsWellFormed, Unused, Answerable, Phase

----------------------------------------------------------------------------
(* AnswersOwn.  The argument: an answer of success is about a payment with *)
(* the asker's key, and there is one of each key.  If that key is a header *)
(* the record in Redis, until it runs out, has the body of everyone who    *)
(* was taken up with it, two workers at a time included; if it is a tx_id  *)
(* RocksDB has had one hash for it.                                        *)

\* What an answer to a request with this key may tell.
Tells(a, key) ==
    a.detail = "SUCCESS" =>
        /\ a.payment \in Request
        /\ Paid(a.payment)
        /\ LedgerKey(a.payment) = key

\* The record of r's key belongs to r's body, unless it has run out.
BodyHeld(r) ==
    \/ ScopeOf(r) \in expired
    \/ /\ record[ScopeOf(r)].status # "ABSENT"
       /\ record[ScopeOf(r)].payload = Body(r)

PaidOnce ==
    \A p, q \in Request : Paid(p) /\ Paid(q) /\ LedgerKey(p) = LedgerKey(q) => p = q

PaidSent == \A p \in Request : Paid(p) => pc[p] # "unsent"

TellsTrue ==
    /\ \A r \in Request : Tells(answer[r], LedgerKey(r)) /\ Tells(reply[r], LedgerKey(r))
    /\ \A k \in Scope : record[k].status = "COMPLETED" => Tells(record[k].response, k[2])

BodiesHeld ==
    \A r \in Request :
        Keyed(r) /\ (pc[r] \in AtWork \/ Paid(r) \/ answer[r].detail = "SUCCESS") => BodyHeld(r)

HashesHeld ==
    \A r \in Request :
        ~Keyed(r) /\ answer[r].detail = "SUCCESS" => rocks[req[r].tx] = req[r].hash

AnswerInv ==
    /\ answer \in [Request -> Answer \cup {NoAnswer}]
    /\ PaidOnce
    /\ PaidSent
    /\ TellsTrue
    /\ BodiesHeld
    /\ HashesHeld

\* What a step of the request r has to keep to, and AnswerInv is kept.
LEMMA StepKeeps ==
    ASSUME LayerInv, AnswerInv, NEW r \in Request, NEW p \in Phase \ {"unsent"},
           pc' = [pc EXCEPT ![r] = p],
           \A q \in Request : Paid(q) => Paid(q)',
           \A q \in Request : Paid(q)' /\ ~Paid(q) =>
               /\ q = r /\ pc[r] \in AtWork
               /\ \A u \in Request : Paid(u) => LedgerKey(u) # LedgerKey(r),
           \A x \in TxId : rocks[x] # None => rocks'[x] = rocks[x],
           expired' = expired,
           \A k \in Scope \ expired : record[k].status # "ABSENT" =>
               record'[k].status # "ABSENT" /\ record'[k].payload = record[k].payload,
           \A k \in Scope : record'[k].status = "COMPLETED" =>
               \/ record'[k] = record[k]
               \/ record'[k].response = reply[r] /\ LedgerKey(r) = k[2],
           p \in AtWork /\ Keyed(r) => pc[r] \in AtWork \/ BodyHeld(r)',
           \A s \in Request : s # r => answer'[s] = answer[s] /\ reply'[s] = reply[s],
           answer' \in [Request -> Answer \cup {NoAnswer}],
           Tells(reply[r], LedgerKey(r))',
           Tells(answer[r], LedgerKey(r))',
           answer'[r].detail = "SUCCESS" =>
               \/ answer'[r] = answer[r]
               \/ Keyed(r) /\ BodyHeld(r)
               \/ ~Keyed(r) /\ rocks'[req[r].tx] = req[r].hash
    PROVE  AnswerInv'
<1>1. \A s \in Request : s # r => pc'[s] = pc[s]
  BY DEF LayerInv
<1>2. pc'[r] = p
  BY DEF LayerInv
<1>3. \A a, key : Tells(a, key) =>
          (a.detail = "SUCCESS" => /\ a.payment \in Request
                                   /\ Paid(a.payment)'
                                   /\ LedgerKey(a.payment) = key)
  BY DEF Tells
<1>4. \A s \in Request : Keyed(s) /\ BodyHeld(s) => BodyHeld(s)'
  BY ScopeOfKeyed DEF BodyHeld, ScopeOf, Body
<1>5. PaidOnce'
  BY DEF AnswerInv, PaidOnce, LedgerKey
<1>6. PaidSent'
  BY <1>1, <1>2 DEF AnswerInv, PaidSent, AtWork
<1>7. TellsTrue'
  <2>1. ASSUME NEW s \in Request
        PROVE  Tells(answer[s], LedgerKey(s))' /\ Tells(reply[s], LedgerKey(s))'
    <3>1. CASE s = r
      BY <3>1
    <3>2. CASE s # r
      BY <1>3, <3>2 DEF AnswerInv, TellsTrue, Tells, LedgerKey
    <3> QED BY <3>1, <3>2
  <2>2. ASSUME NEW k \in Scope, record'[k].status = "COMPLETED"
        PROVE  Tells(record[k].response, k[2])'
    <3>1. CASE record'[k] = record[k]
      BY <1>3, <2>2, <3>1 DEF AnswerInv, TellsTrue, Tells, LedgerKey
    <3>2. CASE record'[k].response = reply[r] /\ LedgerKey(r) = k[2]
      BY <1>3, <3>2 DEF AnswerInv, TellsTrue, Tells, LedgerKey
    <3> QED BY <2>2, <3>1, <3>2
  <2> QED BY <2>1, <2>2 DEF TellsTrue
<1>8. BodiesHeld'
  <2>1. ASSUME NEW s \in Request, Keyed(s),
               pc'[s] \in AtWork \/ Paid(s)' \/ answer'[s].detail = "SUCCESS"
        PROVE  BodyHeld(s)'
    <3>1. CASE s # r
      BY <1>1, <1>4, <2>1, <3>1 DEF AnswerInv, BodiesHeld
    <3>2. CASE s = r
      BY <1>2, <1>4, <2>1, <3>2 DEF AnswerInv, BodiesHeld
    <3> QED BY <3>1, <3>2
  <2> QED BY <2>1 DEF BodiesHeld, Keyed
<1>9. HashesHeld'
  BY RequestFacts, GatewayAssumption DEF AnswerInv, HashesHeld, Keyed
<1> QED BY <1>5, <1>6, <1>7, <1>8, <1>9 DEF AnswerInv

AllInv == HashInv /\ LayerInv /\ AnswerInv

\* A payment is made once and for all, by Authorize alone, and only when its
\* key has none.
LEMMA PaidMoves ==
    ASSUME HashInv, [Next]_vars
    PROVE  /\ \A q \in Request : Paid(q) => Paid(q)'
           /\ \A q \in Request : Paid(q)' /\ ~Paid(q) =>
                 /\ Authorize(q)
                 /\ pc' = [pc EXCEPT ![q] = "settle"] /\ pc[q] = "create"
                 /\ \A u \in Request : Paid(u) => LedgerKey(u) # LedgerKey(q)
<1>1. CASE log' = log
  BY <1>1 DEF Paid, Ledgers!Created
<1>2. ASSUME NEW r \in Request, NEW a \in {"INTENT_CREATED", "AUTH_APPROVED", "AUTH_FAILED"},
             log' = Append(log, <<r, a>>)
      PROVE  \A q \in Request : Paid(q)' <=> Paid(q) \/ (q = r /\ a = "INTENT_CREATED")
  <2>1. DOMAIN log = 1 .. Len(log) /\ DOMAIN log' = 1 .. Len(log) + 1 /\ Len(log) \in Nat
        /\ log'[Len(log) + 1] = <<r, a>>
        /\ \A i \in DOMAIN log : log'[i] = log[i]
    BY <1>2 DEF HashInv, LogType
  <2>2. ASSUME NEW q \in Request, Paid(q)' PROVE Paid(q) \/ (q = r /\ a = "INTENT_CREATED")
    <3>1. PICK i \in DOMAIN log' : log'[i] = <<q, "INTENT_CREATED">>
      BY <2>2 DEF Paid, Ledgers!Created
    <3>2. CASE i \in DOMAIN log
      BY <2>1, <3>1, <3>2 DEF Paid, Ledgers!Created
    <3>3. CASE i = Len(log) + 1
      BY <2>1, <3>1, <3>3
    <3> QED BY <2>1, <3>2, <3>3
  <2>3. ASSUME NEW q \in Request, Paid(q) PROVE Paid(q)'
    BY <2>1, <2>3 DEF Paid, Ledgers!Created
  <2>4. a = "INTENT_CREATED" => Paid(r)'
    BY <2>1 DEF Paid, Ledgers!Created
  <2> QED BY <2>2, <2>3, <2>4
<1>3. ASSUME NEW r \in Request, Authorize(r)
      PROVE  /\ log' = Append(log, <<r, "INTENT_CREATED">>)
             /\ pc' = [pc EXCEPT ![r] = "settle"] /\ pc[r] = "create"
             /\ \A u \in Request : Paid(u) => LedgerKey(u) # LedgerKey(r)
  BY <1>3 DEF Authorize, Ledgers!Create, Goto, Paid
<1>4. ASSUME NEW r \in Request, SettlePayment(r)
      PROVE  \E a \in {"AUTH_APPROVED", "AUTH_FAILED"} : log' = Append(log, <<r, a>>)
  BY <1>4 DEF SettlePayment, Ledgers!Settle
<1>5. log' = log \/ \E r \in Request : Authorize(r) \/ SettlePayment(r)
  BY Bystanders DEF VerifyPasses
<1> QED BY <1>1, <1>2, <1>3, <1>4, <1>5

\* A hash that RocksDB has stays.
LEMMA StoredHashesStay ==
    ASSUME HashInv, [Next]_vars
    PROVE  \A x \in TxId : rocks[x] # None => rocks'[x] = rocks[x]
<1>1. rocks' = rocks \/ \E r \in Request : VerifyPasses(r)
  BY Bystanders DEF Authorize, SettlePayment, core
<1> QED BY <1>1, HashesStay

\* Nothing but a payment makes a success.
LEMMA Refusals ==
    ASSUME NEW d \in Detail \cup {None}
    PROVE  /\ Refusal(d) \in Answer \cup {NoAnswer}
           /\ Refusal(d).detail # "SUCCESS"
BY GatewayAssumption DEF Refusal, Answer, NoAnswer, Detail

\* What is cached is an answer.
LEMMA CacheableAnswers == Cacheable \subseteq Answer
BY DEF Cacheable, Answer, Detail

\* A step of r that leaves the records alone.
LEMMA QuietKeeps ==
    ASSUME AllInv, [Next]_vars, NEW r \in Request, NEW p \in Phase \ {"unsent"},
           NEW a, NEW b,
           pc' = [pc EXCEPT ![r] = p],
           answer' = [answer EXCEPT ![r] = a],
           reply' = [reply EXCEPT ![r] = b],
           UNCHANGED <<record, expired>>,
           \A q \in Request : Authorize(q) => q = r,
           p \in AtWork /\ Keyed(r) => pc[r] \in AtWork,
           a \in Answer \cup {NoAnswer},
           a.detail = "SUCCESS" =>
               \/ a = answer[r]
               \/ Tells(a, LedgerKey(r)) /\ Keyed(r) /\ BodyHeld(r)
               \/ Tells(a, LedgerKey(r)) /\ ~Keyed(r) /\ rocks'[req[r].tx] = req[r].hash,
           b = reply[r] \/ Tells(b, LedgerKey(r))
    PROVE  AnswerInv'
<1>1. /\ answer'[r] = a /\ reply'[r] = b
      /\ \A s \in Request : s # r => answer'[s] = answer[s] /\ reply'[s] = reply[s]
      /\ answer' \in [Request -> Answer \cup {NoAnswer}]
  BY DEF AllInv, AnswerInv, LayerInv
<1>2. \A c : Tells(c, LedgerKey(r)) =>
          (c.detail = "SUCCESS" => /\ c.payment \in Request
                                   /\ Paid(c.payment)'
                                   /\ LedgerKey(c.payment) = LedgerKey(r))
  BY PaidMoves DEF AllInv, Tells
<1>3. Tells(answer[r], LedgerKey(r)) /\ Tells(reply[r], LedgerKey(r))
  BY DEF AllInv, AnswerInv, TellsTrue
<1>4. Tells(answer[r], LedgerKey(r))' /\ Tells(reply[r], LedgerKey(r))'
  BY <1>1, <1>2, <1>3 DEF Tells, LedgerKey
<1>5. \A q \in Request : Paid(q)' /\ ~Paid(q) =>
          /\ q = r /\ pc[r] \in AtWork
          /\ \A u \in Request : Paid(u) => LedgerKey(u) # LedgerKey(r)
  BY PaidMoves DEF AllInv, AtWork
<1> QED BY <1>1, <1>4, <1>5, PaidMoves, StoredHashesStay, StepKeeps DEF AllInv

\* The handler's answers: told of at once, or kept until they are saved.
LEMMA RespondTells ==
    ASSUME AllInv, [Next]_vars, NEW r \in Request, NEW a \in Answer \cup {NoAnswer},
           pc[r] \in AtWork, Respond(r, a), UNCHANGED <<record, expired>>,
           \A q \in Request : ~Authorize(q),
           Tells(a, LedgerKey(r)),
           a.detail = "SUCCESS" /\ ~Keyed(r) => rocks'[req[r].tx] = req[r].hash
    PROVE  AnswerInv'
<1>1. CASE Keyed(r)
  <2>1. /\ pc' = [pc EXCEPT ![r] = "save"]
        /\ answer' = [answer EXCEPT ![r] = answer[r]]
        /\ reply' = [reply EXCEPT ![r] = a]
    BY <1>1 DEF Respond, Goto, AllInv, AnswerInv
  <2> QED BY <2>1, QuietKeeps DEF AtWork, Phase, AllInv, AnswerInv
<1>2. CASE ~Keyed(r)
  <2>1. /\ pc' = [pc EXCEPT ![r] = "done"]
        /\ answer' = [answer EXCEPT ![r] = a]
        /\ reply' = [reply EXCEPT ![r] = NoAnswer]
    BY <1>2 DEF Respond, Tell, Goto
  <2>2. Tells(NoAnswer, LedgerKey(r))
    BY Refusals DEF Tells, NoAnswer
  <2> QED BY <1>2, <2>1, <2>2, QuietKeeps DEF AtWork, Phase
<1> QED BY <1>1, <1>2

\* A request is told of an error or a refusal.
LEMMA RefusalTells ==
    ASSUME AllInv, [Next]_vars, NEW r \in Request, NEW d \in Detail,
           Tell(r, Refusal(d)), UNCHANGED <<record, expired>>,
           \A q \in Request : ~Authorize(q)
    PROVE  AnswerInv'
<1>1. Tells(NoAnswer, LedgerKey(r)) /\ Refusal(d).detail # "SUCCESS"
      /\ Refusal(d) \in Answer \cup {NoAnswer}
  BY Refusals DEF Tells, NoAnswer
<1> QED BY <1>1, QuietKeeps DEF Tell, Goto, AtWork, Phase

\* A request moves on with nothing said.
LEMMA SilentMove ==
    ASSUME AllInv, [Next]_vars, NEW r \in Request, NEW p \in Phase \ {"unsent"},
           pc' = [pc EXCEPT ![r] = p], UNCHANGED <<answer, reply, record, expired>>,
           \A q \in Request : Authorize(q) => q = r,
           p \in AtWork /\ Keyed(r) => pc[r] \in AtWork
    PROVE  AnswerInv'
<1>1. answer' = [answer EXCEPT ![r] = answer[r]] /\ reply' = [reply EXCEPT ![r] = reply[r]]
  BY DEF AllInv, AnswerInv, LayerInv
<1>2. answer[r] \in Answer \cup {NoAnswer}
  BY DEF AllInv, AnswerInv
<1> QED BY <1>1, <1>2, QuietKeeps

\* A step that takes a request elsewhere is no Authorize.
LEMMA NotAuthorizing ==
    ASSUME AllInv, NEW r \in Request, NEW p, pc' = [pc EXCEPT ![r] = p],
           p # pc[r], p # "settle"
    PROVE  \A q \in Request : ~Authorize(q)
BY DEF Authorize, Goto, AllInv, HashInv

\* Taking a key up gives the record to the request's body, for good.
LEMMA TakeUpAnswers ==
    ASSUME AllInv, [Next]_vars, NEW r \in Request, TakeUp(r)
    PROVE  AnswerInv'
<1> DEFINE k0 == ScopeOf(r)
<1>1. k0 \in Scope /\ Keyed(r) /\ pc[r] = "idem"
  BY ScopeOfKeyed DEF TakeUp, AllInv, LayerInv, Answerable
<1>2. /\ record' = [record EXCEPT ![k0] = [status |-> "STARTED", payload |-> Body(r),
                                           response |-> None]]
      /\ pc' = [pc EXCEPT ![r] = "enforce"]
      /\ UNCHANGED <<expired, answer, reply, log>>
  BY DEF TakeUp, SetRecord, Goto
<1>3. record'[k0].status = "STARTED" /\ record'[k0].payload = Body(r)
      /\ \A k \in Scope : k # k0 => record'[k] = record[k]
  BY <1>1, <1>2 DEF AllInv, LayerInv
<1>4. record[k0].status # "ABSENT" => record[k0].payload = Body(r)
  BY DEF TakeUp, SamePayload
<1>5. BodyHeld(r)'
  BY <1>3 DEF BodyHeld, Body, ScopeOf
<1>6. \A q \in Request : Paid(q)' <=> Paid(q)
  BY <1>2 DEF Paid, Ledgers!Created
<1>7. Tells(answer[r], LedgerKey(r))' /\ Tells(reply[r], LedgerKey(r))'
  BY <1>2, <1>6 DEF Tells, LedgerKey, AllInv, AnswerInv, TellsTrue
<1>8. answer' \in [Request -> Answer \cup {NoAnswer}]
  BY <1>2 DEF AllInv, AnswerInv
<1> HIDE DEF k0
<1>9. \A k \in Scope \ expired : record[k].status # "ABSENT" =>
          record'[k].status # "ABSENT" /\ record'[k].payload = record[k].payload
  BY <1>3, <1>4
<1>10. \A k \in Scope : record'[k].status = "COMPLETED" => record'[k] = record[k]
  BY <1>3
<1> QED
  BY <1>2, <1>5, <1>6, <1>7, <1>8, <1>9, <1>10, StoredHashesStay, StepKeeps DEF AllInv, Phase

\* What is saved is what the request was told.
LEMMA SaveAnswers ==
    ASSUME AllInv, [Next]_vars, NEW r \in Request, Save(r)
    PROVE  AnswerInv'
<1> DEFINE k0 == ScopeOf(r)
<1>1. k0 \in Scope /\ Keyed(r) /\ pc[r] = "save" /\ reply[r] \in Cacheable
      /\ LedgerKey(r) = k0[2]
  BY ScopeOfKeyed, GatewayAssumption
  DEF Save, AllInv, LayerInv, Answerable, LedgerKey, ScopeOf, Keyed
<1>2. /\ record' = [record EXCEPT ![k0] = [status |-> "COMPLETED", payload |-> Body(r),
                                           response |-> reply[r]]]
      /\ pc' = [pc EXCEPT ![r] = "done"]
      /\ answer' = [answer EXCEPT ![r] = reply[r]]
      /\ reply' = [reply EXCEPT ![r] = NoAnswer]
      /\ UNCHANGED <<expired, log>>
  BY DEF Save, SetRecord, Goto, Tell
<1>3. /\ record'[k0].status = "COMPLETED" /\ record'[k0].payload = Body(r)
      /\ record'[k0].response = reply[r]
      /\ \A k \in Scope : k # k0 => record'[k] = record[k]
  BY <1>1, <1>2 DEF AllInv, LayerInv
<1>4. BodyHeld(r)
  BY <1>1 DEF AllInv, AnswerInv, BodiesHeld, AtWork
<1>5. \A q \in Request : Paid(q)' <=> Paid(q)
  BY <1>2 DEF Paid, Ledgers!Created
<1>6. /\ answer'[r] = reply[r] /\ reply'[r] = NoAnswer
      /\ \A s \in Request : s # r => answer'[s] = answer[s] /\ reply'[s] = reply[s]
      /\ answer' \in [Request -> Answer \cup {NoAnswer}]
  BY <1>1, <1>2, CacheableAnswers DEF AllInv, AnswerInv, LayerInv
<1>7. Tells(answer[r], LedgerKey(r))'
  BY <1>5, <1>6 DEF Tells, LedgerKey, AllInv, AnswerInv, TellsTrue
<1>8. Tells(reply[r], LedgerKey(r))'
  BY <1>6, Refusals DEF Tells, NoAnswer
<1>9. \A k \in Scope \ expired : record[k].status # "ABSENT" =>
          record'[k].status # "ABSENT" /\ record'[k].payload = record[k].payload
  BY <1>3, <1>4 DEF BodyHeld
<1> HIDE DEF k0
<1>10. \A k \in Scope : record'[k].status = "COMPLETED" =>
           \/ record'[k] = record[k]
           \/ record'[k].response = reply[r] /\ LedgerKey(r) = k[2]
  BY <1>1, <1>3
<1> QED
  BY <1>1, <1>2, <1>4, <1>5, <1>6, <1>7, <1>8, <1>9, <1>10, StoredHashesStay, StepKeeps
  DEF AllInv, Phase, AtWork

\* The gate refuses or lets pass.
LEMMA GateAnswers ==
    ASSUME AllInv, [Next]_vars, NEW r \in Request, Gate(r)
    PROVE  AnswerInv'
<1>1. CASE GatePasses(r)
  <2>1. PICK p \in {"idem", "enforce"} : pc' = [pc EXCEPT ![r] = p] /\ (p = "enforce" => ~Keyed(r))
    BY <1>1 DEF GatePasses, Goto
  <2>2. \A q \in Request : ~Authorize(q)
    BY <1>1, <2>1, NotAuthorizing DEF GatePasses
  <2> QED BY <1>1, <2>1, <2>2, SilentMove DEF GatePasses, layer, AtWork, Phase
<1>2. CASE ~GatePasses(r)
  <2>1. PICK d \in Detail : Tell(r, Refusal(d)) /\ UNCHANGED <<record, expired>> /\ pc[r] = "new"
    BY <1>2 DEF Gate, GateFrozen, GateReadOnly, GateRampUp, TurnedAway, Detail, layer
  <2>2. \A q \in Request : ~Authorize(q)
    BY <2>1, NotAuthorizing DEF Tell, Goto
  <2> QED BY <2>1, <2>2, RefusalTells
<1> QED BY <1>1, <1>2

\* The middleware answers from the record of the request's own body.
LEMMA MiddlewareAnswers ==
    ASSUME AllInv, [Next]_vars, NEW r \in Request, Middleware(r)
    PROVE  AnswerInv'
<1>1. CASE AnswerFromRecord(r) \/ GiveUp(r)
  <2>1. pc[r] = "idem" /\ pc' = [pc EXCEPT ![r] = "done"] /\ UNCHANGED <<record, expired>>
        /\ ScopeOf(r) \in Scope /\ Keyed(r)
    BY <1>1, ScopeOfKeyed
    DEF AnswerFromRecord, GiveUp, Tell, Goto, layer, AllInv, LayerInv, Answerable
  <2>2. \A q \in Request : ~Authorize(q)
    BY <2>1, NotAuthorizing
  <2>3. CASE Tell(r, Refusal("MISMATCH")) \/ Tell(r, Refusal("TIMEOUT"))
    BY <2>1, <2>2, <2>3, RefusalTells DEF Detail
  <2>4. CASE SamePayload(r) /\ IsCompleted(ScopeOf(r)) /\ Tell(r, record[ScopeOf(r)].response)
    <3> DEFINE a == record[ScopeOf(r)].response
    <3>1. record[ScopeOf(r)].status = "COMPLETED"
      BY <2>4 DEF IsCompleted
    <3>2. a \in Answer \cup {NoAnswer}
      BY <2>1, <3>1, CacheableAnswers DEF AllInv, LayerInv, RecordsWellFormed
    <3>3. LedgerKey(r) = ScopeOf(r)[2]
      BY <2>1, GatewayAssumption DEF LedgerKey, ScopeOf, Keyed
    <3>4. Tells(a, LedgerKey(r))
      BY <2>1, <3>1, <3>3 DEF AllInv, AnswerInv, TellsTrue
    <3>5. BodyHeld(r)
      BY <2>4, <3>1 DEF SamePayload, BodyHeld
    <3>6. Tells(NoAnswer, LedgerKey(r))
      BY Refusals DEF Tells, NoAnswer
    <3>7. answer' = [answer EXCEPT ![r] = a] /\ reply' = [reply EXCEPT ![r] = NoAnswer]
      BY <2>4 DEF Tell
    <3> HIDE DEF a
    <3> QED
      BY <2>1, <2>2, <3>2, <3>4, <3>5, <3>6, <3>7, QuietKeeps DEF AtWork, Phase
  <2> QED BY <1>1, <2>3, <2>4 DEF AnswerFromRecord, GiveUp
<1> QED BY <1>1, TakeUpAnswers, SaveAnswers DEF Middleware

\* The handler answers with the payment that has the request's key.
LEMMA HandlerAnswers ==
    ASSUME AllInv, [Next]_vars, NEW r \in Request, Handler(r)
    PROVE  AnswerInv'
<1>1. CASE VerifyPasses(r) \/ Authorize(r)
  <2>1. PICK p \in {"create", "settle"} : pc' = [pc EXCEPT ![r] = p] /\ pc[r] \in AtWork
                                          /\ pc[r] # p /\ UNCHANGED <<answer, reply, record, expired>>
    BY <1>1 DEF VerifyPasses, Authorize, Goto, AtWork, layer
  <2>2. \A q \in Request : Authorize(q) => q = r
    BY <2>1 DEF Authorize, Goto, AllInv, HashInv
  <2> QED BY <2>1, <2>2, SilentMove DEF Phase
<1>2. CASE HandlerRaises(r)
  <2>1. Tell(r, Refusal("ERROR")) /\ UNCHANGED <<record, expired>> /\ pc[r] \in AtWork \ {"done"}
    BY <1>2 DEF HandlerRaises, Fail, AtWork
  <2>2. \A q \in Request : ~Authorize(q)
    BY <2>1, NotAuthorizing DEF Tell, Goto
  <2> QED BY <2>1, <2>2, RefusalTells DEF Detail
<1>3. CASE Intervene(r) \/ VerifyRefuses(r) \/ FindExisting(r) \/ SettlePayment(r)
  <2>1. UNCHANGED <<record, expired>> /\ pc[r] \in {"enforce", "create", "settle"}
    BY <1>3 DEF Intervene, VerifyRefuses, FindExisting, SettlePayment, layer
  <2>2. PICK p \in {"save", "done"} : pc' = [pc EXCEPT ![r] = p]
    BY <1>3 DEF Intervene, VerifyRefuses, FindExisting, SettlePayment, Respond, Tell, Goto
  <2>3. \A q \in Request : ~Authorize(q)
    BY <2>1, <2>2, NotAuthorizing
  <2>4. CASE Intervene(r) \/ VerifyRefuses(r)
    <3>1. PICK d \in Detail : Respond(r, Refusal(d))
      BY <2>4 DEF Intervene, VerifyRefuses, Detail
    <3>2. Tells(Refusal(d), LedgerKey(r)) /\ Refusal(d).detail # "SUCCESS"
          /\ Refusal(d) \in Answer \cup {NoAnswer}
      BY Refusals DEF Tells
    <3> QED BY <2>1, <2>3, <3>1, <3>2, RespondTells DEF AtWork
  <2>5. CASE FindExisting(r) \/ SettlePayment(r)
    <3>1. pc[r] \in Verified /\ rocks' = rocks
      BY <2>5 DEF FindExisting, SettlePayment, Verified, core
    <3>2. rocks'[req[r].tx] = req[r].hash
      BY <3>1 DEF AllInv, HashInv, HashStored
    <3>3. PICK q \in Request, st \in {"AUTHORIZING", "AUTHORIZED", "FAILED"} :
              Paid(q) /\ LedgerKey(q) = LedgerKey(r) /\ Respond(r, Success(q, st))
      <4>1. CASE FindExisting(r)
        <5>1. PICK q \in Request : Ledgers!Created(q) /\ LedgerKey(q) = LedgerKey(r)
                                   /\ Respond(r, Success(q, StatusOf(q)))
          BY <4>1 DEF FindExisting
        <5>2. StatusOf(q) \in {"AUTHORIZING", "AUTHORIZED", "FAILED"}
          BY DEF StatusOf
        <5> QED BY <5>1, <5>2 DEF Paid
      <4>2. CASE SettlePayment(r)
        BY <4>2 DEF SettlePayment, Ledgers!Settle, Paid
      <4> QED BY <2>5, <4>1, <4>2
    <3>4. Success(q, st) \in Answer \cup {NoAnswer}
      BY DEF Answer
    <3>5. Tells(Success(q, st), LedgerKey(r))
      BY <3>3 DEF Tells, Success
    <3> QED BY <2>1, <2>3, <3>2, <3>3, <3>4, <3>5, RespondTells DEF AtWork
  <2> QED BY <1>3, <2>4, <2>5
<1> QED BY <1>1, <1>2, <1>3 DEF Handler

\* Every step keeps the answers true, a restart too.
LEMMA AnswerStep == AllInv /\ [Next]_vars => AnswerInv'
<1> SUFFICES ASSUME AllInv, [Next]_vars PROVE AnswerInv'
  OBVIOUS
<1>1. CASE Restart
  <2>1. /\ UNCHANGED <<layer, rocks, log, answer>>
        /\ reply' = [r \in Request |-> NoAnswer]
        /\ \A r \in Request : pc'[r] = IF pc[r] \in {"unsent", "new"} THEN pc[r] ELSE "done"
    BY <1>1 DEF Restart
  <2>2. \A q \in Request : Paid(q)' <=> Paid(q)
    BY <2>1 DEF Paid, Ledgers!Created
  <2>3. PaidOnce' /\ PaidSent'
    BY <2>1, <2>2 DEF AllInv, AnswerInv, PaidOnce, PaidSent, LedgerKey
  <2>4. TellsTrue'
    <3>1. \A a, key : Tells(a, key) =>
              (a.detail = "SUCCESS" => /\ a.payment \in Request
                                       /\ Paid(a.payment)'
                                       /\ LedgerKey(a.payment) = key)
      BY <2>2 DEF Tells
    <3>2. \A r \in Request : reply'[r].detail # "SUCCESS"
      BY <2>1, Refusals DEF NoAnswer
    <3> QED BY <2>1, <3>1, <3>2 DEF AllInv, AnswerInv, TellsTrue, Tells, LedgerKey, layer
  <2>5. BodiesHeld' /\ HashesHeld'
    BY <2>1, <2>2
    DEF AllInv, AnswerInv, BodiesHeld, HashesHeld, BodyHeld, AtWork, layer, Keyed, ScopeOf, Body
  <2> QED BY <2>1, <2>3, <2>4, <2>5 DEF AllInv, AnswerInv
<1>2. CASE UNCHANGED <<pc, record, expired, rocks, log, reply, answer>>
  <2>1. \A q \in Request : Paid(q)' <=> Paid(q)
    BY <1>2 DEF Paid, Ledgers!Created
  <2>2. PaidOnce' /\ PaidSent'
    BY <1>2, <2>1 DEF AllInv, AnswerInv, PaidOnce, PaidSent, LedgerKey
  <2>3. TellsTrue'
    BY <1>2, <2>1 DEF AllInv, AnswerInv, TellsTrue, Tells, LedgerKey
  <2>4. \A r \in Request : BodyHeld(r) => BodyHeld(r)'
    BY <1>2 DEF BodyHeld, ScopeOf, Body
  <2>5. BodiesHeld'
    BY <1>2, <2>1, <2>4 DEF AllInv, AnswerInv, BodiesHeld, AtWork, Keyed
  <2>6. HashesHeld'
    BY <1>2 DEF AllInv, AnswerInv, HashesHeld, Keyed
  <2> QED BY <1>2, <2>2, <2>3, <2>5, <2>6 DEF AllInv, AnswerInv
<1>3. ASSUME NEW k \in Scope, RecordExpires(k) PROVE AnswerInv'
  <2>1. /\ UNCHANGED <<pc, rocks, log, answer, reply>>
        /\ record' = [record EXCEPT ![k] = Unused]
        /\ expired' = expired \cup {k}
    BY <1>3 DEF RecordExpires, SetRecord, core
  <2>2. \A q \in Request : Paid(q)' <=> Paid(q)
    BY <2>1 DEF Paid, Ledgers!Created
  <2>3. record'[k].status = "ABSENT" /\ \A j \in Scope : j # k => record'[j] = record[j]
    BY <2>1 DEF AllInv, LayerInv, Unused
  <2>4. PaidOnce' /\ PaidSent' /\ HashesHeld'
    BY <2>1, <2>2
    DEF AllInv, AnswerInv, PaidOnce, PaidSent, HashesHeld, LedgerKey, Keyed
  <2>5. TellsTrue'
    BY <2>1, <2>2, <2>3 DEF AllInv, AnswerInv, TellsTrue, Tells, LedgerKey
  <2>6. \A r \in Request : Keyed(r) /\ BodyHeld(r) => BodyHeld(r)'
    BY <2>1, <2>3, ScopeOfKeyed DEF BodyHeld, ScopeOf, Body
  <2>7. BodiesHeld'
    BY <2>1, <2>2, <2>6 DEF AllInv, AnswerInv, BodiesHeld, AtWork, Keyed
  <2> QED BY <2>1, <2>4, <2>5, <2>7 DEF AllInv, AnswerInv
<1>4. (\E r \in Request : Gate(r) \/ Step(r)) \/ Restart
      \/ (\E k \in Scope : RecordExpires(k))
      \/ UNCHANGED <<pc, record, expired, rocks, log, reply, answer>>
  BY DEF Next, Control, LockExpires, RecordExpires, vars, layer, core
<1> QED BY <1>1, <1>2, <1>3, <1>4, GateAnswers, MiddlewareAnswers, HandlerAnswers DEF Step

\* All of it holds from the start and is kept by every step.
LEMMA GatewayInvariant == Spec => []AllInv
<1>1. Init => AllInv
  <2> SUFFICES ASSUME Init PROVE AllInv
    OBVIOUS
  <2>1. HashInv
    BY HashInit
  <2>2. LayerInv
    BY LayerInit
  <2>3. AnswerInv
    <3>1. \A r \in Request : answer[r].detail # "SUCCESS" /\ reply[r].detail # "SUCCESS"
      BY Refusals DEF Init, NoAnswer
    <3>2. \A r \in Request : ~Paid(r)
      BY DEF Init, Paid, Ledgers!Created
    <3> QED BY <3>1, <3>2
      DEF Init, Unused, AnswerInv, PaidOnce, PaidSent, TellsTrue, Tells, BodiesHeld, HashesHeld,
          AtWork
  <2> QED BY <2>1, <2>2, <2>3 DEF AllInv
<1> QED BY <1>1, HashStep, LayerStep, AnswerStep, PTL DEF Spec, AllInv

\* A client with a key of its own that is told of a payment is told of its
\* own, of this very body, and everyone with the key of the same one, whatever
\* duplicates, locks and records that run out, failures and restarts
\* (gateway.py:145-193, idempotency.py:56-151, transaction.py:21-52).
THEOREM AnswersOwnHolds == Spec => []AnswersOwn
<1>1. AllInv => AnswersOwn
  <2> SUFFICES ASSUME AllInv, NEW r \in Request, answer[r].detail = "SUCCESS", OwnsKey(r)
               PROVE  /\ Paid(answer[r].payment)
                      /\ req[answer[r].payment].client = req[r].client
                      /\ Body(answer[r].payment) = Body(r)
                      /\ \A s \in Request :
                            answer[s].detail = "SUCCESS" /\ LedgerKey(s) = LedgerKey(r)
                                => answer[s].payment = answer[r].payment
    BY DEF AnswersOwn
  <2> DEFINE p == answer[r].payment
  <2>1. p \in Request /\ Paid(p) /\ LedgerKey(p) = LedgerKey(r)
    BY DEF AllInv, AnswerInv, TellsTrue, Tells
  <2>2. \A s \in Request : answer[s].detail = "SUCCESS" /\ LedgerKey(s) = LedgerKey(r)
            => answer[s].payment = p
    BY <2>1 DEF AllInv, AnswerInv, TellsTrue, Tells, PaidOnce
  <2> HIDE DEF p
  <2>3. req[p].client = req[r].client /\ req[p].header = req[r].header
        /\ (~Keyed(r) /\ req[p].hash = req[r].hash => Body(p) = Body(r))
    BY <2>1 DEF AllInv, AnswerInv, PaidSent, OwnsKey
  <2>4. CASE Keyed(r)
    <3>1. Keyed(p) /\ ScopeOf(p) = ScopeOf(r)
      BY <2>3, <2>4 DEF Keyed, ScopeOf
    <3>2. BodyHeld(p) /\ BodyHeld(r)
      BY <2>1, <2>4, <3>1 DEF AllInv, AnswerInv, BodiesHeld
    <3>3. Body(p) = Body(r)
      BY <2>1, <3>1, <3>2 DEF BodyHeld, AllInv, AnswerInv, PaidSent, OwnsKey
    <3> QED BY <2>1, <2>2, <2>3, <3>3 DEF p
  <2>5. CASE ~Keyed(r)
    <3>1. req[r].header = NoHeader
      BY <2>5, RequestFacts DEF Keyed, OwnsKey
    <3>2. req[p].tx = req[r].tx
      BY <2>1, <2>3, <3>1 DEF LedgerKey
    <3>3. rocks[req[p].tx] = req[p].hash
      BY <2>1 DEF AllInv, HashInv, PaidHashesHold
    <3>4. rocks[req[r].tx] = req[r].hash
      BY <2>5 DEF AllInv, AnswerInv, HashesHeld
    <3>5. Body(p) = Body(r)
      BY <2>3, <2>5, <3>2, <3>3, <3>4
    <3> QED BY <2>1, <2>2, <2>3, <3>5 DEF p
  <2> QED BY <2>4, <2>5
<1> QED BY <1>1, GatewayInvariant, PTL

----------------------------------------------------------------------------
(* StatusesStand.  The argument: how a payment ended is settled once, so a *)
(* final status that was told or saved stays true; and a request that is   *)
(* not past authorize_transfer's first transaction has made no payment, so *)
(* AUTHORIZING is told to others only.                                     *)

Unpaying == {"unsent", "new", "idem", "enforce", "create"}

Final == {"AUTHORIZED", "FAILED"}

\* A status that is final is the ledger's.
StatusTrue(a) ==
    a.detail = "SUCCESS" =>
        a.status = "AUTHORIZING" \/ (a.status \in Final /\ a.status = StatusOf(a.payment))

\* ... and whoever made the payment is told a final one.
Stands(a, r) ==
    StatusTrue(a) /\ (a.detail = "SUCCESS" /\ a.payment = r => a.status \in Final)

StatusInv ==
    /\ \A r \in Request : pc[r] \in Unpaying => ~Paid(r)
    /\ \A r \in Request : Stands(answer[r], r) /\ Stands(reply[r], r)
    /\ \A k \in Scope : record[k].status = "COMPLETED" => StatusTrue(record[k].response)

\* A payment that is settled is settled for good.
LEMMA FinalStays ==
    ASSUME HashInv, [Next]_vars, NEW p \in Request, StatusOf(p) \in Final
    PROVE  StatusOf(p)' = StatusOf(p)
<1> DEFINE Has(a) == <<p, a>> \in {log[i] : i \in DOMAIN log}
<1>1. Has("AUTH_APPROVED") \/ Has("AUTH_FAILED")
  BY DEF StatusOf, Final
<1>2. Ledgers!Settled(p)
  BY <1>1 DEF Ledgers!Settled
<1>3. log' = log \/ \E r \in Request : Authorize(r) \/ SettlePayment(r)
  BY Bystanders DEF VerifyPasses
<1>4. log' = log \/ \E r \in Request, a \in {"INTENT_CREATED", "AUTH_APPROVED", "AUTH_FAILED"} :
          log' = Append(log, <<r, a>>) /\ (a # "INTENT_CREATED" => r # p)
  BY <1>2, <1>3 DEF Authorize, SettlePayment, Ledgers!Create, Ledgers!Settle
<1>5. ASSUME NEW r \in Request, NEW a \in {"INTENT_CREATED", "AUTH_APPROVED", "AUTH_FAILED"},
             log' = Append(log, <<r, a>>), a # "INTENT_CREATED" => r # p,
             NEW b \in {"AUTH_APPROVED", "AUTH_FAILED"}
      PROVE  Has(b)' <=> Has(b)
  <2>1. DOMAIN log = 1 .. Len(log) /\ DOMAIN log' = 1 .. Len(log) + 1 /\ Len(log) \in Nat
        /\ log'[Len(log) + 1] = <<r, a>>
        /\ \A i \in DOMAIN log : log'[i] = log[i]
    BY <1>5 DEF HashInv, LogType
  <2>2. <<p, b>> # <<r, a>>
    BY <1>5
  <2>3. ASSUME Has(b)' PROVE Has(b)
    <3>1. PICK i \in DOMAIN log' : log'[i] = <<p, b>>
      BY <2>3
    <3>2. i \in DOMAIN log
      BY <2>1, <2>2, <3>1
    <3> QED BY <2>1, <3>1, <3>2
  <2>4. ASSUME Has(b) PROVE Has(b)'
    <3>1. PICK i \in DOMAIN log : log[i] = <<p, b>>
      BY <2>4
    <3>2. i \in DOMAIN log' /\ log'[i] = <<p, b>>
      BY <2>1, <3>1
    <3> QED BY <3>2
  <2> QED BY <2>3, <2>4
<1>6. \A b \in {"AUTH_APPROVED", "AUTH_FAILED"} : Has(b)' <=> Has(b)
  BY <1>4, <1>5
<1>7. (Has("AUTH_APPROVED")' <=> Has("AUTH_APPROVED")) /\ (Has("AUTH_FAILED")' <=> Has("AUTH_FAILED"))
  BY <1>6
<1> QED BY <1>7 DEF StatusOf

\* What was told, or is kept to be told, stays true.
LEMMA TruthStays ==
    ASSUME AllInv, StatusInv, [Next]_vars
    PROVE  /\ \A r \in Request : Stands(answer[r], r) => \A a : a = answer[r] => Stands(a, r)'
           /\ \A r \in Request : Stands(reply[r], r) => \A a : a = reply[r] => Stands(a, r)'
           /\ \A k \in Scope : record[k].status = "COMPLETED" =>
                 \A a : a = record[k].response => StatusTrue(a)'
           /\ \A r \in Request : \A a : a = reply[r] => StatusTrue(a)'
<1>1. \A a, key : StatusTrue(a) /\ Tells(a, key) => StatusTrue(a)'
  <2> SUFFICES ASSUME NEW a, NEW key, StatusTrue(a), Tells(a, key), a.detail = "SUCCESS",
                      a.status # "AUTHORIZING"
               PROVE  a.status \in Final /\ a.status = StatusOf(a.payment)'
    BY DEF StatusTrue
  <2>1. a.payment \in Request /\ a.status \in Final /\ a.status = StatusOf(a.payment)
    BY DEF StatusTrue, Tells
  <2> QED BY <2>1, FinalStays DEF AllInv
<1>2. \A a, key, r : Stands(a, r) /\ Tells(a, key) => Stands(a, r)'
  BY <1>1 DEF Stands
<1>3. \A r \in Request : Tells(answer[r], LedgerKey(r)) /\ Tells(reply[r], LedgerKey(r))
  BY DEF AllInv, AnswerInv, TellsTrue
<1>4. \A k \in Scope : record[k].status = "COMPLETED" =>
          Tells(record[k].response, k[2]) /\ StatusTrue(record[k].response)
  BY DEF AllInv, AnswerInv, TellsTrue, StatusInv
<1>5. \A r \in Request : StatusTrue(reply[r])
  BY DEF StatusInv, Stands
<1> QED BY <1>1, <1>2, <1>3, <1>4, <1>5

\* What a step of the request r has to keep to, and StatusInv is kept.
LEMMA StatusKeeps ==
    ASSUME AllInv, StatusInv, [Next]_vars, NEW r \in Request, NEW p \in Phase, NEW a, NEW b,
           pc' = [pc EXCEPT ![r] = p],
           answer' = [answer EXCEPT ![r] = a],
           reply' = [reply EXCEPT ![r] = b],
           p \in Unpaying => pc[r] \in Unpaying,
           a \in {answer[r], reply[r]} \/ Stands(a, r)',
           b \in {reply[r], NoAnswer} \/ Stands(b, r)',
           \A k \in Scope : record'[k].status = "COMPLETED" =>
               record'[k] = record[k] \/ record'[k].response = reply[r]
    PROVE  StatusInv'
<1>1. /\ pc'[r] = p /\ answer'[r] = a /\ reply'[r] = b
      /\ \A s \in Request : s # r => /\ pc'[s] = pc[s]
                                    /\ answer'[s] = answer[s]
                                    /\ reply'[s] = reply[s]
  BY DEF AllInv, AnswerInv, LayerInv
<1>2. ASSUME NEW s \in Request, pc'[s] \in Unpaying PROVE ~Paid(s)'
  <2>1. ~Paid(s)
    BY <1>1, <1>2 DEF StatusInv
  <2>2. Paid(s)' => pc'[s] = "settle"
    BY <2>1, PaidMoves DEF AllInv, LayerInv
  <2> QED BY <1>2, <2>2 DEF Unpaying
<1>3. Stands(NoAnswer, r)'
  BY Refusals DEF Stands, StatusTrue, NoAnswer
<1>4. Stands(a, r)' /\ Stands(b, r)'
  BY <1>3, TruthStays DEF StatusInv
<1>5. ASSUME NEW s \in Request PROVE Stands(answer[s], s)' /\ Stands(reply[s], s)'
  <2>1. CASE s = r
    BY <1>1, <1>4, <2>1 DEF Stands, StatusTrue
  <2>2. CASE s # r
    BY <1>1, <2>2, TruthStays DEF StatusInv, Stands, StatusTrue
  <2> QED BY <2>1, <2>2
<1>6. ASSUME NEW k \in Scope, record'[k].status = "COMPLETED"
      PROVE  StatusTrue(record[k].response)'
  BY <1>6, TruthStays DEF StatusTrue
<1> QED BY <1>2, <1>5, <1>6 DEF StatusInv

\* The bank's answer that is told is the one that was committed.
LEMMA SettledIsTold ==
    ASSUME HashInv, NEW r \in Request, SettlePayment(r)
    PROVE  \E st \in Final :
              Respond(r, Success(r, st)) /\ \A a : a = Success(r, st) => Stands(a, r)'
<1>1. PICK act \in {"AUTH_APPROVED", "AUTH_FAILED"} :
          log' = Append(log, <<r, act>>) /\ ~Ledgers!Settled(r)
  BY DEF SettlePayment, Ledgers!Settle
<1>2. /\ DOMAIN log = 1 .. Len(log) /\ DOMAIN log' = 1 .. Len(log) + 1 /\ Len(log) \in Nat
      /\ Len(log') = Len(log) + 1
      /\ log'[Len(log) + 1] = <<r, act>>
      /\ \A i \in DOMAIN log : log'[i] = log[i]
  BY <1>1 DEF HashInv, LogType
<1>3. \A b \in {"AUTH_APPROVED", "AUTH_FAILED"} :
          <<r, b>> \in {log'[i] : i \in DOMAIN log'} <=> b = act
  <2>1. <<r, act>> \in {log'[i] : i \in DOMAIN log'}
    BY <1>2
  <2>2. ASSUME NEW b \in {"AUTH_APPROVED", "AUTH_FAILED"}, NEW i \in DOMAIN log',
               log'[i] = <<r, b>>, b # act
        PROVE  FALSE
    <3>1. i \in DOMAIN log
      BY <1>2, <2>2
    <3> QED BY <1>1, <1>2, <2>2, <3>1 DEF Ledgers!Settled
  <2> QED BY <2>1, <2>2
<1> DEFINE st == IF act = "AUTH_APPROVED" THEN "AUTHORIZED" ELSE "FAILED"
<1>4. StatusOf(r)' = st
  BY <1>3 DEF StatusOf
<1>5. log'[Len(log')][2] = act
  BY <1>2
<1>6. Respond(r, Success(r, st))
  BY <1>5 DEF SettlePayment
<1>7. st \in Final
  BY DEF Final
<1> HIDE DEF st
<1> QED BY <1>4, <1>6, <1>7 DEF Stands, StatusTrue, Success

\* The handler's answer stands, and so it does when it is told later.
LEMMA RespondStands ==
    ASSUME AllInv, StatusInv, [Next]_vars, NEW r \in Request, NEW a,
           Respond(r, a), Stands(a, r)', record' = record
    PROVE  StatusInv'
<1>1. CASE Keyed(r)
  <2>1. /\ pc' = [pc EXCEPT ![r] = "save"]
        /\ answer' = [answer EXCEPT ![r] = answer[r]]
        /\ reply' = [reply EXCEPT ![r] = a]
    BY <1>1 DEF Respond, Goto, AllInv, AnswerInv
  <2> QED BY <2>1, StatusKeeps DEF Phase, Unpaying
<1>2. CASE ~Keyed(r)
  <2>1. /\ pc' = [pc EXCEPT ![r] = "done"]
        /\ answer' = [answer EXCEPT ![r] = a]
        /\ reply' = [reply EXCEPT ![r] = NoAnswer]
    BY <1>2 DEF Respond, Tell, Goto
  <2> QED BY <2>1, StatusKeeps DEF Phase, Unpaying
<1> QED BY <1>1, <1>2

\* A refusal or an error says nothing of a payment.
LEMMA RefusalStands ==
    ASSUME NEW r \in Request, NEW d \in Detail
    PROVE  \A a : a = Refusal(d) => Stands(a, r)'
BY Refusals DEF Stands, StatusTrue

\* Every step keeps what was told and what is saved true.
LEMMA StatusStep == AllInv /\ StatusInv /\ [Next]_vars => StatusInv'
<1> SUFFICES ASSUME AllInv, StatusInv, [Next]_vars PROVE StatusInv'
  OBVIOUS
<1>1. ASSUME NEW r \in Request, NEW d \in Detail, Tell(r, Refusal(d)), record' = record
      PROVE  StatusInv'
  BY <1>1, RefusalStands, StatusKeeps DEF Tell, Goto, Phase, Unpaying
<1>2. ASSUME NEW r \in Request, NEW p \in Phase, pc' = [pc EXCEPT ![r] = p],
             p \in Unpaying => pc[r] \in Unpaying,
             UNCHANGED <<answer, reply>>,
             \A k \in Scope : record'[k].status = "COMPLETED" => record'[k] = record[k]
      PROVE  StatusInv'
  <2>1. answer' = [answer EXCEPT ![r] = answer[r]] /\ reply' = [reply EXCEPT ![r] = reply[r]]
    BY <1>2 DEF AllInv, AnswerInv, LayerInv
  <2>2. \A k \in Scope : record'[k].status = "COMPLETED" =>
            record'[k] = record[k] \/ record'[k].response = reply[r]
    BY <1>2
  <2> DEFINE a == answer[r]
             b == reply[r]
  <2>3. a \in {answer[r], reply[r]} /\ b \in {reply[r], NoAnswer}
    OBVIOUS
  <2>4. answer' = [answer EXCEPT ![r] = a] /\ reply' = [reply EXCEPT ![r] = b]
    BY <2>1
  <2> HIDE DEF a, b
  <2> QED BY <1>2, <2>2, <2>3, <2>4, StatusKeeps
<1>3. ASSUME NEW r \in Request, Gate(r) PROVE StatusInv'
  <2>1. CASE GatePasses(r)
    <3>1. PICK p \in {"idem", "enforce"} : pc' = [pc EXCEPT ![r] = p] /\ pc[r] = "new"
      BY <2>1 DEF GatePasses, Goto
    <3> QED BY <1>2, <2>1, <3>1 DEF GatePasses, layer, Phase, Unpaying
  <2>2. CASE ~GatePasses(r)
    <3>1. PICK d \in Detail : Tell(r, Refusal(d)) /\ record' = record
      BY <1>3, <2>2
      DEF Gate, GateFrozen, GateReadOnly, GateRampUp, TurnedAway, Detail, layer
    <3> QED BY <1>1, <3>1
  <2> QED BY <2>1, <2>2
<1>4. ASSUME NEW r \in Request, TakeUp(r) PROVE StatusInv'
  <2>1. /\ pc' = [pc EXCEPT ![r] = "enforce"] /\ pc[r] = "idem" /\ UNCHANGED <<answer, reply>>
        /\ record' = [record EXCEPT ![ScopeOf(r)] =
                        [status |-> "STARTED", payload |-> Body(r), response |-> None]]
    BY <1>4 DEF TakeUp, SetRecord, Goto
  <2>2. \A k \in Scope : record'[k].status = "COMPLETED" => record'[k] = record[k]
    BY <2>1 DEF AllInv, LayerInv
  <2> QED BY <1>2, <2>1, <2>2 DEF Phase, Unpaying
<1>5. ASSUME NEW r \in Request, AnswerFromRecord(r) \/ GiveUp(r) PROVE StatusInv'
  <2>1. CASE Tell(r, Refusal("MISMATCH")) \/ Tell(r, Refusal("TIMEOUT"))
    BY <1>1, <1>5, <2>1 DEF AnswerFromRecord, GiveUp, Detail, layer
  <2>2. CASE IsCompleted(ScopeOf(r)) /\ Tell(r, record[ScopeOf(r)].response)
             /\ AnswerFromRecord(r)
    <3> DEFINE a == record[ScopeOf(r)].response
    <3>1. ScopeOf(r) \in Scope /\ record[ScopeOf(r)].status = "COMPLETED"
          /\ pc[r] = "idem" /\ record' = record
      BY <2>2, ScopeOfKeyed
      DEF IsCompleted, AnswerFromRecord, AllInv, LayerInv, Answerable
    <3>2. StatusTrue(a)'
      BY <3>1, TruthStays DEF StatusTrue
    <3>3. Tells(a, ScopeOf(r)[2]) /\ ~Paid(r)
      BY <3>1 DEF AllInv, AnswerInv, TellsTrue, StatusInv, Unpaying
    <3>4. Stands(a, r)'
      BY <3>1, <3>2, <3>3 DEF Stands, StatusTrue, Tells
    <3>5. /\ pc' = [pc EXCEPT ![r] = "done"]
          /\ answer' = [answer EXCEPT ![r] = a]
          /\ reply' = [reply EXCEPT ![r] = NoAnswer]
      BY <2>2 DEF Tell, Goto
    <3>6. \A b : b = a => Stands(b, r)'
      BY <3>1, <3>4 DEF Stands, StatusTrue
    <3>7. \A k \in Scope : record'[k] = record[k]
      BY <3>1
    <3>8. "done" \in Phase /\ "done" \notin Unpaying
      BY DEF Phase, Unpaying
    <3> HIDE DEF a
    <3> QED BY <3>5, <3>6, <3>7, <3>8, StatusKeeps
  <2> QED BY <1>5, <2>1, <2>2 DEF AnswerFromRecord, GiveUp
<1>6. ASSUME NEW r \in Request, Save(r) PROVE StatusInv'
  <2>1. /\ pc' = [pc EXCEPT ![r] = "done"]
        /\ answer' = [answer EXCEPT ![r] = reply[r]]
        /\ reply' = [reply EXCEPT ![r] = NoAnswer]
        /\ record' = [record EXCEPT ![ScopeOf(r)] =
                        [status |-> "COMPLETED", payload |-> Body(r), response |-> reply[r]]]
    BY <1>6 DEF Save, SetRecord, Tell, Goto
  <2>2. \A k \in Scope : record'[k] = record[k] \/ record'[k].response = reply[r]
    BY <2>1 DEF AllInv, LayerInv
  <2> QED BY <2>1, <2>2, StatusKeeps DEF Phase, Unpaying
<1>7. ASSUME NEW r \in Request, VerifyPasses(r) \/ Authorize(r) PROVE StatusInv'
  <2>1. PICK p \in {"create", "settle"} :
            /\ pc' = [pc EXCEPT ![r] = p] /\ UNCHANGED <<answer, reply, record>>
            /\ p = "create" => pc[r] = "enforce"
    BY <1>7 DEF VerifyPasses, Authorize, Goto, layer
  <2> QED BY <1>2, <2>1 DEF Phase, Unpaying
<1>8. ASSUME NEW r \in Request, Intervene(r) \/ VerifyRefuses(r) PROVE StatusInv'
  <2>1. PICK d \in Detail : Respond(r, Refusal(d)) /\ record' = record
    BY <1>8 DEF Intervene, VerifyRefuses, Detail, layer
  <2> QED BY <2>1, RefusalStands, RespondStands
<1>9. ASSUME NEW r \in Request, FindExisting(r) PROVE StatusInv'
  <2>1. PICK q \in Request : Paid(q) /\ Respond(r, Success(q, StatusOf(q)))
    BY <1>9 DEF FindExisting, Paid
  <2>2. record' = record /\ log' = log /\ pc[r] = "create"
    BY <1>9 DEF FindExisting, layer
  <2>3. q # r
    BY <2>1, <2>2 DEF StatusInv, Unpaying
  <2>4. StatusOf(q) \in {"AUTHORIZING"} \cup Final /\ StatusOf(q)' = StatusOf(q)
    BY <2>2 DEF StatusOf, Final
  <2>5. \A a : a = Success(q, StatusOf(q)) => Stands(a, r)'
    BY <2>3, <2>4 DEF Stands, StatusTrue, Success
  <2> QED BY <2>1, <2>2, <2>5, RespondStands
<1>10. ASSUME NEW r \in Request, SettlePayment(r) PROVE StatusInv'
  <2>1. record' = record
    BY <1>10 DEF SettlePayment, layer
  <2> QED BY <1>10, <2>1, SettledIsTold, RespondStands DEF AllInv
<1>11. ASSUME NEW r \in Request, HandlerRaises(r) PROVE StatusInv'
  BY <1>1, <1>11 DEF HandlerRaises, Fail, Detail
<1>12. CASE Restart
  <2>1. /\ UNCHANGED <<layer, log, answer>>
        /\ reply' = [r \in Request |-> NoAnswer]
        /\ \A r \in Request : pc'[r] = IF pc[r] \in {"unsent", "new"} THEN pc[r] ELSE "done"
    BY <1>12 DEF Restart
  <2>2. \A q \in Request : (Paid(q)' <=> Paid(q)) /\ StatusOf(q)' = StatusOf(q)
    BY <2>1 DEF Paid, Ledgers!Created, StatusOf
  <2>3. \A r \in Request : pc'[r] \in Unpaying => ~Paid(r)'
    BY <2>1, <2>2 DEF StatusInv, Unpaying
  <2>4. \A r \in Request : Stands(answer[r], r)'
    BY <2>1, TruthStays DEF StatusInv, Stands, StatusTrue
  <2>5. \A r \in Request : Stands(reply[r], r)'
    BY <2>1, Refusals DEF NoAnswer, Stands, StatusTrue
  <2>6. \A k \in Scope : record'[k].status = "COMPLETED" => StatusTrue(record[k].response)'
    BY <2>1, TruthStays DEF StatusTrue, layer
  <2> QED BY <2>3, <2>4, <2>5, <2>6 DEF StatusInv
<1>13. ASSUME UNCHANGED <<pc, log, reply, answer>>,
              \A k \in Scope : record'[k].status = "COMPLETED" => record'[k] = record[k]
       PROVE  StatusInv'
  <2>1. \A q \in Request : (Paid(q)' <=> Paid(q)) /\ StatusOf(q)' = StatusOf(q)
    BY <1>13 DEF Paid, Ledgers!Created, StatusOf
  <2>2. \A r \in Request : Stands(answer[r], r)' /\ Stands(reply[r], r)'
    BY <1>13, TruthStays DEF StatusInv, Stands, StatusTrue
  <2>3. \A k \in Scope : record'[k].status = "COMPLETED" => StatusTrue(record[k].response)'
    BY <1>13, TruthStays DEF StatusTrue
  <2> QED BY <1>13, <2>1, <2>2, <2>3 DEF StatusInv
<1>14. ASSUME NEW k \in Scope, RecordExpires(k) PROVE StatusInv'
  <2>1. record' = [record EXCEPT ![k] = Unused] /\ UNCHANGED <<pc, log, reply, answer>>
    BY <1>14 DEF RecordExpires, SetRecord
  <2>2. \A j \in Scope : record'[j].status = "COMPLETED" => record'[j] = record[j]
    BY <2>1 DEF AllInv, LayerInv, Unused
  <2> QED BY <1>13, <2>1, <2>2
<1>15. CASE UNCHANGED <<pc, record, log, reply, answer>>
  BY <1>13, <1>15
<1>16. \/ \E r \in Request : Gate(r) \/ Step(r)
       \/ \E k \in Scope : RecordExpires(k)
       \/ Restart \/ UNCHANGED <<pc, record, log, reply, answer>>
  BY DEF Next, Control, LockExpires, vars, layer
<1> QED
  BY <1>3, <1>4, <1>5, <1>6, <1>7, <1>8, <1>9, <1>10, <1>11, <1>12, <1>14, <1>15, <1>16
  DEF Step, Middleware, Handler

\* Whoever is told how a payment ended is told what the ledger has, then and
\* for ever, from the handler, for a duplicate or out of Redis, and only those
\* whose own call made no payment are told AUTHORIZING (transaction.py:21-83,
\* gateway.py:178-193, idempotency.py:95-140).
THEOREM StatusesStandAlways == Spec => []StatusesStand
<1>1. Init => StatusInv
  <2> SUFFICES ASSUME Init PROVE StatusInv
    OBVIOUS
  <2>1. \A r \in Request : answer[r].detail # "SUCCESS" /\ reply[r].detail # "SUCCESS"
    BY Refusals DEF Init, NoAnswer
  <2>2. \A r \in Request : ~Paid(r)
    BY DEF Init, Paid, Ledgers!Created
  <2> QED BY <2>1, <2>2 DEF Init, Unused, StatusInv, Stands, StatusTrue
<1>2. StatusInv => StatusesStand
  BY DEF StatusInv, StatusesStand, Stands, StatusTrue, Final
<1> QED BY <1>1, <1>2, StatusStep, GatewayInvariant, PTL DEF Spec

----------------------------------------------------------------------------

\* Every variable keeps its type: an error is never saved as an answer, and
\* what operators write is never more than a mode and a rate.
THEOREM GatewayTypeCorrect == Spec => []TypeOK
<1> DEFINE Memory == failSafe \in BOOLEAN /\ restarts \in Nat
<1>1. Init => Memory
  <2> SUFFICES ASSUME Init PROVE Memory
    OBVIOUS
  <2>1. failSafe = FALSE /\ \E b \in Bounds : restarts = b.restarts
    BY DEF Init
  <2> QED BY <2>1, GatewayAssumption
<1>2. Memory /\ [Next]_vars => Memory'
  <2> SUFFICES ASSUME Memory, [Next]_vars PROVE Memory'
    OBVIOUS
  <2>1. CASE UNCHANGED <<failSafe, restarts>>
    BY <2>1
  <2>2. ASSUME NEW r \in Request, Gate(r) \/ Middleware(r)
        PROVE  UNCHANGED <<failSafe, restarts>>
    BY <2>2 DEF Gate, GateFrozen, GateReadOnly, GateRampUp, GatePasses, TurnedAway, Middleware,
                TakeUp, AnswerFromRecord, GiveUp, Save, core
  <2>3. ASSUME NEW r \in Request, Handler(r) PROVE restarts' = restarts /\ failSafe' \in BOOLEAN
    <3>1. CASE VerifyRefuses(r)
      BY <3>1 DEF VerifyRefuses
    <3>2. CASE ~VerifyRefuses(r)
      BY <2>3, <3>2 DEF Handler, Intervene, VerifyPasses, Authorize, FindExisting,
                        SettlePayment, HandlerRaises, core
    <3> QED BY <3>1, <3>2
  <2>4. CASE Restart
    <3>1. restarts > 0 /\ restarts' = restarts - 1 /\ failSafe' = FALSE
      BY <2>4 DEF Restart
    <3>2. restarts' \in Nat
      BY <3>1
    <3> QED BY <3>1, <3>2
  <2>5. ((\E r \in Request : Gate(r) \/ Step(r)) \/ Restart)
        \/ UNCHANGED <<failSafe, restarts>>
    BY DEF Next, Control, LockExpires, RecordExpires, vars, core
  <2> QED BY <2>1, <2>2, <2>3, <2>4, <2>5 DEF Step
<1>3. Init => ControlInv
  BY ControlInitInv, GatewayAssumption DEF Init
<1>4. ControlInv /\ [Next]_vars => ControlInv'
  BY NextIsControlStep, ControlInvStep
<1>5. Memory /\ ControlInv /\ AllInv => TypeOK
  BY CacheableAnswers
  DEF ControlInv, AllInv, HashInv, LayerInv, AnswerInv, RecordType, LogType, TypeOK
<1> QED BY <1>1, <1>2, <1>3, <1>4, <1>5, GatewayInvariant, PTL DEF Spec
=============================================================================
