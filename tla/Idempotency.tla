---------------------------- MODULE Idempotency ----------------------------
(***************************************************************************)
(* FinTechIdempotencyMiddleware.dispatch (core/idempotency.py): the        *)
(* requests that carry one Idempotency-Key within one scope (path and      *)
(* client), handled concurrently by any number of gateways that share one  *)
(* Redis.  Other keys use other Redis keys and share nothing with these.   *)
(*                                                                         *)
(* Redis holds a lock key, written by SET NX EX and deleted in `finally`,  *)
(* and a state key with the record STARTED or COMPLETED.  Every await is a *)
(* step: Redis executes one command, and other requests may run before the *)
(* answer is used.  Time is counted in ticks; only ratios of the code's    *)
(* durations matter.                                                       *)
(***************************************************************************)
EXTENDS Integers, FiniteSets

CONSTANTS
    Request,          \* HTTP requests; one may be sent again after it ended
    Payload,          \* request bodies, up to their SHA-256
    payloadOf,        \* [Request -> Payload]
    Result,           \* what call_next can answer with status < 500
    NoResult,         \* no answer yet
    Failure,          \* an answer 408, 409 or 500: nothing was cached for it
    LockTTL,          \* LOCK_TTL, in ticks
    StateTTL,         \* IDEMPOTENCY_TTL, in ticks
    MaxWait,          \* MAX_WAIT_TIME, in ticks
    MaxHold,          \* bound: longest stay of a live request in `try`
    StateExpires      \* does the window observed outlast IDEMPOTENCY_TTL?

ASSUME ConstantsAssumption ==
    /\ payloadOf \in [Request -> Payload]
    /\ LockTTL \in Nat \ {0}
    /\ StateTTL \in Nat \ {0}
    /\ MaxWait \in Nat
    /\ MaxHold \in Nat
    /\ StateExpires \in BOOLEAN

ASSUME ResultAssumption ==
    /\ NoResult \notin Result \cup Request
    /\ Failure \notin Result
    /\ Failure # NoResult

VARIABLES
    lock,      \* ticks until the lock key expires; 0: there is no such key
    state,     \* the state key's record
    stateLeft, \* ticks until the state key expires
    pc,        \* where each request's coroutine is suspended
    waited,    \* ticks since start_time while polling, up to MaxWait + 1
    held,      \* time since the request entered `try`
    reply,     \* the response a request is about to return
    given      \* history: the cacheable answers clients got, with their payload

redis == <<lock, state, stateLeft>>
local == <<pc, waited, held, reply>>
vars  == <<redis, local, given>>

Waiting  == {"set_nx", "get_state"}
Critical == {"check", "start", "execute", "save", "release"}
Working  == {"start", "execute", "save"}
Phase    == {"idle"} \cup Waiting \cup Critical

StateRecord == [status   : {"ABSENT", "STARTED", "COMPLETED"},
                payload  : Payload \cup {NoResult},
                response : Result \cup {NoResult}]

Absent == [status |-> "ABSENT", payload |-> NoResult, response |-> NoResult]

TypeOK ==
    /\ lock \in 0 .. LockTTL
    /\ state \in StateRecord
    /\ stateLeft \in 0 .. StateTTL
    /\ pc \in [Request -> Phase]
    /\ waited \in [Request -> 0 .. MaxWait + 1]
    /\ held \in [Request -> 0 .. MaxHold]
    /\ reply \in [Request -> Result \cup {NoResult, Failure}]
    /\ given \in SUBSET (Payload \X Result)

Init ==
    /\ lock = 0
    /\ state = Absent
    /\ stateLeft = 0
    /\ pc = [r \in Request |-> "idle"]
    /\ waited = [r \in Request |-> 0]
    /\ held = [r \in Request |-> 0]
    /\ reply = [r \in Request |-> NoResult]
    /\ given = {}

----------------------------------------------------------------------------
(* Redis commands, as this code uses them.                                 *)

\* SET lock_key "1" NX EX LOCK_TTL: the lock key after the command.
SetNX == IF lock = 0 THEN LockTTL ELSE lock

\* SET redis_key ... EX IDEMPOTENCY_TTL.
SetState(rec) == state' = rec /\ stateLeft' = StateTTL

StartedRecord(r) ==
    [status |-> "STARTED", payload |-> payloadOf[r], response |-> NoResult]

CompletedRecord(r) ==
    [status |-> "COMPLETED", payload |-> payloadOf[r], response |-> reply[r]]

\* The coroutine of r moves on to phase p.
Goto(r, p) == pc' = [pc EXCEPT ![r] = p]

\* r enters the `try` block: the check of the state, the work, `finally`.
EnterTry(r) ==
    /\ Goto(r, "check")
    /\ held' = [held EXCEPT ![r] = 0]
    /\ waited' = [waited EXCEPT ![r] = 0]

\* r's coroutine is over; its locals are gone.
Forget(r) ==
    /\ Goto(r, "idle")
    /\ waited' = [waited EXCEPT ![r] = 0]
    /\ held' = [held EXCEPT ![r] = 0]
    /\ reply' = [reply EXCEPT ![r] = NoResult]

----------------------------------------------------------------------------
(* Polling for the lock.                                                   *)

\* A request comes in, or a client sends one again whose answer was lost,
\* was an error, or never came.
Arrive(r) ==
    /\ pc[r] = "idle"
    /\ Goto(r, "set_nx")
    /\ UNCHANGED <<redis, waited, held, reply, given>>

\* (mutant) SET without NX
AcquireLock_NotNX(r) ==
    /\ pc[r] = "set_nx"
    /\ lock' = LockTTL
    /\ EnterTry(r)
    /\ UNCHANGED <<state, stateLeft, reply, given>>

AcquireLock(r) ==
    /\ pc[r] = "set_nx"
    /\ lock = 0
    /\ lock' = SetNX
    /\ EnterTry(r)
    /\ UNCHANGED <<state, stateLeft, reply, given>>

LockIsBusy(r) ==
    /\ pc[r] = "set_nx"
    /\ lock > 0
    /\ Goto(r, "get_state")
    /\ UNCHANGED <<redis, waited, held, reply, given>>

\* The lock is taken but the work is done: leave the loop without the lock.
SkipWait(r) ==
    /\ pc[r] = "get_state"
    /\ state.status = "COMPLETED"
    /\ EnterTry(r)
    /\ UNCHANGED <<redis, reply, given>>

\* (mutant) no limit on the wait
WaitedTooLong_Never(r) == FALSE

\* MAX_WAIT_TIME has passed since start_time.
WaitedTooLong(r) == waited[r] > MaxWait

\* (mutant) the loop moved under `try`: giving up deletes the lock key
GiveUp_InTry(r) ==
    /\ pc[r] = "get_state"
    /\ state.status # "COMPLETED"
    /\ WaitedTooLong(r)
    /\ lock' = 0
    /\ Forget(r)
    /\ UNCHANGED <<state, stateLeft, given>>

\* 408.  The return is outside `try`: the lock key is not deleted.
GiveUp(r) ==
    /\ pc[r] = "get_state"
    /\ state.status # "COMPLETED"
    /\ WaitedTooLong(r)
    /\ Forget(r)
    /\ UNCHANGED <<redis, given>>

PollAgain(r) ==
    /\ pc[r] = "get_state"
    /\ state.status # "COMPLETED"
    /\ ~WaitedTooLong(r)
    /\ Goto(r, "set_nx")
    /\ UNCHANGED <<redis, waited, held, reply, given>>

----------------------------------------------------------------------------
(* Inside `try`.                                                           *)

Respond(r, answer, p) ==
    /\ Goto(r, p)
    /\ reply' = [reply EXCEPT ![r] = answer]

\* (mutant) the hash of the body is not compared
PayloadMismatch_Ignored(r) == FALSE

PayloadMismatch(r) == state.status # "ABSENT" /\ state.payload # payloadOf[r]

\* 409: the key was used with another body.
RejectMismatch(r) ==
    /\ pc[r] = "check"
    /\ PayloadMismatch(r)
    /\ Respond(r, Failure, "release")
    /\ UNCHANGED <<redis, waited, held, given>>

\* (mutant) the record is looked at while polling only
AlreadyCompleted_Ignored(r) == FALSE

AlreadyCompleted(r) == state.status = "COMPLETED" /\ ~PayloadMismatch(r)

ReturnCached(r) ==
    /\ pc[r] = "check"
    /\ AlreadyCompleted(r)
    /\ Respond(r, state.response, "release")
    /\ UNCHANGED <<redis, waited, held, given>>

\* No record, or STARTED: the previous worker is taken for dead.
Proceed(r) ==
    /\ pc[r] = "check"
    /\ ~PayloadMismatch(r)
    /\ ~AlreadyCompleted(r)
    /\ Goto(r, "start")
    /\ UNCHANGED <<redis, waited, held, reply, given>>

\* (mutant) the start is not recorded
SaveStarted_NotSaved(r) ==
    /\ pc[r] = "start"
    /\ Goto(r, "execute")
    /\ UNCHANGED <<redis, waited, held, reply, given>>

SaveStarted(r) ==
    /\ pc[r] = "start"
    /\ SetState(StartedRecord(r))
    /\ Goto(r, "execute")
    /\ UNCHANGED <<lock, waited, held, reply, given>>

\* call_next answered 2xx or 4xx.
ExecuteReturns(r) ==
    /\ pc[r] = "execute"
    /\ \E res \in Result : Respond(r, res, "save")
    /\ UNCHANGED <<redis, waited, held, given>>

\* (mutant) a 5xx is cached too
ExecuteFails_Cached(r) ==
    /\ pc[r] = "execute"
    /\ Respond(r, Failure, "save")
    /\ UNCHANGED <<redis, waited, held, given>>

\* call_next answered 5xx, which is not cached, or raised.
ExecuteFails(r) ==
    /\ pc[r] = "execute"
    /\ Respond(r, Failure, "release")
    /\ UNCHANGED <<redis, waited, held, given>>

SaveCompleted(r) ==
    /\ pc[r] = "save"
    /\ SetState(CompletedRecord(r))
    /\ Goto(r, "release")
    /\ UNCHANGED <<lock, waited, held, reply, given>>

\* `finally`: DEL lock_key, whoever set it, and return the response.
Release(r) ==
    /\ pc[r] = "release"
    /\ lock' = 0
    /\ given' = IF reply[r] \in Result
                THEN given \cup {<<payloadOf[r], reply[r]>>}
                ELSE given
    /\ Forget(r)
    /\ UNCHANGED <<state, stateLeft>>

----------------------------------------------------------------------------
(* A Redis call raises: the command was executed or it was not.            *)

\* Outside `try`: 500, and a lock taken by a SET whose reply was lost stays.
RedisErrorWhilePolling(r) ==
    /\ pc[r] \in Waiting
    /\ \/ pc[r] = "set_nx" /\ lock' = SetNX
       \/ UNCHANGED lock
    /\ Forget(r)
    /\ UNCHANGED <<state, stateLeft, given>>

\* Inside `try`: on to `finally` with the exception.
RedisErrorInTry(r) ==
    /\ pc[r] \in {"check", "start", "save"}
    /\ \/ pc[r] = "start" /\ SetState(StartedRecord(r))
       \/ pc[r] = "save"  /\ SetState(CompletedRecord(r))
       \/ UNCHANGED <<state, stateLeft>>
    /\ Respond(r, Failure, "release")
    /\ UNCHANGED <<lock, waited, held, given>>

\* In `finally`: the exception replaces the response.
RedisErrorInFinally(r) ==
    /\ pc[r] = "release"
    /\ lock' \in {0, lock}
    /\ Forget(r)
    /\ UNCHANGED <<state, stateLeft, given>>

\* The gateway that runs r dies; what it wrote to Redis stays.
Crash(r) ==
    /\ pc[r] # "idle"
    /\ Forget(r)
    /\ UNCHANGED <<redis, given>>

----------------------------------------------------------------------------
(* Time.                                                                   *)

Elapse(n) == IF n > 0 THEN n - 1 ELSE 0

StateRunsOut == StateExpires /\ stateLeft = 1

\* One tick.  No live request stays in `try` longer than MaxHold.
Tick ==
    /\ \A r \in Request : pc[r] \in Critical => held[r] < MaxHold
    /\ lock' = Elapse(lock)
    /\ stateLeft' = IF StateExpires THEN Elapse(stateLeft) ELSE stateLeft
    /\ state' = IF StateRunsOut THEN Absent ELSE state
    /\ waited' = [r \in Request |->
                    IF pc[r] \in Waiting /\ waited[r] <= MaxWait
                    THEN waited[r] + 1 ELSE waited[r]]
    /\ held' = [r \in Request |->
                    IF pc[r] \in Critical THEN held[r] + 1 ELSE held[r]]
    /\ UNCHANGED <<pc, reply, given>>

\* The coroutine of r takes its next step without an error.
Step(r) ==
    \/ AcquireLock(r) \/ LockIsBusy(r) \/ SkipWait(r) \/ GiveUp(r) \/ PollAgain(r)
    \/ RejectMismatch(r) \/ ReturnCached(r) \/ Proceed(r)
    \/ SaveStarted(r) \/ ExecuteReturns(r) \/ ExecuteFails(r)
    \/ SaveCompleted(r) \/ Release(r)

Disturbance(r) ==
    \/ RedisErrorWhilePolling(r) \/ RedisErrorInTry(r) \/ RedisErrorInFinally(r)
    \/ Crash(r)

Next ==
    \/ \E r \in Request : Arrive(r) \/ Step(r) \/ Disturbance(r)
    \/ Tick

Spec == Init /\ [][Next]_vars

\* A scheduled coroutine runs on; time goes on whenever the bound lets it.
FairSpec ==
    /\ Spec
    /\ \A r \in Request : WF_vars(Step(r))
    /\ SF_vars(Tick)

----------------------------------------------------------------------------
(* Properties.                                                             *)

\* Requests with one key never do the work of call_next, from the decision
\* to proceed to the saving of its result, at the same time.
MutualExclusion ==
    \A r, s \in Request : pc[r] \in Working /\ pc[s] \in Working => r = s

\* Until the work is completed, the request inside `try` is alone there and
\* the lock key is the one it set itself: `finally`, which deletes the key
\* without looking whose it is, deletes no other request's lock.
SoleOwner ==
    state.status # "COMPLETED" =>
        \A r \in Request : pc[r] \in Critical =>
            /\ lock + held[r] >= LockTTL
            /\ \A s \in Request : pc[s] \in Critical => s = r

\* All cacheable answers ever returned for the key are one and the same
\* answer, to one payload: a retry, a duplicate and the first caller agree.
AnswersAgree == \A a, b \in given : a = b

\* A completed record is never overwritten, by a late worker or a retry.
CompletedIsFinal == [][state.status = "COMPLETED" => UNCHANGED state]_vars

\* The request whose call_next is running or whose answer is being saved.
Worker ==
    IF \E r \in Request : pc[r] \in {"execute", "save"}
    THEN CHOOSE r \in Request : pc[r] \in {"execute", "save"}
    ELSE NoResult

Once == INSTANCE OncePerKey WITH record <- state, worker <- Worker, None <- NoResult

\* With its two Redis keys, its polling and its crash recovery the layer does
\* what the abstract executor does: one worker at a time, one payload per key,
\* no work after an answer was recorded.
ImplementsOncePerKey == Once!Spec

\* Every request ends, even when others keep taking the lock from it:
\* the loop that waits for the lock gives up after MAX_WAIT_TIME.
EveryRequestEnds == \A r \in Request : pc[r] # "idle" ~> pc[r] = "idle"
=============================================================================
