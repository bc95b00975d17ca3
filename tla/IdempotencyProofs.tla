------------------------- MODULE IdempotencyProofs -------------------------
(* Proofs about Idempotency for every set of requests, payloads, results   *)
(* and every duration, inside the window the middleware is designed for.   *)
EXTENDS Idempotency, TLAPS

\* The window: no live request outstays its lock, and the key is observed
\* for less than IDEMPOTENCY_TTL after its last write.
Window == MaxHold < LockTTL /\ ~StateExpires

\* A request that is about to save its result has one: 5xx never get there.
SavesResult == \A r \in Request : pc[r] = "save" => reply[r] \in Result

\* Once the record is COMPLETED nobody is past the check.
NoWorkAfterCompletion ==
    state.status = "COMPLETED" => \A r \in Request : pc[r] \notin Working

\* What clients got, or are about to get, is what the record holds.
AnswersAreCached ==
    /\ \A a \in given :
          state.status = "COMPLETED" /\ a = <<state.payload, state.response>>
    /\ \A r \in Request : pc[r] = "release" /\ reply[r] \in Result =>
          /\ state.status = "COMPLETED"
          /\ state.payload = payloadOf[r]
          /\ state.response = reply[r]

IInv == TypeOK /\ SavesResult /\ SoleOwner /\ NoWorkAfterCompletion /\ AnswersAreCached

USE DEF Waiting, Critical, Working, Phase, StateRecord, Absent,
        redis, local, vars

----------------------------------------------------------------------------

\* The step of a request, an error of Redis or a crash, keeps the types.
LEMMA RequestStepTypes ==
    ASSUME TypeOK, SavesResult, NEW r \in Request,
           Arrive(r) \/ Step(r) \/ Disturbance(r)
    PROVE  TypeOK' /\ SavesResult'
<1> USE ConstantsAssumption, ResultAssumption
        DEF TypeOK, SavesResult, Goto, EnterTry, Forget, Respond, SetNX, SetState,
            StartedRecord, CompletedRecord
<1>1. CASE Arrive(r)
  BY <1>1 DEF Arrive
<1>2. CASE AcquireLock(r) \/ LockIsBusy(r) \/ SkipWait(r) \/ GiveUp(r) \/ PollAgain(r)
  BY <1>2 DEF AcquireLock, LockIsBusy, SkipWait, GiveUp, PollAgain
<1>3. CASE RejectMismatch(r) \/ ReturnCached(r) \/ Proceed(r)
  BY <1>3 DEF RejectMismatch, ReturnCached, Proceed
<1>4. CASE SaveStarted(r) \/ ExecuteReturns(r) \/ ExecuteFails(r)
  BY <1>4 DEF SaveStarted, ExecuteReturns, ExecuteFails
<1>5. CASE SaveCompleted(r)
  BY <1>5 DEF SaveCompleted
<1>6. CASE Release(r)
  BY <1>6 DEF Release
<1>7. CASE RedisErrorWhilePolling(r)
  BY <1>7 DEF RedisErrorWhilePolling
<1>8. CASE RedisErrorInTry(r)
  BY <1>8 DEF RedisErrorInTry
<1>9. CASE RedisErrorInFinally(r) \/ Crash(r)
  BY <1>9 DEF RedisErrorInFinally, Crash
<1> QED
  BY <1>1, <1>2, <1>3, <1>4, <1>5, <1>6, <1>7, <1>8, <1>9 DEF Step, Disturbance

\* Time keeps the types.
LEMMA TickTypes ==
    ASSUME TypeOK, SavesResult, Tick
    PROVE  TypeOK' /\ SavesResult'
BY ConstantsAssumption, ResultAssumption
   DEF TypeOK, SavesResult, Tick, Elapse, StateRunsOut

LEMMA TypesInvariant == Spec => [](TypeOK /\ SavesResult)
<1>1. Init => TypeOK /\ SavesResult
  BY ConstantsAssumption, ResultAssumption DEF Init, TypeOK, SavesResult
<1>2. TypeOK /\ SavesResult /\ [Next]_vars => (TypeOK /\ SavesResult)'
  <2> SUFFICES ASSUME TypeOK, SavesResult, [Next]_vars
               PROVE  (TypeOK /\ SavesResult)'
    OBVIOUS
  <2>1. CASE \E r \in Request : Arrive(r) \/ Step(r) \/ Disturbance(r)
    BY <2>1, RequestStepTypes
  <2>2. CASE Tick
    BY <2>2, TickTypes
  <2>3. CASE UNCHANGED vars
    BY <2>3 DEF TypeOK, SavesResult
  <2> QED
    BY <2>1, <2>2, <2>3 DEF Next
<1> QED
  BY <1>1, <1>2, PTL DEF Spec

\* Every variable keeps its type: in particular the record in Redis never
\* holds a 5xx (idempotency.py:131).
THEOREM TypeCorrect == Spec => []TypeOK
BY TypesInvariant, PTL

----------------------------------------------------------------------------
(* Exclusion.  The argument: while the record is not COMPLETED at most one *)
(* request is inside `try`, and its lock has LockTTL - held ticks left, at *)
(* least one.  So nobody else can acquire the lock, and the deletion in    *)
(* `finally` hits the request's own lock.  A request enters `try` without  *)
(* the lock only when the record is COMPLETED, and then it never works.    *)

Exclusion == SoleOwner /\ NoWorkAfterCompletion

\* While the record is not COMPLETED, a free lock means nobody is in `try`.
LEMMA FreeLockMeansAlone ==
    ASSUME Window, TypeOK, SoleOwner, state.status # "COMPLETED", lock = 0,
           NEW r \in Request
    PROVE  pc[r] \notin Critical
BY ConstantsAssumption DEF Window, TypeOK, SoleOwner

LEMMA RequestStepExclusion ==
    ASSUME Window, TypeOK, TypeOK', Exclusion, NEW r \in Request,
           Arrive(r) \/ Step(r) \/ Disturbance(r)
    PROVE  Exclusion'
<1> USE ConstantsAssumption
        DEF TypeOK, Exclusion, SoleOwner, NoWorkAfterCompletion,
            Goto, EnterTry, Forget, Respond
<1>1. CASE Arrive(r) \/ LockIsBusy(r) \/ GiveUp(r) \/ PollAgain(r)
  BY <1>1 DEF Arrive, LockIsBusy, GiveUp, PollAgain
<1>2. CASE AcquireLock(r)
  <2>1. SoleOwner'
    BY <1>2, FreeLockMeansAlone DEF AcquireLock, SetNX
  <2>2. NoWorkAfterCompletion'
    BY <1>2 DEF AcquireLock
  <2> QED
    BY <2>1, <2>2
<1>3. CASE SkipWait(r)
  BY <1>3 DEF SkipWait
<1>4. CASE RejectMismatch(r) \/ ReturnCached(r) \/ ExecuteReturns(r) \/ ExecuteFails(r)
  BY <1>4 DEF RejectMismatch, ReturnCached, ExecuteReturns, ExecuteFails
<1>5. CASE Proceed(r)
  BY <1>5 DEF Proceed, AlreadyCompleted, PayloadMismatch
<1>6. CASE SaveStarted(r)
  BY <1>6 DEF SaveStarted, SetState, StartedRecord
<1>7. CASE SaveCompleted(r)
  BY <1>7 DEF SaveCompleted, SetState, CompletedRecord
<1>8. CASE Release(r)
  BY <1>8 DEF Release
<1>9. CASE RedisErrorWhilePolling(r)
  <2>1. SoleOwner'
    <3>1. CASE lock' = lock
      BY <1>9, <3>1 DEF RedisErrorWhilePolling
    <3>2. CASE lock = 0
      BY <1>9, <3>2, FreeLockMeansAlone DEF RedisErrorWhilePolling
    <3> QED
      BY <1>9, <3>1, <3>2 DEF RedisErrorWhilePolling, SetNX
  <2>2. NoWorkAfterCompletion'
    BY <1>9 DEF RedisErrorWhilePolling
  <2> QED
    BY <2>1, <2>2
<1>10. CASE RedisErrorInTry(r)
  BY <1>10 DEF RedisErrorInTry, SetState, StartedRecord, CompletedRecord
<1>11. CASE RedisErrorInFinally(r) \/ Crash(r)
  BY <1>11 DEF RedisErrorInFinally, Crash
<1> QED
  BY <1>1, <1>2, <1>3, <1>4, <1>5, <1>6, <1>7, <1>8, <1>9, <1>10, <1>11
     DEF Step, Disturbance

\* Time: what the lock loses, the stay of its owner gains.
LEMMA TickExclusion ==
    ASSUME Window, TypeOK, Exclusion, Tick
    PROVE  Exclusion'
BY ConstantsAssumption
   DEF Window, TypeOK, Exclusion, SoleOwner, NoWorkAfterCompletion, Tick,
       Elapse, StateRunsOut

LEMMA ExclusionInvariant == ASSUME Window PROVE Spec => []Exclusion
<1>1. Init => Exclusion
  BY DEF Init, Exclusion, SoleOwner, NoWorkAfterCompletion
<1>2. TypeOK /\ TypeOK' /\ Exclusion /\ [Next]_vars => Exclusion'
  <2> SUFFICES ASSUME TypeOK, TypeOK', Exclusion, [Next]_vars
               PROVE  Exclusion'
    OBVIOUS
  <2>1. CASE \E r \in Request : Arrive(r) \/ Step(r) \/ Disturbance(r)
    BY <2>1, RequestStepExclusion
  <2>2. CASE Tick
    BY <2>2, TickExclusion
  <2>3. CASE UNCHANGED vars
    BY <2>3 DEF Exclusion, SoleOwner, NoWorkAfterCompletion
  <2> QED
    BY <2>1, <2>2, <2>3 DEF Next
<1> QED
  BY <1>1, <1>2, TypeCorrect, PTL DEF Spec

\* Inside the window `finally` deletes only the request's own lock key
\* until the work is completed (idempotency.py:149-151).
THEOREM SoleOwnerHolds == ASSUME Window PROVE Spec => []SoleOwner
BY ExclusionInvariant, PTL DEF Exclusion

\* Inside the window two requests with one key never work at the same time
\* (idempotency.py:56-121), whatever crashes and Redis errors happen.
THEOREM MutualExclusionHolds == ASSUME Window PROVE Spec => []MutualExclusion
<1>1. Exclusion => MutualExclusion
  BY DEF Exclusion, SoleOwner, NoWorkAfterCompletion, MutualExclusion
<1> QED
  BY <1>1, ExclusionInvariant, PTL

----------------------------------------------------------------------------
(* Answers.                                                                *)

LEMMA RequestStepAnswers ==
    ASSUME TypeOK, SavesResult, Exclusion, AnswersAreCached, NEW r \in Request,
           Arrive(r) \/ Step(r) \/ Disturbance(r)
    PROVE  AnswersAreCached'
<1> USE ResultAssumption
        DEF TypeOK, SavesResult, Exclusion, SoleOwner, NoWorkAfterCompletion,
            AnswersAreCached, Goto, EnterTry, Forget, Respond
<1>1. CASE Arrive(r) \/ AcquireLock(r) \/ LockIsBusy(r) \/ SkipWait(r)
           \/ GiveUp(r) \/ PollAgain(r)
  BY <1>1 DEF Arrive, AcquireLock, LockIsBusy, SkipWait, GiveUp, PollAgain
<1>2. CASE RejectMismatch(r) \/ ExecuteReturns(r) \/ ExecuteFails(r) \/ Proceed(r)
  BY <1>2 DEF RejectMismatch, ExecuteReturns, ExecuteFails, Proceed
<1>3. CASE ReturnCached(r)
  BY <1>3 DEF ReturnCached, AlreadyCompleted, PayloadMismatch
<1>4. CASE SaveStarted(r)
  BY <1>4 DEF SaveStarted, SetState, StartedRecord
<1>5. CASE SaveCompleted(r)
  BY <1>5 DEF SaveCompleted, SetState, CompletedRecord
<1>6. CASE Release(r)
  BY <1>6 DEF Release
<1>7. CASE RedisErrorWhilePolling(r) \/ RedisErrorInFinally(r) \/ Crash(r)
  BY <1>7 DEF RedisErrorWhilePolling, RedisErrorInFinally, Crash
<1>8. CASE RedisErrorInTry(r)
  BY <1>8 DEF RedisErrorInTry, SetState, StartedRecord, CompletedRecord
<1> QED
  BY <1>1, <1>2, <1>3, <1>4, <1>5, <1>6, <1>7, <1>8 DEF Step, Disturbance

LEMMA Invariance == ASSUME Window PROVE Spec => []IInv
<1>1. Init => AnswersAreCached
  BY DEF Init, AnswersAreCached
<1>2. TypeOK /\ SavesResult /\ Exclusion /\ AnswersAreCached /\ [Next]_vars
      => AnswersAreCached'
  <2> SUFFICES ASSUME TypeOK, SavesResult, Exclusion, AnswersAreCached, [Next]_vars
               PROVE  AnswersAreCached'
    OBVIOUS
  <2>1. CASE \E r \in Request : Arrive(r) \/ Step(r) \/ Disturbance(r)
    BY <2>1, RequestStepAnswers
  <2>2. CASE Tick
    BY <2>2 DEF AnswersAreCached, Tick, StateRunsOut, Window
  <2>3. CASE UNCHANGED vars
    BY <2>3 DEF AnswersAreCached
  <2> QED
    BY <2>1, <2>2, <2>3 DEF Next
<1> QED
  BY <1>1, <1>2, TypesInvariant, ExclusionInvariant, PTL
     DEF Spec, IInv, Exclusion

\* Inside the window every caller that gets a cacheable answer for the key
\* gets the same one, for the same payload (idempotency.py:83-101, 131-147).
THEOREM AnswersAgreeHolds == ASSUME Window PROVE Spec => []AnswersAgree
<1>1. IInv => AnswersAgree
  BY DEF IInv, AnswersAreCached, AnswersAgree
<1> QED
  BY <1>1, Invariance, PTL

\* Inside the window a COMPLETED record stays as it is: no late worker and
\* no retry overwrites the answer clients are being given.
THEOREM CompletedIsFinalHolds == ASSUME Window PROVE Spec => CompletedIsFinal
<1>1. NoWorkAfterCompletion /\ [Next]_vars
      => [state.status = "COMPLETED" => UNCHANGED state]_vars
  <2> SUFFICES ASSUME NoWorkAfterCompletion, Next, state.status = "COMPLETED"
               PROVE  UNCHANGED state
    OBVIOUS
  <2>1. ASSUME NEW r \in Request, Arrive(r) \/ Step(r) \/ Disturbance(r)
        PROVE  UNCHANGED state
    BY <2>1
       DEF NoWorkAfterCompletion, Step, Disturbance, Arrive, AcquireLock, LockIsBusy,
           SkipWait, GiveUp, PollAgain, RejectMismatch, ReturnCached, Proceed,
           SaveStarted, ExecuteReturns, ExecuteFails, SaveCompleted, Release,
           RedisErrorWhilePolling, RedisErrorInTry, RedisErrorInFinally, Crash
  <2>2. CASE Tick
    BY <2>2 DEF Tick, StateRunsOut, Window
  <2> QED
    BY <2>1, <2>2 DEF Next
<1> QED
  BY <1>1, ExclusionInvariant, PTL DEF Spec, CompletedIsFinal, Exclusion

----------------------------------------------------------------------------
(* The refinement.  The abstract worker is the request whose call_next     *)
(* runs or whose answer is being saved; before that nothing of the work    *)
(* has begun, and after that the answer is in Redis or lost.               *)

Busy == {"execute", "save"}

WorkerOf(p) ==
    IF \E r \in Request : p[r] \in Busy
    THEN CHOOSE r \in Request : p[r] \in Busy
    ELSE NoResult

\* The record is one of the abstract ones, and a request that is about to
\* record its start has found none or one of its own payload.
StartInv ==
    /\ state.status # "COMPLETED" =>
          /\ state.response = NoResult
          /\ state.status = "ABSENT" => state.payload = NoResult
    /\ \A r \in Request : pc[r] = "start" => state \in {Absent, StartedRecord(r)}

LEMMA OneWorker ==
    ASSUME NEW p, NEW r \in Request, p[r] \in Busy,
           \A s \in Request : p[s] \in Busy => s = r
    PROVE  WorkerOf(p) = r
<1>1. \E s \in Request : p[s] \in Busy
  OBVIOUS
<1>2. (CHOOSE s \in Request : p[s] \in Busy) = r
  <2>1. \E s : s \in Request /\ p[s] \in Busy
    OBVIOUS
  <2> QED BY <2>1
<1> QED BY <1>1, <1>2 DEF WorkerOf

LEMMA NoWorker ==
    ASSUME NEW p, \A s \in Request : p[s] \notin Busy
    PROVE  WorkerOf(p) = NoResult
BY DEF WorkerOf

\* As long as the same requests are busy, and one at most, it is the same one.
LEMMA SameWorker ==
    ASSUME NEW p, NEW q, \A s \in Request : p[s] \in Busy <=> q[s] \in Busy,
           \A r, s \in Request : p[r] \in Busy /\ p[s] \in Busy => r = s
    PROVE  WorkerOf(p) = WorkerOf(q)
<1>1. CASE \A s \in Request : p[s] \notin Busy
  BY <1>1, NoWorker
<1>2. ASSUME NEW r \in Request, p[r] \in Busy PROVE WorkerOf(p) = WorkerOf(q)
  <2>1. WorkerOf(p) = r
    BY <1>2, OneWorker
  <2>2. WorkerOf(q) = r
    BY <1>2, OneWorker
  <2> QED BY <2>1, <2>2
<1> QED BY <1>1, <1>2

\* Only the request alone in `try` changes the record before it is completed.
LEMMA RequestStepStart ==
    ASSUME TypeOK, Exclusion, StartInv, NEW r \in Request,
           Arrive(r) \/ Step(r) \/ Disturbance(r)
    PROVE  StartInv'
<1> USE DEF TypeOK, Exclusion, SoleOwner, NoWorkAfterCompletion, StartInv,
            Goto, EnterTry, Forget, Respond, StartedRecord, CompletedRecord
<1>1. CASE Arrive(r) \/ LockIsBusy(r) \/ GiveUp(r) \/ PollAgain(r)
  BY <1>1 DEF Arrive, LockIsBusy, GiveUp, PollAgain
<1>2. CASE AcquireLock(r) \/ SkipWait(r)
  BY <1>2 DEF AcquireLock, SkipWait
<1>3. CASE RejectMismatch(r) \/ ReturnCached(r) \/ ExecuteReturns(r) \/ ExecuteFails(r)
  BY <1>3 DEF RejectMismatch, ReturnCached, ExecuteReturns, ExecuteFails
<1>4. CASE Proceed(r)
  <2>1. state' = state /\ pc' = [pc EXCEPT ![r] = "start"]
    BY <1>4 DEF Proceed
  <2>2. state.status # "COMPLETED"
        /\ (state.status # "ABSENT" => state.payload = payloadOf[r])
    BY <1>4 DEF Proceed, AlreadyCompleted, PayloadMismatch
  <2>3. state \in {Absent, StartedRecord(r)}
    BY <2>2
  <2> QED BY <2>1, <2>3
<1>5. CASE SaveStarted(r)
  BY <1>5 DEF SaveStarted, SetState
<1>6. CASE SaveCompleted(r)
  BY <1>6 DEF SaveCompleted, SetState
<1>7. CASE Release(r)
  BY <1>7 DEF Release
<1>8. CASE RedisErrorInTry(r)
  BY <1>8 DEF RedisErrorInTry, SetState
<1>9. CASE RedisErrorWhilePolling(r) \/ RedisErrorInFinally(r) \/ Crash(r)
  BY <1>9 DEF RedisErrorWhilePolling, RedisErrorInFinally, Crash
<1> QED
  BY <1>1, <1>2, <1>3, <1>4, <1>5, <1>6, <1>7, <1>8, <1>9 DEF Step, Disturbance

\* A step that neither touches the record nor begins or ends the work is
\* none of the abstract executor's.
LEMMA Stutters ==
    ASSUME MutualExclusion, state' = state,
           \A s \in Request : pc[s] \in Busy <=> pc'[s] \in Busy
    PROVE  UNCHANGED <<state, Worker>>
<1>1. WorkerOf(pc) = WorkerOf(pc')
  BY SameWorker DEF MutualExclusion, Busy
<1> QED BY <1>1 DEF Worker, WorkerOf, Busy

OnceNext == Once!Next \/ UNCHANGED <<state, Worker>>

\* The work begins when the start is recorded ...
LEMMA BeginRefines ==
    ASSUME TypeOK, MutualExclusion, StartInv, NEW r \in Request, SaveStarted(r)
    PROVE  Once!Begin(r)
<1>1. \A s \in Request : pc[s] \notin Busy
  BY DEF SaveStarted, MutualExclusion, Busy
<1>2. Worker = NoResult
  BY <1>1, NoWorker DEF Worker, WorkerOf, Busy
<1>3. pc'[r] \in Busy /\ \A s \in Request : pc'[s] \in Busy => s = r
  BY <1>1 DEF SaveStarted, Goto, TypeOK, Busy
<1>4. Worker' = r
  BY <1>3, OneWorker DEF Worker, WorkerOf, Busy
<1>5. state \in {Absent, StartedRecord(r)} /\ state' = StartedRecord(r)
  BY DEF SaveStarted, SetState, StartInv
<1> QED BY <1>2, <1>4, <1>5 DEF Once!Begin, Once!Free, Once!Unused, Once!Started, StartedRecord

\* ... and is over when its answer is in Redis, or the request gives it up.
LEMMA EndRefines ==
    ASSUME TypeOK, SavesResult, MutualExclusion, NEW r \in Request,
           pc[r] \in Busy, pc' \in [Request -> Phase], pc'[r] \notin Busy,
           \A s \in Request : s # r => pc'[s] = pc[s],
           state' = state \/ (pc[r] = "save" /\ state' = CompletedRecord(r))
    PROVE  Once!Next
<1>1. \A s \in Request : pc[s] \in Busy => s = r
  BY DEF MutualExclusion, Busy
<1>2. Worker = r
  BY <1>1, OneWorker DEF Worker, WorkerOf, Busy
<1>3. \A s \in Request : pc'[s] \notin Busy
  BY <1>1
<1>4. Worker' = NoResult
  BY <1>3, NoWorker DEF Worker, WorkerOf, Busy
<1>5. r # NoResult
  BY ResultAssumption
<1>6. CASE state' = state
  BY <1>2, <1>4, <1>5, <1>6 DEF Once!Next, Once!Abandon
<1>7. CASE pc[r] = "save" /\ state' = CompletedRecord(r)
  <2>1. reply[r] \in Result
    BY <1>7 DEF SavesResult
  <2>2. Once!Complete(r)
    BY <1>2, <1>4, <1>7, <2>1 DEF Once!Complete, Once!Completed, CompletedRecord
  <2> QED BY <2>2 DEF Once!Next
<1> QED BY <1>6, <1>7

LEMMA RequestStepRefines ==
    ASSUME TypeOK, SavesResult, MutualExclusion, StartInv, NEW r \in Request,
           Arrive(r) \/ Step(r) \/ Disturbance(r)
    PROVE  OnceNext
<1> USE DEF TypeOK, Goto, EnterTry, Forget, Respond
<1>1. CASE Arrive(r) \/ AcquireLock(r) \/ LockIsBusy(r) \/ SkipWait(r) \/ GiveUp(r)
           \/ PollAgain(r) \/ RejectMismatch(r) \/ ReturnCached(r) \/ Proceed(r)
  <2>1. state' = state /\ \A s \in Request : pc[s] \in Busy <=> pc'[s] \in Busy
    BY <1>1
    DEF Busy, Arrive, AcquireLock, LockIsBusy, SkipWait, GiveUp, PollAgain, RejectMismatch,
        ReturnCached, Proceed
  <2> QED BY <2>1, Stutters DEF OnceNext
<1>2. CASE ExecuteReturns(r) \/ Release(r) \/ RedisErrorWhilePolling(r)
           \/ RedisErrorInFinally(r) \/ (Crash(r) /\ pc[r] \notin Busy)
  <2>1. state' = state /\ \A s \in Request : pc[s] \in Busy <=> pc'[s] \in Busy
    BY <1>2
    DEF Busy, ExecuteReturns, Release, RedisErrorWhilePolling, RedisErrorInFinally, Crash
  <2> QED BY <2>1, Stutters DEF OnceNext
<1>3. CASE SaveStarted(r)
  BY <1>3, BeginRefines DEF OnceNext, Once!Next
<1>4. CASE ExecuteFails(r) \/ (Crash(r) /\ pc[r] \in Busy)
           \/ (RedisErrorInTry(r) /\ pc[r] = "save") \/ SaveCompleted(r)
  <2>1. /\ pc[r] \in Busy /\ pc' \in [Request -> Phase] /\ pc'[r] \notin Busy
        /\ \A s \in Request : s # r => pc'[s] = pc[s]
    BY <1>4 DEF Busy, ExecuteFails, Crash, RedisErrorInTry, SaveCompleted
  <2>2. state' = state \/ (pc[r] = "save" /\ state' = CompletedRecord(r))
    BY <1>4 DEF ExecuteFails, Crash, RedisErrorInTry, SaveCompleted, SetState
  <2> QED BY <2>1, <2>2, EndRefines DEF OnceNext
<1>5. CASE RedisErrorInTry(r) /\ pc[r] # "save"
  <2>1. \A s \in Request : pc[s] \in Busy <=> pc'[s] \in Busy
    BY <1>5 DEF Busy, RedisErrorInTry
  <2>2. CASE state' = state
    BY <2>1, <2>2, Stutters DEF OnceNext
  <2>3. CASE state' # state
    <3>1. pc[r] = "start" /\ state' = StartedRecord(r)
      BY <1>5, <2>3 DEF RedisErrorInTry, SetState
    <3>2. \A s \in Request : pc[s] \notin Busy
      BY <3>1 DEF MutualExclusion, Busy
    <3>3. Worker = NoResult /\ Worker' = NoResult
      BY <2>1, <3>2, NoWorker DEF Worker, WorkerOf, Busy
    <3>4. state \in {Absent, StartedRecord(r)}
      BY <3>1 DEF StartInv
    <3>5. Once!Claim(r)
      BY <3>1, <3>3, <3>4 DEF Once!Claim, Once!Free, Once!Unused, Once!Started, StartedRecord
    <3> QED BY <3>5 DEF OnceNext, Once!Next
  <2> QED BY <2>2, <2>3
<1> QED BY <1>1, <1>2, <1>3, <1>4, <1>5 DEF Step, Disturbance

\* Inside the window the layer implements OncePerKey: two Redis keys, polling,
\* errors and crashes are one executor with one worker at a time, which never
\* works again once an answer is recorded (idempotency.py:34-161).
THEOREM RefinesOncePerKey == ASSUME Window PROVE Spec => ImplementsOncePerKey
<1>1. Init => StartInv /\ Once!Init
  <2> SUFFICES ASSUME Init PROVE StartInv /\ Once!Init
    OBVIOUS
  <2>1. \A r \in Request : pc[r] = "idle"
    BY DEF Init
  <2>2. Worker = NoResult
    BY <2>1, NoWorker DEF Worker, WorkerOf, Busy
  <2> QED BY <2>1, <2>2 DEF Init, StartInv, Once!Init, Once!Unused
<1>2. TypeOK /\ Exclusion /\ StartInv /\ [Next]_vars => StartInv'
  <2> SUFFICES ASSUME TypeOK, Exclusion, StartInv, [Next]_vars PROVE StartInv'
    OBVIOUS
  <2>1. CASE \E r \in Request : Arrive(r) \/ Step(r) \/ Disturbance(r)
    BY <2>1, RequestStepStart
  <2>2. CASE Tick
    BY <2>2 DEF StartInv, StartedRecord, Tick, StateRunsOut, Window
  <2>3. CASE UNCHANGED vars
    BY <2>3 DEF StartInv, StartedRecord
  <2> QED BY <2>1, <2>2, <2>3 DEF Next
<1>3. TypeOK /\ SavesResult /\ MutualExclusion /\ StartInv /\ [Next]_vars
      => [Once!Next]_<<state, Worker>>
  <2> SUFFICES ASSUME TypeOK, SavesResult, MutualExclusion, StartInv, [Next]_vars
               PROVE  OnceNext
    BY DEF OnceNext
  <2>1. CASE \E r \in Request : Arrive(r) \/ Step(r) \/ Disturbance(r)
    BY <2>1, RequestStepRefines
  <2>2. CASE Tick \/ UNCHANGED vars
    <3>1. state' = state /\ pc' = pc
      BY <2>2 DEF Tick, StateRunsOut, Window
    <3> QED BY <3>1, Stutters DEF OnceNext
  <2> QED BY <2>1, <2>2 DEF Next
<1> QED
  BY <1>1, <1>2, <1>3, TypesInvariant, ExclusionInvariant, MutualExclusionHolds, PTL
     DEF Spec, ImplementsOncePerKey, Once!Spec
=============================================================================
