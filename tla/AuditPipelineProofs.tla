------------------------- MODULE AuditPipelineProofs -------------------------
(***************************************************************************)
(* Proofs about AuditPipeline for any events, any threshold, any number of *)
(* posts on their way at once, of failures and of restarts.                *)
(***************************************************************************)
EXTENDS AuditPipeline, SequenceTheorems, TLAPS

----------------------------------------------------------------------------
(* Sequences and what is in them.                                          *)

LEMMA InAppended ==
    ASSUME NEW S, NEW s \in Seq(S), NEW x \in S
    PROVE  /\ Append(s, x) \in Seq(S)
           /\ EventsOf(Append(s, x)) = EventsOf(s) \cup {x}
<1>1. /\ Append(s, x) \in Seq(S)
      /\ Len(Append(s, x)) = Len(s) + 1
      /\ \A i \in 1 .. Len(s) : Append(s, x)[i] = s[i]
      /\ Append(s, x)[Len(s) + 1] = x
  BY AppendProperties
<1>2. DOMAIN s = 1 .. Len(s) /\ DOMAIN Append(s, x) = 1 .. Len(s) + 1 /\ Len(s) \in Nat
  BY <1>1, LenProperties
<1>3. EventsOf(Append(s, x)) \subseteq EventsOf(s) \cup {x}
  BY <1>1, <1>2 DEF EventsOf
<1>4. EventsOf(s) \subseteq EventsOf(Append(s, x))
  <2> SUFFICES ASSUME NEW i \in DOMAIN s PROVE s[i] \in EventsOf(Append(s, x))
    BY DEF EventsOf
  <2>1. i \in DOMAIN Append(s, x) /\ Append(s, x)[i] = s[i]
    BY <1>1, <1>2
  <2> QED BY <2>1 DEF EventsOf
<1>5. x \in EventsOf(Append(s, x))
  <2>1. Len(s) + 1 \in DOMAIN Append(s, x)
    BY <1>2
  <2> QED BY <1>1, <2>1 DEF EventsOf
<1> QED BY <1>1, <1>3, <1>4, <1>5

LEMMA InTail ==
    ASSUME NEW S, NEW s \in Seq(S), s # <<>>
    PROVE  /\ Tail(s) \in Seq(S)
           /\ Head(s) \in S
           /\ EventsOf(Tail(s)) \subseteq EventsOf(s)
           /\ Head(s) \in EventsOf(s)
<1>1. /\ Head(s) \in S /\ Tail(s) \in Seq(S)
      /\ Len(Tail(s)) = Len(s) - 1
      /\ \A i \in 1 .. Len(Tail(s)) : Tail(s)[i] = s[i + 1]
  BY HeadTailProperties
<1>2. DOMAIN s = 1 .. Len(s) /\ Len(s) \in Nat \ {0} /\ DOMAIN Tail(s) = 1 .. Len(Tail(s))
  BY <1>1, LenProperties, EmptySeq
<1>3. EventsOf(Tail(s)) \subseteq EventsOf(s)
  <2> SUFFICES ASSUME NEW i \in DOMAIN Tail(s) PROVE Tail(s)[i] \in EventsOf(s)
    BY DEF EventsOf
  <2>1. i + 1 \in DOMAIN s /\ Tail(s)[i] = s[i + 1]
    BY <1>1, <1>2
  <2> QED BY <2>1 DEF EventsOf
<1>4. Head(s) \in EventsOf(s)
  <2>1. 1 \in DOMAIN s /\ Head(s) = s[1]
    BY <1>2
  <2> QED BY <2>1 DEF EventsOf
<1> QED BY <1>1, <1>3, <1>4

LEMMA InEmpty == EventsOf(<<>>) = {}
BY DEF EventsOf

LEMMA InIsTyped ==
    ASSUME NEW S, NEW s \in Seq(S)
    PROVE  EventsOf(s) \subseteq S
<1> SUFFICES ASSUME NEW i \in DOMAIN s PROVE s[i] \in S
  BY DEF EventsOf
<1> QED BY LenProperties, ElementOfSeq

\* A sealed batch is the batch of its payload.
LEMMA SealedBatch ==
    ASSUME NEW batch \in Batch, NEW prev \in Root
    PROVE  /\ Seal(batch, prev) \in Payload
           /\ BatchOf(Seal(batch, prev)) = batch
           /\ Seal(batch, prev).prev = prev
           /\ Seal(batch, prev).root # prev
<1>1. /\ Append(prev, batch) \in Root
      /\ Len(Append(prev, batch)) = Len(prev) + 1
      /\ Append(prev, batch)[Len(prev) + 1] = batch
  BY AppendProperties DEF Root
<1>2. Len(prev) \in Nat
  BY LenProperties DEF Root
<1>3. Append(prev, batch) # prev /\ Append(prev, batch) # Genesis
  BY <1>1, <1>2, EmptySeq DEF Genesis
<1> QED BY <1>1, <1>3 DEF Seal, Payload, BatchOf

LEMMA PayloadEvents ==
    ASSUME NEW p \in Payload
    PROVE  EventsOf(BatchOf(p)) \subseteq Event
<1>1. p.root \in Seq(Batch) /\ p.root # <<>>
  BY DEF Payload, Root, Genesis
<1>2. Len(p.root) \in 1 .. Len(p.root)
  BY <1>1, EmptySeq, LenProperties
<1>3. BatchOf(p) \in Seq(Event)
  BY <1>1, <1>2, ElementOfSeq DEF BatchOf, Batch
<1> QED BY <1>3, InIsTyped

LEMMA SomeEvents ==
    ASSUME NEW S \in SUBSET Payload
    PROVE  InSome(S) \subseteq Event
BY PayloadEvents DEF InSome

----------------------------------------------------------------------------
(* Types.                                                                  *)

LEMMA RequestType ==
    ASSUME NEW p \in Payload
    PROVE  /\ Flush(p) \in Request /\ Retry(p) \in Request
           /\ Flush(p).payload = p /\ Retry(p).payload = p
           /\ Flush(p).from = "flush" /\ Retry(p).from = "retry"
BY DEF Flush, Retry, Request

\* Who takes an answer for success gets a root, and a payload at most lost.
LEMMA TakenTypes ==
    ASSUME TypeOK, NEW req \in Request, NEW a \in AnswersTo(req), TakenForSuccess(a)
    PROVE  /\ a \in Answer /\ a.payload = req.payload
           /\ answers' = answers \ {a} /\ answers' \in SUBSET Answer
           /\ prevRoot' = req.payload.root /\ prevRoot' \in Root
           /\ refused' \in SUBSET Event
<1>1. a \in answers /\ a \in Answer /\ a.payload = req.payload
  BY DEF AnswersTo, TypeOK
<1>2. req.payload \in Payload /\ req.payload.root \in Root
  BY DEF Request, Payload
<1>3. EventsOf(BatchOf(req.payload)) \subseteq Event
  BY <1>2, PayloadEvents
<1>4. refused' = refused \/ refused' = refused \cup EventsOf(BatchOf(req.payload))
  BY <1>1 DEF TakenForSuccess
<1> QED BY <1>1, <1>2, <1>3, <1>4 DEF TakenForSuccess, TypeOK

LEMMA InitTypes == Init => TypeOK
<1> SUFFICES ASSUME Init PROVE TypeOK
  OBVIOUS
<1>1. Genesis \in Root /\ <<>> \in Batch /\ <<>> \in Seq(Payload)
  BY EmptySeq DEF Genesis, Root, Batch
<1> QED BY <1>1, ConstantsAssumption DEF Init, TypeOK

LEMMA GoesOnTypes ==
    ASSUME TypeOK, lines # <<>>, NEW rest \in Seq(Payload), NEW onWire \in SUBSET Request,
           RetryGoesOn(rest, onWire)
    PROVE  /\ lines' \in Seq(Payload) /\ remaining' \in Seq(Payload)
           /\ wal' \in Seq(Payload) /\ wire' \in SUBSET Request
           /\ unread' \in SUBSET Payload /\ overwritten' \in SUBSET Event
<1>1. Tail(lines) \in Seq(Payload) /\ <<>> \in Seq(Payload)
  BY InTail, EmptySeq DEF TypeOK
<1>2. CASE Len(lines) > 1
  <2>1. lines[2] \in Payload
    BY <1>2, ElementOfSeq, LenProperties DEF TypeOK
  <2>2. /\ lines' = Tail(lines) /\ remaining' = rest /\ wire' = onWire \cup {Retry(lines[2])}
        /\ UNCHANGED <<wal, unread, overwritten>>
    BY <1>2 DEF RetryGoesOn
  <2>3. Retry(lines[2]) \in Request
    BY <2>1, RequestType
  <2> HIDE <1>2
  <2> QED BY <1>1, <2>2, <2>3 DEF TypeOK
<1>3. CASE ~(Len(lines) > 1)
  <2>1. InSome(unread) \subseteq Event
    BY SomeEvents DEF TypeOK
  <2>2. /\ lines' = <<>> /\ remaining' = <<>> /\ wire' = onWire /\ wal' = rest
        /\ unread' = {} /\ overwritten' = overwritten \cup InSome(unread)
    BY <1>3 DEF RetryGoesOn
  <2> HIDE <1>3
  <2> QED BY <1>1, <2>1, <2>2 DEF TypeOK
<1> QED BY <1>2, <1>3

LEMMA NextTypes == TypeOK /\ [Next]_vars => TypeOK'
<1> SUFFICES ASSUME TypeOK, [Next]_vars PROVE TypeOK'
  OBVIOUS
<1> USE ConstantsAssumption DEF TypeOK, gateway, worker, network, losses, bounds
<1>1. <<>> \in Batch /\ Genesis \in Root /\ <<>> \in Seq(Payload)
  BY EmptySeq DEF Genesis, Root, Batch
<1>2. ASSUME NEW e \in Event, Audit(e) PROVE TypeOK'
  <2>1. Append(buffer, e) \in Batch
    BY InAppended DEF Batch
  <2> QED BY <1>1, <1>2, <2>1 DEF Audit
<1>3. CASE PeriodicFlush
  BY <1>1, <1>3 DEF PeriodicFlush
<1>4. ASSUME NEW batch \in created, FlushPosts(batch) PROVE TypeOK'
  <2>1. Seal(batch, prevRoot) \in Payload
    BY SealedBatch
  <2> QED BY <1>4, <2>1, RequestType DEF FlushPosts
<1>5. ASSUME NEW p \in posting, FlushAnswered(p) PROVE TypeOK'
  <2>1. PICK a \in AnswersTo(Flush(p)) : TakenForSuccess(a)
    BY <1>5 DEF FlushAnswered
  <2>2. answers' \in SUBSET Answer /\ prevRoot' \in Root /\ refused' \in SUBSET Event
    BY <2>1, RequestType, TakenTypes
  <2> QED BY <1>5, <2>2 DEF FlushAnswered
<1>6. ASSUME NEW p \in posting, FlushFails(p) PROVE TypeOK'
  <2>1. Append(wal, p) \in Seq(Payload) /\ wire' \in SUBSET Request
    BY <1>6, InAppended DEF FlushFails, Abandon
  <2>2. failures' \in 0 .. MaxFailures
    BY <1>6 DEF FlushFails, Abandon
  <2> QED BY <1>6, <2>1, <2>2 DEF FlushFails, Abandon
<1>7. CASE RetryStarts
  <2>1. Head(wal) \in Payload
    BY <1>7, InTail DEF RetryStarts
  <2> QED BY <1>1, <1>7, <2>1, RequestType DEF RetryStarts
<1>8. CASE RetryAnswered
  <2>1. Head(lines) \in Payload
    BY <1>8, InTail DEF RetryAnswered
  <2>2. PICK a \in AnswersTo(Retry(Head(lines))) : TakenForSuccess(a)
    BY <1>8 DEF RetryAnswered
  <2>3. answers' \in SUBSET Answer /\ prevRoot' \in Root /\ refused' \in SUBSET Event
    BY <2>1, <2>2, RequestType, TakenTypes
  <2>4. /\ lines' \in Seq(Payload) /\ remaining' \in Seq(Payload)
        /\ wal' \in Seq(Payload) /\ wire' \in SUBSET Request
        /\ unread' \in SUBSET Payload /\ overwritten' \in SUBSET Event
    BY <1>8, GoesOnTypes DEF RetryAnswered
  <2> QED BY <1>8, <2>3, <2>4 DEF RetryAnswered
<1>9. CASE RetryFails
  <2>1. Head(lines) \in Payload
    BY <1>9, InTail DEF RetryFails
  <2>2. Append(remaining, Head(lines)) \in Seq(Payload)
    BY <2>1, InAppended
  <2>3. /\ lines' \in Seq(Payload) /\ remaining' \in Seq(Payload)
        /\ wal' \in Seq(Payload) /\ wire' \in SUBSET Request
        /\ unread' \in SUBSET Payload /\ overwritten' \in SUBSET Event
    BY <1>9, <2>2, GoesOnTypes DEF RetryFails
  <2>4. failures' \in 0 .. MaxFailures
    BY <1>9 DEF RetryFails
  <2> QED BY <1>9, <2>3, <2>4 DEF RetryFails
<1>10. ASSUME NEW req \in wire, NEW ok \in BOOLEAN, AnswerTo(req, ok)
       PROVE  wire' \in SUBSET Request /\ answers' \in SUBSET Answer
  <2>1. [from |-> req.from, payload |-> req.payload, ok |-> ok] \in Answer
    BY DEF Request, Answer
  <2> QED BY <1>10, <2>1 DEF AnswerTo
<1>11. ASSUME NEW req \in wire, Accept(req) PROVE TypeOK'
  <2>1. req.payload \in Payload
    BY DEF Request
  <2>2. Append(siem, req.payload) \in Seq(Payload)
    BY <2>1, InAppended
  <2>3. wire' \in SUBSET Request /\ answers' \in SUBSET Answer
    BY <1>10, <1>11 DEF Accept
  <2> QED BY <1>11, <2>2, <2>3 DEF Accept
<1>12. ASSUME NEW req \in wire, Ignore(req) \/ Refuse(req) PROVE TypeOK'
  <2>1. wire' \in SUBSET Request /\ answers' \in SUBSET Answer
    BY <1>10, <1>12 DEF Ignore, Refuse
  <2> QED BY <1>12, <2>1 DEF Ignore, Refuse
<1>13. ASSUME NEW req \in wire, IngestFails(req) PROVE TypeOK'
  <2>1. failures' \in 0 .. MaxFailures
    BY <1>13 DEF IngestFails
  <2>2. wire' \in SUBSET Request /\ answers' \in SUBSET Answer
    BY <1>10, <1>13 DEF IngestFails
  <2> QED BY <1>13, <2>1, <2>2 DEF IngestFails
<1>14. CASE Restart
  <2>1. restarts' \in 0 .. MaxRestarts
    BY <1>14 DEF Restart
  <2>2. EventsOf(buffer) \subseteq Event
    BY InIsTyped DEF Batch
  <2>3. (UNION {EventsOf(b) : b \in created}) \subseteq Event
    BY InIsTyped DEF Batch
  <2>4. InSome(posting) \subseteq Event
    BY SomeEvents
  <2>5. forgotten' \in SUBSET Event
    <3> DEFINE tasks == UNION {EventsOf(b) : b \in created}
    <3>1. forgotten' = forgotten \cup EventsOf(buffer) \cup tasks \cup InSome(posting)
      BY <1>14 DEF Restart
    <3>2. tasks \subseteq Event
      BY <2>3
    <3> HIDE DEF tasks
    <3> QED BY <2>2, <2>4, <3>1, <3>2
  <2> QED BY <1>1, <1>14, <2>1, <2>5 DEF Restart
<1>15. CASE UNCHANGED vars
  BY <1>15 DEF vars
<1> QED
  BY <1>2, <1>3, <1>4, <1>5, <1>6, <1>7, <1>8, <1>9, <1>11, <1>12, <1>13, <1>14, <1>15
  DEF Next, Progress, Fault

\* Every variable keeps its type: what is posted, written to the file and
\* stored by the SIEM are payloads, whatever fails.
THEOREM AuditTypeCorrect == Spec => []TypeOK
BY InitTypes, NextTypes, PTL DEF Spec

----------------------------------------------------------------------------
(* The witness's table.                                                    *)

\* Next appends to the table or leaves it alone; what is appended was on
\* the wire, is not there yet and continues the last row.
LEMMA TableGrows ==
    ASSUME [Next]_vars
    PROVE  \/ UNCHANGED siem
           \/ \E req \in wire :
                 /\ siem' = Append(siem, req.payload)
                 /\ ~Stored(req.payload.root) /\ ~ChainBroken(req.payload)
BY DEF Next, Progress, Fault, vars, Audit, PeriodicFlush, FlushPosts, FlushAnswered, FlushFails,
       RetryStarts, RetryAnswered, RetryFails, Accept, Ignore, Refuse, IngestFails, Restart

----------------------------------------------------------------------------
(* No event is in two batches.                                             *)

\* Every payload that was ever sealed and is not lost, wherever it is.
Sealed ==
    posting \cup EventsOf(wal) \cup EventsOf(lines) \cup EventsOf(remaining)
        \cup EventsOf(siem) \cup {req.payload : req \in wire \cup answers}

In(p) == EventsOf(BatchOf(p))

Apart(S, T) == S \cap T = {}

\* Buffer, tasks and payloads have no audited event twice.
BufferApart ==
    /\ EventsOf(buffer) \subseteq audited
    /\ \A b \in created : Apart(EventsOf(b), EventsOf(buffer))
    /\ \A p \in Sealed : Apart(In(p), EventsOf(buffer))

TasksApart ==
    /\ \A b \in created : EventsOf(b) \subseteq audited
    /\ \A b, c \in created : b # c => Apart(EventsOf(b), EventsOf(c))
    /\ \A p \in Sealed, b \in created : Apart(In(p), EventsOf(b))

\* A batch is sealed once, with one head.
SealedApart ==
    /\ \A p \in Sealed : In(p) \subseteq audited
    /\ \A p, q \in Sealed : p # q => Apart(In(p), In(q))

\* Nor is a payload stored twice.
RowsDiffer == \A i, j \in DOMAIN siem : i # j => siem[i].root # siem[j].root

OnceInv == BufferApart /\ TasksApart /\ SealedApart /\ RowsDiffer

LEMMA OnceInitially == Init => OnceInv
<1> SUFFICES ASSUME Init PROVE OnceInv
  OBVIOUS
<1>1. EventsOf(buffer) = {} /\ created = {} /\ siem = <<>>
  BY InEmpty DEF Init
<1>2. Sealed = {}
  BY InEmpty DEF Init, Sealed
<1>3. DOMAIN siem = {}
  BY <1>1
<1> QED BY <1>1, <1>2, <1>3 DEF OnceInv, BufferApart, TasksApart, SealedApart, RowsDiffer

\* The payloads that requests carry.
Carried(reqs) == {req.payload : req \in reqs}

\* What all holders of payloads have is in X.
AllIn(X) ==
    /\ posting \subseteq X /\ EventsOf(wal) \subseteq X
    /\ EventsOf(lines) \subseteq X /\ EventsOf(remaining) \subseteq X
    /\ EventsOf(siem) \subseteq X
    /\ Carried(wire) \subseteq X /\ Carried(answers) \subseteq X

LEMMA SealedIsLeast ==
    /\ AllIn(Sealed)
    /\ \A X : AllIn(X)' => Sealed' \subseteq X
BY DEF AllIn, Sealed, Carried

\* Where a payload goes when retry_worker is done with one line.
LEMMA GoesOnSealed ==
    ASSUME TypeOK, lines # <<>>, NEW rest \in Seq(Payload), NEW onWire \in SUBSET wire,
           RetryGoesOn(rest, onWire),
           EventsOf(rest) \subseteq Sealed
    PROVE  /\ EventsOf(lines') \subseteq Sealed /\ EventsOf(remaining') \subseteq Sealed
           /\ EventsOf(wal') \subseteq Sealed /\ Carried(wire') \subseteq Sealed
<1>1. EventsOf(wal) \cup EventsOf(lines) \cup Carried(wire) \subseteq Sealed
  BY DEF Sealed, Carried
<1>2. Carried(onWire) \subseteq Sealed
  BY <1>1 DEF Carried
<1>3. CASE Len(lines) > 1
  <2>1. EventsOf(Tail(lines)) \subseteq EventsOf(lines)
    BY InTail DEF TypeOK
  <2>2. lines[2] \in EventsOf(lines)
    <3>1. 2 \in DOMAIN lines
      BY <1>3, LenProperties DEF TypeOK
    <3> QED BY <3>1 DEF EventsOf
  <2>3. Retry(lines[2]).payload = lines[2]
    BY DEF Retry
  <2>4. Carried(onWire \cup {Retry(lines[2])}) \subseteq Sealed
    BY <1>1, <1>2, <2>2, <2>3 DEF Carried
  <2>5. /\ lines' = Tail(lines) /\ remaining' = rest /\ wal' = wal
        /\ wire' = onWire \cup {Retry(lines[2])}
    BY <1>3 DEF RetryGoesOn
  <2> QED BY <1>1, <2>1, <2>4, <2>5
<1>4. CASE ~(Len(lines) > 1)
  <2>1. lines' = <<>> /\ remaining' = <<>> /\ wire' = onWire /\ wal' = rest
    BY <1>4 DEF RetryGoesOn
  <2> QED BY <1>2, <2>1, InEmpty
<1> QED BY <1>3, <1>4

\* Payloads come from flush_batch alone: all else moves, copies or drops them.
LEMMA SealedOnlyByFlush ==
    ASSUME TypeOK, Next, \A batch \in created : ~FlushPosts(batch)
    PROVE  Sealed' \subseteq Sealed
<1> SUFFICES ASSUME NEW CONSTANT X, X = Sealed PROVE Sealed' \subseteq X
  OBVIOUS
<1>1. AllIn(X)
  BY SealedIsLeast
<1>2. /\ posting \subseteq X /\ EventsOf(wal) \subseteq X
      /\ EventsOf(lines) \subseteq X /\ EventsOf(remaining) \subseteq X
      /\ EventsOf(siem) \subseteq X
      /\ Carried(wire) \subseteq X /\ Carried(answers) \subseteq X
  BY <1>1 DEF AllIn
<1>3. \A reqs : reqs \subseteq wire => Carried(reqs) \subseteq X
  BY <1>2 DEF Carried
<1>4. \A reqs : reqs \subseteq answers => Carried(reqs) \subseteq X
  BY <1>2 DEF Carried
<1>5. wal \in Seq(Payload) /\ lines \in Seq(Payload) /\ remaining \in Seq(Payload)
      /\ siem \in Seq(Payload) /\ posting \subseteq Payload
      /\ wire \subseteq Request /\ answers \subseteq Answer
  BY DEF TypeOK
<1> SUFFICES AllIn(X)'
  BY SealedIsLeast
<1> USE <1>2, <1>5, InEmpty DEF AllIn, gateway, worker, network, bounds
<1>6. CASE (\E e \in Event : Audit(e)) \/ PeriodicFlush
  BY <1>6 DEF Audit, PeriodicFlush
<1>7. ASSUME NEW p \in posting, FlushAnswered(p) PROVE AllIn(X)'
  BY <1>4, <1>7 DEF FlushAnswered, TakenForSuccess
<1>8. ASSUME NEW p \in posting, FlushFails(p) PROVE AllIn(X)'
  <2>1. EventsOf(wal') \subseteq X
    BY <1>8, InAppended DEF FlushFails
  <2>2. Carried(wire') \subseteq X /\ Carried(answers') \subseteq X
    BY <1>3, <1>4, <1>8 DEF FlushFails, Abandon
  <2> QED BY <1>8, <2>1, <2>2 DEF FlushFails
<1>9. CASE RetryStarts
  <2>1. Head(wal) \in EventsOf(wal)
    BY <1>9, InTail DEF RetryStarts
  <2>2. Carried(wire \cup {Retry(Head(wal))}) \subseteq X
    BY <2>1 DEF Carried, Retry
  <2> QED BY <1>9, <2>2 DEF RetryStarts
<1>10. CASE RetryAnswered
  <2>1. /\ EventsOf(lines') \subseteq X /\ EventsOf(remaining') \subseteq X
        /\ EventsOf(wal') \subseteq X /\ Carried(wire') \subseteq X
    BY <1>10, GoesOnSealed DEF RetryAnswered
  <2>2. Carried(answers') \subseteq X
    BY <1>4, <1>10 DEF RetryAnswered, TakenForSuccess
  <2> QED BY <1>10, <2>1, <2>2 DEF RetryAnswered
<1>11. CASE RetryFails
  <2>1. Head(lines) \in EventsOf(lines) /\ Head(lines) \in Payload
    BY <1>11, InTail DEF RetryFails
  <2>2. /\ Append(remaining, Head(lines)) \in Seq(Payload)
        /\ EventsOf(Append(remaining, Head(lines))) \subseteq X
    BY <2>1, InAppended
  <2>3. PICK onWire \in {wire, wire \ {Retry(Head(lines))}} :
              RetryGoesOn(Append(remaining, Head(lines)), onWire)
    BY <1>11 DEF RetryFails
  <2>4. /\ EventsOf(lines') \subseteq X /\ EventsOf(remaining') \subseteq X
        /\ EventsOf(wal') \subseteq X /\ Carried(wire') \subseteq X
    BY <1>11, <2>2, <2>3, GoesOnSealed DEF RetryFails
  <2>5. Carried(answers') \subseteq X
    BY <1>4, <1>11 DEF RetryFails
  <2> QED BY <1>11, <2>4, <2>5 DEF RetryFails
<1>12. ASSUME NEW req \in wire, NEW ok, AnswerTo(req, ok)
       PROVE  Carried(wire') \subseteq X /\ Carried(answers') \subseteq X
  <2> DEFINE a == [from |-> req.from, payload |-> req.payload, ok |-> ok]
  <2>1. Carried(answers \cup {a}) \subseteq X
    BY DEF Carried
  <2> QED BY <1>3, <1>12, <2>1 DEF AnswerTo
<1>13. ASSUME NEW req \in wire, Accept(req) PROVE AllIn(X)'
  <2>1. req.payload \in X /\ req.payload \in Payload
    BY DEF Carried, Request
  <2>2. EventsOf(siem') \subseteq X
    BY <1>13, <2>1, InAppended DEF Accept
  <2> QED BY <1>12, <1>13, <2>2 DEF Accept
<1>14. ASSUME NEW req \in wire, Ignore(req) \/ Refuse(req) \/ IngestFails(req) PROVE AllIn(X)'
  BY <1>12, <1>14 DEF Ignore, Refuse, IngestFails
<1>15. CASE Restart
  BY <1>4, <1>15 DEF Restart, Carried
<1> QED
  BY <1>6, <1>7, <1>8, <1>9, <1>10, <1>11, <1>13, <1>14, <1>15 DEF Next, Progress, Fault

\* A batch becomes a payload when its task is gone.
LEMMA FlushSeals ==
    ASSUME TypeOK, NEW batch \in created, FlushPosts(batch)
    PROVE  Sealed' \subseteq Sealed \cup {Seal(batch, prevRoot)}
<1> SUFFICES ASSUME NEW CONSTANT p, NEW CONSTANT X,
                    p = Seal(batch, prevRoot), X = Sealed \cup {p}
             PROVE  Sealed' \subseteq X
  OBVIOUS
<1>1. /\ posting' = posting \cup {p} /\ wire' = wire \cup {Flush(p)}
      /\ UNCHANGED <<wal, lines, remaining, siem, answers>>
  BY DEF FlushPosts, worker
<1>2. AllIn(Sealed)
  BY SealedIsLeast
<1>3. Carried(wire') \subseteq X
  BY <1>1, <1>2 DEF AllIn, Carried, Flush
<1>4. AllIn(X)'
  BY <1>1, <1>2, <1>3 DEF AllIn, Carried
<1> QED BY <1>4, SealedIsLeast

\* An event that was not audited yet is in nothing yet.
LEMMA AuditOnce ==
    ASSUME TypeOK, BufferApart, TasksApart, SealedApart, NEW e \in Event, Audit(e)
    PROVE  BufferApart' /\ TasksApart' /\ SealedApart'
<1>1. Sealed' = Sealed
  BY DEF Audit, Sealed, worker, network
<1> DEFINE full == Append(buffer, e)
<1>2. EventsOf(full) = EventsOf(buffer) \cup {e}
  BY InAppended DEF TypeOK, Batch
<1>3. e \notin audited /\ audited' = audited \cup {e}
  BY DEF Audit
<1> HIDE DEF full
<1>4. /\ \A b \in created : Apart(EventsOf(b), EventsOf(full))
      /\ \A p \in Sealed : Apart(In(p), EventsOf(full))
      /\ EventsOf(full) \subseteq audited'
  BY <1>2, <1>3 DEF BufferApart, TasksApart, SealedApart, Apart
<1>5. CASE buffer' = <<>> /\ created' = created \cup {full}
  <2>1. EventsOf(buffer') = {}
    BY <1>5, InEmpty
  <2>2. BufferApart'
    BY <2>1 DEF BufferApart, Apart
  <2>3. TasksApart'
    <3>1. \A b \in created' : b \in created \/ b = full
      BY <1>5
    <3> QED BY <1>1, <1>3, <1>4, <3>1 DEF TasksApart, Apart
  <2>4. SealedApart'
    BY <1>1, <1>3 DEF SealedApart
  <2> QED BY <2>2, <2>3, <2>4
<1>6. CASE buffer' = full /\ UNCHANGED created
  BY <1>1, <1>3, <1>4, <1>6 DEF BufferApart, TasksApart, SealedApart
<1> QED BY <1>5, <1>6 DEF Audit, full

\* The timer hands the buffer over.
LEMMA PeriodicOnce ==
    ASSUME BufferApart, TasksApart, SealedApart, PeriodicFlush
    PROVE  BufferApart' /\ TasksApart' /\ SealedApart'
<1>1. /\ Sealed' = Sealed /\ audited' = audited
      /\ created' = created \cup {buffer} /\ buffer' = <<>>
  BY DEF PeriodicFlush, Sealed, worker, network
<1>2. BufferApart'
  BY <1>1, InEmpty DEF BufferApart, Apart
<1>3. TasksApart'
  <2>1. \A b \in created' : b \in created \/ b = buffer
    BY <1>1
  <2> QED BY <1>1, <2>1 DEF TasksApart, BufferApart, Apart
<1>4. SealedApart'
  BY <1>1 DEF SealedApart
<1> QED BY <1>2, <1>3, <1>4

\* A task seals its batch and is gone.
LEMMA FlushOnce ==
    ASSUME TypeOK, BufferApart, TasksApart, SealedApart, NEW batch \in created, FlushPosts(batch)
    PROVE  BufferApart' /\ TasksApart' /\ SealedApart'
<1>1. /\ created' = created \ {batch}
      /\ UNCHANGED <<audited, buffer>>
  BY DEF FlushPosts
<1> SUFFICES ASSUME NEW CONSTANT sealedNow, sealedNow = Seal(batch, prevRoot)
             PROVE  BufferApart' /\ TasksApart' /\ SealedApart'
  OBVIOUS
<1>2. In(sealedNow) = EventsOf(batch)
  BY SealedBatch DEF In, TypeOK
<1>3. \A p \in Sealed' : p \in Sealed \/ p = sealedNow
  BY FlushSeals
<1>4. BufferApart'
  BY <1>1, <1>2, <1>3 DEF BufferApart
<1>5. TasksApart'
  BY <1>1, <1>2, <1>3 DEF TasksApart
<1>6. SealedApart'
  BY <1>1, <1>2, <1>3 DEF SealedApart, TasksApart, Apart
<1> QED BY <1>4, <1>5, <1>6

\* Whoever only moves payloads keeps them apart.
LEMMA MovesOnce ==
    ASSUME BufferApart, TasksApart, SealedApart, Sealed' \subseteq Sealed, audited' = audited,
           \/ UNCHANGED <<buffer, created>>
           \/ buffer' = <<>> /\ created' = {}
    PROVE  BufferApart' /\ TasksApart' /\ SealedApart'
<1>1. SealedApart'
  BY DEF SealedApart
<1>2. CASE UNCHANGED <<buffer, created>>
  BY <1>1, <1>2 DEF BufferApart, TasksApart
<1>3. CASE buffer' = <<>> /\ created' = {}
  BY <1>1, <1>3, InEmpty DEF BufferApart, TasksApart, Apart
<1> QED BY <1>2, <1>3

LEMMA RowsDifferStep ==
    ASSUME TypeOK, RowsDiffer, [Next]_vars
    PROVE  RowsDiffer'
<1>1. CASE UNCHANGED siem
  BY <1>1 DEF RowsDiffer
<1>2. ASSUME NEW req \in wire, siem' = Append(siem, req.payload), ~Stored(req.payload.root)
      PROVE  RowsDiffer'
  <2>1. req.payload \in Payload
    BY DEF TypeOK, Request
  <2>2. siem \in Seq(Payload) /\ Len(siem) \in Nat /\ DOMAIN siem = 1 .. Len(siem)
    BY LenProperties DEF TypeOK
  <2>3. /\ DOMAIN siem' = 1 .. Len(siem) + 1
        /\ \A i \in 1 .. Len(siem) : siem'[i] = siem[i]
        /\ siem'[Len(siem) + 1] = req.payload
    <3>1. siem' \in Seq(Payload) /\ Len(siem') = Len(siem) + 1
      BY <1>2, <2>1, <2>2, AppendProperties
    <3> QED BY <1>2, <2>1, <2>2, <3>1, AppendProperties, LenProperties
  <2>4. \A i \in 1 .. Len(siem) : siem[i].root # req.payload.root
    BY <1>2, <2>2 DEF Stored
  <2> SUFFICES ASSUME NEW i \in DOMAIN siem', NEW j \in DOMAIN siem', i # j
               PROVE  siem'[i].root # siem'[j].root
    BY DEF RowsDiffer
  <2>5. CASE i \in 1 .. Len(siem) /\ j \in 1 .. Len(siem)
    BY <2>2, <2>3, <2>5 DEF RowsDiffer
  <2>6. CASE i = Len(siem) + 1 /\ j \in 1 .. Len(siem)
    BY <2>3, <2>4, <2>6
  <2>7. CASE i \in 1 .. Len(siem) /\ j = Len(siem) + 1
    BY <2>3, <2>4, <2>7
  <2> QED BY <2>2, <2>3, <2>5, <2>6, <2>7
<1> QED BY <1>1, <1>2, TableGrows

LEMMA OnceStep == TypeOK /\ OnceInv /\ [Next]_vars => OnceInv'
<1> SUFFICES ASSUME TypeOK, OnceInv, [Next]_vars PROVE OnceInv'
  OBVIOUS
<1>1. RowsDiffer'
  BY RowsDifferStep DEF OnceInv
<1>2. BufferApart /\ TasksApart /\ SealedApart
  BY DEF OnceInv
<1>3. BufferApart' /\ TasksApart' /\ SealedApart'
  <2>1. CASE \E e \in Event : Audit(e)
    BY <1>2, <2>1, AuditOnce
  <2>2. CASE PeriodicFlush
    BY <1>2, <2>2, PeriodicOnce
  <2>3. CASE \E batch \in created : FlushPosts(batch)
    BY <1>2, <2>3, FlushOnce
  <2>4. CASE Next /\ ~(\E e \in Event : Audit(e)) /\ ~PeriodicFlush
             /\ ~(\E batch \in created : FlushPosts(batch))
    <3>1. Sealed' \subseteq Sealed
      BY <2>4, SealedOnlyByFlush
    <3>2. /\ audited' = audited
          /\ \/ UNCHANGED <<buffer, created>>
             \/ buffer' = <<>> /\ created' = {}
      BY <2>4 DEF Next, Progress, Fault, FlushAnswered, FlushFails, RetryStarts, RetryAnswered,
                  RetryFails, Accept, Ignore, Refuse, IngestFails, Restart, gateway
    <3> QED BY <1>2, <3>1, <3>2, MovesOnce
  <2>5. CASE UNCHANGED vars
    <3>1. Sealed' = Sealed /\ UNCHANGED <<audited, buffer, created>>
      BY <2>5 DEF Sealed, vars, gateway, worker, network
    <3> QED BY <1>2, <3>1, MovesOnce
  <2> QED BY <2>1, <2>2, <2>3, <2>4, <2>5
<1> QED BY <1>1, <1>3 DEF OnceInv

LEMMA OnceInvariant == Spec => []OnceInv
BY OnceInitially, OnceStep, AuditTypeCorrect, PTL DEF Spec

\* No event is witnessed in two rows, however often its batch is posted from
\* memory and from the file: a batch is sealed once, and stored once.
THEOREM EventsOnceHolds == Spec => []EventsOnce
<1>1. OnceInv => EventsOnce
  <2> SUFFICES ASSUME OnceInv, NEW i \in DOMAIN siem, NEW j \in DOMAIN siem, i # j
               PROVE  Apart(In(siem[i]), In(siem[j]))
    BY DEF EventsOnce, Apart, In
  <2>1. siem[i] \in Sealed /\ siem[j] \in Sealed
    BY DEF Sealed, EventsOf
  <2>2. siem[i] # siem[j]
    BY DEF OnceInv, RowsDiffer
  <2> QED BY <2>1, <2>2 DEF OnceInv, SealedApart
<1> QED BY <1>1, OnceInvariant, PTL

----------------------------------------------------------------------------
(* What gets lost.                                                         *)

Tasks == UNION {EventsOf(b) : b \in created}

LEMMA SomeOf ==
    /\ InSome({}) = {}
    /\ \A p : InSome({p}) = In(p)
    /\ \A S, T : InSome(S \cup T) = InSome(S) \cup InSome(T)
    /\ \A S, T : S \subseteq T => InSome(S) \subseteq InSome(T)
BY DEF InSome, In

LEMMA KeptParts ==
    /\ Kept = EventsOf(buffer) \cup Tasks \cup InSome(posting) \cup InSome(EventsOf(wal)) \cup Witnessed
    /\ Kept' = EventsOf(buffer') \cup Tasks' \cup InSome(posting') \cup InSome(EventsOf(wal'))
                  \cup Witnessed'
<1>1. InSome(posting \cup EventsOf(wal)) = InSome(posting) \cup InSome(EventsOf(wal))
  BY SomeOf
<1>2. InSome(posting' \cup EventsOf(wal')) = InSome(posting') \cup InSome(EventsOf(wal'))
  BY SomeOf
<1> QED BY <1>1, <1>2 DEF Kept, Tasks

LEMMA HeadAndTail ==
    ASSUME NEW S, NEW s \in Seq(S), s # <<>>
    PROVE  EventsOf(s) = {Head(s)} \cup EventsOf(Tail(s))
<1>1. /\ Len(Tail(s)) = Len(s) - 1
      /\ \A i \in 1 .. Len(Tail(s)) : Tail(s)[i] = s[i + 1]
      /\ Tail(s) \in Seq(S)
  BY HeadTailProperties
<1>2. DOMAIN s = 1 .. Len(s) /\ Len(s) \in Nat \ {0} /\ DOMAIN Tail(s) = 1 .. Len(Tail(s))
  BY <1>1, LenProperties, EmptySeq
<1>3. EventsOf(s) \subseteq {Head(s)} \cup EventsOf(Tail(s))
  <2> SUFFICES ASSUME NEW i \in DOMAIN s, i # 1 PROVE s[i] \in EventsOf(Tail(s))
    BY DEF EventsOf
  <2>1. i - 1 \in DOMAIN Tail(s) /\ Tail(s)[i - 1] = s[i]
    BY <1>1, <1>2
  <2> QED BY <2>1 DEF EventsOf
<1> QED BY <1>3, InTail

\* The witness forgets nothing.
LEMMA WitnessGrows ==
    ASSUME TypeOK, [Next]_vars
    PROVE  /\ EventsOf(siem) \subseteq EventsOf(siem')
           /\ Witnessed \subseteq Witnessed'
           /\ \A root : Stored(root) => Stored(root)'
<1>1. EventsOf(siem) \subseteq EventsOf(siem')
  <2>1. ASSUME NEW req \in wire, siem' = Append(siem, req.payload)
        PROVE  EventsOf(siem) \subseteq EventsOf(siem')
    BY <2>1, InAppended DEF TypeOK, Request
  <2> QED BY <2>1, TableGrows
<1>2. \A root : Stored(root) <=> \E p \in EventsOf(siem) : p.root = root
  BY DEF Stored, EventsOf
<1>3. \A root : Stored(root)' <=> \E p \in EventsOf(siem') : p.root = root
  BY DEF Stored, EventsOf
<1> QED BY <1>1, <1>2, <1>3, SomeOf DEF Witnessed

LEMMA StoredIsWitnessed ==
    ASSUME NEW p, Stored(p.root)
    PROVE  In(p) \subseteq Witnessed
<1>1. PICK i \in DOMAIN siem : siem[i].root = p.root
  BY DEF Stored
<1>2. BatchOf(siem[i]) = BatchOf(p)
  BY <1>1 DEF BatchOf
<1> QED BY <1>2 DEF Witnessed, InSome, In, EventsOf

\* An answer of 200 means that the root is stored.
AnswersTrue == \A a \in answers : a.ok => Stored(a.payload.root)

\* What retry_worker has read is refused, stored, or still in its hands; the
\* rest of the file was appended since.
FileKept ==
    /\ lines = <<>> => remaining = <<>> /\ unread = {}
    /\ lines # <<>> =>
          InSome(EventsOf(wal)) \subseteq
              refused \cup Witnessed \cup InSome(EventsOf(lines))
                  \cup InSome(EventsOf(remaining)) \cup InSome(unread)

LossInv == AnswersTrue /\ FileKept /\ LossesHaveCause

LEMMA AnswersTrueStep == TypeOK /\ AnswersTrue /\ [Next]_vars => AnswersTrue'
<1> SUFFICES ASSUME TypeOK, AnswersTrue, [Next]_vars, NEW a \in answers', a.ok
             PROVE  Stored(a.payload.root)'
  BY DEF AnswersTrue
<1>1. CASE a \in answers
  BY <1>1, WitnessGrows DEF AnswersTrue
<1>2. ASSUME NEW req \in wire, a.payload = req.payload, Stored(req.payload.root)
      PROVE  Stored(a.payload.root)'
  BY <1>2, WitnessGrows
<1>3. ASSUME NEW req \in wire, a.payload = req.payload, siem' = Append(siem, req.payload)
      PROVE  Stored(a.payload.root)'
  <2>1. req.payload \in EventsOf(siem')
    BY <1>3, InAppended DEF TypeOK, Request
  <2> QED BY <1>3, <2>1 DEF Stored, EventsOf
<1>4. CASE a \notin answers
  <2>1. \E req \in wire : Accept(req) \/ Ignore(req) \/ Refuse(req) \/ IngestFails(req)
    BY <1>4
    DEF Next, Progress, Fault, vars, network, Audit, PeriodicFlush, FlushPosts, FlushAnswered,
        FlushFails, RetryStarts, RetryAnswered, RetryFails, Restart, Abandon, TakenForSuccess
  <2>2. PICK req \in wire : Accept(req) \/ Ignore(req) \/ Refuse(req) \/ IngestFails(req)
    BY <2>1
  <2>3. ASSUME NEW ok, AnswerTo(req, ok) PROVE a.payload = req.payload /\ a.ok = ok
    <3>1. a \in answers \cup {[from |-> req.from, payload |-> req.payload, ok |-> ok]}
      BY <2>3 DEF AnswerTo
    <3>2. a = [from |-> req.from, payload |-> req.payload, ok |-> ok]
      BY <1>4, <3>1
    <3> QED BY <3>2
  <2>4. CASE Accept(req)
    BY <1>3, <2>3, <2>4 DEF Accept
  <2>5. CASE Ignore(req)
    BY <1>2, <2>3, <2>5 DEF Ignore
  <2>6. CASE Refuse(req) \/ IngestFails(req)
    BY <2>3, <2>6 DEF Refuse, IngestFails
  <2> QED BY <2>2, <2>4, <2>5, <2>6
<1> QED BY <1>1, <1>4

\* The next line, or the file written anew after the last one.
LEMMA GoesOnCases ==
    ASSUME TypeOK, lines # <<>>, NEW rest, NEW onWire, RetryGoesOn(rest, onWire)
    PROVE  \/ /\ Tail(lines) # <<>> /\ lines' = Tail(lines) /\ remaining' = rest
              /\ lines[2] \in EventsOf(Tail(lines))
              /\ wire' = onWire \cup {Retry(lines[2])}
              /\ wal' = wal /\ unread' = unread /\ overwritten' = overwritten
           \/ /\ Tail(lines) = <<>> /\ lines' = <<>> /\ remaining' = <<>>
              /\ wire' = onWire /\ wal' = rest /\ unread' = {}
              /\ overwritten' = overwritten \cup InSome(unread)
<1>1. /\ lines \in Seq(Payload) /\ Len(lines) \in Nat \ {0}
      /\ Tail(lines) \in Seq(Payload) /\ Len(Tail(lines)) = Len(lines) - 1
      /\ \A i \in 1 .. Len(Tail(lines)) : Tail(lines)[i] = lines[i + 1]
  BY HeadTailProperties, EmptySeq, LenProperties DEF TypeOK
<1>2. Tail(lines) = <<>> <=> Len(lines) = 1
  <2>1. Tail(lines) = <<>> <=> Len(Tail(lines)) = 0
    BY <1>1, EmptySeq
  <2> QED BY <1>1, <2>1
<1>3. CASE Len(lines) > 1
  <2>1. 1 \in DOMAIN Tail(lines) /\ Tail(lines)[1] = lines[2]
    BY <1>1, <1>3, LenProperties
  <2>2. lines[2] \in EventsOf(Tail(lines))
    BY <2>1 DEF EventsOf
  <2>3. Len(lines) # 1
    BY <1>1, <1>3
  <2> QED BY <1>2, <2>2, <2>3 DEF RetryGoesOn
<1>4. CASE ~(Len(lines) > 1)
  BY <1>1, <1>2, <1>4 DEF RetryGoesOn
<1> QED BY <1>3, <1>4

\* retry_worker is done with a line, which it keeps, or which was answered.
LEMMA GoesOnKeeps ==
    ASSUME TypeOK, FileKept, lines # <<>>, NEW rest \in Seq(Payload), NEW onWire,
           RetryGoesOn(rest, onWire),
           refused \subseteq refused', Witnessed' = Witnessed,
           InSome(EventsOf(remaining)) \subseteq InSome(EventsOf(rest)),
           In(Head(lines)) \subseteq refused' \cup Witnessed \cup InSome(EventsOf(rest))
    PROVE  /\ FileKept'
           /\ InSome(EventsOf(wal)) \subseteq
                 InSome(EventsOf(wal')) \cup refused' \cup overwritten' \cup Witnessed
           /\ overwritten \subseteq overwritten'
<1>1. InSome(EventsOf(lines)) = In(Head(lines)) \cup InSome(EventsOf(Tail(lines)))
  <2>1. EventsOf(lines) = {Head(lines)} \cup EventsOf(Tail(lines))
    BY HeadAndTail DEF TypeOK
  <2>2. InSome({Head(lines)} \cup EventsOf(Tail(lines)))
            = InSome({Head(lines)}) \cup InSome(EventsOf(Tail(lines)))
    BY SomeOf
  <2>3. InSome({Head(lines)}) = In(Head(lines))
    BY SomeOf
  <2> QED BY <2>1, <2>2, <2>3
<1>2. InSome(EventsOf(wal)) \subseteq
          refused \cup Witnessed \cup InSome(EventsOf(lines))
              \cup InSome(EventsOf(remaining)) \cup InSome(unread)
  BY DEF FileKept
<1>3. CASE Tail(lines) # <<>>
  <2>1. /\ lines' = Tail(lines) /\ remaining' = rest
        /\ wal' = wal /\ unread' = unread /\ overwritten' = overwritten
    BY <1>3, GoesOnCases
  <2> QED BY <1>1, <1>2, <1>3, <2>1 DEF FileKept
<1>4. CASE Tail(lines) = <<>>
  <2>1. /\ lines' = <<>> /\ remaining' = <<>> /\ unread' = {} /\ wal' = rest
        /\ overwritten' = overwritten \cup InSome(unread)
    BY <1>4, GoesOnCases
  <2>2. InSome(EventsOf(Tail(lines))) = {}
    BY <1>4, InEmpty, SomeOf
  <2> QED BY <1>1, <1>2, <2>1, <2>2 DEF FileKept
<1> QED BY <1>3, <1>4

\* Steps that leave what is kept, or hand it on, lose nothing.
LEMMA HandedOn ==
    ASSUME LossesHaveCause, audited' \subseteq audited \cup Kept',
           Kept \subseteq Kept' \cup refused' \cup overwritten' \cup forgotten',
           refused \subseteq refused', overwritten \subseteq overwritten',
           forgotten \subseteq forgotten'
    PROVE  LossesHaveCause'
BY DEF LossesHaveCause

\* What is neither moved nor dropped stays as it is.
LEMMA BufferedKept ==
    ASSUME TypeOK, LossInv, (\E e \in Event : Audit(e)) \/ PeriodicFlush
    PROVE  FileKept' /\ LossesHaveCause'
<1>1. UNCHANGED <<posting, wal, lines, remaining, unread, siem, refused, overwritten, forgotten>>
  BY DEF Audit, PeriodicFlush, worker, losses
<1>2. FileKept'
  BY <1>1 DEF LossInv, FileKept, Witnessed
<1> DEFINE rest == InSome(posting) \cup InSome(EventsOf(wal)) \cup Witnessed
<1>3. Kept = EventsOf(buffer) \cup Tasks \cup rest
  BY KeptParts
<1>4. Kept' = EventsOf(buffer') \cup Tasks' \cup rest
  BY <1>1, KeptParts DEF Witnessed
<1> HIDE DEF rest
<1>5. ASSUME NEW b, created' = created \cup {b} PROVE Tasks' = Tasks \cup EventsOf(b)
  BY <1>5 DEF Tasks
<1>6. audited' \subseteq audited \cup Kept' /\ Kept \subseteq Kept'
  <2>1. ASSUME NEW e \in Event, Audit(e)
        PROVE  audited' \subseteq audited \cup Kept' /\ Kept \subseteq Kept'
    <3> DEFINE full == Append(buffer, e)
    <3>1. EventsOf(full) = EventsOf(buffer) \cup {e}
      BY InAppended DEF TypeOK, Batch
    <3>2. audited' = audited \cup {e}
      BY <2>1 DEF Audit
    <3>3. \/ created' = created \cup {full}
          \/ buffer' = full /\ created' = created
      BY <2>1 DEF Audit
    <3> HIDE DEF full
    <3>4. CASE created' = created \cup {full}
      <4>1. Tasks' = Tasks \cup EventsOf(full)
        BY <1>5, <3>4
      <4> QED BY <1>3, <1>4, <3>1, <3>2, <4>1
    <3>5. CASE buffer' = full /\ created' = created
      <4>1. Tasks' = Tasks
        BY <3>5 DEF Tasks
      <4> QED BY <1>3, <1>4, <3>1, <3>2, <3>5, <4>1
    <3> QED BY <3>3, <3>4, <3>5
  <2>2. CASE PeriodicFlush
    <3>1. created' = created \cup {buffer} /\ audited' = audited
      BY <2>2 DEF PeriodicFlush
    <3>2. Tasks' = Tasks \cup EventsOf(buffer)
      BY <1>5, <3>1
    <3> QED BY <1>3, <1>4, <3>1, <3>2
  <2> QED BY <2>1, <2>2
<1>7. LossesHaveCause'
  BY <1>1, <1>6, HandedOn DEF LossInv
<1> QED BY <1>2, <1>7

LEMMA FlushPostsKept ==
    ASSUME TypeOK, LossInv, NEW batch \in created, FlushPosts(batch)
    PROVE  FileKept' /\ LossesHaveCause'
<1> SUFFICES ASSUME NEW CONSTANT p, p = Seal(batch, prevRoot)
             PROVE  FileKept' /\ LossesHaveCause'
  OBVIOUS
<1>1. /\ UNCHANGED <<audited, buffer, wal, lines, remaining, unread, siem,
                     refused, overwritten, forgotten>>
      /\ posting' = posting \cup {p} /\ created' = created \ {batch}
  BY DEF FlushPosts, worker, losses
<1>2. FileKept'
  BY <1>1 DEF LossInv, FileKept, Witnessed
<1>3. In(p) = EventsOf(batch)
  BY SealedBatch DEF In, TypeOK
<1>4. InSome(posting') = InSome(posting) \cup EventsOf(batch)
  <2>1. InSome(posting \cup {p}) = InSome(posting) \cup InSome({p}) /\ InSome({p}) = In(p)
    BY SomeOf
  <2> QED BY <1>1, <1>3, <2>1
<1>5. Tasks \subseteq Tasks' \cup EventsOf(batch)
  <2> SUFFICES ASSUME NEW b \in created, b # batch PROVE EventsOf(b) \subseteq Tasks'
    BY DEF Tasks
  <2>1. b \in created'
    BY <1>1
  <2> QED BY <2>1 DEF Tasks
<1>6. Kept \subseteq Kept'
  <2>1. Kept' = EventsOf(buffer) \cup Tasks' \cup InSome(posting') \cup InSome(EventsOf(wal)) \cup Witnessed
    BY <1>1, KeptParts DEF Witnessed
  <2> QED BY <1>4, <1>5, <2>1, KeptParts
<1> QED BY <1>1, <1>2, <1>6, HandedOn DEF LossInv

\* A payload is let go of when it is stored, refused, or in the file.
LEMMA PostDone ==
    ASSUME NEW p \in posting, posting' = posting \ {p}
    PROVE  InSome(posting) \subseteq InSome(posting') \cup In(p)
<1>1. posting \subseteq posting' \cup {p}
  OBVIOUS
<1>2. /\ InSome(posting) \subseteq InSome(posting' \cup {p})
      /\ InSome(posting' \cup {p}) = InSome(posting') \cup InSome({p})
      /\ InSome({p}) = In(p)
  BY <1>1, SomeOf
<1> QED BY <1>2

\* Who takes an answer for success has the events stored, or refused.
LEMMA TakenKept ==
    ASSUME AnswersTrue, NEW p, NEW req, req.payload = p,
           NEW a \in AnswersTo(req), TakenForSuccess(a), siem' = siem
    PROVE  In(p) \subseteq refused' \cup Witnessed /\ refused \subseteq refused'
<1>1. a \in answers /\ a.payload = p
  BY DEF AnswersTo
<1>2. CASE a.ok
  <2>1. In(p) \subseteq Witnessed
    BY <1>1, <1>2, StoredIsWitnessed DEF AnswersTrue
  <2> QED BY <1>2, <2>1 DEF TakenForSuccess
<1>3. CASE ~a.ok
  BY <1>1, <1>3 DEF TakenForSuccess, In
<1> QED BY <1>2, <1>3

LEMMA FlushDoneKept ==
    ASSUME TypeOK, LossInv, NEW p \in posting, FlushAnswered(p) \/ FlushFails(p)
    PROVE  FileKept' /\ LossesHaveCause'
<1>1. /\ UNCHANGED <<audited, buffer, created, lines, remaining, siem, overwritten, forgotten>>
      /\ posting' = posting \ {p}
  BY DEF FlushAnswered, FlushFails, worker, losses
<1>2. Tasks' = Tasks /\ Witnessed' = Witnessed
  BY <1>1 DEF Tasks, Witnessed
<1>3. Kept' = EventsOf(buffer) \cup Tasks \cup InSome(posting') \cup InSome(EventsOf(wal')) \cup Witnessed
  BY <1>1, <1>2, KeptParts
<1>4. InSome(posting) \subseteq InSome(posting') \cup In(p)
  BY <1>1, PostDone
<1>5. CASE FlushAnswered(p)
  <2>1. wal' = wal /\ unread' = unread
    BY <1>5 DEF FlushAnswered, worker
  <2>2. In(p) \subseteq refused' \cup Witnessed /\ refused \subseteq refused'
    <3>1. PICK a \in AnswersTo(Flush(p)) : TakenForSuccess(a)
      BY <1>5 DEF FlushAnswered
    <3>2. Flush(p).payload = p
      BY DEF Flush
    <3> QED BY <1>1, <3>1, <3>2, TakenKept DEF LossInv
  <2>3. FileKept'
    BY <1>1, <1>2, <2>1, <2>2 DEF LossInv, FileKept
  <2>4. Kept \subseteq Kept' \cup refused'
    BY <1>3, <1>4, <2>1, <2>2, KeptParts
  <2> QED BY <1>1, <2>2, <2>3, <2>4, HandedOn DEF LossInv
<1>6. CASE FlushFails(p)
  <2>1. /\ wal' = Append(wal, p) /\ refused' = refused
        /\ unread' = IF lines = <<>> THEN {} ELSE unread \cup {p}
    BY <1>6 DEF FlushFails, losses
  <2>2. InSome(EventsOf(wal')) = InSome(EventsOf(wal)) \cup In(p)
    <3>1. EventsOf(wal') = EventsOf(wal) \cup {p}
      BY <2>1, InAppended DEF TypeOK
    <3>2. InSome(EventsOf(wal) \cup {p}) = InSome(EventsOf(wal)) \cup InSome({p})
          /\ InSome({p}) = In(p)
      BY SomeOf
    <3> QED BY <3>1, <3>2
  <2>3. FileKept'
    <3>1. CASE lines = <<>>
      BY <1>1, <2>1, <3>1 DEF LossInv, FileKept
    <3>2. CASE lines # <<>>
      <4>1. InSome(unread') = InSome(unread) \cup In(p)
        <5>1. InSome(unread \cup {p}) = InSome(unread) \cup InSome({p}) /\ InSome({p}) = In(p)
          BY SomeOf
        <5> QED BY <2>1, <3>2, <5>1
      <4>2. InSome(EventsOf(wal)) \subseteq
                refused \cup Witnessed \cup InSome(EventsOf(lines))
                    \cup InSome(EventsOf(remaining)) \cup InSome(unread)
        BY <3>2 DEF LossInv, FileKept
      <4>3. InSome(EventsOf(wal')) \subseteq
                refused' \cup Witnessed' \cup InSome(EventsOf(lines'))
                    \cup InSome(EventsOf(remaining')) \cup InSome(unread')
        BY <1>1, <1>2, <2>1, <2>2, <4>1, <4>2
      <4> QED BY <1>1, <3>2, <4>3 DEF FileKept
    <3> QED BY <3>1, <3>2
  <2>4. Kept \subseteq Kept'
    BY <1>3, <1>4, <2>2, KeptParts
  <2> QED BY <1>1, <2>1, <2>3, <2>4, HandedOn DEF LossInv
<1> QED BY <1>5, <1>6

\* The file is rewritten with all it had when it was read but what was answered.
LEMMA RetryKept ==
    ASSUME TypeOK, LossInv, RetryAnswered \/ RetryFails
    PROVE  FileKept' /\ LossesHaveCause'
<1>1. /\ UNCHANGED <<audited, buffer, created, posting, siem, forgotten>>
      /\ lines # <<>>
  BY DEF RetryAnswered, RetryFails, gateway
<1>2. Tasks' = Tasks /\ Witnessed' = Witnessed
  BY <1>1 DEF Tasks, Witnessed
<1>3. Kept' = EventsOf(buffer) \cup Tasks \cup InSome(posting) \cup InSome(EventsOf(wal')) \cup Witnessed
  BY <1>1, <1>2, KeptParts
<1>4. Head(lines) \in Payload
  BY <1>1, InTail DEF TypeOK
<1>5. PICK rest \in Seq(Payload), onWire \in SUBSET wire :
          /\ RetryGoesOn(rest, onWire)
          /\ refused \subseteq refused'
          /\ InSome(EventsOf(remaining)) \subseteq InSome(EventsOf(rest))
          /\ In(Head(lines)) \subseteq refused' \cup Witnessed \cup InSome(EventsOf(rest))
  <2>1. CASE RetryAnswered
    <3>1. PICK a \in AnswersTo(Retry(Head(lines))) : TakenForSuccess(a)
      BY <2>1 DEF RetryAnswered
    <3>2. Retry(Head(lines)).payload = Head(lines)
      BY DEF Retry
    <3>3. In(Head(lines)) \subseteq refused' \cup Witnessed /\ refused \subseteq refused'
      BY <1>1, <3>1, <3>2, TakenKept DEF LossInv
    <3>4. remaining \in Seq(Payload) /\ RetryGoesOn(remaining, wire)
      BY <2>1 DEF RetryAnswered, TypeOK
    <3> QED BY <3>3, <3>4
  <2>2. CASE RetryFails
    <3> DEFINE rest == Append(remaining, Head(lines))
    <3>1. rest \in Seq(Payload) /\ EventsOf(rest) = EventsOf(remaining) \cup {Head(lines)}
      BY <1>4, InAppended DEF TypeOK
    <3>2. /\ InSome(EventsOf(remaining) \cup {Head(lines)})
                 = InSome(EventsOf(remaining)) \cup InSome({Head(lines)})
          /\ InSome({Head(lines)}) = In(Head(lines))
      BY SomeOf
    <3>3. InSome(EventsOf(rest)) = InSome(EventsOf(remaining)) \cup In(Head(lines))
      BY <3>1, <3>2
    <3>4. refused' = refused /\ \E onWire \in SUBSET wire : RetryGoesOn(rest, onWire)
      BY <2>2 DEF RetryFails
    <3> HIDE DEF rest
    <3> QED BY <3>1, <3>3, <3>4
  <2> QED BY <2>1, <2>2
<1>6. /\ FileKept'
      /\ InSome(EventsOf(wal)) \subseteq
             InSome(EventsOf(wal')) \cup refused' \cup overwritten' \cup Witnessed
      /\ overwritten \subseteq overwritten'
  BY <1>1, <1>2, <1>5, GoesOnKeeps DEF LossInv
<1>7. Kept \subseteq Kept' \cup refused' \cup overwritten'
  BY <1>3, <1>6, KeptParts
<1> QED BY <1>1, <1>5, <1>6, <1>7, HandedOn DEF LossInv

LEMMA RetryStartsKept ==
    ASSUME TypeOK, LossInv, RetryStarts
    PROVE  FileKept' /\ LossesHaveCause'
<1>1. /\ UNCHANGED <<audited, buffer, created, posting, wal, unread, siem,
                     refused, overwritten, forgotten>>
      /\ lines' = wal /\ wal # <<>>
  BY DEF RetryStarts, gateway, losses
<1>2. Kept' = Kept
  BY <1>1 DEF Kept, Witnessed
<1>3. FileKept'
  BY <1>1 DEF FileKept
<1> QED BY <1>1, <1>2, <1>3, HandedOn DEF LossInv

LEMMA IngestKept ==
    ASSUME TypeOK, LossInv, [Next]_vars, NEW req \in wire,
           Accept(req) \/ Ignore(req) \/ Refuse(req) \/ IngestFails(req)
    PROVE  FileKept' /\ LossesHaveCause'
<1>1. UNCHANGED <<audited, buffer, created, posting, wal, lines, remaining, unread,
                  refused, overwritten, forgotten>>
  BY DEF Accept, Ignore, Refuse, IngestFails, gateway, worker, losses
<1>2. Witnessed \subseteq Witnessed' /\ Tasks' = Tasks
  BY <1>1, WitnessGrows DEF Tasks
<1>3. FileKept'
  BY <1>1, <1>2 DEF LossInv, FileKept
<1>4. Kept' = EventsOf(buffer) \cup Tasks \cup InSome(posting) \cup InSome(EventsOf(wal)) \cup Witnessed'
  BY <1>1, <1>2, KeptParts
<1>5. Kept \subseteq Kept'
  BY <1>2, <1>4, KeptParts
<1> QED BY <1>1, <1>3, <1>5, HandedOn DEF LossInv

\* The file and the witness's table outlive the gateway.
LEMMA RestartKept ==
    ASSUME TypeOK, LossInv, Restart
    PROVE  FileKept' /\ LossesHaveCause'
<1>1. /\ UNCHANGED <<audited, wal, siem, refused, overwritten>>
      /\ lines' = <<>> /\ remaining' = <<>> /\ unread' = {}
      /\ forgotten' = forgotten \cup EventsOf(buffer) \cup Tasks \cup InSome(posting)
  BY DEF Restart, Tasks
<1>2. Witnessed' = Witnessed
  BY <1>1 DEF Witnessed
<1>3. InSome(EventsOf(wal)) \cup Witnessed \subseteq Kept'
  BY <1>1, <1>2, KeptParts
<1>4. Kept \subseteq Kept' \cup forgotten'
  BY <1>1, <1>3, KeptParts
<1>5. FileKept'
  BY <1>1 DEF FileKept
<1> QED BY <1>1, <1>4, <1>5, HandedOn DEF LossInv

LEMMA LossInitially == Init => LossInv
<1> SUFFICES ASSUME Init PROVE LossInv
  OBVIOUS
<1> QED BY DEF Init, LossInv, AnswersTrue, FileKept, LossesHaveCause

LEMMA LossStep == TypeOK /\ LossInv /\ [Next]_vars => LossInv'
<1> SUFFICES ASSUME TypeOK, LossInv, [Next]_vars PROVE FileKept' /\ LossesHaveCause'
  BY AnswersTrueStep DEF LossInv
<1>1. CASE UNCHANGED vars
  <2>1. Kept' = Kept /\ Witnessed' = Witnessed
    BY <1>1 DEF vars, gateway, worker, Kept, Witnessed
  <2> QED BY <1>1, <2>1 DEF vars, gateway, worker, losses, LossInv, FileKept, LossesHaveCause
<1>2. CASE (\E e \in Event : Audit(e)) \/ PeriodicFlush
  BY <1>2, BufferedKept
<1>3. CASE \E batch \in created : FlushPosts(batch)
  BY <1>3, FlushPostsKept
<1>4. CASE \E p \in posting : FlushAnswered(p) \/ FlushFails(p)
  BY <1>4, FlushDoneKept
<1>5. CASE RetryStarts
  BY <1>5, RetryStartsKept
<1>6. CASE RetryAnswered \/ RetryFails
  BY <1>6, RetryKept
<1>7. CASE \E req \in wire : Accept(req) \/ Ignore(req) \/ Refuse(req) \/ IngestFails(req)
  BY <1>7, IngestKept
<1>8. CASE Restart
  BY <1>8, RestartKept
<1> QED BY <1>1, <1>2, <1>3, <1>4, <1>5, <1>6, <1>7, <1>8 DEF Next, Progress, Fault

LEMMA LossInvariant == Spec => []LossInv
BY LossInitially, LossStep, AuditTypeCorrect, PTL DEF Spec

\* An audited event gets lost in three ways only: a refusal taken for
\* success, a line retry_worker wrote over, and a restart while it was in
\* memory; failed, late, repeated and overlapping posts lose nothing.
THEOREM LossesHaveCauseHolds == Spec => []LossesHaveCause
<1>1. LossInv => LossesHaveCause
  BY DEF LossInv
<1> QED BY <1>1, LossInvariant, PTL

----------------------------------------------------------------------------
(* The head.                                                               *)

\* No member twice.
Single(s) == \A i, j \in DOMAIN s : i # j => s[i] # s[j]

LEMMA SingleAppended ==
    ASSUME NEW S, NEW s \in Seq(S), NEW x \in S, Single(s), x \notin EventsOf(s)
    PROVE  Single(Append(s, x))
<1>1. /\ DOMAIN s = 1 .. Len(s) /\ Len(s) \in Nat
      /\ DOMAIN Append(s, x) = 1 .. Len(s) + 1
      /\ \A i \in 1 .. Len(s) : Append(s, x)[i] = s[i]
      /\ Append(s, x)[Len(s) + 1] = x
  BY AppendProperties, LenProperties
<1>2. \A i \in DOMAIN s : s[i] # x
  BY DEF EventsOf
<1> SUFFICES ASSUME NEW i \in DOMAIN Append(s, x), NEW j \in DOMAIN Append(s, x), i # j
             PROVE  Append(s, x)[i] # Append(s, x)[j]
  BY DEF Single
<1>3. CASE i \in 1 .. Len(s) /\ j \in 1 .. Len(s)
  BY <1>1, <1>3 DEF Single
<1>4. CASE i = Len(s) + 1 \/ j = Len(s) + 1
  BY <1>1, <1>2, <1>4
<1> QED BY <1>1, <1>3, <1>4

LEMMA SingleTail ==
    ASSUME NEW S, NEW s \in Seq(S), s # <<>>, Single(s)
    PROVE  /\ Single(Tail(s))
           /\ EventsOf(Tail(s)) = EventsOf(s) \ {Head(s)}
<1>1. /\ Len(Tail(s)) = Len(s) - 1 /\ Head(s) = s[1]
      /\ \A i \in 1 .. Len(Tail(s)) : Tail(s)[i] = s[i + 1]
      /\ Tail(s) \in Seq(S)
  BY HeadTailProperties
<1>2. DOMAIN s = 1 .. Len(s) /\ Len(s) \in Nat \ {0} /\ DOMAIN Tail(s) = 1 .. Len(Tail(s))
  BY <1>1, LenProperties, EmptySeq
<1>3. ASSUME NEW i \in DOMAIN Tail(s) PROVE i + 1 \in DOMAIN s /\ Tail(s)[i] = s[i + 1] /\ i + 1 # 1
  BY <1>1, <1>2
<1>4. Single(Tail(s))
  <2> SUFFICES ASSUME NEW i \in DOMAIN Tail(s), NEW j \in DOMAIN Tail(s), i # j
               PROVE  Tail(s)[i] # Tail(s)[j]
    BY DEF Single
  <2>1. i + 1 # j + 1
    BY <1>2
  <2> QED BY <1>3, <2>1 DEF Single
<1>5. Head(s) \notin EventsOf(Tail(s))
  <2> SUFFICES ASSUME NEW i \in DOMAIN Tail(s) PROVE Tail(s)[i] # s[1]
    BY <1>1 DEF EventsOf
  <2>1. 1 \in DOMAIN s
    BY <1>2
  <2> QED BY <1>3, <2>1 DEF Single
<1> QED BY <1>4, <1>5, HeadAndTail

\* A payload is in one place: posted, in the file, and there read or not.
LinesInv ==
    /\ Single(wal) /\ Single(lines) /\ Single(remaining)
    /\ Apart(posting, EventsOf(wal))
    /\ Apart(EventsOf(lines), EventsOf(remaining))
    /\ Apart(unread, EventsOf(lines)) /\ Apart(unread, EventsOf(remaining))
    /\ EventsOf(lines) \cup EventsOf(remaining) \cup unread \subseteq EventsOf(wal)
    /\ lines = <<>> => remaining = <<>> /\ unread = {}

\* The payloads whose answer the gateway has not taken yet.
Unanswered ==
    posting \cup EventsOf(lines) \cup EventsOf(remaining)
        \cup (IF lines = <<>> THEN EventsOf(wal) ELSE unread)

LEMMA UnansweredKnown ==
    LinesInv => Unanswered \subseteq posting \cup EventsOf(wal) /\ Unanswered \subseteq Sealed
BY DEF LinesInv, Unanswered, Sealed

\* What retry_worker does to the lines.
LEMMA GoesOnLines ==
    ASSUME TypeOK, LinesInv, lines # <<>>, NEW rest \in Seq(Payload), NEW onWire,
           RetryGoesOn(rest, onWire), posting' = posting,
           rest = remaining \/ rest = Append(remaining, Head(lines))
    PROVE  /\ LinesInv'
           /\ lines' # <<>> \/ unread = {} =>
                /\ rest = remaining => Unanswered' = Unanswered \ {Head(lines)}
                /\ rest = Append(remaining, Head(lines)) => Unanswered' = Unanswered
                /\ Carried(wire') \subseteq Carried(onWire) \cup Unanswered'
           /\ lines' = <<>> => overwritten' = overwritten \cup InSome(unread)
<1>1. /\ Single(Tail(lines)) /\ EventsOf(Tail(lines)) = EventsOf(lines) \ {Head(lines)}
      /\ Head(lines) \in EventsOf(lines) /\ Head(lines) \in Payload
  BY SingleTail, InTail DEF TypeOK, LinesInv
<1>2. /\ Single(rest)
      /\ rest = remaining \/ EventsOf(rest) = EventsOf(remaining) \cup {Head(lines)}
      /\ rest = Append(remaining, Head(lines)) => EventsOf(rest) = EventsOf(remaining) \cup {Head(lines)}
  <2>1. Head(lines) \notin EventsOf(remaining)
    BY <1>1 DEF LinesInv, Apart
  <2>2. remaining \in Seq(Payload) /\ Single(remaining)
    BY DEF TypeOK, LinesInv
  <2>3. /\ Single(Append(remaining, Head(lines)))
        /\ EventsOf(Append(remaining, Head(lines))) = EventsOf(remaining) \cup {Head(lines)}
    BY <1>1, <2>1, <2>2, SingleAppended, InAppended
  <2> QED BY <2>2, <2>3
<1>3. CASE Tail(lines) # <<>>
  <2>1. /\ lines' = Tail(lines) /\ remaining' = rest
        /\ lines[2] \in EventsOf(Tail(lines))
        /\ wire' = onWire \cup {Retry(lines[2])}
        /\ wal' = wal /\ unread' = unread /\ overwritten' = overwritten
    BY <1>3, GoesOnCases
  <2>2. LinesInv'
    BY <1>1, <1>2, <1>3, <2>1 DEF LinesInv, Apart
  <2>3. Unanswered' = posting \cup EventsOf(Tail(lines)) \cup EventsOf(rest) \cup unread
    BY <1>3, <2>1 DEF Unanswered
  <2>4. Unanswered = posting \cup EventsOf(lines) \cup EventsOf(remaining) \cup unread
    BY DEF Unanswered
  <2>5. Head(lines) \notin posting \cup EventsOf(remaining) \cup unread
    BY <1>1 DEF LinesInv, Apart
  <2>6. Carried(wire') \subseteq Carried(onWire) \cup Unanswered'
    <3>1. Retry(lines[2]).payload \in Unanswered'
      BY <2>1, <2>3 DEF Retry
    <3> QED BY <2>1, <3>1 DEF Carried
  <2> QED BY <1>1, <1>2, <1>3, <2>1, <2>2, <2>3, <2>4, <2>5, <2>6
<1>4. CASE Tail(lines) = <<>>
  <2>1. /\ lines' = <<>> /\ remaining' = <<>> /\ wire' = onWire /\ wal' = rest /\ unread' = {}
        /\ overwritten' = overwritten \cup InSome(unread)
    BY <1>4, GoesOnCases
  <2>2. EventsOf(lines) = {Head(lines)}
    BY <1>1, <1>4, InEmpty
  <2>3. Single(<<>>) /\ EventsOf(<<>>) = {}
    BY InEmpty DEF Single
  <2>4. EventsOf(rest) \subseteq EventsOf(wal)
    BY <1>1, <1>2 DEF LinesInv
  <2>5. LinesInv'
    BY <1>2, <2>1, <2>3, <2>4 DEF LinesInv, Apart
  <2>6. Unanswered' = posting \cup EventsOf(rest)
    BY <2>1, <2>3 DEF Unanswered
  <2>7. Unanswered = posting \cup {Head(lines)} \cup EventsOf(remaining) \cup unread
    BY <2>2 DEF Unanswered
  <2>8. Head(lines) \notin posting \cup EventsOf(remaining)
    BY <1>1 DEF LinesInv, Apart
  <2> QED BY <1>2, <2>1, <2>5, <2>6, <2>7, <2>8
<1> QED BY <1>3, <1>4

\* Batches are not empty, and their payloads are new roots.
SealedInv ==
    /\ \A b \in created : EventsOf(b) # {}
    /\ \A p \in Sealed : In(p) # {} /\ p.root # p.prev

LEMMA SealedStep == TypeOK /\ SealedInv /\ [Next]_vars => SealedInv'
<1> SUFFICES ASSUME TypeOK, SealedInv, [Next]_vars PROVE SealedInv'
  OBVIOUS
<1>1. ASSUME NEW e \in Event, Audit(e) PROVE SealedInv'
  <2>1. Sealed' = Sealed
    BY <1>1 DEF Audit, Sealed, worker, network
  <2>2. EventsOf(Append(buffer, e)) = EventsOf(buffer) \cup {e}
    BY InAppended DEF TypeOK, Batch
  <2>3. \A b \in created' : b \in created \/ b = Append(buffer, e)
    BY <1>1 DEF Audit
  <2> QED BY <2>1, <2>2, <2>3 DEF SealedInv
<1>2. CASE PeriodicFlush
  <2>1. Sealed' = Sealed /\ created' = created \cup {buffer} /\ buffer # <<>>
    BY <1>2 DEF PeriodicFlush, Sealed, worker, network
  <2>2. EventsOf(buffer) # {}
    BY <2>1, InTail DEF TypeOK, Batch
  <2> QED BY <2>1, <2>2 DEF SealedInv
<1>3. ASSUME NEW batch \in created, FlushPosts(batch) PROVE SealedInv'
  <2> SUFFICES ASSUME NEW CONSTANT p, p = Seal(batch, prevRoot) PROVE SealedInv'
    OBVIOUS
  <2>1. Sealed' \subseteq Sealed \cup {p} /\ created' \subseteq created
    BY <1>3, FlushSeals DEF FlushPosts
  <2>2. In(p) = EventsOf(batch) /\ p.root # p.prev
    BY SealedBatch DEF In, TypeOK
  <2> QED BY <2>1, <2>2 DEF SealedInv
<1>4. CASE Next /\ ~(\E e \in Event : Audit(e)) /\ ~PeriodicFlush
           /\ ~(\E batch \in created : FlushPosts(batch))
  <2>1. Sealed' \subseteq Sealed
    BY <1>4, SealedOnlyByFlush
  <2>2. created' \subseteq created
    BY <1>4 DEF Next, Progress, Fault, FlushAnswered, FlushFails, RetryStarts, RetryAnswered,
                RetryFails, Accept, Ignore, Refuse, IngestFails, Restart, gateway
  <2> QED BY <2>1, <2>2 DEF SealedInv
<1>5. CASE UNCHANGED vars
  <2>1. Sealed' = Sealed /\ created' = created
    BY <1>5 DEF Sealed, vars, gateway, worker, network
  <2> QED BY <2>1 DEF SealedInv
<1> QED BY <1>1, <1>2, <1>3, <1>4, <1>5

LEMMA LinesStep == TypeOK /\ OnceInv /\ SealedInv /\ LinesInv /\ [Next]_vars => LinesInv'
<1> SUFFICES ASSUME TypeOK, OnceInv, SealedInv, LinesInv, [Next]_vars PROVE LinesInv'
  OBVIOUS
<1>1. CASE UNCHANGED <<wal, lines, remaining, unread>> /\ posting' \subseteq posting
  BY <1>1 DEF LinesInv, Apart
<1>2. ASSUME NEW batch \in created, FlushPosts(batch) PROVE LinesInv'
  <2> SUFFICES ASSUME NEW CONSTANT p, p = Seal(batch, prevRoot) PROVE LinesInv'
    OBVIOUS
  <2>1. posting' = posting \cup {p} /\ UNCHANGED <<wal, lines, remaining, unread>>
    BY <1>2 DEF FlushPosts, worker
  <2>2. In(p) = EventsOf(batch) /\ EventsOf(batch) # {}
    BY SealedBatch DEF In, TypeOK, SealedInv
  <2>3. p \notin Sealed
    BY <2>2 DEF OnceInv, TasksApart, Apart
  <2>4. p \notin EventsOf(wal)
    BY <2>3 DEF Sealed
  <2> QED BY <2>1, <2>4 DEF LinesInv, Apart
<1>3. ASSUME NEW p \in posting, FlushFails(p) PROVE LinesInv'
  <2>1. /\ posting' = posting \ {p} /\ wal' = Append(wal, p)
        /\ unread' = IF lines = <<>> THEN {} ELSE unread \cup {p}
        /\ lines' = lines /\ remaining' = remaining
    BY <1>3 DEF FlushFails
  <2>2. p \in Payload /\ wal \in Seq(Payload) /\ p \notin EventsOf(wal)
    BY DEF TypeOK, LinesInv, Apart
  <2>3. Single(wal') /\ EventsOf(wal') = EventsOf(wal) \cup {p}
    BY <2>1, <2>2, SingleAppended, InAppended DEF LinesInv
  <2> QED BY <2>1, <2>2, <2>3 DEF LinesInv, Apart
<1>4. CASE RetryStarts
  <2>1. /\ lines' = wal /\ remaining' = <<>> /\ wal # <<>> /\ lines = <<>>
        /\ UNCHANGED <<wal, unread, posting>>
    BY <1>4 DEF RetryStarts, gateway
  <2>2. Single(<<>>) /\ EventsOf(<<>>) = {}
    BY InEmpty DEF Single
  <2>3. unread' = {}
    BY <2>1 DEF LinesInv
  <2> QED BY <2>1, <2>2, <2>3 DEF LinesInv, Apart
<1>5. CASE RetryAnswered
  <2>1. lines # <<>> /\ RetryGoesOn(remaining, wire) /\ posting' = posting
        /\ remaining \in Seq(Payload)
    BY <1>5 DEF RetryAnswered, TypeOK
  <2> QED BY <2>1, GoesOnLines
<1>6. CASE RetryFails
  <2>1. lines # <<>> /\ posting' = posting
        /\ \E onWire : RetryGoesOn(Append(remaining, Head(lines)), onWire)
    BY <1>6 DEF RetryFails, gateway
  <2>2. Append(remaining, Head(lines)) \in Seq(Payload)
    BY <2>1, InTail, InAppended DEF TypeOK
  <2> QED BY <2>1, <2>2, GoesOnLines
<1>7. CASE Restart
  <2>1. /\ posting' = {} /\ lines' = <<>> /\ remaining' = <<>> /\ unread' = {} /\ wal' = wal
    BY <1>7 DEF Restart
  <2>2. Single(<<>>) /\ EventsOf(<<>>) = {}
    BY InEmpty DEF Single
  <2> QED BY <2>1, <2>2 DEF LinesInv, Apart
<1>8. CASE \/ \E e \in Event : Audit(e)
           \/ PeriodicFlush
           \/ \E p \in posting : FlushAnswered(p)
           \/ \E req \in wire : Accept(req) \/ Ignore(req) \/ Refuse(req) \/ IngestFails(req)
           \/ UNCHANGED vars
  <2>1. UNCHANGED <<wal, lines, remaining, unread>> /\ posting' \subseteq posting
    BY <1>8 DEF Audit, PeriodicFlush, FlushAnswered, Accept, Ignore, Refuse, IngestFails,
                vars, gateway, worker
  <2> QED BY <1>1, <2>1
<1> QED BY <1>2, <1>3, <1>4, <1>5, <1>6, <1>7, <1>8 DEF Next, Progress, Fault

LastRow == siem[Len(siem)]

Unstrayed == refused = {} /\ overwritten = {} /\ restarts = 0

\* The head is at most one row behind.  A payload that is stored and not
\* answered for is the last row; nothing was sealed with that row's root; and
\* what is on the wire is stored or not answered for.
HeadInv ==
    /\ siem = <<>> => prevRoot = Genesis
    /\ siem # <<>> => \/ prevRoot = LastRow.root
                      \/ prevRoot = LastRow.prev /\ LastRow \in Unanswered
    /\ \A p \in Unanswered : Stored(p.root) => p.root = LastRow.root /\ prevRoot # LastRow.root
    /\ \A p \in Sealed : p.prev = Genesis \/ Stored(p.prev)
    /\ siem # <<>> /\ prevRoot # LastRow.root => \A p \in Sealed : p.prev # LastRow.root
    /\ \A p \in Carried(wire) : Stored(p.root) \/ p \in Unanswered

LEMMA LastIsRow ==
    ASSUME TypeOK, siem # <<>>
    PROVE  LastRow \in Sealed /\ LastRow \in Payload /\ Stored(LastRow.root)
<1>1. Len(siem) \in DOMAIN siem /\ siem[Len(siem)] \in Payload
  BY EmptySeq, LenProperties, ElementOfSeq DEF TypeOK
<1> QED BY <1>1 DEF LastRow, Sealed, EventsOf, Stored

LEMMA HeadStays ==
    ASSUME HeadInv, UNCHANGED <<siem, prevRoot>>, Unanswered' = Unanswered, Sealed' \subseteq Sealed,
           Carried(wire') \subseteq Carried(wire) \cup Unanswered
    PROVE  HeadInv'
<1>1. LastRow' = LastRow /\ \A root : Stored(root)' = Stored(root)
  BY DEF LastRow, Stored
<1>2. Carried(wire)' = Carried(wire')
  BY DEF Carried
<1> QED BY <1>1, <1>2 DEF HeadInv

\* An answer of 200 is taken: its row is the last one, and the head is level.
LEMMA HeadTaken ==
    ASSUME TypeOK, OnceInv, SealedInv, LinesInv, HeadInv,
           NEW p \in Unanswered, Stored(p.root), prevRoot' = p.root, siem' = siem,
           Unanswered' = Unanswered \ {p}, Sealed' \subseteq Sealed,
           Carried(wire') \subseteq Carried(wire) \cup Unanswered'
    PROVE  HeadInv'
<1>1. LastRow' = LastRow /\ \A root : Stored(root)' = Stored(root)
  BY DEF LastRow, Stored
<1>2. Carried(wire)' = Carried(wire')
  BY DEF Carried
<1>3. p.root = LastRow.root /\ siem # <<>>
  BY DEF HeadInv, Stored
<1>4. ASSUME NEW q \in Unanswered', Stored(q.root) PROVE FALSE
  <2>1. q.root = p.root /\ q # p /\ q \in Sealed /\ p \in Sealed
    BY <1>3, <1>4, UnansweredKnown DEF HeadInv
  <2>2. In(q) = In(p)
    BY <2>1 DEF In, BatchOf
  <2> QED BY <2>1, <2>2 DEF OnceInv, SealedApart, SealedInv, Apart
<1>5. ASSUME NEW q \in Carried(wire') PROVE Stored(q.root) \/ q \in Unanswered'
  BY <1>5 DEF HeadInv
<1> QED BY <1>1, <1>2, <1>3, <1>4, <1>5 DEF HeadInv

\* A row is added: whatever was sealed with another head is refused, so the
\* head was level, and is now behind by this row.
LEMMA HeadAccepts ==
    ASSUME TypeOK, SealedInv, LinesInv, HeadInv, NEW req \in wire, Accept(req),
           Sealed' \subseteq Sealed
    PROVE  HeadInv'
<1> SUFFICES ASSUME NEW CONSTANT p, p = req.payload PROVE HeadInv'
  OBVIOUS
<1>1. /\ siem' = Append(siem, p) /\ wire' \subseteq wire
      /\ UNCHANGED <<posting, wal, lines, remaining, unread, prevRoot>>
      /\ ~Stored(p.root) /\ ~ChainBroken(p)
  BY DEF Accept, AnswerTo, gateway, worker
<1>2. p \in Payload /\ p \in Sealed /\ p \in Carried(wire)
  BY DEF TypeOK, Request, Sealed, Carried
<1>3. Unanswered' = Unanswered /\ p \in Unanswered
  BY <1>1, <1>2 DEF Unanswered, HeadInv
<1>4. siem' # <<>> /\ LastRow' = p /\ EventsOf(siem') = EventsOf(siem) \cup {p}
  <2>1. /\ siem' \in Seq(Payload) /\ Len(siem') = Len(siem) + 1
        /\ siem'[Len(siem) + 1] = p /\ Len(siem) \in Nat
    BY <1>1, <1>2, AppendProperties, LenProperties DEF TypeOK
  <2>2. siem' # <<>>
    BY <2>1, EmptySeq
  <2>3. EventsOf(siem') = EventsOf(siem) \cup {p}
    BY <1>1, <1>2, InAppended DEF TypeOK
  <2> QED BY <2>1, <2>2, <2>3 DEF LastRow
<1>5. \A root : Stored(root)' <=> Stored(root) \/ root = p.root
  <2>1. \A root : Stored(root) <=> \E q \in EventsOf(siem) : q.root = root
    BY DEF Stored, EventsOf
  <2>2. \A root : Stored(root)' <=> \E q \in EventsOf(siem') : q.root = root
    BY DEF Stored, EventsOf
  <2> QED BY <1>4, <2>1, <2>2
<1>6. prevRoot = p.prev /\ p.root # p.prev /\ (siem # <<>> => prevRoot = LastRow.root)
  <2>1. CASE siem = <<>>
    <3>1. \A root : ~Stored(root)
      BY <2>1 DEF Stored
    <3> QED BY <1>2, <2>1, <3>1 DEF HeadInv, SealedInv
  <2>2. CASE siem # <<>>
    <3>1. p.prev = LastRow.root
      BY <1>1, <2>2 DEF ChainBroken, LastRow
    <3> QED BY <1>2, <2>2, <3>1 DEF HeadInv, SealedInv
  <2> QED BY <2>1, <2>2
<1>7. ASSUME NEW q \in Unanswered, Stored(q.root) PROVE FALSE
  <2>1. siem # <<>>
    BY <1>7 DEF Stored
  <2> QED BY <1>6, <1>7, <2>1 DEF HeadInv
<1>8. p.root # Genesis
  BY <1>2 DEF Payload
<1>9. ASSUME NEW q \in Sealed' PROVE q.prev # p.root /\ (q.prev = Genesis \/ Stored(q.prev))
  BY <1>1, <1>8, <1>9 DEF HeadInv
<1>10. ASSUME NEW q \in Carried(wire)' PROVE Stored(q.root)' \/ q \in Unanswered'
  <2>1. q \in Carried(wire)
    BY <1>1, <1>10 DEF Carried
  <2> QED BY <1>3, <1>5, <2>1 DEF HeadInv
<1>11. prevRoot' = p.prev
  BY <1>1, <1>6
<1> QED BY <1>3, <1>4, <1>5, <1>6, <1>7, <1>9, <1>10, <1>11 DEF HeadInv

\* A batch is sealed with the head of now.
LEMMA HeadSeals ==
    ASSUME TypeOK, OnceInv, SealedInv, LinesInv, HeadInv, NEW batch \in created, FlushPosts(batch)
    PROVE  HeadInv'
<1> SUFFICES ASSUME NEW CONSTANT p, p = Seal(batch, prevRoot) PROVE HeadInv'
  OBVIOUS
<1>1. /\ posting' = posting \cup {p} /\ wire' = wire \cup {Flush(p)}
      /\ UNCHANGED <<prevRoot, siem, wal, lines, remaining, unread>>
  BY DEF FlushPosts, worker
<1>2. Sealed' \subseteq Sealed \cup {p}
  BY FlushSeals
<1>3. p.prev = prevRoot /\ In(p) = EventsOf(batch)
  BY SealedBatch DEF In, TypeOK
<1>4. Unanswered' = Unanswered \cup {p}
  BY <1>1 DEF Unanswered
<1>5. LastRow' = LastRow /\ \A root : Stored(root)' = Stored(root)
  BY <1>1 DEF LastRow, Stored
<1>6. ~Stored(p.root)
  <2> SUFFICES ASSUME NEW i \in DOMAIN siem, siem[i].root = p.root PROVE FALSE
    BY DEF Stored
  <2>1. siem[i] \in Sealed
    BY DEF Sealed, EventsOf
  <2>2. In(siem[i]) = EventsOf(batch) /\ EventsOf(batch) # {}
    BY <1>3 DEF In, BatchOf, SealedInv
  <2> QED BY <2>1, <2>2 DEF OnceInv, TasksApart, Apart
<1>7. prevRoot = Genesis \/ Stored(prevRoot)
  BY LastIsRow DEF HeadInv
<1>8. ASSUME NEW q \in Carried(wire)' PROVE Stored(q.root) \/ q \in Unanswered'
  <2>1. q \in Carried(wire) \/ q = p
    BY <1>1, <1>8 DEF Carried, Flush
  <2> QED BY <1>4, <2>1 DEF HeadInv
<1> QED BY <1>1, <1>2, <1>3, <1>4, <1>5, <1>6, <1>7, <1>8 DEF HeadInv

\* The answer taken is a 200 if nothing is counted as refused after it.
LEMMA TakenIsTrue ==
    ASSUME AnswersTrue, SealedInv, NEW p \in Sealed, NEW req, req.payload = p,
           NEW a \in AnswersTo(req), TakenForSuccess(a), refused' = {}
    PROVE  Stored(p.root) /\ refused = {} /\ prevRoot' = p.root
<1>1. a \in answers /\ a.payload = p /\ In(p) # {}
  BY DEF AnswersTo, SealedInv
<1>2. a.ok
  BY <1>1 DEF TakenForSuccess, In
<1> QED BY <1>1, <1>2 DEF AnswersTrue, TakenForSuccess

\* The last line of a round: nothing was appended that is not overwritten.
LEMMA NothingUnread ==
    ASSUME TypeOK, SealedInv, LinesInv, InSome(unread) = {}
    PROVE  unread = {}
<1> SUFFICES ASSUME NEW p \in unread PROVE FALSE
  OBVIOUS
<1>1. p \in Sealed
  BY DEF LinesInv, Sealed
<1> QED BY <1>1 DEF SealedInv, InSome, In

StrayInv == SealedInv /\ LinesInv /\ (Unstrayed => HeadInv)

LEMMA StrayInitially == Init => StrayInv
<1> SUFFICES ASSUME Init PROVE StrayInv
  OBVIOUS
<1>1. /\ siem = <<>> /\ wire = {} /\ created = {} /\ posting = {} /\ prevRoot = Genesis
      /\ wal = <<>> /\ lines = <<>> /\ remaining = <<>> /\ unread = {}
  BY DEF Init
<1>2. Sealed = {} /\ Unanswered = {} /\ Carried(wire) = {}
  BY InEmpty DEF Init, Sealed, Unanswered, Carried
<1>3. Single(<<>>)
  BY DEF Single
<1>4. SealedInv
  BY <1>1, <1>2 DEF SealedInv
<1>5. LinesInv
  BY <1>1, <1>3, InEmpty DEF LinesInv, Apart
<1>6. HeadInv
  BY <1>1, <1>2 DEF HeadInv
<1> QED BY <1>4, <1>5, <1>6 DEF StrayInv

LEMMA HeadStep ==
    ASSUME TypeOK, OnceInv, AnswersTrue, SealedInv, LinesInv, Unstrayed => HeadInv,
           Next, Unstrayed'
    PROVE  HeadInv'
<1> USE DEF Unstrayed
<1>1. ASSUME NEW batch \in created, FlushPosts(batch) PROVE HeadInv'
  BY <1>1, HeadSeals DEF FlushPosts, losses, bounds
<1> DEFINE others == \A batch \in created : ~FlushPosts(batch)
<1>2. CASE others /\ (\/ \E e \in Event : Audit(e)
                      \/ PeriodicFlush
                      \/ \E req \in wire : Ignore(req) \/ Refuse(req) \/ IngestFails(req))
  <2>1. Sealed' \subseteq Sealed
    BY <1>2, SealedOnlyByFlush
  <2>2. /\ UNCHANGED <<siem, prevRoot, posting, wal, lines, remaining, unread,
                       refused, overwritten, restarts>>
        /\ wire' \subseteq wire
    BY <1>2 DEF Audit, PeriodicFlush, Ignore, Refuse, IngestFails, AnswerTo,
                gateway, worker, network, losses, bounds
  <2>3. Unanswered' = Unanswered /\ Carried(wire') \subseteq Carried(wire)
    BY <2>2 DEF Unanswered, Carried
  <2> QED BY <2>1, <2>2, <2>3, HeadStays
<1>3. ASSUME others, NEW req \in wire, Accept(req) PROVE HeadInv'
  <2>1. Sealed' \subseteq Sealed
    BY <1>3, SealedOnlyByFlush
  <2> QED BY <1>3, <2>1, HeadAccepts DEF Accept, losses, bounds
<1>4. ASSUME others, NEW p \in posting, FlushAnswered(p) PROVE HeadInv'
  <2>1. /\ Sealed' \subseteq Sealed /\ p \in Sealed /\ p \in Unanswered
        /\ UNCHANGED <<siem, wire, wal, lines, remaining, unread, overwritten, restarts>>
        /\ posting' = posting \ {p}
    BY <1>4, SealedOnlyByFlush DEF FlushAnswered, worker, bounds, Sealed, Unanswered
  <2>2. Stored(p.root) /\ refused = {} /\ prevRoot' = p.root
    <3>1. PICK a \in AnswersTo(Flush(p)) : TakenForSuccess(a)
      BY <1>4 DEF FlushAnswered
    <3>2. Flush(p).payload = p
      BY DEF Flush
    <3> QED BY <2>1, <3>1, <3>2, TakenIsTrue
  <2>3. Unanswered' = Unanswered \ {p}
    <3>1. p \notin EventsOf(lines) \cup EventsOf(remaining) \cup unread \cup EventsOf(wal)
      BY DEF LinesInv, Apart
    <3> QED BY <2>1, <3>1 DEF Unanswered
  <2>4. Carried(wire') \subseteq Carried(wire)
    BY <2>1
  <2> QED BY <2>1, <2>2, <2>3, <2>4, HeadTaken
<1>5. ASSUME others, NEW p \in posting, FlushFails(p) PROVE HeadInv'
  <2>1. /\ Sealed' \subseteq Sealed /\ wire' \subseteq wire
        /\ UNCHANGED <<siem, prevRoot, lines, remaining, refused, overwritten, restarts>>
        /\ posting' = posting \ {p} /\ wal' = Append(wal, p)
        /\ unread' = IF lines = <<>> THEN {} ELSE unread \cup {p}
    BY <1>5, SealedOnlyByFlush DEF FlushFails, Abandon, losses
  <2>2. EventsOf(wal') = EventsOf(wal) \cup {p}
    BY <2>1, InAppended DEF TypeOK
  <2>3. Unanswered' = Unanswered /\ Carried(wire') \subseteq Carried(wire)
    BY <2>1, <2>2 DEF Unanswered, Carried
  <2> QED BY <2>1, <2>3, HeadStays
<1>6. CASE others /\ RetryStarts
  <2>1. /\ Sealed' \subseteq Sealed
        /\ UNCHANGED <<siem, prevRoot, posting, wal, unread, refused, overwritten, restarts>>
        /\ lines = <<>> /\ wal # <<>> /\ lines' = wal /\ remaining' = <<>>
        /\ wire' = wire \cup {Retry(Head(wal))}
    BY <1>6, SealedOnlyByFlush DEF RetryStarts, gateway, losses, bounds
  <2>2. unread = {} /\ EventsOf(<<>>) = {} /\ remaining = <<>>
    BY <2>1, InEmpty DEF LinesInv
  <2>3. Unanswered' = Unanswered /\ Head(wal) \in Unanswered
    BY <2>1, <2>2, InTail DEF Unanswered, TypeOK
  <2>4. Carried(wire') \subseteq Carried(wire) \cup Unanswered
    BY <2>1, <2>3 DEF Carried, Retry
  <2> QED BY <2>1, <2>3, <2>4, HeadStays
<1>7. CASE others /\ RetryAnswered
  <2> SUFFICES ASSUME NEW CONSTANT p, p = Head(lines) PROVE HeadInv'
    OBVIOUS
  <2>1. /\ Sealed' \subseteq Sealed /\ lines # <<>> /\ RetryGoesOn(remaining, wire)
        /\ UNCHANGED <<siem, posting, restarts>>
    BY <1>7, SealedOnlyByFlush DEF RetryAnswered, bounds
  <2>2. p \in Sealed /\ p \in Unanswered
    BY <2>1, InTail DEF TypeOK, Sealed, Unanswered
  <2>3. Stored(p.root) /\ refused = {} /\ prevRoot' = p.root
    <3>1. PICK a \in AnswersTo(Retry(p)) : TakenForSuccess(a)
      BY <1>7 DEF RetryAnswered
    <3>2. Retry(p).payload = p
      BY DEF Retry
    <3> QED BY <2>2, <3>1, <3>2, TakenIsTrue
  <2>4. overwritten = {} /\ (lines' # <<>> \/ unread = {})
    <3>1. CASE lines' # <<>>
      BY <2>1, <3>1, GoesOnCases
    <3>2. CASE lines' = <<>>
      <4>1. overwritten' = overwritten \cup InSome(unread)
        BY <2>1, <3>2, GoesOnCases
      <4> QED BY <4>1, NothingUnread
    <3> QED BY <3>1, <3>2
  <2>5. Unanswered' = Unanswered \ {p} /\ Carried(wire') \subseteq Carried(wire) \cup Unanswered'
    <3>1. remaining \in Seq(Payload)
      BY DEF TypeOK
    <3> QED BY <2>1, <2>4, <3>1, GoesOnLines
  <2> QED BY <2>1, <2>2, <2>3, <2>4, <2>5, HeadTaken
<1>8. CASE others /\ RetryFails
  <2>1. /\ Sealed' \subseteq Sealed /\ lines # <<>>
        /\ UNCHANGED <<siem, posting, prevRoot, refused, restarts>>
    BY <1>8, SealedOnlyByFlush DEF RetryFails, gateway
  <2>2. PICK onWire \in {wire, wire \ {Retry(Head(lines))}} :
            RetryGoesOn(Append(remaining, Head(lines)), onWire)
    BY <1>8 DEF RetryFails
  <2>3. Append(remaining, Head(lines)) \in Seq(Payload)
    BY <2>1, InTail, InAppended DEF TypeOK
  <2>4. overwritten = {} /\ (lines' # <<>> \/ unread = {})
    <3>1. CASE lines' # <<>>
      BY <2>1, <2>2, <3>1, GoesOnCases
    <3>2. CASE lines' = <<>>
      <4>1. overwritten' = overwritten \cup InSome(unread)
        BY <2>1, <2>2, <3>2, GoesOnCases
      <4> QED BY <4>1, NothingUnread
    <3> QED BY <3>1, <3>2
  <2>5. Unanswered' = Unanswered /\ Carried(wire') \subseteq Carried(onWire) \cup Unanswered'
    BY <2>1, <2>2, <2>3, <2>4, GoesOnLines
  <2>6. Carried(onWire) \subseteq Carried(wire)
    BY <2>2 DEF Carried
  <2> QED BY <2>1, <2>4, <2>5, <2>6, HeadStays
<1>9. CASE Restart
  BY <1>9 DEF Restart, TypeOK
<1> QED BY <1>1, <1>2, <1>3, <1>4, <1>5, <1>6, <1>7, <1>8, <1>9 DEF Next, Progress, Fault

LEMMA StrayStep == TypeOK /\ OnceInv /\ AnswersTrue /\ StrayInv /\ [Next]_vars => StrayInv'
<1> SUFFICES ASSUME TypeOK, OnceInv, AnswersTrue, StrayInv, [Next]_vars PROVE StrayInv'
  OBVIOUS
<1>1. SealedInv' /\ LinesInv'
  BY SealedStep, LinesStep DEF StrayInv
<1>2. ASSUME Unstrayed' PROVE HeadInv'
  <2>1. CASE Next
    BY <1>2, <2>1, HeadStep DEF StrayInv
  <2>2. CASE UNCHANGED vars
    <3>1. /\ UNCHANGED <<siem, prevRoot>> /\ Unanswered' = Unanswered /\ Sealed' = Sealed
          /\ wire' = wire /\ Unstrayed
      BY <1>2, <2>2 DEF vars, gateway, worker, network, losses, bounds, Unanswered, Sealed, Unstrayed
    <3> QED BY <3>1, HeadStays DEF StrayInv
  <2> QED BY <2>1, <2>2
<1> QED BY <1>1, <1>2 DEF StrayInv

LEMMA StrayInvariant == Spec => []StrayInv
<1>1. LossInv => AnswersTrue
  BY DEF LossInv
<1> QED BY <1>1, StrayInitially, StrayStep, LossInvariant, OnceInvariant, AuditTypeCorrect, PTL DEF Spec

\* flush_batch and retry_worker keep the head together: whatever is posted at
\* once, late or twice, prev_root is level with the witness's last row or
\* behind by this one row, which is still to be answered for, unless an event
\* was lost or the gateway restarted.
THEOREM HeadFollowsHolds == Spec => []HeadFollows
<1>1. StrayInv => HeadFollows
  BY UnansweredKnown DEF StrayInv, Unstrayed, HeadInv, HeadFollows, LastRow
<1> QED BY <1>1, StrayInvariant, PTL
=============================================================================
