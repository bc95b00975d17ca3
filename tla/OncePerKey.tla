----------------------------- MODULE OncePerKey -----------------------------
(***************************************************************************)
(* What the idempotency layer promises for one key: one worker at a time,  *)
(* the key belongs to the payload it was first used with, and once an      *)
(* answer is recorded nobody works again.  A worker may vanish; the next   *)
(* one starts over with the same payload.                                  *)
(***************************************************************************)

CONSTANTS
    Request, payloadOf, Result,
    None       \* no worker, no payload, no answer

VARIABLES
    record,    \* [status, payload, response]
    worker     \* the request at work, or None

Unused == [status |-> "ABSENT", payload |-> None, response |-> None]

Started(p) == [status |-> "STARTED", payload |-> p, response |-> None]

Completed(p, res) == [status |-> "COMPLETED", payload |-> p, response |-> res]

\* r may start the work.
Free(r) == worker = None /\ record \in {Unused, Started(payloadOf[r])}

Begin(r) ==
    /\ Free(r)
    /\ record' = Started(payloadOf[r])
    /\ worker' = r

\* r claims the key and vanishes before the work.
Claim(r) ==
    /\ Free(r)
    /\ record' = Started(payloadOf[r])
    /\ UNCHANGED worker

Complete(r) ==
    /\ worker = r
    /\ \E res \in Result : record' = Completed(payloadOf[r], res)
    /\ worker' = None

Abandon ==
    /\ worker # None
    /\ worker' = None
    /\ UNCHANGED record

Init == record = Unused /\ worker = None

Next == (\E r \in Request : Begin(r) \/ Claim(r) \/ Complete(r)) \/ Abandon

Spec == Init /\ [][Next]_<<record, worker>>
=============================================================================
