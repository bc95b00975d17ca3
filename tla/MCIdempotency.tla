--------------------------- MODULE MCIdempotency ---------------------------
(* Instances of Idempotency for TLC.  r1 and r2 carry the same body, r3    *)
(* another one; each may be sent again any number of times.                *)
EXTENDS Idempotency

CONSTANTS r1, r2, r3, body, otherBody, ok, refused

MCPayloadOf == [r \in Request |-> IF r = r3 THEN otherBody ELSE body]
=============================================================================
