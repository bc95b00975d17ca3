------------------------------ MODULE MCGateway ------------------------------
(* Instances of Gateway for TLC.  r1 and r2 are one transfer and its        *)
(* duplicate; r3 reuses their key with another body; r4 and its duplicate   *)
(* r7, without a key, have the tx_id of r1 and another hash; r5 is another  *)
(* client's request with the key of r1; r6 asks for too much.               *)
EXTENDS Gateway

CONSTANTS r1, r2, r3, r4, r5, r6, r7, c1, c2, k1, t1, t2, h1, h2, admin, iban

MCRequest(client, key, tx, hash, amount) ==
    [client |-> client, header |-> key, tx |-> tx, hash |-> hash, role |-> admin,
     amount |-> amount, target |-> iban]

MCReq == [r \in Request |->
    CASE r \in {r1, r2} -> MCRequest(c1, k1, t1, h1, 1)
      [] r = r3         -> MCRequest(c1, k1, t1, h1, 3)
      [] r \in {r4, r7} -> MCRequest(c1, NoHeader, t1, h2, 2)
      [] r = r5         -> MCRequest(c2, k1, t2, h2, 2)
      [] r = r6         -> MCRequest(c2, NoHeader, t2, h2, 9)]

MCWhitelist == {[id |-> iban, owner |-> admin, active |-> TRUE, risk |-> 10, country |-> "ES"]}

MCAnnouncement == {[mode |-> "READ_ONLY", rate |-> FullRate],
                   [mode |-> "FROZEN", rate |-> FullRate],
                   [mode |-> "RAMP_UP", rate |-> 0]}

MCBound(sent, calls, errors, restartsLeft) ==
    [sent |-> sent, changes |-> calls, redisErrors |-> errors, restarts |-> restartsLeft]

\* With a restart: a transfer and its duplicate, its key reused, its key used
\* by another client, tampered data and one announcement, a duplicate without a
\* key, a refusal, two announcements and a Redis error.  Without: three
\* requests at a time.
MCBounds == {MCBound({r1, r2}, 0, 0, 1), MCBound({r1, r3}, 0, 0, 1),
             MCBound({r1, r5}, 0, 0, 1), MCBound({r1, r4}, 1, 0, 1),
             MCBound({r4, r7}, 0, 0, 1), MCBound({r6}, 0, 0, 1), MCBound({}, 2, 1, 1),
             MCBound({r1, r2, r3}, 0, 0, 0), MCBound({r1, r2, r4}, 0, 0, 0)}
=============================================================================
