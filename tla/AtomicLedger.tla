---------------------------- MODULE AtomicLedger ----------------------------
(***************************************************************************)
(* What the transactional core promises: one log of financial state        *)
(* transitions that grows by whole transitions.  A key is authorised at    *)
(* most once, and an authorisation is settled at most once, after it was   *)
(* created.  Tables, outbox and audit chain are views of this log.         *)
(***************************************************************************)
EXTENDS Integers, Sequences

CONSTANTS Transfer, Key, keyOf

VARIABLE log

Created(t) == \E i \in DOMAIN log : log[i] = <<t, "INTENT_CREATED">>

Settled(t) == \E i \in DOMAIN log :
                 log[i] \in {<<t, "AUTH_APPROVED">>, <<t, "AUTH_FAILED">>}

Create(t) ==
    /\ \A u \in Transfer : Created(u) => keyOf[u] # keyOf[t]
    /\ log' = Append(log, <<t, "INTENT_CREATED">>)

Settle(t) ==
    /\ Created(t)
    /\ ~Settled(t)
    /\ \E action \in {"AUTH_APPROVED", "AUTH_FAILED"} :
          log' = Append(log, <<t, action>>)

Init == log = <<>>

Next == \E t \in Transfer : Create(t) \/ Settle(t)

Spec == Init /\ [][Next]_log
=============================================================================
