------------------------------ MODULE MCLedger ------------------------------
(* Instances of Ledger for TLC.  t1 and t2 use one idempotency key (a      *)
(* request and its retry or duplicate), t3 another one.                    *)
EXTENDS Ledger

CONSTANTS t1, t2, t3, k1, k2

MCKeyOf == [t \in Transfer |-> IF t = t3 THEN k2 ELSE k1]
=============================================================================
