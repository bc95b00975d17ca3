----------------------------- MODULE MCDecisions -----------------------------
(* Instances of Decisions for TLC.  Amounts are in units of 1/1024, so that *)
(* 20000.0 lies where an f32 no longer tells neighbours apart; risks are in *)
(* tenths.                                                                  *)
EXTENDS Decisions

CONSTANTS ka, kb, l1, l2

Unit == 1024

Atom(key, op, value) == [atom |-> [attr_key |-> key, operator |-> op, value |-> value]]
And(conds) == [and |-> conds]
OrElse(conds) == [or |-> conds]
Not(cond)  == [not |-> cond]
Str(s)     == <<"Str", s>>

PolicyOf(id, tool, mode, cond) == [id |-> id, tool |-> tool, mode |-> mode, condition |-> cond]

HighRisk ==
    PolicyOf("spanish_high_risk_block", "transfer_funds", "enforce",
           And(<<Atom("country", "eq", Str("ES")),
                 OrElse(<<Atom("amount", "gt", Float(20000 * Unit)),
                          Atom("risk_score", "gt", Float(8))>>)>>))

Kyc ==
    PolicyOf("hidden_kyc_block", "transfer_funds", "enforce",
           And(<<Atom("kyc_status", "eq", Str("pending")),
                 Atom("amount", "gt", Float(5000 * Unit))>>))

Elsewhere ==
    PolicyOf("elsewhere", "transfer_funds", "shadow",
           Not(Atom("country", "in", <<"List", <<Str("ES"), Str("FR")>> >>)))

Newcomer ==
    PolicyOf("newcomer", "transfer_funds", "shadow",
           OrElse(<<Atom("is_new", "in", <<"List", <<Float(1)>> >>),
                    Atom("account_age_days", "lt", Float(30)),
                    Atom("kyc_status", "contains", Str("pend"))>>))

Writes ==
    PolicyOf("writes", "db_write", "enforce",
           Atom("country", "not_in", <<"List", <<Str("ES")>> >>))

MCCondition ==
    LET whole == {p.condition : p \in {HighRisk, Kyc, Elsewhere, Newcomer, Writes}}
        parts == UNION {PartsOf(c) : c \in whole}
    IN  whole \cup parts \cup UNION {PartsOf(c) : c \in parts}

MCText == {[valid |-> TRUE, policies |-> <<HighRisk, Kyc>>],
           [valid |-> TRUE, policies |-> <<Newcomer, HighRisk, Writes, Elsewhere, Kyc>>],
           [valid |-> TRUE, policies |-> <<Elsewhere, Writes>>],
           [valid |-> TRUE, policies |-> <<Writes>>],
           [valid |-> FALSE]}

MCShipped == [valid |-> TRUE, policies |-> <<HighRisk, Kyc>>]

MCSubstring == {<<"pend", "pending">>}

Body(amount, country, risk, tier) ==
    [amount |-> amount, country |-> country, risk |-> risk, user_tier |-> tier]

MCPayload == {Body(20000 * Unit + 1, "ES", None, "standard"),
              Body(20000 * Unit + 2, "ES", None, "standard"),
              Body(6000 * Unit, "ES", 9, None),
              Body(None, None, None, "new"),
              Body(NotANumber, "ES", None, "standard")}

MCPolicy(roles, limit, prefixes) == [roles |-> roles, limit |-> limit, prefixes |-> prefixes]

MCShippedPolicy ==
    [valid |-> TRUE,
     actions |-> [transfer_funds |-> MCPolicy({"USER", "ADMIN"}, 5000, <<<<"CRYPTO_">>, <<"DARK_">> >>),
                  system_reboot  |-> MCPolicy({"ADMIN"}, Nothing, <<>>)]]

MCPolicyText ==
    {MCShippedPolicy,
     [valid |-> TRUE, actions |-> [transfer_funds |-> MCPolicy({"ADMIN"}, 0, Nothing)]],
     [valid |-> FALSE]}

MCQuery ==
    [action : {"transfer_funds", "system_reboot"}, role : {"USER", "ADMIN"},
     amount : {Nothing, 5000, 5001}, target : {<<>>, <<"DARK_", "POOL">>}]

MCBound(edits, signs, verifications, loads, engineEdits, reloads, requests) ==
    [edits |-> edits, signs |-> signs, verifications |-> verifications, loads |-> loads,
     engineEdits |-> engineEdits, reloads |-> reloads, requests |-> requests]

\* Signing; loading and deciding; the engine and its reloads.
MCBounds == {MCBound(2, 3, 2, 0, 0, 0, 0), MCBound(2, 0, 0, 2, 0, 0, 2),
             MCBound(0, 0, 0, 0, 2, 2, 2)}

ASSUME RoundingIsF32 ==
    /\ \A n \in {0, 1, 2 ^ 24 - 1, 2 ^ 24} : F32(n) = n
    /\ F32(2 ^ 24 + 1) = 2 ^ 24 /\ F32(2 ^ 24 + 3) = 2 ^ 24 + 4
=============================================================================
