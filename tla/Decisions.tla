------------------------------ MODULE Decisions ------------------------------
(***************************************************************************)
(* The policies at work.  core/policies.yaml is edited, signed and         *)
(* verified (PolicySigning) and loaded into the Rust store (store.rs) by   *)
(* load_from_file, which any thread may call; the stages of the pipeline   *)
(* (core/app/stages.py, context.py) let the Rust engine (RustPolicy)       *)
(* decide.  config/policies.yaml belongs to the PolicyEngine.              *)
(*                                                                         *)
(* fast_evaluate is not exported by lib.rs; it is taken as what the stage  *)
(* that calls it needs: a snapshot of the store, and evaluate on it.       *)
(***************************************************************************)
EXTENDS PolicySigning, RustPolicy, PolicyEngine

CONSTANTS
    Loader,        \* calls of load_from_file
    Payload,       \* bodies: [amount, country, risk, user_tier]
    NotANumber,    \* an amount that float() rejects
    DefaultRisk,   \* 0.6
    Bounds         \* the bounds a behaviour may have, one record each

Budget == [{"edits", "signs", "verifications", "loads", "requests", "reloads", "engineEdits"}
             -> Nat]

ASSUME BoundsAssumption == Bounds \subseteq Budget

VARIABLES
    store,     \* POLICY_STORE
    loader,    \* load_from_file, before it takes the write lock: its policies
    origin,    \* history: the policies that are in the store
    ctx,       \* per payload, what the stages have made of it
    left       \* bound: what may still be begun

storeVars == <<store, loader, origin>>
vars      == <<signingVars, engineVars, storeVars, ctx, left>>

Policy == [id : STRING, tool : STRING, mode : {"enforce", "shadow"}, condition : Condition]

\* serde_yaml parses into PolicyConfig, or load_from_file is an Err.
ASSUME TextAssumption ==
    \A t \in Text : t.valid \in BOOLEAN /\ (t.valid => t.policies \in Seq(Policy))

Policies == {t.policies : t \in {u \in Text : u.valid}}

NoPolicies == <<>>

PolicyId == {"default", "system"} \cup UNION {{ps[i].id : i \in DOMAIN ps} : ps \in Policies}

Decided == [decision : {"SUCCESS", "DENIED"}, policy_id : PolicyId, reasons : Seq(PolicyId),
            judgedBy : Policies \cup {NoPolicies}]

TypeOK ==
    /\ SigningTypeOK
    /\ EngineTypeOK
    /\ store \in {ByTool(p) : p \in Policies \cup {NoPolicies}}
    /\ loader \in [Loader -> Policies \cup {None}]
    /\ origin \in Policies \cup {NoPolicies}
    /\ \A p \in Payload : ctx[p] = None \/ ctx[p] \in Decided
    /\ left \in Budget

Init ==
    /\ SigningInit
    /\ EngineInit
    /\ store = ByTool(NoPolicies)
    /\ origin = NoPolicies
    /\ loader = [l \in Loader |-> None]
    /\ ctx = [p \in Payload |-> None]
    /\ left \in Bounds

Spend(what) == left[what] > 0 /\ left' = [left EXCEPT ![what] = @ - 1]

----------------------------------------------------------------------------
(* PolicyStore.                                                            *)

\* load_from_file reads and parses; a missing or broken file is an Err.
LoadReads(l) ==
    /\ loader[l] = None
    /\ Spend("loads")
    /\ loader' = IF policyFile # None /\ policyFile.valid
                 THEN [loader EXCEPT ![l] = policyFile.policies] ELSE loader
    /\ UNCHANGED <<signingVars, engineVars, store, origin, ctx>>

\* (mutant) the new policies are added to the map that is there
LoadSwaps_Merges(l) ==
    /\ loader[l] # None
    /\ store' = ByTool(loader[l]) @@ store
    /\ origin' = loader[l]
    /\ loader' = [loader EXCEPT ![l] = None]
    /\ UNCHANGED <<signingVars, engineVars, ctx, left>>

\* *write_guard = map.
LoadSwaps(l) ==
    /\ loader[l] # None
    /\ store' = ByTool(loader[l])
    /\ origin' = loader[l]
    /\ loader' = [loader EXCEPT ![l] = None]
    /\ UNCHANGED <<signingVars, engineVars, ctx, left>>

----------------------------------------------------------------------------
(* The stages.                                                             *)

Or(value, otherwise) == IF value # None THEN value ELSE otherwise

\* ContextFactory.from_http.
FromHttp(p) ==
    [amount |-> Float(Or(p.amount, 0)), country |-> <<"Str", Or(p.country, "unknown")>>,
     risk_score |-> Float(Or(p.risk, DefaultRisk)), is_new |-> FromBool(p.user_tier = "new")]

\* EnrichmentStage.
Profile(tier) ==
    CASE tier = "standard"   -> [kyc_status |-> <<"Str", "verified">>, account_age_days |-> Float(365)]
      [] tier = "unverified" -> [kyc_status |-> <<"Str", "pending">>, account_age_days |-> Float(2)]
      [] OTHER               -> [kyc_status |-> <<"Str", "none">>, account_age_days |-> Float(0)]

DomainData(p) == Profile(Or(p.user_tier, "unverified")) @@ FromHttp(p)

\* RustEvaluationStage.
DecisionOf(res) == IF res.enforce.decision = "Allow" THEN "SUCCESS" ELSE "DENIED"

\* (mutant) a shadow policy that matches is given as a reason
ReasonsOf_Shadow(res) ==
    IF DecisionOf(res) # "DENIED" THEN <<>>
    ELSE FoldLeft(LAMBDA reasons, t : IF t.matched THEN Append(reasons, t.policy) ELSE reasons,
                  <<>>, res.traces)

\* ExplainStage.
ReasonsOf(res) ==
    IF DecisionOf(res) # "DENIED" THEN <<>>
    ELSE FoldLeft(LAMBDA reasons, t : IF t.matched /\ t.mode = "enforce"
                                      THEN Append(reasons, t.policy) ELSE reasons,
                  <<>>, res.traces)

\* One context goes through the stages, none of which awaits anything.
Decide(p) ==
    /\ ctx[p] = None
    /\ Spend("requests")
    /\ p.amount # NotANumber
    /\ LET res == Evaluate(store, "transfer_funds", DomainData(p))
       IN  ctx' = [ctx EXCEPT ![p] = [decision |-> DecisionOf(res), policy_id |-> res.enforce.policy,
                                      reasons |-> ReasonsOf(res), judgedBy |-> origin]]
    /\ UNCHANGED <<signingVars, engineVars, storeVars>>

\* float() raises in from_http: the request gets no context.
FromHttpRaises(p) ==
    /\ ctx[p] = None
    /\ Spend("requests")
    /\ p.amount = NotANumber
    /\ UNCHANGED <<signingVars, engineVars, storeVars, ctx>>

----------------------------------------------------------------------------

Signing ==
    /\ \/ \E t \in Text : Edit(t) /\ Spend("edits")
       \/ SignStarts /\ Spend("signs")
       \/ SignOn /\ UNCHANGED left
       \/ VerifyStarts /\ Spend("verifications")
       \/ VerifyOn /\ UNCHANGED left
    /\ UNCHANGED <<engineVars, storeVars, ctx>>

Engine ==
    /\ \/ EditEngineFile /\ Spend("engineEdits")
       \/ ReloadPolicies /\ Spend("reloads")
       \/ \E q \in Query : EvaluateQuery(q) /\ Spend("requests")
    /\ UNCHANGED <<signingVars, storeVars, ctx>>

Next ==
    \/ Signing
    \/ Engine
    \/ \E l \in Loader : LoadReads(l) \/ LoadSwaps(l)
    \/ \E p \in Payload : Decide(p) \/ FromHttpRaises(p)

Spec == Init /\ [][Next]_vars

----------------------------------------------------------------------------
(* Properties.                                                             *)

\* Where the enforced policies for transfers stand in a file, and those of
\* them that match.
Enforced(policies) ==
    {i \in DOMAIN policies :
        policies[i].tool = "transfer_funds" /\ policies[i].mode = "enforce"}

Matching(policies, p) ==
    {i \in Enforced(policies) : CheckCondition(policies[i].condition, DomainData(p))}

\* A transfer is let through exactly when the file that was loaded last
\* enforces something for transfers and nothing of it matches: shadow
\* policies, the order, loads that overlap or fail and what was loaded before
\* let none through and hold none back.
SuccessMeansClear ==
    \A p \in Payload : ctx[p] # None =>
        (ctx[p].decision = "SUCCESS" <=>
            Enforced(ctx[p].judgedBy) # {} /\ Matching(ctx[p].judgedBy, p) = {})

\* ids are those of the policies at the places in `where`, in their order.
Names(ids, policies, where) ==
    \E at \in [DOMAIN ids -> where] :
        /\ \A m, n \in DOMAIN ids : m < n => at[m] < at[n]
        /\ \A i \in where : \E n \in DOMAIN ids : at[n] = i
        /\ \A n \in DOMAIN ids : ids[n] = policies[at[n]].id

\* The reasons of a denial are all the enforced policies that match, and the
\* policy that goes into the audit event is the first of them; a transfer
\* that is let through has none.
DenialExplained ==
    \A p \in Payload : ctx[p] # None =>
        LET matching == Matching(ctx[p].judgedBy, p)
        IN  /\ Names(ctx[p].reasons, ctx[p].judgedBy, matching)
            /\ matching # {} => ctx[p].policy_id = ctx[p].reasons[1]
=============================================================================
