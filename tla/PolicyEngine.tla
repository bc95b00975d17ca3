---------------------------- MODULE PolicyEngine ----------------------------
(***************************************************************************)
(* PolicyEngine (execution/policy_engine.py): the policy in memory, its    *)
(* hot reload from config/policies.yaml, and evaluate.                     *)
(*                                                                         *)
(* A target is the sequence of its parts, <<"CRYPTO_", "WALLET">>.         *)
(***************************************************************************)
EXTENDS Integers, SequencesExt

CONSTANTS
    Query,         \* calls of evaluate: [action, role, amount, target]
    PolicyText,    \* contents of config/policies.yaml: [valid, actions]
    ShippedPolicy, \* the one in the repository
    NoFile,        \* the file is not there
    Nothing        \* None

\* What pydantic makes of a file, and what a caller may pass.
ActionPolicy == [roles : SUBSET STRING, limit : Int \cup {Nothing},
                 prefixes : Seq(Seq(STRING)) \cup {Nothing}]

ASSUME EngineAssumption ==
    /\ ShippedPolicy \in PolicyText
    /\ NoFile \notin PolicyText /\ Nothing \notin PolicyText
    /\ \A t \in PolicyText : /\ t.valid \in BOOLEAN
                             /\ t.valid => \A a \in DOMAIN t.actions : t.actions[a] \in ActionPolicy
    /\ \A q \in Query : q.amount \in Int \cup {Nothing} /\ q.target \in Seq(STRING)

VARIABLES
    engineFile,
    engine,        \* self._policy
    lastGood,      \* history: the last content that a reload has taken
    verdict        \* what evaluate returned: [allowed, reason, policy]

engineVars == <<engineFile, engine, lastGood, verdict>>

Reason == {"POLICIES_NOT_LOADED", "ACTION_NOT_DEFINED", "ROLE_NOT_ALLOWED",
           "LIMIT_EXCEEDED", "TARGET_BLOCKED", "ALLOWED", "TypeError"}

EngineTypeOK ==
    /\ engineFile \in PolicyText \cup {NoFile}
    /\ engine \in PolicyText \cup {Nothing}
    /\ lastGood \in PolicyText \cup {Nothing}
    /\ verdict \in [Query -> [reason : Reason, policy : PolicyText \cup {Nothing}] \cup {Nothing}]

EngineInit ==
    /\ engineFile = ShippedPolicy
    /\ engine = Nothing /\ lastGood = Nothing
    /\ verdict = [q \in Query |-> Nothing]

\* Somebody edits, breaks or removes the file.
EditEngineFile ==
    /\ engineFile' \in PolicyText \cup {NoFile}
    /\ UNCHANGED <<engine, lastGood, verdict>>

Loads == engineFile # NoFile /\ engineFile.valid

\* (mutant) the old policy is dropped before the new one is there
ReloadPolicies_DropsFirst ==
    /\ IF Loads THEN engine' = engineFile /\ lastGood' = engineFile
       ELSE engine' = Nothing /\ UNCHANGED lastGood
    /\ UNCHANGED <<engineFile, verdict>>

\* __init__ and reload_policies: an error is raised and changes nothing.
ReloadPolicies ==
    /\ IF Loads THEN engine' = engineFile /\ lastGood' = engineFile
       ELSE UNCHANGED <<engine, lastGood>>
    /\ UNCHANGED <<engineFile, verdict>>

\* `amount is not None and max_amount_usd`: a limit of 0 is no limit.
Exceeds(amount, limit) ==
    amount # Nothing /\ limit \notin {Nothing, 0} /\ amount > limit

Blocked(target, prefixes) ==
    \E i \in DOMAIN prefixes : IsPrefix(prefixes[i], target)

\* evaluate; a list of prefixes that is null cannot be iterated.
ReasonFor(policy, q) ==
    IF policy = Nothing THEN "POLICIES_NOT_LOADED"
    ELSE IF q.action \notin DOMAIN policy.actions THEN "ACTION_NOT_DEFINED"
    ELSE LET a == policy.actions[q.action]
         IN  IF q.role \notin a.roles THEN "ROLE_NOT_ALLOWED"
             ELSE IF Exceeds(q.amount, a.limit) THEN "LIMIT_EXCEEDED"
             ELSE IF a.prefixes = Nothing THEN "TypeError"
             ELSE IF Blocked(q.target, a.prefixes) THEN "TARGET_BLOCKED"
             ELSE "ALLOWED"

EvaluateQuery(q) ==
    /\ verdict[q] = Nothing
    /\ verdict' = [verdict EXCEPT ![q] = [reason |-> ReasonFor(engine, q),
                                          policy |-> lastGood]]
    /\ UNCHANGED <<engineFile, engine, lastGood>>

----------------------------------------------------------------------------
(* Properties.                                                             *)

\* q lies within every clause of a.
Within(q, a) ==
    /\ q.role \in a.roles
    /\ q.amount # Nothing /\ a.limit # Nothing => q.amount <= a.limit
    /\ \A i \in DOMAIN a.prefixes, n \in 0 .. Len(q.target) :
          a.prefixes[i] # SubSeq(q.target, 1, n)

\* The code takes a limit of 0 for no limit, and stumbles over a null list.
Readable(a) == a.limit # 0 /\ a.prefixes # Nothing

\* evaluate allows exactly what lies within the last policy that was whole,
\* whatever became of the file since: a failed hot reload neither opens nor
\* closes anything.
EngineDecides ==
    \A q \in Query : verdict[q] # Nothing =>
        LET p == verdict[q].policy
        IN  IF p = Nothing \/ q.action \notin DOMAIN p.actions
            THEN verdict[q].reason # "ALLOWED"
            ELSE Readable(p.actions[q.action]) =>
                    (verdict[q].reason = "ALLOWED" <=> Within(q, p.actions[q.action]))
=============================================================================
