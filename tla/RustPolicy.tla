----------------------------- MODULE RustPolicy -----------------------------
(***************************************************************************)
(* The decision of the Rust engine: models.rs, engine.rs, and the grouping *)
(* of policies by tool in store.rs.                                        *)
(*                                                                         *)
(* A PolicyValue is a pair of its variant and its content.  An option of a *)
(* Condition that is not given is not in the record's domain.              *)
(***************************************************************************)
EXTENDS Integers, SequencesExt

CONSTANTS
    Substring,   \* pairs <<s, t>> of strings where s occurs in t
    Condition    \* the conditions of policies, and those they are made of

\* The fields of a Condition that hold conditions.
PartsOf(cond) ==
    LET given == DOMAIN cond
    IN  (IF "and" \in given THEN Range(cond.and) ELSE {})
        \cup (IF "or" \in given THEN Range(cond.or) ELSE {})
        \cup (IF "not" \in given THEN {cond.not} ELSE {})

ASSUME ConditionAssumption == \A c \in Condition : PartsOf(c) \subseteq Condition

\* FromPyObject: a Python float becomes an f32, 24 bits of mantissa, ties to
\* even; numbers up to 2^26 units.
F32(n) ==
    LET step == IF n < 2 ^ 24 THEN 1 ELSE IF n < 2 ^ 25 THEN 2 ELSE 4
        down == n \div step
        rest == n % step
    IN  step * (IF 2 * rest > step \/ (2 * rest = step /\ down % 2 = 1)
                THEN down + 1 ELSE down)

Float(n) == <<"Float", F32(n)>>

\* A bool is tried as f32 first, and is one.
FromBool(b) == Float(IF b THEN 1 ELSE 0)

AtomHolds(atom, context) ==
    /\ atom.attr_key \in DOMAIN context
    /\ LET a == context[atom.attr_key]
           b == atom.value
           both(variant) == a[1] = variant /\ b[1] = variant
       IN  \/ atom.operator = "gt" /\ both("Float") /\ a[2] > b[2]
           \/ atom.operator = "lt" /\ both("Float") /\ a[2] < b[2]
           \/ atom.operator = "eq" /\ both("Str") /\ a = b
           \/ atom.operator = "contains" /\ both("Str") /\ <<b[2], a[2]>> \in Substring
           \/ atom.operator = "in" /\ b[1] = "List" /\ \E i \in DOMAIN b[2] : b[2][i] = a
           \/ atom.operator = "not_in" /\ b[1] = "List" /\ \A i \in DOMAIN b[2] : b[2][i] # a

CheckCondition(cond, context) ==
    LET Holds[c \in Condition] ==
          LET given == DOMAIN c
          IN  IF "atom" \in given THEN AtomHolds(c.atom, context)
              ELSE IF "and" \in given THEN \A i \in DOMAIN c.and : Holds[c.and[i]]
              ELSE IF "or" \in given THEN \E i \in DOMAIN c.or : Holds[c.or[i]]
              ELSE "not" \in given /\ ~Holds[c.not]
    IN  Holds[cond]

\* enforce_state and shadow_state: the first policy of the mode that matches
\* denies, otherwise the last one of the mode allows.
StateOf(mode, policies, context) ==
    LET step(state, p) ==
          IF p.mode # mode \/ state.decision = "Deny" THEN state
          ELSE [decision |-> IF CheckCondition(p.condition, context) THEN "Deny" ELSE "Allow",
                policy |-> p.id]
    IN  FoldLeft(step, [decision |-> "Abstain", policy |-> "default"], policies)

Traces(policies, context) ==
    [i \in DOMAIN policies |->
        [policy |-> policies[i].id, mode |-> policies[i].mode,
         matched |-> CheckCondition(policies[i].condition, context)]]

DefaultDeny ==
    LET deny == [decision |-> "Deny", policy |-> "system"]
    IN  [enforce |-> deny, shadow |-> deny, traces |-> <<>>]

Evaluate(byTool, tool, context) ==
    IF tool \notin DOMAIN byTool THEN DefaultDeny
    ELSE [enforce |-> StateOf("enforce", byTool[tool], context),
          shadow  |-> StateOf("shadow", byTool[tool], context),
          traces  |-> Traces(byTool[tool], context)]

\* load_from_file: the policies of each tool, in the order of the file.
ByTool(policies) ==
    [t \in {policies[i].tool : i \in DOMAIN policies} |->
        FoldLeft(LAMBDA group, p : IF p.tool = t THEN Append(group, p) ELSE group,
                 <<>>, policies)]
=============================================================================
