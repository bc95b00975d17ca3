--------------------------- MODULE DecisionsProofs ---------------------------
(***************************************************************************)
(* Proofs about Decisions: what is decided from the policies, by the Rust  *)
(* engine and the stages, and by the Python engine.                        *)
(***************************************************************************)
EXTENDS Decisions, PolicySigningProofs, WellFoundedInduction

----------------------------------------------------------------------------
(* The Python engine.                                                      *)

\* What is in memory is the last whole file, and every answer is evaluate's
\* on the policy that was in memory.
EngineInv ==
    /\ EngineTypeOK
    /\ engine = lastGood
    /\ lastGood # Nothing => lastGood.valid
    /\ \A q \in Query : verdict[q] # Nothing =>
          /\ verdict[q].reason = ReasonFor(verdict[q].policy, q)
          /\ verdict[q].policy # Nothing => verdict[q].policy.valid

LEMMA ReasonType == \A policy, q : ReasonFor(policy, q) \in Reason
BY DEF ReasonFor, Reason

LEMMA EngineInitInv == EngineInit => EngineInv
BY EngineAssumption DEF EngineInit, EngineInv, EngineTypeOK

LEMMA EngineStepInv == EngineInv /\ [Engine]_engineVars => EngineInv'
<1> SUFFICES ASSUME EngineInv, [Engine]_engineVars PROVE EngineInv'
  OBVIOUS
<1> USE DEF EngineInv, EngineTypeOK, engineVars
<1>1. CASE UNCHANGED engineVars
  BY <1>1
<1>2. CASE EditEngineFile
  BY <1>2 DEF EditEngineFile
<1>3. CASE ReloadPolicies
  BY <1>3, EngineAssumption DEF ReloadPolicies, Loads
<1>4. ASSUME NEW q \in Query, EvaluateQuery(q) PROVE EngineInv'
  <2> DEFINE answer == [reason |-> ReasonFor(engine, q), policy |-> lastGood]
  <2>1. /\ UNCHANGED <<engineFile, engine, lastGood>>
        /\ verdict' = [verdict EXCEPT ![q] = answer]
    BY <1>4 DEF EvaluateQuery
  <2>2. answer \in [reason : Reason, policy : PolicyText \cup {Nothing}]
    BY ReasonType
  <2>3. /\ answer.reason = ReasonFor(answer.policy, q)
        /\ answer.policy # Nothing => answer.policy.valid
    OBVIOUS
  <2> HIDE DEF answer
  <2>4. ASSUME NEW r \in Query
        PROVE  verdict'[r] = IF r = q THEN answer ELSE verdict[r]
    BY <2>1
  <2>5. verdict' \in [Query -> [reason : Reason, policy : PolicyText \cup {Nothing}]
                                  \cup {Nothing}]
    BY <2>1, <2>2
  <2> QED BY <2>1, <2>3, <2>4, <2>5
<1> QED BY <1>1, <1>2, <1>3, <1>4 DEF Engine

\* evaluate allows what lies within the clauses of a readable policy.
LEMMA ReasonIsWithin ==
    ASSUME NEW policy \in PolicyText, policy.valid, NEW q \in Query,
           q.action \in DOMAIN policy.actions, Readable(policy.actions[q.action])
    PROVE  ReasonFor(policy, q) = "ALLOWED" <=> Within(q, policy.actions[q.action])
<1> DEFINE a == policy.actions[q.action]
<1>1. a \in ActionPolicy /\ Readable(a)
  BY EngineAssumption
<1>2. q.amount \in Int \cup {Nothing} /\ q.target \in Seq(STRING) /\ policy # Nothing
  BY EngineAssumption
<1>3. ReasonFor(policy, q) = "ALLOWED" <=>
         q.role \in a.roles /\ ~Exceeds(q.amount, a.limit) /\ ~Blocked(q.target, a.prefixes)
  BY <1>1, <1>2 DEF ReasonFor, Readable
<1> HIDE DEF a
<1>4. Exceeds(q.amount, a.limit)
         <=> ~(q.amount # Nothing /\ a.limit # Nothing => q.amount <= a.limit)
  BY <1>1, <1>2 DEF Exceeds, Readable, ActionPolicy
<1>5. ASSUME NEW i \in DOMAIN a.prefixes
      PROVE  IsPrefix(a.prefixes[i], q.target) <=>
                \E n \in 0 .. Len(q.target) : a.prefixes[i] = SubSeq(q.target, 1, n)
  <2>1. a.prefixes[i] \in Seq(STRING)
    BY <1>1 DEF Readable, ActionPolicy
  <2> DEFINE s == a.prefixes[i]  t == q.target
  <2>2. s \in Seq(STRING) /\ t \in Seq(STRING)
    BY <2>1, <1>2
  <2> HIDE DEF s, t
  <2>3. SubSeq(s, 1, Len(s)) = s
    BY <2>2
  <2>4. \A n \in 0 .. Len(t) : Len(SubSeq(t, 1, n)) = n
    BY <2>2
  <2>5. IsPrefix(s, t) <=> Len(s) <= Len(t) /\ s = SubSeq(t, 1, Len(s))
    BY <2>2, <2>3 DEF IsPrefix
  <2>6. IsPrefix(s, t) => \E n \in 0 .. Len(t) : s = SubSeq(t, 1, n)
    <3>1. Len(s) <= Len(t) => Len(s) \in 0 .. Len(t)
      BY <2>2
    <3> QED BY <2>5, <3>1
  <2>7. ASSUME NEW n \in 0 .. Len(t), s = SubSeq(t, 1, n) PROVE IsPrefix(s, t)
    <3>1. Len(s) = n
      BY <2>4, <2>7
    <3> QED BY <2>5, <2>7, <3>1
  <2> QED BY <2>6, <2>7 DEF s, t
<1>6. Within(q, a) <=>
         q.role \in a.roles /\ ~Exceeds(q.amount, a.limit) /\ ~Blocked(q.target, a.prefixes)
  BY <1>4, <1>5 DEF Within, Blocked
<1> QED BY <1>3, <1>6 DEF a

LEMMA EngineInvDecides == EngineInv => EngineDecides
<1> SUFFICES ASSUME EngineInv, NEW q \in Query, verdict[q] # Nothing
             PROVE  LET p == verdict[q].policy
                    IN  IF p = Nothing \/ q.action \notin DOMAIN p.actions
                        THEN verdict[q].reason # "ALLOWED"
                        ELSE Readable(p.actions[q.action]) =>
                                (verdict[q].reason = "ALLOWED" <=> Within(q, p.actions[q.action]))
  BY DEF EngineDecides
<1> DEFINE p == verdict[q].policy
<1>1. /\ verdict[q].reason = ReasonFor(p, q)
      /\ p \in PolicyText \cup {Nothing}
      /\ p # Nothing => p.valid
  BY DEF EngineInv, EngineTypeOK
<1>2. CASE p = Nothing \/ q.action \notin DOMAIN p.actions
  BY <1>1, <1>2 DEF ReasonFor
<1>3. CASE ~(p = Nothing \/ q.action \notin DOMAIN p.actions)
  BY <1>1, <1>3, ReasonIsWithin
<1> QED BY <1>2, <1>3

----------------------------------------------------------------------------
(* Loops.  FoldLeft is a function over the sets of places that are done.   *)

\* Induction over Nat for a set.
LEMMA NatSetInduction ==
    ASSUME NEW S, 0 \in S, \A n \in Nat : n \in S => n + 1 \in S
    PROVE  Nat \subseteq S
<1>1. SUFFICES ASSUME NEW m \in Nat, m \notin S PROVE FALSE
  OBVIOUS
<1> DEFINE T == {n \in Nat : n \notin S}
<1>2. T \subseteq Nat /\ T # {}
  BY <1>1
<1>3. PICK x \in T : \A y \in T : ~(<<y, x>> \in OpToRel(<, Nat))
  BY <1>2, NatLessThanWellFounded, WFMin, Zenon
<1>4. \A y \in T : ~(y < x)
  BY <1>3 DEF OpToRel
<1>5. x # 0 /\ x - 1 \in Nat /\ x - 1 \in S
  BY <1>4
<1> QED BY <1>5

LEMMA MaxOf ==
    ASSUME NEW n \in Nat, NEW s \in SUBSET (1 .. n), s # {}
    PROVE  Max(s) \in s /\ \A y \in s : Max(s) >= y
<1> DEFINE T == {m \in Nat : \A u \in SUBSET (1 .. m) : u # {} => \E x \in u : \A y \in u : x >= y}
<1>1. 0 \in T
  <2>1. 1 .. 0 = {}
    OBVIOUS
  <2> QED BY <2>1
<1>2. ASSUME NEW m \in Nat, m \in T PROVE m + 1 \in T
  <2>1. SUFFICES ASSUME NEW u \in SUBSET (1 .. m + 1), u # {}
                 PROVE \E x \in u : \A y \in u : x >= y
    OBVIOUS
  <2>2. CASE m + 1 \in u
    BY <2>2
  <2>3. CASE m + 1 \notin u
    <3>1. u \in SUBSET (1 .. m)
      BY <2>3
    <3> QED BY <3>1, <2>1, <1>2
  <2> QED BY <2>2, <2>3
<1>3. Nat \subseteq T
  <2> HIDE DEF T
  <2> QED BY <1>1, <1>2, NatSetInduction
<1>4. \E x \in s : \A y \in s : x >= y
  BY <1>3
<1> QED BY <1>4 DEF Max

\* The table of a fold over 1 .. n from the left, with a step g and values in
\* V: what MapThenFoldSet makes of FoldLeft.
Folds(f, n, V, base, g) ==
    /\ f \in [SUBSET (1 .. n) -> V]
    /\ \A s \in SUBSET (1 .. n) :
          f[s] = IF s = {} THEN base ELSE g[Max(s)][f[s \ {Max(s)}]]

\* There is one.
LEMMA FoldExists ==
    ASSUME NEW n \in Nat, NEW V, NEW base \in V, NEW g \in [1 .. n -> [V -> V]]
    PROVE  \E f : Folds(f, n, V, base, g)
<1> DEFINE Fold(f, m) == Folds(f, m, V, base, g)
           T == {m \in Nat : m <= n => \E f : Fold(f, m)}
<1>1. 0 \in T
  <2> DEFINE f == [s \in SUBSET (1 .. 0) |-> base]
  <2>1. 1 .. 0 = {} /\ SUBSET {} = {{}}
    OBVIOUS
  <2>2. Fold(f, 0)
    BY <2>1 DEF Folds
  <2> HIDE DEF Fold
  <2> QED BY <2>2
<1>2. ASSUME NEW m \in Nat, m \in T PROVE m + 1 \in T
  <2>1. SUFFICES ASSUME m + 1 <= n PROVE \E f : Fold(f, m + 1)
    <3> HIDE DEF Fold
    <3> QED BY DEF T
  <2>2. PICK e : Fold(e, m)
    <3> HIDE DEF Fold
    <3> QED BY <1>2, <2>1
  <2> DEFINE f == [s \in SUBSET (1 .. m + 1) |->
                     IF m + 1 \in s THEN g[m + 1][e[s \ {m + 1}]] ELSE e[s]]
  <2>3. ASSUME NEW s \in SUBSET (1 .. m + 1), m + 1 \in s
        PROVE  /\ s \ {m + 1} \in SUBSET (1 .. m) 
               /\ Max(s) = m + 1 /\ s \ {m + 1} \in SUBSET (1 .. m + 1)
    <3>1. m + 1 \in Nat /\ s # {}
      BY <2>3
    <3>2. Max(s) \in s /\ \A y \in s : Max(s) >= y
      BY <3>1, MaxOf
    <3>3. Max(s) \in 1 .. m + 1
      BY <3>2
    <3>4. Max(s) = m + 1
      BY <2>3, <3>2, <3>3
    <3>5. s \ {m + 1} \in SUBSET (1 .. m)
      OBVIOUS
    <3> QED BY <3>4, <3>5
  <2>4. ASSUME NEW s \in SUBSET (1 .. m + 1), m + 1 \notin s
        PROVE  s \in SUBSET (1 .. m) /\ (s # {} => s \ {Max(s)} \in SUBSET (1 .. m))
    <3>1. \A x \in s : x \in 1 .. m
      BY <2>4
    <3> QED BY <3>1
  <2>5. f \in [SUBSET (1 .. m + 1) -> V]
    <3>1. ASSUME NEW s \in SUBSET (1 .. m + 1) PROVE f[s] \in V
      <4>1. CASE m + 1 \in s
        <5>1. e[s \ {m + 1}] \in V
          BY <2>2, <2>3, <4>1 DEF Folds
        <5>2. m + 1 \in 1 .. n
          BY <2>1
        <5> QED BY <4>1, <5>1, <5>2
      <4>2. CASE m + 1 \notin s
        BY <2>2, <2>4, <4>2 DEF Folds
      <4> QED BY <4>1, <4>2
    <3> QED BY <3>1
  <2>6. ASSUME NEW s \in SUBSET (1 .. m + 1)
        PROVE  f[s] = IF s = {} THEN base ELSE g[Max(s)][f[s \ {Max(s)}]]
    <3>1. CASE m + 1 \in s
      <4>1. Max(s) = m + 1 /\ s # {} /\ f[s] = g[m + 1][e[s \ {m + 1}]]
        BY <2>3, <3>1
      <4>2. f[s \ {m + 1}] = e[s \ {m + 1}]
        BY <2>3, <3>1
      <4> QED BY <4>1, <4>2
    <3>2. CASE m + 1 \notin s
      <4>1. f[s] = e[s] /\ (s # {} => f[s \ {Max(s)}] = e[s \ {Max(s)}])
        BY <2>4, <3>2
      <4> QED BY <4>1, <2>2, <2>4, <3>2 DEF Folds
    <3> QED BY <3>1, <3>2
  <2>7. Fold(f, m + 1)
    BY <2>5, <2>6 DEF Folds
  <2> HIDE DEF Fold, f
  <2> QED BY <2>7
<1>3. n \in T
  <2>1. Nat \subseteq T
    <3> HIDE DEF T
    <3> QED BY <1>1, <1>2, NatSetInduction
  <2> QED BY <2>1
<1> QED
  <2>1. PICK f : Fold(f, n)
    <3> HIDE DEF Fold
    <3> QED BY <1>3
  <2> QED BY <2>1


\* The initial segments, through which a fold runs.
LEMMA Segments ==
    ASSUME NEW n \in Nat, NEW m \in 1 .. n
    PROVE  /\ 1 .. m \in SUBSET (1 .. n) /\ 1 .. m # {}
           /\ Max(1 .. m) = m /\ (1 .. m) \ {Max(1 .. m)} = 1 .. (m - 1)
<1>1. m \in Nat /\ 1 .. m \in SUBSET (1 .. m) /\ m \in 1 .. m /\ 1 .. m # {}
  OBVIOUS
<1>2. Max(1 .. m) \in 1 .. m /\ \A y \in 1 .. m : Max(1 .. m) >= y
  BY <1>1, MaxOf
<1>3. Max(1 .. m) = m
  BY <1>1, <1>2
<1> QED BY <1>1, <1>3

Increasing(at) == \A j, k \in DOMAIN at : j < k => at[j] < at[k]

\* seq has the values val of the places in `where`, in their order.
Lists(seq, val, where) ==
    \E at \in [DOMAIN seq -> where] :
        /\ Increasing(at)
        /\ \A i \in where : \E k \in DOMAIN seq : at[k] = i
        /\ \A k \in DOMAIN seq : seq[k] = val[at[k]]

LEMMA AppendLists ==
    ASSUME NEW V, NEW seq \in Seq(V), NEW m \in Nat, NEW where \in SUBSET (1 .. m),
           NEW val, val[m + 1] \in V, Lists(seq, val, where)
    PROVE  Lists(Append(seq, val[m + 1]), val, where \cup {m + 1})
<1> DEFINE longer == Append(seq, val[m + 1])  len == Len(seq)
<1>1. PICK at \in [DOMAIN seq -> where] :
        /\ Increasing(at)
        /\ \A i \in where : \E k \in DOMAIN seq : at[k] = i
        /\ \A k \in DOMAIN seq : seq[k] = val[at[k]]
  BY DEF Lists
<1>2. /\ len \in Nat /\ DOMAIN seq = 1 .. len /\ DOMAIN longer = 1 .. (len + 1)
      /\ longer[len + 1] = val[m + 1]
      /\ \A k \in 1 .. len : longer[k] = seq[k]
  OBVIOUS
<1> DEFINE to == [k \in 1 .. (len + 1) |-> IF k = len + 1 THEN m + 1 ELSE at[k]]
<1> HIDE DEF longer, len
<1>3. /\ to \in [DOMAIN longer -> where \cup {m + 1}] /\ to[len + 1] = m + 1
      /\ \A k \in 1 .. len : to[k] = at[k] /\ at[k] \in where
  BY <1>1, <1>2
<1>4. Increasing(to)
  <2>1. SUFFICES ASSUME NEW j \in 1 .. (len + 1), NEW k \in 1 .. (len + 1), j < k
                 PROVE  to[j] < to[k]
    BY <1>2 DEF Increasing
  <2>2. j \in 1 .. len
    BY <1>2, <2>1
  <2>3. to[j] = at[j] /\ at[j] \in 1 .. m
    BY <1>3, <2>2
  <2>4. CASE k = len + 1
    BY <1>3, <2>3, <2>4
  <2>5. CASE k # len + 1
    <3>1. k \in 1 .. len /\ to[k] = at[k]
      BY <1>2, <1>3, <2>5
    <3> QED BY <1>1, <1>2, <2>1, <2>2, <2>3, <3>1 DEF Increasing
  <2> QED BY <2>4, <2>5
<1>5. ASSUME NEW i \in where \cup {m + 1} PROVE \E k \in DOMAIN longer : to[k] = i
  <2>1. CASE i = m + 1
    <3>1. len + 1 \in DOMAIN longer
      BY <1>2
    <3> QED BY <1>3, <2>1, <3>1
  <2>2. CASE i \in where
    <3>1. PICK k \in DOMAIN seq : at[k] = i
      BY <1>1, <2>2
    <3>2. k \in DOMAIN longer /\ to[k] = i
      BY <1>2, <1>3, <3>1
    <3> QED BY <3>2
  <2> QED BY <2>1, <2>2
<1>6. ASSUME NEW k \in DOMAIN longer PROVE longer[k] = val[to[k]]
  <2>1. CASE k = len + 1
    BY <1>2, <1>3, <2>1
  <2>2. CASE k # len + 1
    <3>1. k \in 1 .. len
      BY <1>2, <2>2
    <3> QED BY <1>1, <1>2, <1>3, <3>1
  <2> QED BY <2>1, <2>2
<1> HIDE DEF to
<1> QED BY <1>3, <1>4, <1>5, <1>6 DEF Lists, longer

\* The table of a loop that appends to a list what is at certain places.
Collects(f, n, val, where) ==
    f = [s \in SUBSET (1 .. n) |->
           IF s = {} THEN <<>>
           ELSE IF Max(s) \in where THEN Append(f[s \ {Max(s)}], val[Max(s)])
           ELSE f[s \ {Max(s)}]]

LEMMA CollectedLists ==
    ASSUME NEW n \in Nat, NEW V, NEW val \in [1 .. n -> V], NEW where \in SUBSET (1 .. n),
           NEW f, Collects(f, n, val, where)
    PROVE  f[1 .. n] \in Seq(V) /\ Lists(f[1 .. n], val, where)
<1> DEFINE T == {m \in Nat : m <= n =>
                    f[1 .. m] \in Seq(V) /\ Lists(f[1 .. m], val, where \cap (1 .. m))}
<1>1. 0 \in T
  <2>1. 1 .. 0 = {} /\ {} \in SUBSET (1 .. n)
    OBVIOUS
  <2>2. f[{}] = <<>>
    BY <2>1 DEF Collects
  <2>3. Lists(<<>>, val, {})
    <3> DEFINE at == [k \in {} |-> k]
    <3>1. at \in [{} -> {}] /\ DOMAIN at = {} /\ DOMAIN <<>> = {}
      OBVIOUS
    <3> QED BY <3>1 DEF Lists, Increasing
  <2>4. <<>> \in Seq(V) /\ where \cap {} = {}
    OBVIOUS
  <2> QED BY <2>1, <2>2, <2>3, <2>4
<1>2. ASSUME NEW m \in Nat, m \in T PROVE m + 1 \in T
  <2>1. SUFFICES ASSUME m + 1 <= n
                 PROVE  /\ f[1 .. m + 1] \in Seq(V)
                        /\ Lists(f[1 .. m + 1], val, where \cap (1 .. m + 1))
    OBVIOUS
  <2>2. f[1 .. m] \in Seq(V) /\ Lists(f[1 .. m], val, where \cap (1 .. m))
    BY <1>2, <2>1
  <2>3. m + 1 \in 1 .. n /\ (m + 1) - 1 = m
    BY <2>1
  <2>4. /\ 1 .. m + 1 \in SUBSET (1 .. n) /\ 1 .. m + 1 # {}
        /\ Max(1 .. m + 1) = m + 1 /\ (1 .. m + 1) \ {Max(1 .. m + 1)} = 1 .. m
    BY <2>3, Segments
  <2>5. f[1 .. m + 1] = IF m + 1 \in where THEN Append(f[1 .. m], val[m + 1]) ELSE f[1 .. m]
    BY <2>4 DEF Collects
  <2>6. CASE m + 1 \in where
    <3>1. where \cap (1 .. m + 1) = (where \cap (1 .. m)) \cup {m + 1}
      BY <2>6
    <3>2. where \cap (1 .. m) \in SUBSET (1 .. m) /\ val[m + 1] \in V
      BY <2>3
    <3>3. Lists(Append(f[1 .. m], val[m + 1]), val, (where \cap (1 .. m)) \cup {m + 1})
      BY <2>2, <3>2, AppendLists
    <3>4. Append(f[1 .. m], val[m + 1]) \in Seq(V)
      BY <2>2, <3>2
    <3> QED BY <2>5, <2>6, <3>1, <3>3, <3>4
  <2>7. CASE m + 1 \notin where
    <3>1. where \cap (1 .. m + 1) = where \cap (1 .. m)
      BY <2>7
    <3> QED BY <2>2, <2>5, <2>7, <3>1
  <2> QED BY <2>6, <2>7
<1>3. Nat \subseteq T
  <2> HIDE DEF T
  <2> QED BY <1>1, <1>2, NatSetInduction
<1>4. where \cap (1 .. n) = where
  OBVIOUS
<1>5. n \in T
  <2> HIDE DEF T
  <2> QED BY <1>3
<1> QED
  <2>1. n <= n
    OBVIOUS
  <2> QED BY <1>4, <1>5, <2>1

LEMMA CollectExists ==
    ASSUME NEW n \in Nat, NEW V, NEW val \in [1 .. n -> V], NEW where \in SUBSET (1 .. n)
    PROVE  \E f : Collects(f, n, val, where)
<1> DEFINE g == [i \in 1 .. n |-> [seq \in Seq(V) |->
                   IF i \in where THEN Append(seq, val[i]) ELSE seq]]
<1>1. g \in [1 .. n -> [Seq(V) -> Seq(V)]] /\ <<>> \in Seq(V)
  OBVIOUS
<1>2. \A i \in 1 .. n, seq \in Seq(V) :
         g[i][seq] = IF i \in where THEN Append(seq, val[i]) ELSE seq
  OBVIOUS
<1> HIDE DEF g
<1> DEFINE W == Seq(V)  none == <<>>
<1>3. W = Seq(V) /\ g \in [1 .. n -> [W -> W]] /\ none \in W /\ none = <<>>
  BY <1>1
<1> HIDE DEF W, none
<1>4. PICK f : Folds(f, n, W, none, g)
  BY <1>3, FoldExists
<1>5. ASSUME NEW s \in SUBSET (1 .. n), s # {}
      PROVE  f[s] = IF Max(s) \in where THEN Append(f[s \ {Max(s)}], val[Max(s)])
                    ELSE f[s \ {Max(s)}]
  <2>1. Max(s) \in s /\ s \ {Max(s)} \in SUBSET (1 .. n)
    BY <1>5, MaxOf
  <2>2. Max(s) \in 1 .. n /\ f[s \ {Max(s)}] \in Seq(V)
    BY <1>3, <1>4, <2>1 DEF Folds
  <2> QED BY <1>2, <1>4, <1>5, <2>2 DEF Folds
<1>6. f = [s \in SUBSET (1 .. n) |->
           IF s = {} THEN <<>>
           ELSE IF Max(s) \in where THEN Append(f[s \ {Max(s)}], val[Max(s)])
           ELSE f[s \ {Max(s)}]]
  BY <1>3, <1>4, <1>5 DEF Folds
<1> QED BY <1>6 DEF Collects

----------------------------------------------------------------------------
(* Conditions.  CheckCondition is a recursive function, of which there is  *)
(* one because conditions are nested to a finite depth.                    *)

\* check_condition of c, where `holds` are its results for the parts of c.
Verdict(holds, c, context) ==
    LET given == DOMAIN c
    IN  IF "atom" \in given THEN AtomHolds(c.atom, context)
        ELSE IF "and" \in given THEN \A i \in DOMAIN c.and : holds[c.and[i]]
        ELSE IF "or" \in given THEN \E i \in DOMAIN c.or : holds[c.or[i]]
        ELSE "not" \in given /\ ~holds[c.not]

\* Only the parts matter.
LEMMA VerdictOfParts ==
    ASSUME NEW c, NEW context, NEW f, NEW g, \A x \in PartsOf(c) : f[x] = g[x]
    PROVE  Verdict(f, c, context) = Verdict(g, c, context)
<1>1. "and" \in DOMAIN c => \A i \in DOMAIN c.and : f[c.and[i]] = g[c.and[i]]
  BY DEF PartsOf, Range
<1>2. "or" \in DOMAIN c => \A i \in DOMAIN c.or : f[c.or[i]] = g[c.or[i]]
  BY DEF PartsOf, Range
<1>3. "not" \in DOMAIN c => f[c.not] = g[c.not]
  BY DEF PartsOf
<1>4. CASE "atom" \in DOMAIN c
  BY <1>4 DEF Verdict
<1>5. CASE "atom" \notin DOMAIN c /\ "and" \in DOMAIN c
  BY <1>1, <1>5 DEF Verdict
<1>6. CASE "atom" \notin DOMAIN c /\ "and" \notin DOMAIN c /\ "or" \in DOMAIN c
  BY <1>2, <1>6 DEF Verdict
<1>7. CASE "atom" \notin DOMAIN c /\ "and" \notin DOMAIN c /\ "or" \notin DOMAIN c
  BY <1>3, <1>7 DEF Verdict
<1> QED BY <1>4, <1>5, <1>6, <1>7

\* depth counts how deep conditions are nested.
Nested(depth) ==
    /\ depth \in [Condition -> Nat]
    /\ \A c \in Condition : \A x \in PartsOf(c) : depth[x] < depth[c]

LEMMA CheckConditionMeans ==
    ASSUME NEW depth, Nested(depth), NEW cond \in Condition, NEW context
    PROVE  CheckCondition(cond, context) =
              Verdict([c \in Condition |-> CheckCondition(c, context)], cond, context)
<1> DEFINE Below(m) == {c \in Condition : depth[c] < m}
           Good(f, m) == \A c \in Below(m) : f[c] = Verdict(f, c, context)
<1>1. ASSUME NEW m \in Nat, NEW c \in Below(m + 1), NEW x \in PartsOf(c)
      PROVE  x \in Below(m)
  <2>1. x \in Condition /\ depth[x] < depth[c]
    BY ConditionAssumption DEF Nested
  <2>2. depth[x] \in Nat /\ depth[c] \in Nat
    BY <2>1 DEF Nested
  <2> QED BY <2>1, <2>2
<1>2. ASSUME NEW m \in Nat, NEW k \in Nat, k <= m, NEW f, Good(f, m)
      PROVE  Good(f, k)
  <2>1. ASSUME NEW c \in Below(k) PROVE c \in Below(m)
    BY <1>2 DEF Nested
  <2> QED BY <1>2, <2>1
\* Tables that are right below a depth agree there, ...
<1>3. ASSUME NEW m \in Nat, NEW f, NEW g, Good(f, m), Good(g, m)
      PROVE  \A c \in Below(m) : f[c] = g[c]
  <2> DEFINE T == {k \in Nat : k <= m => \A c \in Below(k) : f[c] = g[c]}
  <2>1. 0 \in T
    BY DEF Nested
  <2>2. ASSUME NEW k \in Nat, k \in T PROVE k + 1 \in T
    <3>1. SUFFICES ASSUME k + 1 <= m, NEW c \in Below(k + 1) PROVE f[c] = g[c]
      OBVIOUS
    <3>2. \A x \in PartsOf(c) : f[x] = g[x]
      BY <1>1, <2>2, <3>1
    <3>3. Verdict(f, c, context) = Verdict(g, c, context)
      BY <3>2, VerdictOfParts
    <3>4. Good(f, k + 1) /\ Good(g, k + 1)
      <4> HIDE DEF Good
      <4> QED BY <1>2, <1>3, <3>1
    <3>5. f[c] = Verdict(f, c, context) /\ g[c] = Verdict(g, c, context)
      BY <3>4
    <3> QED BY <3>3, <3>5
  <2>3. m \in T /\ m <= m
    <3> HIDE DEF T
    <3> QED BY <2>1, <2>2, NatSetInduction
  <2> QED BY <2>3
\* ... and there is one for every depth, ...
<1>4. ASSUME NEW m \in Nat PROVE \E f : Good(f, m)
  <2> DEFINE T == {k \in Nat : \E f : Good(f, k)}
  <2>1. 0 \in T
    BY DEF Nested
  <2>2. ASSUME NEW k \in Nat, k \in T PROVE k + 1 \in T
    <3>1. PICK f : Good(f, k)
      BY <2>2
    <3> DEFINE g == [c \in Condition |-> Verdict(f, c, context)]
    <3>2. ASSUME NEW c \in Below(k + 1) PROVE g[c] = Verdict(g, c, context)
      <4>1. \A x \in PartsOf(c) : g[x] = f[x]
        BY <1>1, <3>1
      <4>2. Verdict(g, c, context) = Verdict(f, c, context)
        <5> HIDE DEF g
        <5> QED BY <4>1, VerdictOfParts
      <4>3. g[c] = Verdict(f, c, context)
        OBVIOUS
      <4> HIDE DEF g
      <4> QED BY <4>2, <4>3
    <3> HIDE DEF g
    <3> QED BY <3>2
  <2> HIDE DEF T
  <2>3. m \in T
    BY <2>1, <2>2, NatSetInduction
  <2> QED BY <2>3 DEF T
\* ... so that together they are one for all conditions.
<1> DEFINE right(m) == CHOOSE f : Good(f, m)
           whole == [c \in Condition |-> right(depth[c] + 1)[c]]
<1>5. ASSUME NEW m \in Nat PROVE Good(right(m), m)
  <2> HIDE DEF Good
  <2> QED BY <1>4
<1>6. ASSUME NEW c \in Condition PROVE whole[c] = Verdict(whole, c, context)
  <2> DEFINE m == depth[c] + 1
  <2>1. m \in Nat /\ c \in Below(m)
    BY DEF Nested
  <2>2. ASSUME NEW x \in PartsOf(c) PROVE whole[x] = right(m)[x]
    <3> DEFINE k == depth[x] + 1
    <3>1. x \in Condition /\ k \in Nat /\ k <= m /\ x \in Below(k)
      BY ConditionAssumption DEF Nested
    <3> HIDE DEF k, m, Good, right
    <3>2. Good(right(k), k) /\ Good(right(m), k)
      BY <1>2, <1>5, <2>1, <3>1
    <3>3. right(k)[x] = right(m)[x]
      BY <1>3, <3>1, <3>2
    <3> QED BY <3>1, <3>3 DEF k
  <2>3. Verdict(whole, c, context) = Verdict(right(m), c, context)
    <3> HIDE DEF whole, right, m
    <3> QED BY <2>2, VerdictOfParts
  <2>4. right(m)[c] = Verdict(right(m), c, context)
    <3>1. Good(right(m), m)
      BY <1>5, <2>1
    <3> HIDE DEF right, m
    <3> QED BY <2>1, <3>1
  <2>5. whole[c] = right(m)[c]
    OBVIOUS
  <2> HIDE DEF whole, right, m
  <2> QED BY <2>3, <2>4, <2>5
<1> DEFINE Table(f) == f = [c \in Condition |-> Verdict(f, c, context)]
           table == CHOOSE f : Table(f)
<1>7. Table(table)
  <2>1. Table(whole)
    BY <1>6
  <2> HIDE DEF Table, whole
  <2> QED BY <2>1
<1>8. ASSUME NEW c \in Condition PROVE CheckCondition(c, context) = table[c]
  BY DEF CheckCondition, Verdict
<1> HIDE DEF table
<1>9. CheckCondition(cond, context) = Verdict(table, cond, context)
  BY <1>7, <1>8
<1>10. table = [c \in Condition |-> CheckCondition(c, context)]
  BY <1>7, <1>8
<1> QED BY <1>9, <1>10

\* What check_condition says of a condition is what its parts say, put
\* together by the first of atom, and, or, not that is given: the function
\* that CheckCondition chooses is the recursion of the code.
THEOREM CheckConditionRecurses ==
    ASSUME NEW depth, Nested(depth), NEW cond \in Condition, NEW context
    PROVE  CheckCondition(cond, context) =
             LET given == DOMAIN cond
             IN  IF "atom" \in given THEN AtomHolds(cond.atom, context)
                 ELSE IF "and" \in given
                      THEN \A i \in DOMAIN cond.and : CheckCondition(cond.and[i], context)
                 ELSE IF "or" \in given
                      THEN \E i \in DOMAIN cond.or : CheckCondition(cond.or[i], context)
                 ELSE "not" \in given /\ ~CheckCondition(cond.not, context)
<1> DEFINE table == [c \in Condition |-> CheckCondition(c, context)]
<1>1. \A x \in PartsOf(cond) : table[x] = CheckCondition(x, context)
  BY ConditionAssumption
<1> HIDE DEF table
<1>2. "and" \in DOMAIN cond =>
         \A i \in DOMAIN cond.and : table[cond.and[i]] = CheckCondition(cond.and[i], context)
  BY <1>1 DEF PartsOf, Range
<1>3. "or" \in DOMAIN cond =>
         \A i \in DOMAIN cond.or : table[cond.or[i]] = CheckCondition(cond.or[i], context)
  BY <1>1 DEF PartsOf, Range
<1>4. "not" \in DOMAIN cond => table[cond.not] = CheckCondition(cond.not, context)
  BY <1>1 DEF PartsOf
<1>5. CheckCondition(cond, context) = Verdict(table, cond, context)
  BY CheckConditionMeans DEF table
<1>6. CASE "atom" \in DOMAIN cond
  BY <1>5, <1>6 DEF Verdict
<1>7. CASE "atom" \notin DOMAIN cond /\ "and" \in DOMAIN cond
  BY <1>2, <1>5, <1>7 DEF Verdict
<1>8. CASE "atom" \notin DOMAIN cond /\ "and" \notin DOMAIN cond /\ "or" \in DOMAIN cond
  BY <1>3, <1>5, <1>8 DEF Verdict
<1>9. CASE "atom" \notin DOMAIN cond /\ "and" \notin DOMAIN cond /\ "or" \notin DOMAIN cond
  BY <1>4, <1>5, <1>9 DEF Verdict
<1> QED BY <1>6, <1>7, <1>8, <1>9

----------------------------------------------------------------------------
(* The loops of the Rust engine and of ExplainStage.                       *)

\* The policies of the files, whose ids a decision may give.
Known == {p \in Policy : p.id \in PolicyId}

\* Where the policies of a tool stand.
Places(policies, t) == {i \in DOMAIN policies : policies[i].tool = t}

\* load_from_file groups the policies of a tool in the order of the file.
LEMMA GroupLists ==
    ASSUME NEW policies \in Seq(Known), NEW t \in {policies[i].tool : i \in DOMAIN policies}
    PROVE  /\ ByTool(policies)[t] \in Seq(Known)
           /\ Lists(ByTool(policies)[t], policies, Places(policies, t))
<1> DEFINE n == Len(policies)  where == Places(policies, t)
           Table(f) == f = [s \in SUBSET DOMAIN policies |->
                              IF s = {} THEN <<>>
                              ELSE IF policies[Max(s)].tool = t
                              THEN Append(f[s \ {Max(s)}], policies[Max(s)])
                              ELSE f[s \ {Max(s)}]]
           table == CHOOSE f : Table(f)
<1>1. n \in Nat /\ DOMAIN policies = 1 .. n /\ policies \in [1 .. n -> Known]
  OBVIOUS
<1>2. ByTool(policies)[t] = table[DOMAIN policies]
  BY SMT DEF ByTool, FoldLeft, MapThenFoldSet
<1>3. \A s \in SUBSET (1 .. n) : s # {} => (Max(s) \in where <=> policies[Max(s)].tool = t)
  <2>1. SUFFICES ASSUME NEW s \in SUBSET (1 .. n), s # {}
                 PROVE  Max(s) \in where <=> policies[Max(s)].tool = t
    OBVIOUS
  <2>2. Max(s) \in s
    BY <1>1, <2>1, MaxOf
  <2> QED BY <1>1, <2>2 DEF Places
<1>4. \A f : Collects(f, n, policies, where) <=> Table(f)
  BY <1>1, <1>3 DEF Collects
<1>5. where \in SUBSET (1 .. n)
  BY <1>1 DEF Places
<1>6. \E f : Table(f)
  <2> HIDE DEF Table, n, where
  <2> QED BY <1>1, <1>4, <1>5, CollectExists
<1>7. Table(table)
  <2> HIDE DEF Table
  <2> QED BY <1>6
<1> HIDE DEF Table, table, n, where
<1>8. Collects(table, n, policies, where)
  BY <1>4, <1>7
<1>9. table[1 .. n] \in Seq(Known) /\ Lists(table[1 .. n], policies, where)
  BY <1>1, <1>5, <1>8, CollectedLists
<1> QED BY <1>1, <1>2, <1>9 DEF where

\* Where the policies of a mode stand, and those of them that match.
OfMode(mode, policies) == {i \in DOMAIN policies : policies[i].mode = mode}

Denying(mode, policies, context) ==
    {i \in OfMode(mode, policies) : CheckCondition(policies[i].condition, context)}

\* ExplainStage lists the enforced policies that match.
LEMMA ReasonLists ==
    ASSUME NEW policies \in Seq(Known), NEW context, NEW res,
           res.traces = Traces(policies, context), DecisionOf(res) = "DENIED"
    PROVE  /\ ReasonsOf(res) \in Seq(PolicyId)
           /\ Lists(ReasonsOf(res), [i \in DOMAIN policies |-> policies[i].id],
                    Denying("enforce", policies, context))
<1> DEFINE n == Len(policies)  where == Denying("enforce", policies, context)
           ids == [i \in DOMAIN policies |-> policies[i].id]
           traces == res.traces
           Table(f) == f = [s \in SUBSET DOMAIN traces |->
                              IF s = {} THEN <<>>
                              ELSE IF traces[Max(s)].matched /\ traces[Max(s)].mode = "enforce"
                              THEN Append(f[s \ {Max(s)}], traces[Max(s)].policy)
                              ELSE f[s \ {Max(s)}]]
           table == CHOOSE f : Table(f)
<1>1. n \in Nat /\ DOMAIN policies = 1 .. n /\ ids \in [1 .. n -> PolicyId]
  <2>1. n \in Nat /\ DOMAIN policies = 1 .. n /\ \A i \in 1 .. n : policies[i] \in Known
    OBVIOUS
  <2>2. \A i \in 1 .. n : policies[i].id \in PolicyId
    BY <2>1 DEF Known
  <2> QED BY <2>1, <2>2
<1>2. ReasonsOf(res) = table[DOMAIN traces]
  BY SMT DEF ReasonsOf, FoldLeft, MapThenFoldSet
<1>3. /\ DOMAIN traces = 1 .. n
      /\ \A i \in 1 .. n :
            /\ traces[i].policy = ids[i]
            /\ traces[i].matched /\ traces[i].mode = "enforce" <=> i \in where
  BY <1>1 DEF Traces, Denying, OfMode
<1> HIDE DEF n, where, ids, traces
<1>4. where \in SUBSET (1 .. n)
  BY <1>1 DEF Denying, OfMode, where
<1>5. \A s \in SUBSET (1 .. n) : s # {} =>
         /\ Max(s) \in where <=> traces[Max(s)].matched /\ traces[Max(s)].mode = "enforce"
         /\ traces[Max(s)].policy = ids[Max(s)]
  <2>1. SUFFICES ASSUME NEW s \in SUBSET (1 .. n), s # {}
                 PROVE  Max(s) \in 1 .. n
    BY <1>3
  <2>2. Max(s) \in s
    BY <1>1, <2>1, MaxOf
  <2> QED BY <2>2
<1>6. ASSUME NEW f PROVE Collects(f, n, ids, where) <=> Table(f)
  <2> DEFINE Collect(s) == IF s = {} THEN <<>>
                           ELSE IF Max(s) \in where THEN Append(f[s \ {Max(s)}], ids[Max(s)])
                           ELSE f[s \ {Max(s)}]
             Explain(s) == IF s = {} THEN <<>>
                           ELSE IF traces[Max(s)].matched /\ traces[Max(s)].mode = "enforce"
                           THEN Append(f[s \ {Max(s)}], traces[Max(s)].policy)
                           ELSE f[s \ {Max(s)}]
  <2>1. \A s \in SUBSET (1 .. n) : Collect(s) = Explain(s)
    <3>1. SUFFICES ASSUME NEW s \in SUBSET (1 .. n) PROVE Collect(s) = Explain(s)
      OBVIOUS
    <3>2. CASE s = {}
      BY <3>2
    <3>3. CASE s # {} /\ Max(s) \in where
      BY <1>5, <3>3
    <3>4. CASE s # {} /\ Max(s) \notin where
      BY <1>5, <3>4
    <3> QED BY <3>2, <3>3, <3>4
  <2>2. /\ Collects(f, n, ids, where) <=> f = [s \in SUBSET (1 .. n) |-> Collect(s)]
        /\ Table(f) <=> f = [s \in SUBSET (1 .. n) |-> Explain(s)]
    BY <1>3 DEF Collects
  <2> HIDE DEF Collect, Explain, Table
  <2> QED BY <2>1, <2>2
<1>7. \E f : Table(f)
  <2> HIDE DEF Table
  <2> QED BY <1>1, <1>4, <1>6, CollectExists
<1>8. Table(table)
  <2> HIDE DEF Table
  <2> QED BY <1>7
<1> HIDE DEF Table, table
<1>9. Collects(table, n, ids, where)
  BY <1>6, <1>8
<1>10. table[1 .. n] \in Seq(PolicyId) /\ Lists(table[1 .. n], ids, where)
  BY <1>1, <1>4, <1>9, CollectedLists
<1> QED BY <1>2, <1>3, <1>10 DEF where, ids

----------------------------------------------------------------------------
(* The state of a mode after a loop over the policies.                     *)

State == [decision : {"Abstain", "Allow", "Deny"}, policy : PolicyId]

\* What evaluate makes of one policy.
Judges(mode, context, p, state) ==
    IF p.mode # mode \/ state.decision = "Deny" THEN state
    ELSE [decision |-> IF CheckCondition(p.condition, context) THEN "Deny" ELSE "Allow",
          policy |-> p.id]

\* The state, where the loop has seen the policies at the places in `seen`.
StateIs(state, mode, policies, context, seen) ==
    LET denying == Denying(mode, policies, context) \cap seen
    IN  /\ state \in State
        /\ denying = {} =>
              (state.decision = "Allow" <=> OfMode(mode, policies) \cap seen # {})
        /\ denying = {} => state.decision # "Deny"
        /\ denying # {} =>
              /\ state.decision = "Deny"
              /\ \E i \in denying : state.policy = policies[i].id /\ \A j \in denying : i <= j

LEMMA JudgeKeeps ==
    ASSUME NEW policies \in Seq(Known), NEW mode, NEW context, NEW state,
           NEW m \in Nat, m + 1 \in DOMAIN policies,
           StateIs(state, mode, policies, context, 1 .. m)
    PROVE  StateIs(Judges(mode, context, policies[m + 1], state), mode, policies, context,
                   1 .. m + 1)
<1> DEFINE p == policies[m + 1]  next == Judges(mode, context, p, state)
           before == Denying(mode, policies, context) \cap (1 .. m)
           after == Denying(mode, policies, context) \cap (1 .. m + 1)
           had == OfMode(mode, policies) \cap (1 .. m)
           has == OfMode(mode, policies) \cap (1 .. m + 1)
<1>1. p \in Known /\ DOMAIN policies \subseteq Nat
  OBVIOUS
<1>2. /\ p.mode # mode => after = before /\ has = had
      /\ p.mode = mode => has = had \cup {m + 1}
      /\ p.mode = mode /\ ~CheckCondition(p.condition, context) => after = before
      /\ p.mode = mode /\ CheckCondition(p.condition, context) => after = before \cup {m + 1}
  BY DEF Denying, OfMode
<1>3. /\ state \in State
      /\ before = {} => (state.decision = "Allow" <=> had # {})
      /\ before = {} => state.decision # "Deny"
      /\ before # {} =>
            /\ state.decision = "Deny"
            /\ \E i \in before : state.policy = policies[i].id /\ \A j \in before : i <= j
  BY DEF StateIs
<1>4. before \subseteq 1 .. m
  OBVIOUS
<1>5. SUFFICES /\ next \in State
               /\ after = {} => (next.decision = "Allow" <=> has # {})
               /\ after = {} => next.decision # "Deny"
               /\ after # {} =>
                     /\ next.decision = "Deny"
                     /\ \E i \in after : next.policy = policies[i].id /\ \A j \in after : i <= j
  BY DEF StateIs
<1> HIDE DEF before, after, had, has, p
<1>6. CASE p.mode # mode
  BY <1>2, <1>3, <1>6 DEF Judges
<1>7. CASE p.mode = mode /\ state.decision = "Deny"
  <2>1. before # {} /\ next = state
    BY <1>3, <1>7 DEF Judges
  <2>2. PICK i \in before : state.policy = policies[i].id /\ \A j \in before : i <= j
    BY <1>3, <2>1
  <2>3. i \in after /\ after \subseteq before \cup {m + 1}
    BY <1>2, <1>7, <2>2
  <2>4. i \in 1 .. m
    BY <1>4, <2>2
  <2>5. ASSUME NEW j \in after PROVE i <= j
    BY <2>2, <2>3, <2>4
  <2> QED BY <1>3, <1>7, <2>1, <2>2, <2>3, <2>5
<1>8. CASE p.mode = mode /\ state.decision # "Deny"
  <2>1. before = {}
    BY <1>3, <1>8
  <2>2. next = [decision |-> IF CheckCondition(p.condition, context) THEN "Deny" ELSE "Allow",
                policy |-> p.id]
    BY <1>8 DEF Judges
  <2>3. CASE CheckCondition(p.condition, context)
    <3>1. after = {m + 1} /\ next = [decision |-> "Deny", policy |-> p.id]
      BY <1>2, <1>8, <2>1, <2>2, <2>3
    <3> QED BY <1>1, <3>1 DEF State, Known, p
  <2>4. CASE ~CheckCondition(p.condition, context)
    <3>1. after = {} /\ has # {} /\ next = [decision |-> "Allow", policy |-> p.id]
      BY <1>2, <1>8, <2>1, <2>2, <2>4
    <3> QED BY <1>1, <3>1 DEF State, Known
  <2> QED BY <2>3, <2>4
<1> QED BY <1>6, <1>7, <1>8

LEMMA JudgesType ==
    ASSUME NEW mode, NEW context, NEW p \in Known, NEW state \in State
    PROVE  Judges(mode, context, p, state) \in State
BY DEF Judges, State, Known

LEMMA BaseState == [decision |-> "Abstain", policy |-> "default"] \in State
BY DEF State, PolicyId

\* evaluate's loop, as a whole.
LEMMA StateReached ==
    ASSUME NEW policies \in Seq(Known), NEW mode, NEW context
    PROVE  StateIs(StateOf(mode, policies, context), mode, policies, context, DOMAIN policies)
<1> DEFINE n == Len(policies)  base == [decision |-> "Abstain", policy |-> "default"]
           judge(i, state) == Judges(mode, context, policies[i], state)
           g == [i \in 1 .. n |-> [state \in State |-> judge(i, state)]]
           Table(f) == f = [s \in SUBSET DOMAIN policies |->
                              IF s = {} THEN base ELSE judge(Max(s), f[s \ {Max(s)}])]
           table == CHOOSE f : Table(f)
           Reached(m) == StateIs(table[1 .. m], mode, policies, context, 1 .. m)
<1>1. n \in Nat /\ DOMAIN policies = 1 .. n /\ \A i \in 1 .. n : policies[i] \in Known
  OBVIOUS
<1>2. StateOf(mode, policies, context) = table[DOMAIN policies]
  BY SMT DEF StateOf, FoldLeft, MapThenFoldSet, Judges
<1>3. base \in State /\ g \in [1 .. n -> [State -> State]]
  <2>1. \A i \in 1 .. n, state \in State : judge(i, state) \in State
    BY <1>1, JudgesType
  <2>2. base \in State
    BY BaseState
  <2> HIDE DEF judge, base
  <2> QED BY <2>1, <2>2
<1> HIDE DEF n
<1>4. ASSUME NEW s \in SUBSET (1 .. n), s # {}
      PROVE  Max(s) \in 1 .. n /\ s \ {Max(s)} \in SUBSET (1 .. n)
  <2>1. Max(s) \in s
    BY <1>1, <1>4, MaxOf
  <2> QED BY <2>1
<1>5. \E f : Table(f)
  <2>1. PICK f : Folds(f, n, State, base, g)
    <3> HIDE DEF g, base
    <3> QED BY <1>1, <1>3, FoldExists
  <2>2. ASSUME NEW s \in SUBSET (1 .. n), s # {}
        PROVE  f[s] = judge(Max(s), f[s \ {Max(s)}])
    <3>1. Max(s) \in 1 .. n /\ f[s \ {Max(s)}] \in State
      BY <1>4, <2>1, <2>2 DEF Folds
    <3>2. f[s] = g[Max(s)][f[s \ {Max(s)}]]
      BY <2>1, <2>2 DEF Folds
    <3> HIDE DEF judge
    <3> QED BY <3>1, <3>2
  <2>3. f[{}] = base /\ f = [s \in SUBSET (1 .. n) |-> f[s]]
    BY <2>1 DEF Folds
  <2> HIDE DEF judge, base
  <2>4. f = [s \in SUBSET (1 .. n) |-> IF s = {} THEN base ELSE judge(Max(s), f[s \ {Max(s)}])]
    BY <2>2, <2>3
  <2> QED BY <1>1, <2>4
<1>6. Table(table)
  <2> HIDE DEF Table
  <2> QED BY <1>5
<1> HIDE DEF table
<1>7. Reached(0)
  <2>1. 1 .. 0 = {} /\ table[{}] = base
    BY <1>1, <1>6
  <2>2. StateIs(base, mode, policies, context, {})
    <3>1. base \in State /\ base.decision = "Abstain"
      BY <1>3
    <3> HIDE DEF base
    <3> QED BY <3>1 DEF StateIs
  <2> QED BY <2>1, <2>2
<1>8. ASSUME NEW m \in Nat, m + 1 <= n, Reached(m) PROVE Reached(m + 1)
  <2>1. m + 1 \in 1 .. n /\ (m + 1) - 1 = m
    BY <1>1, <1>8
  <2>2. /\ 1 .. m + 1 \in SUBSET (1 .. n) /\ 1 .. m + 1 # {}
        /\ Max(1 .. m + 1) = m + 1 /\ (1 .. m + 1) \ {Max(1 .. m + 1)} = 1 .. m
    BY <1>1, <2>1, Segments
  <2>3. table[1 .. m + 1] = judge(m + 1, table[1 .. m])
    <3> HIDE DEF judge, base
    <3> QED BY <1>1, <1>6, <2>2
  <2> QED BY <1>1, <1>8, <2>1, <2>3, JudgeKeeps
<1>9. Reached(n)
  <2> DEFINE T == {m \in Nat : m <= n => Reached(m)}
  <2> HIDE DEF Reached
  <2>1. 0 \in T
    BY <1>7
  <2>2. ASSUME NEW m \in Nat, m \in T PROVE m + 1 \in T
    <3>1. m + 1 <= n => m <= n
      BY <1>1
    <3> QED BY <1>8, <2>2, <3>1
  <2> HIDE DEF T
  <2>3. Nat \subseteq T
    BY <2>1, <2>2, NatSetInduction
  <2>4. n \in T /\ n <= n
    BY <1>1, <2>3
  <2> QED BY <2>4 DEF T
<1> QED BY <1>1, <1>2, <1>9

----------------------------------------------------------------------------
(* A transfer and a file.                                                  *)

Tool == "transfer_funds"

\* What Decide makes of a body under the policies of a file.
Judged(p, policies) ==
    LET res == Evaluate(ByTool(policies), Tool, DomainData(p))
    IN  [decision |-> DecisionOf(res), policy_id |-> res.enforce.policy,
         reasons |-> ReasonsOf(res), judgedBy |-> policies]

\* What is to be said of a decision d about p under these policies.
Clear(d, p, policies) ==
    d.decision = "SUCCESS" <=> Enforced(policies) # {} /\ Matching(policies, p) = {}

Explained(d, p, policies) ==
    /\ Names(d.reasons, policies, Matching(policies, p))
    /\ Matching(policies, p) # {} => d.policy_id = d.reasons[1]

JudgedRight(d, p, policies) ==
    /\ d \in [decision : {"SUCCESS", "DENIED"}, policy_id : PolicyId,
              reasons : Seq(PolicyId), judgedBy : {policies}]
    /\ Clear(d, p, policies)
    /\ Explained(d, p, policies)

NoneNamed(reasons) == DOMAIN reasons = {}

LEMMA NamesNone ==
    ASSUME NEW ids, NEW policies, NoneNamed(ids)
    PROVE  Names(ids, policies, {})
<1> DEFINE at == [k \in {} |-> k]
<1>1. at \in [DOMAIN ids -> {}]
  BY DEF NoneNamed
<1> QED BY <1>1 DEF Names, NoneNamed

\* Without policies of the tool the default is a denial that names none.
LEMMA JudgedByNone ==
    ASSUME NEW policies \in Seq(Known), NEW p, Tool \notin DOMAIN ByTool(policies),
           NEW d, d = Judged(p, policies)
    PROVE  JudgedRight(d, p, policies)
<1> DEFINE res == Evaluate(ByTool(policies), Tool, DomainData(p))
           reasons == ReasonsOf(res)
<1>1. res = DefaultDeny /\ DecisionOf(res) = "DENIED" /\ res.enforce.policy = "system"
      /\ res.traces = <<>>
  BY DEF Evaluate, DefaultDeny, DecisionOf
<1>2. Enforced(policies) = {} /\ Matching(policies, p) = {}
  BY DEF Enforced, Matching, ByTool, Tool
<1>3. reasons \in Seq(PolicyId) /\ NoneNamed(reasons)
  <2>1. <<>> \in Seq(Known) /\ Traces(<<>>, p) = <<>> /\ Denying("enforce", <<>>, p) = {}
    BY DEF Traces, Denying, OfMode
  <2>2. /\ reasons \in Seq(PolicyId)
        /\ Lists(reasons, [i \in DOMAIN <<>> |-> <<>>[i].id], Denying("enforce", <<>>, p))
    <3> HIDE DEF res
    <3> QED BY <1>1, <2>1, ReasonLists
  <2> HIDE DEF reasons
  <2> QED BY <2>1, <2>2 DEF Lists, NoneNamed
<1>4. /\ d = [decision |-> "DENIED", policy_id |-> "system", reasons |-> reasons,
              judgedBy |-> policies]
      /\ "system" \in PolicyId
  BY <1>1 DEF Judged, PolicyId
<1> HIDE DEF reasons
<1>5. d \in [decision : {"SUCCESS", "DENIED"}, policy_id : PolicyId,
             reasons : Seq(PolicyId), judgedBy : {policies}]
  BY <1>3, <1>4
<1>6. Clear(d, p, policies)
  BY <1>2, <1>4 DEF Clear
<1>7. Explained(d, p, policies)
  BY <1>2, <1>3, <1>4, NamesNone DEF Explained
<1> QED BY <1>5, <1>6, <1>7 DEF JudgedRight

\* With policies of the tool the loops over them decide.
LEMMA JudgedBySome ==
    ASSUME NEW policies \in Seq(Known), NEW p, Tool \in DOMAIN ByTool(policies),
           NEW d, d = Judged(p, policies)
    PROVE  JudgedRight(d, p, policies)
<1> DEFINE context == DomainData(p)
           res == Evaluate(ByTool(policies), Tool, context)
           group == ByTool(policies)[Tool]
           state == StateOf("enforce", group, context)
           of == OfMode("enforce", group)
           denying == Denying("enforce", group, context)
           ids == [i \in DOMAIN group |-> group[i].id]
<1>1. group \in Seq(Known) /\ Lists(group, policies, Places(policies, Tool))
  <2>1. Tool \in {policies[i].tool : i \in DOMAIN policies}
    BY DEF ByTool
  <2> QED BY <2>1, GroupLists
<1>2. PICK at \in [DOMAIN group -> Places(policies, Tool)] :
        /\ Increasing(at)
        /\ \A i \in Places(policies, Tool) : \E k \in DOMAIN group : at[k] = i
        /\ \A k \in DOMAIN group : group[k] = policies[at[k]]
  <2> HIDE DEF group
  <2> QED BY <1>1 DEF Lists
<1>3. res.enforce = state /\ res.traces = Traces(group, context)
  BY DEF Evaluate
<1>4. /\ d.decision = DecisionOf(res) /\ d.policy_id = state.policy
      /\ d.reasons = ReasonsOf(res) /\ d.judgedBy = policies
      /\ d = [decision |-> d.decision, policy_id |-> d.policy_id, reasons |-> d.reasons,
              judgedBy |-> d.judgedBy]
      /\ DecisionOf(res) = IF state.decision = "Allow" THEN "SUCCESS" ELSE "DENIED"
  BY <1>3 DEF Judged, DecisionOf
<1>5. StateIs(state, "enforce", group, context, DOMAIN group)
  <2> HIDE DEF group
  <2> QED BY <1>1, StateReached
<1> HIDE DEF res, group, state, context
\* The enforced policies of the group are those of the file.
<1>6. \A k \in DOMAIN group : /\ k \in of <=> at[k] \in Enforced(policies)
                              /\ k \in denying <=> at[k] \in Matching(policies, p)
  BY <1>2 DEF Denying, OfMode, Places, Enforced, Matching, Tool, context
<1>7. Enforced(policies) \subseteq Places(policies, Tool)
      /\ Matching(policies, p) \subseteq Enforced(policies)
  BY DEF Enforced, Matching, Places, Tool
<1>8. of \subseteq DOMAIN group /\ denying \subseteq of
  BY DEF Denying, OfMode
<1> HIDE DEF of, denying
<1>9. (of = {} <=> Enforced(policies) = {}) /\ (denying = {} <=> Matching(policies, p) = {})
  BY <1>2, <1>6, <1>7, <1>8
<1>10. /\ state \in State
       /\ denying = {} => (state.decision = "Allow" <=> of # {})
       /\ denying # {} =>
             /\ state.decision = "Deny"
             /\ \E i \in denying : state.policy = group[i].id /\ \A j \in denying : i <= j
  <2>1. denying \cap DOMAIN group = denying /\ of \cap DOMAIN group = of
    BY <1>8
  <2> QED BY <1>5, <2>1 DEF StateIs, denying, of
<1>11. Clear(d, p, policies)
  BY <1>4, <1>9, <1>10 DEF Clear
<1>12. CASE d.decision = "SUCCESS"
  <2>1. d.reasons = <<>>
    BY <1>4, <1>12 DEF ReasonsOf
  <2>2. Matching(policies, p) = {}
    BY <1>11, <1>12 DEF Clear
  <2>3. Names(d.reasons, policies, {})
    BY <2>1, NamesNone DEF NoneNamed
  <2>4. d.reasons \in Seq(PolicyId) /\ d.policy_id \in PolicyId
    BY <1>4, <1>10, <2>1 DEF State
  <2>5. Explained(d, p, policies)
    BY <2>2, <2>3 DEF Explained
  <2> QED BY <1>4, <1>11, <1>12, <2>4, <2>5 DEF JudgedRight
<1>13. CASE d.decision # "SUCCESS"
  <2>1. DecisionOf(res) = "DENIED" /\ d.decision = "DENIED"
    BY <1>4, <1>13
  <2>2. d.reasons \in Seq(PolicyId) /\ Lists(d.reasons, ids, denying)
    BY <1>1, <1>3, <1>4, <2>1, ReasonLists DEF denying
  <2>3. PICK to \in [DOMAIN d.reasons -> denying] :
          /\ Increasing(to)
          /\ \A i \in denying : \E k \in DOMAIN d.reasons : to[k] = i
          /\ \A k \in DOMAIN d.reasons : d.reasons[k] = ids[to[k]]
    <3> HIDE DEF ids
    <3> QED BY <2>2 DEF Lists
  <2>4. \A k \in DOMAIN d.reasons : to[k] \in denying /\ to[k] \in DOMAIN group
                                    /\ d.reasons[k] = group[to[k]].id
    BY <1>8, <2>3
  <2>5. Names(d.reasons, policies, Matching(policies, p))
    <3> DEFINE by == [k \in DOMAIN d.reasons |-> at[to[k]]]
    <3>1. by \in [DOMAIN d.reasons -> Matching(policies, p)]
      BY <1>6, <2>4
    <3>2. \A k, l \in DOMAIN d.reasons : k < l => by[k] < by[l]
      BY <1>2, <2>3, <2>4 DEF Increasing
    <3>3. ASSUME NEW i \in Matching(policies, p)
          PROVE  \E k \in DOMAIN d.reasons : by[k] = i
      <4>1. PICK g \in DOMAIN group : at[g] = i
        BY <1>2, <1>7
      <4>2. PICK k \in DOMAIN d.reasons : to[k] = g
        BY <1>6, <2>3, <4>1
      <4> QED BY <4>1, <4>2
    <3>4. \A k \in DOMAIN d.reasons : d.reasons[k] = policies[by[k]].id
      BY <1>2, <2>4
    <3> HIDE DEF by
    <3> QED BY <3>1, <3>2, <3>3, <3>4 DEF Names
  <2>6. denying # {} => d.policy_id = d.reasons[1]
    <3>1. SUFFICES ASSUME denying # {} PROVE d.policy_id = d.reasons[1]
      OBVIOUS
    <3>2. PICK i \in denying : state.policy = group[i].id /\ \A j \in denying : i <= j
      BY <1>10, <3>1
    <3>3. PICK k \in DOMAIN d.reasons : to[k] = i
      BY <2>3
    <3>4. DOMAIN d.reasons \subseteq Nat /\ 1 \in DOMAIN d.reasons /\ 1 <= k
      BY <2>2
    <3>5. DOMAIN group \subseteq Nat
      BY <1>1
    <3>6. to[1] \in Nat /\ i \in Nat /\ i <= to[1] /\ (k # 1 => to[1] < i)
      BY <1>8, <2>3, <2>4, <3>2, <3>3, <3>4, <3>5 DEF Increasing
    <3>7. to[1] = i
      BY <3>3, <3>6
    <3> QED BY <1>4, <2>4, <3>2, <3>4, <3>7
  <2>7. d.policy_id \in PolicyId
    BY <1>4, <1>10 DEF State
  <2>8. Explained(d, p, policies)
    BY <1>9, <2>5, <2>6 DEF Explained
  <2> QED BY <1>4, <1>11, <2>1, <2>2, <2>7, <2>8 DEF JudgedRight
<1> QED BY <1>12, <1>13

Files == Policies \cup {NoPolicies}

LEMMA FilesKnown == Files \subseteq Seq(Known)
<1>1. SUFFICES ASSUME NEW policies \in Policies PROVE policies \in Seq(Known)
  <2>1. NoPolicies \in Seq(Known)
    BY DEF NoPolicies
  <2> QED BY <1>1, <2>1 DEF Files
<1>2. policies \in Seq(Policy)
  BY TextAssumption DEF Policies
<1>3. \A i \in DOMAIN policies : policies[i] \in Policy /\ policies[i].id \in PolicyId
  BY <1>2 DEF PolicyId
<1>4. \A i \in 1 .. Len(policies) : policies[i] \in Known
  BY <1>2, <1>3 DEF Known
<1> QED BY <1>2, <1>4

LEMMA AllJudgedRight ==
    ASSUME NEW policies \in Files, NEW p
    PROVE  JudgedRight(Judged(p, policies), p, policies)
<1>1. policies \in Seq(Known)
  BY FilesKnown
<1> QED BY <1>1, JudgedByNone, JudgedBySome

----------------------------------------------------------------------------
(* The store and the decisions.                                            *)

\* The store groups one whole file, and every decision is the engine's on
\* the store of one whole file.
StoreInv ==
    /\ loader \in [Loader -> Policies \cup {None}]
    /\ origin \in Files
    /\ store = ByTool(origin)
    /\ DOMAIN ctx = Payload
    /\ left \in Budget
    /\ \A p \in Payload : ctx[p] = None \/ \E policies \in Files : ctx[p] = Judged(p, policies)

LEMMA StoreInitInv == Init => StoreInv
BY BoundsAssumption DEF Init, StoreInv, Files

LEMMA SpendType ==
    ASSUME left \in Budget, NEW what, Spend(what)
    PROVE  left' \in Budget
<1> DEFINE things == {"edits", "signs", "verifications", "loads", "requests", "reloads",
                      "engineEdits"}
<1>1. Budget = [things -> Nat]
  BY DEF Budget
<1> HIDE DEF things
<1>2. what \in things => left[what] - 1 \in Nat
  BY <1>1 DEF Spend
<1> QED BY <1>1, <1>2 DEF Spend

LEMMA StoreStepInv == StoreInv /\ SigningTypeOK /\ [Next]_vars => StoreInv'
<1> SUFFICES ASSUME StoreInv, SigningTypeOK, [Next]_vars PROVE StoreInv'
  OBVIOUS
<1> USE DEF StoreInv
<1>1. CASE UNCHANGED vars
  BY <1>1 DEF vars, storeVars
<1>2. CASE Signing
  <2>1. UNCHANGED <<storeVars, ctx>> /\ left' \in Budget
    BY <1>2, SpendType DEF Signing
  <2> QED BY <2>1 DEF storeVars
<1>3. CASE Engine
  <2>1. UNCHANGED <<storeVars, ctx>> /\ left' \in Budget
    BY <1>3, SpendType DEF Engine
  <2> QED BY <2>1 DEF storeVars
<1>4. ASSUME NEW l \in Loader, LoadReads(l) PROVE StoreInv'
  <2>1. /\ UNCHANGED <<store, origin, ctx>> /\ left' \in Budget
        /\ loader' = IF policyFile # None /\ policyFile.valid
                     THEN [loader EXCEPT ![l] = policyFile.policies] ELSE loader
    BY <1>4, SpendType DEF LoadReads
  <2>2. policyFile # None /\ policyFile.valid => policyFile.policies \in Policies
    BY DEF SigningTypeOK, Policies
  <2> QED BY <2>1, <2>2
<1>5. ASSUME NEW l \in Loader, LoadSwaps(l) PROVE StoreInv'
  <2>1. loader[l] \in Policies
    BY <1>5 DEF LoadSwaps
  <2> QED BY <1>5, <2>1 DEF LoadSwaps, Files
<1>6. ASSUME NEW p \in Payload, Decide(p) PROVE StoreInv'
  <2>1. UNCHANGED storeVars /\ left' \in Budget
    BY <1>6, SpendType DEF Decide
  <2>2. ctx' = [ctx EXCEPT ![p] = Judged(p, origin)]
    BY <1>6 DEF Decide, Judged, Tool
  <2>3. \A q \in Payload : ctx'[q] = IF q = p THEN Judged(p, origin) ELSE ctx[q]
    BY <2>2
  <2>4. DOMAIN ctx' = Payload
    BY <2>2
  <2> QED BY <2>1, <2>3, <2>4 DEF storeVars
<1>7. ASSUME NEW p \in Payload, FromHttpRaises(p) PROVE StoreInv'
  <2>1. UNCHANGED <<storeVars, ctx>> /\ left' \in Budget
    BY <1>7, SpendType DEF FromHttpRaises
  <2> QED BY <2>1 DEF storeVars
<1> QED BY <1>1, <1>2, <1>3, <1>4, <1>5, <1>6, <1>7 DEF Next

----------------------------------------------------------------------------
(* The whole.                                                              *)

DecisionsInv == SigningInv /\ EngineInv /\ StoreInv

LEMMA DecisionsInitInv == Init => DecisionsInv
BY SigningInitInv, EngineInitInv, StoreInitInv DEF Init, DecisionsInv

LEMMA DecisionsStepInv == DecisionsInv /\ [Next]_vars => DecisionsInv'
<1> SUFFICES ASSUME DecisionsInv, [Next]_vars PROVE DecisionsInv'
  OBVIOUS
<1>1. [SigningNext]_signingVars
  BY DEF Next, Signing, SigningNext, Engine, LoadReads, LoadSwaps, Decide, FromHttpRaises, vars
<1>2. [Engine]_engineVars
  BY DEF Next, Signing, LoadReads, LoadSwaps, Decide, FromHttpRaises, vars
<1>3. SigningTypeOK
  BY DEF DecisionsInv, SigningInv
<1> QED BY <1>1, <1>2, <1>3, SigningInvStep, EngineStepInv, StoreStepInv DEF DecisionsInv

\* Every reachable state satisfies the invariant.
THEOREM DecisionsInvHolds == Spec => []DecisionsInv
BY DecisionsInitInv, DecisionsStepInv, PTL DEF Spec

LEMMA Given ==
    ASSUME StoreInv, NEW p \in Payload, ctx[p] # None
    PROVE  ctx[p].judgedBy \in Files /\ JudgedRight(ctx[p], p, ctx[p].judgedBy)
<1>1. PICK policies \in Files : ctx[p] = Judged(p, policies)
  BY DEF StoreInv
<1>2. ctx[p].judgedBy = policies
  BY <1>1 DEF Judged
<1> QED BY <1>1, <1>2, AllJudgedRight

\* Every variable keeps its type: what the stages make of a request has
\* reasons and a policy of the files, and the store is always one file's.
THEOREM DecisionsTypeCorrect == Spec => []TypeOK
<1>1. DecisionsInv => TypeOK
  <2> SUFFICES ASSUME DecisionsInv PROVE TypeOK
    OBVIOUS
  <2>1. ASSUME NEW p \in Payload, ctx[p] # None PROVE ctx[p] \in Decided
    BY <2>1, Given DEF DecisionsInv, JudgedRight, Decided, Files
  <2> QED BY <2>1 DEF DecisionsInv, SigningInv, EngineInv, StoreInv, TypeOK, Files
<1> QED BY <1>1, DecisionsInvHolds, PTL

\* A transfer is let through exactly when the file loaded last enforces
\* something for transfers and nothing of it matches.
THEOREM SuccessMeansClearHolds == Spec => []SuccessMeansClear
<1>1. DecisionsInv => SuccessMeansClear
  BY Given DEF DecisionsInv, SuccessMeansClear, JudgedRight, Clear
<1> QED BY <1>1, DecisionsInvHolds, PTL

\* A denial names exactly the enforced policies that match, in the order of
\* the file, and the audit event carries the first of them.
THEOREM DenialExplainedHolds == Spec => []DenialExplained
<1>1. DecisionsInv => DenialExplained
  BY Given DEF DecisionsInv, DenialExplained, JudgedRight, Explained
<1> QED BY <1>1, DecisionsInvHolds, PTL

\* The Python engine allows exactly what lies within the last whole policy.
THEOREM EngineDecidesHolds == Spec => []EngineDecides
<1>1. DecisionsInv => EngineDecides
  BY EngineInvDecides DEF DecisionsInv
<1> QED BY <1>1, DecisionsInvHolds, PTL

\* The signing keeps its promises where its policies are loaded and judged by.
THEOREM DecisionsSigningHolds == Spec => [](AcceptedWasSigned /\ HonestPolicyVerifies)
<1>1. DecisionsInv => AcceptedWasSigned /\ HonestPolicyVerifies
  BY DEF DecisionsInv, SigningInv
<1> QED BY <1>1, DecisionsInvHolds, PTL
=============================================================================
