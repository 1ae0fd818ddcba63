-------------------------- MODULE PipelineProofs --------------------------
(***************************************************************************)
(* Proofs about Pipeline, for every manifest, environment, SDK program and *)
(* plan.  For a manifest, OrderedPipeline keeps Kahn's invariant; the plan *)
(* of the ordered names is Layered (IDs are positions and every node waits *)
(* for one earlier node at most), and buildGraph, whose levels then keep   *)
(* the invariant Levelled, accepts it.  For an SDK program, the nodes keep *)
(* their order and get IDs, and NewEngine makes the RouterConfig usable.   *)
(***************************************************************************)
EXTENDS Pipeline, FiniteSetTheorems, TLAPS

(* The size of an interval. *)
LEMMA UpTo ==
    ASSUME NEW n \in Nat
    PROVE  IsFiniteSet(1..n) /\ Cardinality(1..n) = n
<1>1. 1 \in Int /\ n \in Int
  OBVIOUS
<1>2. IsFiniteSet(1..n) /\ Cardinality(1..n) = IF 1 > n THEN 0 ELSE n - 1 + 1
  BY <1>1, FS_Interval, Zenon
<1> QED BY <1>2

(* Every set of numbers has a least member. *)
LEMMA Least ==
    ASSUME NEW T \in SUBSET Nat, T # {}
    PROVE  \E x \in T : \A y \in T : x <= y
<1>1. \E x \in T : \A y \in T : ~(<<y, x>> \in OpToRel(<, Nat))
  BY NatLessThanWellFounded, WFMin
<1>2. ASSUME NEW x \in T, NEW y \in T, ~(x <= y) PROVE <<y, x>> \in OpToRel(<, Nat)
  <2>1. y < x /\ <<y, x>> \in Nat \X Nat
    BY <1>2
  <2> QED BY <2>1 DEF OpToRel
<1> QED BY <1>1, <1>2

(* q lists members of S from the smallest on. *)
Rising(q, S) ==
    /\ q \in [1..Cardinality(S) -> S]
    /\ \A i, j \in DOMAIN q : i < j => q[i] < q[j]

(* Any set of positions can be listed: take away the last one, by least      *)
(* counterexample.                                                           *)
LEMMA RisingExists ==
    ASSUME NEW n \in Nat
    PROVE  \A S \in SUBSET (1..n) : \E q : Rising(q, S)
<1> DEFINE T == {m \in Nat : ~ \A S \in SUBSET (1..m) : \E q : Rising(q, S)}
<1>1. SUFFICES ASSUME T # {} PROVE FALSE
  OBVIOUS
<1>2. PICK m \in T : \A k \in T : m <= k
  <2> HIDE DEF T
  <2>1. T \in SUBSET Nat
    BY DEF T
  <2> QED BY <1>1, <2>1, Least
<1>3. PICK S \in SUBSET (1..m) : ~ \E q : Rising(q, S)
  OBVIOUS
<1>t. m \in Nat /\ \A k \in Nat \ T : \A U \in SUBSET (1..k) : \E q : Rising(q, U)
  OBVIOUS
<1> HIDE DEF T
<1>4. m \in Nat /\ IsFiniteSet(S) /\ Cardinality(S) \in Nat
  <2>1. IsFiniteSet(1..m)
    BY <1>t, UpTo
  <2>2. IsFiniteSet(S)
    BY <2>1, FS_Subset, Zenon
  <2> QED BY <1>t, <2>2, FS_CardinalityType, Zenon
<1>5. S # {}
  <2>1. ASSUME S = {} PROVE FALSE
    <3>1. Cardinality(S) = 0
      BY <2>1, FS_EmptySet, Zenon
    <3>2. Rising(<< >>, S)
      BY <3>1 DEF Rising
    <3> QED BY <1>3, <3>2
  <2> QED BY <2>1
<1>6. m # 0 /\ m - 1 \in Nat /\ m - 1 \notin T
  <2>1. m # 0
    <3>1. ASSUME m = 0 PROVE S = {}
      BY <3>1
    <3> QED BY <1>5, <3>1
  <2>2. m - 1 \in Nat /\ ~(m <= m - 1)
    BY <1>4, <2>1
  <2> QED BY <1>2, <2>1, <2>2
<1> DEFINE R == S \ {m}
<1>7. /\ R \in SUBSET (1..(m - 1)) /\ IsFiniteSet(R)
      /\ Cardinality(R) = IF m \in S THEN Cardinality(S) - 1 ELSE Cardinality(S)
  <2>1. R \in SUBSET (1..(m - 1))
    BY <1>4, <1>6
  <2> QED BY <1>4, <2>1, FS_RemoveElement, Zenon
<1>8. PICK q : Rising(q, R)
  <2>1. \A U \in SUBSET (1..(m - 1)) : \E q : Rising(q, U)
    BY <1>6, <1>t
  <2> QED BY <1>7, <2>1
<1>9. m \in S
  <2>1. ASSUME m \notin S PROVE FALSE
    <3>1. R = S
      BY <2>1
    <3> QED BY <1>3, <1>8, <3>1
  <2> QED BY <2>1
<1> DEFINE c == Cardinality(S)
           p == [i \in 1..c |-> IF i = c THEN m ELSE q[i]]
<1>10. /\ c \in Nat /\ Cardinality(R) = c - 1
  BY <1>4, <1>7, <1>9
<1> HIDE DEF R, c
<1>11. /\ q \in [1..(c - 1) -> R]
       /\ \A i, j \in 1..(c - 1) : i < j => q[i] < q[j]
  BY <1>8, <1>10 DEF Rising
<1>12. R \subseteq S /\ \A x \in R : x < m /\ x \in Nat
  <2>1. R \subseteq S
    BY DEF R
  <2>2. \A x \in R : x \in 1..(m - 1)
    BY <1>7
  <2> QED BY <2>1, <2>2, <1>4
<1>13. p \in [1..c -> S]
  <2>1. ASSUME NEW i \in 1..c, i # c PROVE q[i] \in S
    <3>1. i \in 1..(c - 1)
      BY <1>10, <2>1
    <3> QED BY <3>1, <1>11, <1>12
  <2> QED BY <1>9, <2>1
<1>14. ASSUME NEW i \in 1..c, NEW j \in 1..c, i < j PROVE p[i] < p[j]
  <2>1. i \in 1..(c - 1) /\ p[i] = q[i] /\ q[i] \in R
    BY <1>10, <1>11, <1>14
  <2>2. CASE j = c
    BY <2>1, <2>2, <1>12, <1>14
  <2>3. CASE j # c
    <3>1. j \in 1..(c - 1) /\ p[j] = q[j]
      BY <1>10, <2>3
    <3> QED BY <2>1, <3>1, <1>11, <1>14
  <2> QED BY <2>2, <2>3
<1>15. Rising(p, S)
  <2> HIDE DEF p
  <2> QED BY <1>13, <1>14 DEF Rising, c
<1> QED BY <1>3, <1>15

(* Picked lists the names at the positions S: each of them, and none twice   *)
(* if names are distinct.                                                    *)
LEMMA PickedFacts ==
    ASSUME NEW n \in Nat, DOMAIN pipeline = 1..n, NEW S \in SUBSET DOMAIN pipeline,
           IsInjective(StepNames)
    PROVE  LET q == Picked(S) IN
           /\ q \in Seq({StepNames[i] : i \in S})
           /\ \A i \in S : \E k \in DOMAIN q : q[k] = StepNames[i]
           /\ IsInjective(q)
<1> DEFINE c == Cardinality(S)
           C == CHOOSE q \in [1..Cardinality(S) -> S] : \A i, j \in DOMAIN q : i < j => q[i] < q[j]
<1>1. IsFiniteSet(S) /\ c \in Nat
  <2>1. IsFiniteSet(1..n)
    BY UpTo
  <2>2. IsFiniteSet(S)
    BY <2>1, FS_Subset, Zenon
  <2> QED BY <2>2, FS_CardinalityType, Zenon
<1>2. \E q : Rising(q, S)
  BY RisingExists
<1>3. Rising(C, S)
  BY <1>2 DEF Rising
<1>4. Picked(S) = [k \in 1..c |-> StepNames[C[k]]]
  BY DEF Picked
<1> HIDE DEF C, c
<1>5. C \in [1..c -> S] /\ \A i, j \in 1..c : i < j => C[i] < C[j]
  BY <1>3 DEF Rising, c
<1>6. \A i, j \in 1..c : C[i] = C[j] => i = j
  <2>1. \A i \in 1..c : C[i] \in Int
    BY <1>5
  <2> QED BY <1>1, <1>5, <2>1
<1>7. C \in Injection(1..c, S)
  BY <1>5, <1>6 DEF Injection, IsInjective
<1>8. IsFiniteSet(1..c) /\ Cardinality(1..c) = c
  BY <1>1, UpTo
<1>9. C \in Surjection(1..c, S)
  BY <1>1, <1>7, <1>8, FS_Injection, Zenon DEF c
<1>10. \A x \in S : \E k \in 1..c : C[k] = x
  BY <1>9 DEF Surjection
<1>11. DOMAIN StepNames = DOMAIN pipeline
  BY DEF StepNames
<1>12. \A i, j \in S : StepNames[i] = StepNames[j] => i = j
  BY <1>11 DEF IsInjective
<1>13. \A k \in 1..c : Picked(S)[k] = StepNames[C[k]]
  BY <1>4
<1>14. DOMAIN Picked(S) = 1..c
  BY <1>4
<1>15. Picked(S) \in Seq({StepNames[i] : i \in S})
  BY <1>1, <1>4, <1>5
<1>16. \A i \in S : \E k \in DOMAIN Picked(S) : Picked(S)[k] = StepNames[i]
  BY <1>10, <1>13, <1>14
<1>17. IsInjective(Picked(S))
  BY <1>5, <1>6, <1>12, <1>13, <1>14 DEF IsInjective
<1> QED BY <1>15, <1>16, <1>17

-----------------------------------------------------------------------------
(* What ValidateManifest has checked before OrderedPipeline runs. *)
Valid == pipeline # << >> /\ AgentsValid /\ StepsValid /\ DependenciesValid

(* Kahn's algorithm: no step is queued twice, a step is queued once the one  *)
(* it depends on has been ordered, and therefore ordered after it.           *)
Kahn ==
    /\ orderedNames \in Seq(Range(StepNames)) /\ IsInjective(orderedNames)
    /\ stepQueue \in Seq(Range(StepNames)) /\ IsInjective(stepQueue)
    /\ Range(orderedNames) \cap Range(stepQueue) = {}
    /\ \A i \in DOMAIN pipeline :
          /\ StepNames[i] \in Range(orderedNames) \cup Range(stepQueue) <=>
                pipeline[i].dependsOn \in {NoName} \cup Range(orderedNames)
          /\ \A k \in DOMAIN orderedNames : orderedNames[k] = StepNames[i] =>
                \/ pipeline[i].dependsOn = NoName
                \/ \E j \in 1..(k - 1) : orderedNames[j] = pipeline[i].dependsOn

(* One more element at the end of a sequence without repetitions. *)
LEMMA AppendFacts ==
    ASSUME NEW S, NEW s \in Seq(S), IsInjective(s), NEW x \in S, x \notin Range(s)
    PROVE  LET t == Append(s, x) IN
           /\ t \in Seq(S) /\ IsInjective(t) /\ Range(t) = Range(s) \cup {x}
           /\ DOMAIN t = 1..(Len(s) + 1) /\ DOMAIN s = 1..Len(s) /\ Len(s) \in Nat
           /\ t[Len(s) + 1] = x /\ \A i \in DOMAIN s : t[i] = s[i]
<1> DEFINE t == Append(s, x)
<1>1. /\ Len(s) \in Nat /\ DOMAIN s = 1..Len(s)
      /\ t \in Seq(S) /\ DOMAIN t = 1..(Len(s) + 1)
      /\ t[Len(s) + 1] = x /\ \A i \in 1..Len(s) : t[i] = s[i]
  OBVIOUS
<1> HIDE DEF t
<1>2. IsInjective(t)
  <2>1. \A i \in 1..Len(s) : s[i] # x
    BY <1>1 DEF Range
  <2>2. \A i, j \in 1..Len(s) : s[i] = s[j] => i = j
    BY <1>1 DEF IsInjective
  <2>3. ASSUME NEW i \in 1..(Len(s) + 1), NEW j \in 1..(Len(s) + 1), t[i] = t[j] PROVE i = j
    <3>1. i = Len(s) + 1 \/ i \in 1..Len(s)
      BY <1>1
    <3>2. j = Len(s) + 1 \/ j \in 1..Len(s)
      BY <1>1
    <3> QED BY <1>1, <2>1, <2>2, <2>3, <3>1, <3>2
  <2> QED BY <1>1, <2>3 DEF IsInjective
<1>3. Range(t) = Range(s) \cup {x}
  <2>1. \A i \in 1..(Len(s) + 1) : i = Len(s) + 1 \/ i \in 1..Len(s)
    BY <1>1
  <2>2. \A i \in 1..Len(s) : i \in 1..(Len(s) + 1)
    BY <1>1
  <2>3. Len(s) + 1 \in 1..(Len(s) + 1)
    BY <1>1
  <2> QED BY <1>1, <2>1, <2>2, <2>3 DEF Range
<1> QED BY <1>1, <1>2, <1>3 DEF t

(* Taking the head of a queue and adding others at its end. *)
LEMMA ShiftFacts ==
    ASSUME NEW S, NEW q \in Seq(S), q # << >>, IsInjective(q),
           NEW r \in Seq(S), IsInjective(r), Range(q) \cap Range(r) = {}
    PROVE  LET t == Tail(q) \o r IN
           /\ Head(q) \in S /\ Head(q) \in Range(q)
           /\ t \in Seq(S) /\ IsInjective(t)
           /\ Range(t) = (Range(q) \ {Head(q)}) \cup Range(r)
<1> DEFINE t == Tail(q) \o r
           n == Len(q) - 1
           m == Len(r)
<1>1. /\ n \in Nat /\ m \in Nat /\ DOMAIN q = 1..(n + 1) /\ DOMAIN r = 1..m
      /\ Head(q) = q[1] /\ Head(q) \in S
      /\ t \in Seq(S) /\ DOMAIN t = 1..(n + m)
  OBVIOUS
<1>2. /\ \A i \in 1..n : t[i] = q[i + 1]
      /\ \A i \in 1..m : t[n + i] = r[i]
  OBVIOUS
<1> HIDE DEF t, n, m
<1>3. \A i, j \in 1..(n + 1) : q[i] = q[j] => i = j
  BY <1>1 DEF IsInjective
<1>4. \A i, j \in 1..m : r[i] = r[j] => i = j
  BY <1>1 DEF IsInjective
<1>5. \A i \in 1..(n + 1), j \in 1..m : q[i] # r[j]
  BY <1>1 DEF Range
<1>6. ASSUME NEW i \in 1..(n + m)
      PROVE  \/ i \in 1..n /\ i + 1 \in 1..(n + 1) /\ t[i] = q[i + 1]
             \/ i - n \in 1..m /\ t[i] = r[i - n]
  <2>1. CASE i \in 1..n
    BY <1>1, <1>2, <2>1
  <2>2. CASE i \notin 1..n
    <3>1. i - n \in 1..m /\ i = n + (i - n)
      BY <1>1, <2>2
    <3> QED BY <1>2, <3>1
  <2> QED BY <2>1, <2>2
<1>7. IsInjective(t)
  <2>1. ASSUME NEW i \in 1..(n + m), NEW j \in 1..(n + m), t[i] = t[j] PROVE i = j
    <3>1. CASE i \in 1..n /\ i + 1 \in 1..(n + 1) /\ t[i] = q[i + 1]
      <4>1. j \in 1..n /\ j + 1 \in 1..(n + 1) /\ t[j] = q[j + 1]
        BY <1>5, <1>6, <2>1, <3>1
      <4>2. i + 1 = j + 1
        BY <1>3, <2>1, <3>1, <4>1
      <4> QED BY <4>2
    <3>2. CASE i - n \in 1..m /\ t[i] = r[i - n]
      <4>1. j - n \in 1..m /\ t[j] = r[j - n]
        BY <1>5, <1>6, <2>1, <3>2
      <4>2. i - n = j - n
        BY <1>4, <2>1, <3>2, <4>1
      <4> QED BY <1>1, <4>2
    <3> QED BY <1>6, <3>1, <3>2
  <2> QED BY <1>1, <2>1 DEF IsInjective
<1>8. Range(t) \subseteq (Range(q) \ {Head(q)}) \cup Range(r)
  <2>1. ASSUME NEW i \in 1..(n + m) PROVE t[i] \in (Range(q) \ {Head(q)}) \cup Range(r)
    <3>1. CASE i \in 1..n /\ i + 1 \in 1..(n + 1) /\ t[i] = q[i + 1]
      <4>1. q[i + 1] \in Range(q)
        BY <1>1, <3>1 DEF Range
      <4>2. q[i + 1] # q[1]
        <5>1. 1 \in 1..(n + 1) /\ i + 1 # 1
          BY <1>1, <3>1
        <5> QED BY <1>3, <3>1, <5>1
      <4> QED BY <1>1, <3>1, <4>1, <4>2
    <3>2. CASE i - n \in 1..m /\ t[i] = r[i - n]
      BY <1>1, <3>2 DEF Range
    <3> QED BY <1>6, <3>1, <3>2
  <2> QED BY <1>1, <2>1 DEF Range
<1>9. (Range(q) \ {Head(q)}) \cup Range(r) \subseteq Range(t)
  <2>1. ASSUME NEW i \in 1..(n + 1), q[i] # q[1] PROVE \E k \in 1..(n + m) : t[k] = q[i]
    <3>1. i - 1 \in 1..n /\ (i - 1) + 1 = i /\ i - 1 \in 1..(n + m)
      BY <1>1, <2>1
    <3> QED BY <1>2, <3>1
  <2>2. ASSUME NEW i \in 1..m PROVE \E k \in 1..(n + m) : t[k] = r[i]
    <3>1. n + i \in 1..(n + m)
      BY <1>1
    <3> QED BY <1>2, <3>1
  <2>3. ASSUME NEW x \in Range(q) \ {Head(q)} PROVE x \in Range(t)
    <3>1. PICK i \in 1..(n + 1) : q[i] = x
      BY <1>1 DEF Range
    <3> QED BY <1>1, <2>1, <2>3, <3>1 DEF Range
  <2>4. ASSUME NEW x \in Range(r) PROVE x \in Range(t)
    <3>1. PICK i \in 1..m : r[i] = x
      BY <1>1 DEF Range
    <3> QED BY <1>1, <2>2, <3>1 DEF Range
  <2> QED BY <2>3, <2>4
<1>10. Head(q) \in Range(q)
  <2>1. 1 \in 1..(n + 1)
    BY <1>1
  <2> QED BY <1>1, <2>1 DEF Range
<1> QED BY <1>1, <1>7, <1>8, <1>9, <1>10 DEF t

(* What the checks say of the pipeline. *)
LEMMA ValidFacts ==
    ASSUME IsManifest(manifest), Valid
    PROVE  /\ Len(pipeline) \in Nat \ {0} /\ DOMAIN pipeline = 1..Len(pipeline)
           /\ DOMAIN StepNames = DOMAIN pipeline /\ IsInjective(StepNames)
           /\ NoName \notin Range(StepNames) /\ Range(StepNames) \subseteq Range(AgentIDs)
           /\ Range(StepNames) \subseteq Nat
           /\ \A i \in DOMAIN pipeline :
                 /\ StepNames[i] = pipeline[i].step /\ StepNames[i] \in Range(StepNames)
                 /\ pipeline[i].dependsOn \in {NoName} \cup Range(StepNames)
<1>1. pipeline \in Seq([step : Nat, dependsOn : Nat])
  BY DEF IsManifest, pipeline
<1>2. DOMAIN StepNames = DOMAIN pipeline /\ \A i \in DOMAIN pipeline : StepNames[i] = pipeline[i].step
  BY DEF StepNames
<1> HIDE DEF StepNames, pipeline
<1>3. Len(pipeline) \in Nat \ {0} /\ DOMAIN pipeline = 1..Len(pipeline)
  BY <1>1 DEF Valid
<1>4. \A i \in DOMAIN pipeline : pipeline[i].step \in Nat
  <2> DEFINE R == [step : Nat, dependsOn : Nat]
  <2>1. ASSUME NEW p \in R PROVE p.step \in Nat
    OBVIOUS
  <2>2. pipeline \in Seq(R)
    BY <1>1
  <2> HIDE DEF R
  <2> QED BY <2>1, <2>2
<1>5. Range(StepNames) \subseteq Nat
  BY <1>2, <1>4 DEF Range
<1>6. ASSUME NEW i \in DOMAIN pipeline
      PROVE  pipeline[i].dependsOn \in {NoName} \cup Range(StepNames)
  <2>1. pipeline[i] \in Range(pipeline)
    BY DEF Range
  <2> QED BY <2>1 DEF Valid, DependenciesValid
<1>7. /\ IsInjective(StepNames) /\ NoName \notin Range(StepNames)
      /\ Range(StepNames) \subseteq Range(AgentIDs)
  BY DEF Valid, StepsValid, Distinct
<1> QED BY <1>2, <1>3, <1>5, <1>6, <1>7 DEF Range

(* OrderedPipeline starts from the steps that depend on nothing. *)
LEMMA KahnStart ==
    ASSUME IsManifest(manifest), Valid, orderedNames' = << >>, stepQueue' = Roots,
           manifest' = manifest
    PROVE  Kahn'
<1> DEFINE S == {i \in DOMAIN pipeline : pipeline[i].dependsOn = NoName}
           q == Picked(S)
<1>1. /\ Len(pipeline) \in Nat \ {0} /\ DOMAIN pipeline = 1..Len(pipeline)
      /\ DOMAIN StepNames = DOMAIN pipeline /\ IsInjective(StepNames)
      /\ \A i \in DOMAIN pipeline : StepNames[i] \in Range(StepNames)
  BY ValidFacts
<1>2. pipeline' = pipeline /\ StepNames' = StepNames
  BY DEF pipeline, StepNames
<1>3. /\ q \in Seq({StepNames[i] : i \in S})
      /\ \A i \in S : \E k \in DOMAIN q : q[k] = StepNames[i]
      /\ IsInjective(q)
  <2> HIDE DEF S
  <2>1. S \in SUBSET DOMAIN pipeline
    BY DEF S
  <2> QED BY <1>1, <2>1, PickedFacts
<1>4. stepQueue' = q
  BY DEF Roots
<1> HIDE DEF q
<1>5. q \in Seq(Range(StepNames))
  BY <1>1, <1>3
<1>6. Range(q) = {StepNames[i] : i \in S}
  BY <1>3 DEF Range
<1>7. ASSUME NEW i \in DOMAIN pipeline
      PROVE  StepNames[i] \in Range(q) <=> pipeline[i].dependsOn = NoName
  BY <1>1, <1>6 DEF IsInjective
<1>8. << >> \in Seq(Range(StepNames)) /\ IsInjective(<< >>) /\ Range(<< >>) = {}
  BY DEF IsInjective, Range
<1>9. DOMAIN << >> = {}
  OBVIOUS
<1> QED BY <1>2, <1>3, <1>4, <1>5, <1>7, <1>8, <1>9 DEF Kahn

(* A step taken off the queue is ordered and its children are queued. *)
LEMMA KahnStep ==
    ASSUME IsManifest(manifest), Valid, Kahn, OrderStep
    PROVE  Kahn'
<1> DEFINE h == Head(stepQueue)
           S == {i \in DOMAIN pipeline : pipeline[i].dependsOn = h}
           r == Picked(S)
<1>1. /\ Len(pipeline) \in Nat \ {0} /\ DOMAIN pipeline = 1..Len(pipeline)
      /\ DOMAIN StepNames = DOMAIN pipeline /\ IsInjective(StepNames)
      /\ NoName \notin Range(StepNames)
      /\ \A i \in DOMAIN pipeline : StepNames[i] \in Range(StepNames)
  BY ValidFacts
<1>2. /\ orderedNames' = Append(orderedNames, h) /\ stepQueue' = Tail(stepQueue) \o r
      /\ manifest' = manifest /\ stepQueue # << >>
  BY DEF OrderStep, Children, inputVars
<1>3. pipeline' = pipeline /\ StepNames' = StepNames
  BY <1>2 DEF pipeline, StepNames
<1>4. /\ r \in Seq({StepNames[i] : i \in S})
      /\ \A i \in S : \E k \in DOMAIN r : r[k] = StepNames[i]
      /\ IsInjective(r)
  <2> HIDE DEF S
  <2>1. S \in SUBSET DOMAIN pipeline
    BY DEF S
  <2> QED BY <1>1, <2>1, PickedFacts
<1> HIDE DEF r
<1>5. r \in Seq(Range(StepNames)) /\ Range(r) = {StepNames[i] : i \in S}
  <2>1. {StepNames[i] : i \in S} \subseteq Range(StepNames)
    BY <1>1
  <2>2. r \in Seq(Range(StepNames))
    BY <1>4, <2>1
  <2>3. Range(r) = {StepNames[i] : i \in S}
    <3> HIDE DEF S
    <3> QED BY <1>4 DEF Range
  <2> QED BY <2>2, <2>3
<1>6. ASSUME NEW i \in DOMAIN pipeline
      PROVE  StepNames[i] \in Range(r) <=> pipeline[i].dependsOn = h
  BY <1>1, <1>5 DEF IsInjective
<1> DEFINE o == orderedNames
           q == stepQueue
           N == Range(StepNames)
<1>7. /\ o \in Seq(N) /\ IsInjective(o) /\ q \in Seq(N) /\ IsInjective(q)
      /\ Range(o) \cap Range(q) = {}
      /\ \A i \in DOMAIN pipeline :
            /\ StepNames[i] \in Range(o) \cup Range(q) <=>
                  pipeline[i].dependsOn \in {NoName} \cup Range(o)
            /\ \A k \in DOMAIN o : o[k] = StepNames[i] =>
                  \/ pipeline[i].dependsOn = NoName
                  \/ \E j \in 1..(k - 1) : o[j] = pipeline[i].dependsOn
  BY DEF Kahn
<1>8. h \in N /\ h \in Range(q)
  <2>1. h = q[1] /\ 1 \in DOMAIN q
    BY <1>2, <1>7
  <2> QED BY <1>2, <1>7, <2>1 DEF Range
<1>9. h \notin Range(o) /\ h # NoName
  BY <1>1, <1>7, <1>8
<1>10. Range(r) \cap (Range(o) \cup Range(q)) = {}
  <2>1. ASSUME NEW i \in DOMAIN pipeline, pipeline[i].dependsOn = h
        PROVE  StepNames[i] \notin Range(o) \cup Range(q)
    BY <1>7, <1>9, <2>1
  <2> QED BY <1>5, <2>1
<1>11. /\ o' \in Seq(N) /\ IsInjective(o') /\ Range(o') = Range(o) \cup {h}
       /\ DOMAIN o' = 1..(Len(o) + 1) /\ DOMAIN o = 1..Len(o) /\ Len(o) \in Nat
       /\ o'[Len(o) + 1] = h /\ \A i \in DOMAIN o : o'[i] = o[i]
  BY <1>2, <1>7, <1>8, <1>9, AppendFacts
<1>12. /\ q' \in Seq(N) /\ IsInjective(q') /\ Range(q') = (Range(q) \ {h}) \cup Range(r)
  BY <1>2, <1>4, <1>5, <1>7, <1>10, ShiftFacts
<1> HIDE DEF h, N, S
<1>13. Range(o') \cap Range(q') = {}
  BY <1>7, <1>9, <1>10, <1>11, <1>12, <1>8
<1>14. ASSUME NEW i \in DOMAIN pipeline
       PROVE  StepNames[i] \in Range(o') \cup Range(q') <=>
                 pipeline[i].dependsOn \in {NoName} \cup Range(o')
  <2>1. StepNames[i] \in Range(o') \cup Range(q') <=>
           StepNames[i] \in Range(o) \cup Range(q) \/ StepNames[i] \in Range(r)
    BY <1>8, <1>11, <1>12
  <2> QED BY <1>6, <1>7, <1>11, <2>1
<1>15. ASSUME NEW i \in DOMAIN pipeline, NEW k \in DOMAIN o', o'[k] = StepNames[i]
       PROVE  \/ pipeline[i].dependsOn = NoName
              \/ \E j \in 1..(k - 1) : o'[j] = pipeline[i].dependsOn
  <2>1. CASE k \in DOMAIN o
    <3>1. o[k] = StepNames[i]
      BY <1>11, <1>15, <2>1
    <3>2. \A j \in 1..(k - 1) : j \in DOMAIN o /\ o'[j] = o[j]
      BY <1>11, <2>1
    <3> QED BY <1>7, <2>1, <3>1, <3>2
  <2>2. CASE k = Len(o) + 1
    <3>1. StepNames[i] = h
      BY <1>11, <1>15, <2>2
    <3>2. pipeline[i].dependsOn \in {NoName} \cup Range(o)
      BY <1>7, <1>8, <3>1
    <3>3. ASSUME pipeline[i].dependsOn \in Range(o)
          PROVE  \E j \in 1..(k - 1) : o'[j] = pipeline[i].dependsOn
      <4>1. PICK j \in DOMAIN o : o[j] = pipeline[i].dependsOn
        BY <3>3 DEF Range
      <4>2. j \in 1..(k - 1)
        BY <1>11, <2>2
      <4> QED BY <1>11, <4>1, <4>2
    <3> QED BY <3>2, <3>3
  <2> QED BY <1>11, <2>1, <2>2
<1> QED BY <1>3, <1>11, <1>12, <1>13, <1>14, <1>15 DEF Kahn, N

-----------------------------------------------------------------------------
(* When the queue is empty, the steps that were never queued each wait for   *)
(* another one of them: some are left exactly if the pipeline has a cycle.   *)
LEMMA OrderEnds ==
    ASSUME IsManifest(manifest), Valid, Kahn, stepQueue = << >>
    PROVE  /\ Unordered => PipelineCyclic
           /\ ~Unordered => Range(orderedNames) = Range(StepNames) /\ ~PipelineCyclic
<1> DEFINE N == Range(StepNames)
           o == orderedNames
           n == Len(pipeline)
           m == Len(o)
<1>1. /\ n \in Nat \ {0} /\ DOMAIN pipeline = 1..n
      /\ DOMAIN StepNames = DOMAIN pipeline /\ IsInjective(StepNames)
      /\ NoName \notin N
      /\ \A i \in DOMAIN pipeline :
            /\ StepNames[i] = pipeline[i].step /\ StepNames[i] \in N
            /\ pipeline[i].dependsOn \in {NoName} \cup N
  BY ValidFacts
<1>2. /\ o \in Seq(N) /\ IsInjective(o) /\ m \in Nat /\ DOMAIN o = 1..m
      /\ \A i \in DOMAIN pipeline :
            /\ StepNames[i] \in Range(o) <=> pipeline[i].dependsOn \in {NoName} \cup Range(o)
            /\ \A k \in DOMAIN o : o[k] = StepNames[i] =>
                  \/ pipeline[i].dependsOn = NoName
                  \/ \E j \in 1..(k - 1) : o[j] = pipeline[i].dependsOn
  <2>1. Range(stepQueue) = {}
    BY DEF Range
  <2>2. o \in Seq(N)
    BY DEF Kahn
  <2> QED BY <2>1, <2>2 DEF Kahn
<1>3. m = n <=> Range(o) = N
  <2>1. StepNames \in Surjection(1..n, N) /\ StepNames \in Injection(1..n, N)
    <3>1. StepNames \in [1..n -> N]
      BY <1>1 DEF StepNames
    <3>2. \A s \in N : \E i \in 1..n : StepNames[i] = s
      BY <1>1 DEF Range
    <3> QED BY <1>1, <3>1, <3>2 DEF Surjection, Injection, IsInjective
  <2>2. IsFiniteSet(1..n) /\ Cardinality(1..n) = n
    BY <1>1, UpTo
  <2>3. IsFiniteSet(N) /\ Cardinality(N) = n
    <3> HIDE DEF N, n
    <3> QED BY <2>1, <2>2, FS_Surjection, Zenon
  <2>4. IsFiniteSet(1..m) /\ Cardinality(1..m) = m
    BY <1>2, UpTo
  <2>5. o \in Injection(1..m, N)
    <3>1. o \in [1..m -> N]
      BY <1>2
    <3> QED BY <1>2, <3>1 DEF Injection, IsInjective
  <2>6. m = n <=> o \in Surjection(1..m, N)
    <3> HIDE DEF N, n, m, o
    <3> QED BY <2>3, <2>4, <2>5, FS_Injection, Zenon
  <2>7. o \in Surjection(1..m, N) <=> Range(o) = N
    <3>1. o \in [1..m -> N]
      BY <1>2
    <3>2. Range(o) \subseteq N
      BY <1>2, <3>1 DEF Range
    <3>3. N \subseteq Range(o) <=> \A s \in N : \E i \in 1..m : o[i] = s
      BY <1>2 DEF Range
    <3> QED BY <3>1, <3>2, <3>3 DEF Surjection
  <2> QED BY <2>6, <2>7
<1>4. ASSUME Unordered PROVE PipelineCyclic
  <2> DEFINE S == N \ Range(o)
  <2>1. S # {} /\ S \in SUBSET N
    <3>1. Range(o) # N
      BY <1>3, <1>4 DEF Unordered
    <3>2. Range(o) \subseteq N
      BY <1>2 DEF Range
    <3> QED BY <3>1, <3>2
  <2>2. ASSUME NEW s \in S PROVE \E p \in Range(pipeline) : p.step = s /\ p.dependsOn \in S
    <3>1. PICK i \in DOMAIN pipeline : StepNames[i] = s
      BY <1>1 DEF Range
    <3>2. pipeline[i].dependsOn \in S
      BY <1>1, <1>2, <3>1
    <3>3. pipeline[i] \in Range(pipeline)
      BY DEF Range
    <3> QED BY <1>1, <3>1, <3>2, <3>3
  <2> HIDE DEF S
  <2> QED BY <2>1, <2>2 DEF PipelineCyclic
<1>5. ASSUME ~Unordered, PipelineCyclic PROVE FALSE
  <2>1. Range(o) = N
    BY <1>3, <1>5 DEF Unordered
  <2>2. PICK S \in SUBSET N : S # {} /\
           \A s \in S : \E p \in Range(pipeline) : p.step = s /\ p.dependsOn \in S
    BY <1>5 DEF PipelineCyclic
  <2> DEFINE T == {k \in 1..m : o[k] \in S}
  <2>3. T \in SUBSET Nat /\ T # {}
    <3>1. PICK s \in S : TRUE
      BY <2>2
    <3>2. PICK k \in 1..m : o[k] = s
      BY <1>2, <2>1, <3>1 DEF Range
    <3> QED BY <1>2, <3>2
  <2>4. PICK k \in T : \A j \in T : k <= j
    <3> HIDE DEF T
    <3> QED BY <2>3, Least
  <2>5. PICK p \in Range(pipeline) : p.step = o[k] /\ p.dependsOn \in S
    BY <2>2
  <2>6. PICK i \in DOMAIN pipeline : pipeline[i] = p
    BY DEF Range
  <2>7. o[k] = StepNames[i] /\ pipeline[i].dependsOn \in S /\ pipeline[i].dependsOn # NoName
    BY <1>1, <2>2, <2>5, <2>6
  <2>8. PICK j \in 1..(k - 1) : o[j] = pipeline[i].dependsOn
    BY <1>2, <2>7
  <2>9. j \in T /\ j < k
    BY <1>2, <2>7, <2>8
  <2>10. k <= j
    <3> HIDE DEF T
    <3> QED BY <2>4, <2>9
  <2> QED BY <1>2, <2>9, <2>10
<1> QED BY <1>3, <1>4, <1>5 DEF Unordered

(* Names are distinct, so that a name stands for one step. *)
LEMMA StepOfFacts ==
    ASSUME IsManifest(manifest), Valid, NEW i \in DOMAIN pipeline
    PROVE  StepOf(StepNames[i]) = pipeline[i]
<1>1. /\ Len(pipeline) \in Nat \ {0} /\ DOMAIN pipeline = 1..Len(pipeline)
      /\ DOMAIN StepNames = DOMAIN pipeline /\ IsInjective(StepNames)
  BY ValidFacts
<1>2. \A j \in DOMAIN pipeline : StepNames[j] = StepNames[i] => j = i
  BY <1>1 DEF IsInjective
<1>3. /\ i \in DOMAIN pipeline /\ StepNames[i] = StepNames[i]
      /\ \A j \in DOMAIN pipeline : StepNames[j] = StepNames[i] => j <= i
  BY <1>1, <1>2
<1> DEFINE c == CHOOSE j \in DOMAIN pipeline : StepNames[j] = StepNames[i] /\
                   \A k \in DOMAIN pipeline : StepNames[k] = StepNames[i] => k <= j
<1>4. c \in DOMAIN pipeline /\ StepNames[c] = StepNames[i]
  BY <1>3
<1>5. c = i
  <2> HIDE DEF c
  <2> QED BY <1>2, <1>4
<1> QED BY <1>5 DEF StepOf

(* The plan of an ordered pipeline, node by node. *)
Follows(P) ==
    /\ DOMAIN P = 1..Len(orderedNames)
    /\ \A i \in DOMAIN P :
          /\ P[i].id = i /\ P[i].agent = orderedNames[i]
          /\ \/ P[i].dependsOn = << >> /\ StepOf(orderedNames[i]).dependsOn = NoName
             \/ \E d \in 1..(i - 1) :
                   /\ P[i].dependsOn = << d >>
                   /\ orderedNames[d] = StepOf(orderedNames[i]).dependsOn
                   /\ StepOf(orderedNames[i]).dependsOn # NoName

(* invocationIDByStep finds the position of a name. *)
LEMMA PositionFacts ==
    ASSUME NEW S, NEW s \in Seq(S), IsInjective(s), NEW i \in DOMAIN s
    PROVE  invocationIDByStep(s, s[i]) = i
<1>1. DOMAIN s = 1..Len(s) /\ Len(s) \in Nat
  OBVIOUS
<1>2. \A j \in DOMAIN s : s[j] = s[i] => j = i
  BY DEF IsInjective
<1>3. s[i] \in Range(s)
  BY DEF Range
<1> DEFINE c == CHOOSE k \in DOMAIN s : s[k] = s[i] /\
                   \A j \in DOMAIN s : s[j] = s[i] => j <= k
<1>4. \A j \in DOMAIN s : s[j] = s[i] => j <= i
  BY <1>1, <1>2
<1>5. c \in DOMAIN s /\ s[c] = s[i]
  BY <1>4
<1>6. c = i
  <2> HIDE DEF c
  <2> QED BY <1>2, <1>5
<1> QED BY <1>3, <1>6 DEF invocationIDByStep

(* What buildExecutionPlan makes of ordered names. *)
LEMMA PlanFacts ==
    ASSUME IsManifest(manifest), Valid, Kahn, NEW c
    PROVE  LET P == PlanOf(orderedNames, c) IN
           /\ Follows(P)
           /\ \A i \in DOMAIN P :
                 /\ P[i].maxAttempts = AttemptsOf(ConfigOf(orderedNames[i]))
                 /\ P[i].breaker = BreakerPolicyOf(ConfigOf(orderedNames[i]), c)
<1> DEFINE o == orderedNames
           P == PlanOf(o, c)
<1>1. /\ o \in Seq(Range(StepNames)) /\ IsInjective(o)
      /\ \A i \in DOMAIN pipeline, k \in DOMAIN o : o[k] = StepNames[i] =>
            \/ pipeline[i].dependsOn = NoName
            \/ \E j \in 1..(k - 1) : o[j] = pipeline[i].dependsOn
  BY DEF Kahn
<1>2. Len(o) \in Nat /\ DOMAIN o = 1..Len(o) /\ \A k \in DOMAIN o : o[k] \in Range(StepNames)
  BY <1>1
<1>3. DOMAIN P = DOMAIN o
  BY DEF PlanOf
<1>4. ASSUME NEW k \in DOMAIN o
      PROVE  LET p == StepOf(o[k]) IN
             /\ p.step = o[k] /\ P[k].id = k /\ P[k].agent = o[k]
             /\ P[k].maxAttempts = AttemptsOf(ConfigOf(o[k]))
             /\ P[k].breaker = BreakerPolicyOf(ConfigOf(o[k]), c)
             /\ P[k].dependsOn = IF p.dependsOn = NoName THEN << >>
                                 ELSE << invocationIDByStep(o, p.dependsOn) >>
             /\ p.dependsOn = NoName \/ \E j \in 1..(k - 1) : o[j] = p.dependsOn
  <2> DEFINE p == StepOf(o[k])
  <2>1. PICK i \in DOMAIN pipeline : o[k] = StepNames[i]
    <3>1. o[k] \in Range(StepNames) /\ DOMAIN StepNames = DOMAIN pipeline
      BY <1>2, ValidFacts
    <3> QED BY <3>1 DEF Range
  <2>2. p = pipeline[i] /\ p.step = o[k]
    BY <2>1, StepOfFacts, ValidFacts
  <2>3. P[k] = [id |-> invocationIDByStep(o, p.step), agent |-> p.step,
                dependsOn |-> IF p.dependsOn = NoName THEN << >>
                              ELSE << invocationIDByStep(o, p.dependsOn) >>,
                maxAttempts |-> AttemptsOf(ConfigOf(p.step)),
                breaker |-> BreakerPolicyOf(ConfigOf(p.step), c)]
    BY DEF PlanOf
  <2>4. invocationIDByStep(o, o[k]) = k
    BY <1>1, PositionFacts
  <2> HIDE DEF p, P
  <2>5. p.dependsOn = NoName \/ \E j \in 1..(k - 1) : o[j] = p.dependsOn
    BY <1>1, <2>1, <2>2
  <2> QED BY <2>2, <2>3, <2>4, <2>5 DEF p
<1> HIDE DEF P
<1>5. ASSUME NEW k \in DOMAIN o
      PROVE  \/ P[k].dependsOn = << >> /\ StepOf(o[k]).dependsOn = NoName
             \/ \E d \in 1..(k - 1) :
                   /\ P[k].dependsOn = << d >>
                   /\ o[d] = StepOf(o[k]).dependsOn
                   /\ StepOf(o[k]).dependsOn # NoName
  <2>1. CASE StepOf(o[k]).dependsOn = NoName
    BY <1>4, <2>1
  <2>2. CASE StepOf(o[k]).dependsOn # NoName
    <3>1. PICK j \in 1..(k - 1) : o[j] = StepOf(o[k]).dependsOn
      BY <1>4, <2>2
    <3>2. j \in DOMAIN o
      BY <1>2
    <3>3. invocationIDByStep(o, StepOf(o[k]).dependsOn) = j
      BY <1>1, <3>1, <3>2, PositionFacts
    <3> QED BY <1>4, <2>2, <3>1, <3>3
  <2> QED BY <2>1, <2>2
<1>6. Follows(P)
  BY <1>2, <1>3, <1>4, <1>5 DEF Follows
<1> QED BY <1>3, <1>4, <1>6 DEF P

-----------------------------------------------------------------------------
(* A plan whose nodes are numbered and depend on at most one earlier node. *)
Layered ==
    /\ Len(plan) \in Nat \ {0} /\ DOMAIN plan = 1..Len(plan)
    /\ \A m \in DOMAIN plan :
          /\ plan[m].id = m
          /\ plan[m].dependsOn = << >> \/ \E d \in 1..(m - 1) : plan[m].dependsOn = << d >>

(* The node waits for one that is not in Q. *)
WaitsBeyond(m, Q) == \E d \in 1..(m - 1) : plan[m].dependsOn = << d >> /\ d \notin Q

(* buildGraph's in-degrees and queue: a node's count is one until the node   *)
(* it depends on is placed, and it is queued when the count drops to zero.   *)
Levelled ==
    /\ levels \in Seq(SUBSET IDs) /\ queue \subseteq IDs
    /\ Placed \cap queue = {}
    /\ \A m \in IDs : inDegree[m] = IF WaitsBeyond(m, Placed) THEN 1 ELSE 0
    /\ \A m \in IDs : m \in Placed \cup queue <=> ~WaitsBeyond(m, Placed)

(* The nodes of a layered plan. *)
LEMMA LayeredFacts ==
    ASSUME Layered
    PROVE  /\ IDs = DOMAIN plan /\ Validation = "none"
           /\ \A m \in IDs : DependsOn(m) = plan[m].dependsOn
<1>1. IDs = DOMAIN plan
  BY DEF Layered, IDs
<1>2. ASSUME NEW m \in IDs PROVE NodeOf(m) = plan[m]
  <2>1. \A i \in DOMAIN plan : plan[i].id = m <=> i = m
    BY <1>1 DEF Layered
  <2>2. m \in DOMAIN plan
    BY <1>1
  <2> DEFINE c == CHOOSE i \in DOMAIN plan : plan[i].id = m
  <2>3. c \in DOMAIN plan /\ plan[c].id = m
    BY <2>1, <2>2
  <2>4. c = m
    <3> HIDE DEF c
    <3> QED BY <2>1, <2>3
  <2> QED BY <2>4 DEF NodeOf
<1>3. plan # << >>
  BY DEF Layered
<1>4. BadIDs = {}
  BY DEF Layered, BadIDs, NoID
<1>5. ASSUME NEW i \in DOMAIN plan PROVE BadDepsOf(i) = {}
  <2>1. CASE plan[i].dependsOn = << >>
    BY <2>1 DEF BadDepsOf
  <2>2. ASSUME NEW d \in 1..(i - 1), plan[i].dependsOn = << d >> PROVE BadDepsOf(i) = {}
    <3>1. d \in IDs /\ d # plan[i].id
      BY <1>1 DEF Layered
    <3>2. \A k \in DOMAIN << d >> : << d >>[k] = d
      OBVIOUS
    <3> QED BY <2>2, <3>1, <3>2 DEF BadDepsOf
  <2> QED BY <2>1, <2>2 DEF Layered
<1>6. BadNodes = {}
  BY <1>5 DEF BadNodes
<1>7. Validation = "none"
  BY <1>3, <1>4, <1>6 DEF Validation
<1> QED BY <1>1, <1>2, <1>7 DEF DependsOn

(* A node of a layered plan waits for one node at most. *)
LEMMA EdgeFacts ==
    ASSUME Layered, NEW m \in IDs, NEW Q
    PROVE  /\ plan[m].dependsOn = << >> => EdgesFrom(Q, m) = 0 /\ InitialInDegree(m) = 0
           /\ \A d : plan[m].dependsOn = << d >> =>
                 EdgesFrom(Q, m) = (IF d \in Q THEN 1 ELSE 0) /\ InitialInDegree(m) = 1
<1>1. DependsOn(m) = plan[m].dependsOn
  BY LayeredFacts
<1>2. Cardinality({}) = 0 /\ Cardinality({1}) = 1
  BY FS_EmptySet, FS_Singleton, Zenon
<1> DEFINE K == {k \in DOMAIN DependsOn(m) : DependsOn(m)[k] \in Q}
<1>3. EdgesFrom(Q, m) = Cardinality(K)
  BY DEF EdgesFrom
<1>4. ASSUME plan[m].dependsOn = << >> PROVE K = {} /\ Len(DependsOn(m)) = 0
  BY <1>1, <1>4
<1>5. ASSUME NEW d, plan[m].dependsOn = << d >>
      PROVE  K = (IF d \in Q THEN {1} ELSE {}) /\ Len(DependsOn(m)) = 1
  BY <1>1, <1>5
<1> HIDE DEF K
<1> QED BY <1>2, <1>3, <1>4, <1>5 DEF InitialInDegree

(* The checks of buildGraph pass for a layered plan. *)
LEMMA LayeredCases ==
    ASSUME Layered, NEW m \in IDs
    PROVE  /\ m \in Nat
           /\ \/ plan[m].dependsOn = << >> /\ \A Q : ~WaitsBeyond(m, Q)
              \/ \E d \in 1..(m - 1) : /\ plan[m].dependsOn = << d >> /\ d \in IDs
                                       /\ \A Q : WaitsBeyond(m, Q) <=> d \notin Q
<1>1. IDs = 1..Len(plan) /\ m \in DOMAIN plan /\ Len(plan) \in Nat
  BY LayeredFacts DEF Layered
<1>2. \A d, e : << d >> = << e >> => d = e
  OBVIOUS
<1>3. \A d : << d >> # << >>
  OBVIOUS
<1>4. CASE plan[m].dependsOn = << >>
  BY <1>1, <1>3, <1>4 DEF WaitsBeyond
<1>5. ASSUME NEW d \in 1..(m - 1), plan[m].dependsOn = << d >>
      PROVE  d \in IDs /\ \A Q : WaitsBeyond(m, Q) <=> d \notin Q
  BY <1>1, <1>2, <1>5 DEF WaitsBeyond
<1> QED BY <1>1, <1>4, <1>5 DEF Layered

(* The first level. *)
LEMMA CheckLayered ==
    ASSUME Layered, CheckPlan, levels = << >>
    PROVE  phase' = "levels" /\ Levelled'
<1>1. /\ phase' = "levels" /\ plan' = plan /\ levels' = levels
      /\ inDegree' = [m \in IDs |-> InitialInDegree(m)]
      /\ queue' = {m \in IDs : InitialInDegree(m) = 0}
  BY LayeredFacts DEF CheckPlan
<1>2. IDs' = IDs /\ \A m, Q : WaitsBeyond(m, Q)' <=> WaitsBeyond(m, Q)
  BY <1>1 DEF IDs, WaitsBeyond
<1>3. Placed' = {}
  BY <1>1 DEF Placed
<1>4. ASSUME NEW m \in IDs
      PROVE  InitialInDegree(m) = IF WaitsBeyond(m, {}) THEN 1 ELSE 0
  BY LayeredCases, EdgeFacts
<1>5. levels' \in Seq(SUBSET IDs')
  BY <1>1
<1>6. \A m \in IDs : WaitsBeyond(m, Placed)' <=> WaitsBeyond(m, {})
  BY <1>1, <1>3 DEF WaitsBeyond
<1> QED BY <1>1, <1>2, <1>3, <1>4, <1>5, <1>6 DEF Levelled

(* The next level. *)
LEMMA LevelLayered ==
    ASSUME Layered, Levelled, NextLevel
    PROVE  Levelled'
<1>1. /\ plan' = plan /\ levels' = Append(levels, queue)
      /\ inDegree' = [m \in IDs |-> Decremented(m)] /\ queue' = Ready
  BY DEF NextLevel
<1>2. levels \in Seq(SUBSET IDs) /\ queue \in SUBSET IDs
  BY DEF Levelled
<1>3. levels' \in Seq(SUBSET IDs) /\ Placed' = Placed \cup queue
  <2>1. /\ DOMAIN levels = 1..Len(levels) /\ Len(levels) \in Nat
        /\ levels' \in Seq(SUBSET IDs) /\ DOMAIN levels' = 1..(Len(levels) + 1)
        /\ \A i \in 1..Len(levels) : levels'[i] = levels[i]
        /\ levels'[Len(levels) + 1] = queue
    BY <1>1, <1>2
  <2>2. \A i : i \in 1..(Len(levels) + 1) <=> i \in 1..Len(levels) \/ i = Len(levels) + 1
    BY <2>1
  <2> QED BY <2>1, <2>2 DEF Placed
<1>4. IDs' = IDs
  BY <1>1 DEF IDs
<1>5. ASSUME NEW m \in IDs
      PROVE  /\ WaitsBeyond(m, Placed)' <=> WaitsBeyond(m, Placed \cup queue)
             /\ Decremented(m) = IF WaitsBeyond(m, Placed \cup queue) THEN 1 ELSE 0
             /\ m \in Ready <=> WaitsBeyond(m, Placed) /\ ~WaitsBeyond(m, Placed \cup queue)
  <2>1. inDegree[m] = IF WaitsBeyond(m, Placed) THEN 1 ELSE 0
    BY DEF Levelled
  <2>2. WaitsBeyond(m, Placed)' <=> WaitsBeyond(m, Placed \cup queue)
    BY <1>1, <1>3 DEF WaitsBeyond
  <2>3. Placed \cap queue = {}
    BY DEF Levelled
  <2>4. CASE plan[m].dependsOn = << >> /\ \A Q : ~WaitsBeyond(m, Q)
    <3>1. Decremented(m) = 0 /\ inDegree[m] = 0
      BY <2>1, <2>4, EdgeFacts DEF Decremented
    <3> QED BY <2>2, <2>4, <3>1 DEF Ready
  <2>5. ASSUME NEW d \in IDs, plan[m].dependsOn = << d >>,
               \A Q : WaitsBeyond(m, Q) <=> d \notin Q
        PROVE  /\ Decremented(m) = IF WaitsBeyond(m, Placed \cup queue) THEN 1 ELSE 0
               /\ m \in Ready <=> WaitsBeyond(m, Placed) /\ ~WaitsBeyond(m, Placed \cup queue)
    <3>1. Decremented(m) = (IF d \notin Placed THEN 1 ELSE 0) - (IF d \in queue THEN 1 ELSE 0)
      BY <2>1, <2>5, EdgeFacts DEF Decremented
    <3> QED BY <2>1, <2>3, <2>5, <3>1 DEF Ready
  <2> QED BY <2>2, <2>4, <2>5, LayeredCases
<1>6. queue' \subseteq IDs'
  BY <1>1, <1>4 DEF Ready
<1>7. Placed' \cap queue' = {}
  BY <1>1, <1>3, <1>5, <1>6, <1>4 DEF Levelled
<1>8. ASSUME NEW m \in IDs
      PROVE  m \in Placed' \cup queue' <=> ~WaitsBeyond(m, Placed)'
  <2>1. m \in Placed \cup queue <=> ~WaitsBeyond(m, Placed)
    BY DEF Levelled
  <2>2. WaitsBeyond(m, Placed \cup queue) => WaitsBeyond(m, Placed)
    BY DEF WaitsBeyond
  <2> QED BY <1>1, <1>3, <1>5, <2>1, <2>2
<1>9. \A m \in IDs : inDegree'[m] = IF WaitsBeyond(m, Placed)' THEN 1 ELSE 0
  BY <1>1, <1>5
<1> QED BY <1>3, <1>4, <1>6, <1>7, <1>8, <1>9 DEF Levelled

(* When no node is queued all are placed: the first one left would wait for  *)
(* an earlier one.                                                           *)
LEMMA DoneLayered ==
    ASSUME Layered, Levelled, GraphDone
    PROVE  phase' = "built"
<1> DEFINE T == IDs \ Placed
<1>1. IDs = 1..Len(plan) /\ Len(plan) \in Nat
  BY LayeredFacts DEF Layered
<1>2. queue = {} /\ Placed \subseteq IDs
  <2>1. queue = {}
    BY DEF GraphDone
  <2>2. \A i \in DOMAIN levels : levels[i] \in SUBSET IDs
    BY DEF Levelled
  <2> QED BY <2>1, <2>2 DEF Placed
<1>3. T = {}
  <2>1. ASSUME T # {} PROVE FALSE
    <3>1. T \in SUBSET Nat
      BY <1>1
    <3>2. PICK m \in T : \A j \in T : m <= j
      <4> HIDE DEF T
      <4> QED BY <2>1, <3>1, Least
    <3>3. m \in IDs /\ WaitsBeyond(m, Placed)
      BY <1>2, <3>2 DEF Levelled
    <3>4. PICK d \in 1..(m - 1) : d \in IDs /\ d \notin Placed
      BY <3>3, LayeredCases
    <3>5. d \in T /\ m \in Nat /\ d < m
      BY <1>1, <3>3, <3>4
    <3>6. m <= d
      <4> HIDE DEF T
      <4> QED BY <3>2, <3>5
    <3> QED BY <3>5, <3>6
  <2> QED BY <2>1
<1>4. Placed = 1..Len(plan)
  BY <1>1, <1>2, <1>3
<1>5. Cardinality(Placed) = Len(plan)
  BY <1>1, <1>4, UpTo
<1> QED BY <1>5 DEF GraphDone, CycleLeft

-----------------------------------------------------------------------------
(* The RouterConfig of a run, before NewEngine. *)
Runtime == RouterConfigFromManifest(FromEnv)

(* The nodes of an SDK program with the IDs RunPlan gives them. *)
SDKPlan == [i \in DOMAIN nodes |->
               [nodes[i] EXCEPT !.id = IF @ = NoID THEN Generated(i) ELSE @]]

(* What NewEngine makes of any RouterConfig. *)
UsableConfigs ==
    [pool : Nat \ {0}, timeout : Nat \ {0}, attempts : Nat \ {0}, threshold : Nat,
     reset : Nat \ {0}, probe : Nat \ {0}]

(* A run from its manifest on. *)
ManifestInv ==
    /\ IsManifest(manifest) /\ IsEnv(env) /\ nodes = Nothing
    /\ stage \in {"load", "order", "config", "graph", "rejected"}
    /\ stage = "load" => orderedNames = << >>
    /\ stage \in {"order", "config", "graph"} => Valid /\ Kahn
    /\ stage \in {"config", "graph"} =>
          /\ ~PipelineCyclic /\ Range(orderedNames) = Range(StepNames)
          /\ Len(orderedNames) = Len(pipeline)
    /\ manifestErr = "cycle" => PipelineCyclic
    /\ stage # "graph" => plan = << >> /\ phase = "check" /\ levels = << >>
    /\ stage = "graph" =>
          /\ manifest.timeout # Malformed
          /\ cfg = NewEngine(Runtime) /\ plan = buildExecutionPlan(Runtime)
          /\ phase \in {"check", "levels", "built"}
          /\ phase = "check" => levels = << >>
          /\ phase = "levels" => Levelled

(* A program that uses the SDK, or a plan given to buildGraph as it is. *)
SDKInv ==
    /\ nodes \in Seq(SDKNodes)
    /\ stage \in {"sdk", "graph", "rejected"}
    /\ stage = "sdk" => cfg \in RouterConfigs
    /\ stage # "graph" => phase = "check"
    /\ stage = "graph" =>
          IF FromSDK THEN plan = SDKPlan /\ cfg \in UsableConfigs ELSE cfg = Nothing
    /\ FromSDK /\ phase = "invalid" => err \in {Validation, "cycle"}

(* The inductive invariant. *)
IInv == IF FromManifest THEN ManifestInv ELSE SDKInv

(* What depends on the inputs alone. *)
LEMMA InputsKept ==
    ASSUME manifest' = manifest, env' = env
    PROVE  /\ pipeline' = pipeline /\ StepNames' = StepNames /\ AgentIDs' = AgentIDs
           /\ Valid' <=> Valid
           /\ PipelineCyclic' <=> PipelineCyclic
           /\ Runtime' = Runtime
<1>1. pipeline' = pipeline
  BY DEF pipeline
<1>2. StepNames' = StepNames
  BY <1>1 DEF StepNames
<1>3. AgentIDs' = AgentIDs
  BY DEF AgentIDs
<1>4. Valid' <=> Valid
  BY <1>1, <1>2, <1>3 DEF Valid, AgentsValid, StepsValid, DependenciesValid
<1>5. PipelineCyclic' <=> PipelineCyclic
  BY <1>1, <1>2 DEF PipelineCyclic
<1>6. FromEnv' = FromEnv
  BY DEF FromEnv
<1>7. Runtime' = Runtime
  BY <1>6 DEF Runtime, RouterConfigFromManifest
<1> QED BY <1>1, <1>2, <1>3, <1>4, <1>5, <1>7, Zenon

(* What depends on the inputs and the ordered names. *)
LEMMA OrderKept ==
    ASSUME manifest' = manifest, env' = env, orderedNames' = orderedNames
    PROVE  \A c : buildExecutionPlan(c)' = buildExecutionPlan(c)
<1>1. pipeline' = pipeline /\ StepNames' = StepNames
  BY InputsKept
<1>2. \A s : StepOf(s)' = StepOf(s)
  BY <1>1 DEF StepOf
<1>3. \A s : ConfigOf(s)' = ConfigOf(s)
  BY DEF ConfigOf
<1> QED BY <1>2, <1>3 DEF buildExecutionPlan, PlanOf

(* What depends on the graph. *)
LEMMA LevelsKept ==
    ASSUME UNCHANGED <<plan, levels, queue, inDegree>>
    PROVE  Levelled' <=> Levelled
<1>1. IDs' = IDs /\ Placed' = Placed
  BY DEF IDs, Placed
<1>2. \A m : WaitsBeyond(m, Placed)' <=> WaitsBeyond(m, Placed)
  BY <1>1 DEF WaitsBeyond
<1> QED BY <1>1, <1>2 DEF Levelled

(* What depends on the inputs, the queue and the ordered names. *)
LEMMA KahnKept ==
    ASSUME manifest' = manifest, env' = env, UNCHANGED <<orderedNames, stepQueue>>
    PROVE  Kahn' <=> Kahn
<1>1. pipeline' = pipeline /\ StepNames' = StepNames
  BY InputsKept
<1> QED BY <1>1 DEF Kahn

(* The plan of a manifest is one that buildGraph can order. *)
LEMMA PlanLayered ==
    ASSUME IsManifest(manifest), Valid, Kahn, Len(orderedNames) = Len(pipeline),
           plan = buildExecutionPlan(Runtime)
    PROVE  Follows(plan) /\ Layered /\ Len(plan) = Len(pipeline)
<1>1. Len(pipeline) \in Nat \ {0}
  BY ValidFacts
<1>2. Follows(plan)
  BY PlanFacts DEF buildExecutionPlan
<1>3. DOMAIN plan = 1..Len(pipeline) /\ plan = [i \in DOMAIN orderedNames |-> plan[i]]
  BY <1>2 DEF Follows, buildExecutionPlan, PlanOf
<1>4. DOMAIN orderedNames = 1..Len(pipeline)
  BY DEF Kahn
<1>5. Len(plan) = Len(pipeline)
  <2> DEFINE S == {plan[i] : i \in 1..Len(pipeline)}
  <2>1. plan \in Seq(S)
    BY <1>1, <1>3, <1>4
  <2> HIDE DEF S
  <2> QED BY <1>1, <1>3, <2>1
<1>6. ASSUME NEW m \in DOMAIN plan
      PROVE  /\ plan[m].id = m
             /\ plan[m].dependsOn = << >> \/ \E d \in 1..(m - 1) : plan[m].dependsOn = << d >>
  BY <1>2 DEF Follows
<1>7. Layered
  BY <1>1, <1>3, <1>5, <1>6 DEF Layered
<1> QED BY <1>2, <1>5, <1>7

-----------------------------------------------------------------------------
(* What the checks of LoadManifest have established, *)
LEMMA PassedIsValid == ValidateManifest = "none" => Valid
  BY DEF ValidateManifest, Valid

(* and that OrderedPipeline alone reports a cycle. *)
LEMMA NoCycleYet == ValidateManifest # "cycle"
  BY DEF ValidateManifest

(* The steps of a run from a manifest, one by one. *)
LEMMA ManifestLoad ==
    ASSUME ManifestInv, LoadManifest
    PROVE  ManifestInv'
<1>1. /\ stage = "load" /\ manifest' = manifest /\ env' = env /\ nodes' = nodes
      /\ orderedNames' = orderedNames /\ cfg' = cfg
      /\ plan' = plan /\ phase' = phase /\ levels' = levels
      /\ manifestErr' = ValidateManifest
  BY DEF LoadManifest, graphVars, inputVars
<1>2. /\ IsManifest(manifest) /\ IsEnv(env) /\ nodes = Nothing /\ orderedNames = << >>
      /\ plan = << >> /\ phase = "check" /\ levels = << >>
  BY <1>1 DEF ManifestInv
<1>3. manifestErr' # "cycle"
  BY <1>1, NoCycleYet
<1>4. CASE ValidateManifest = "none"
  <2>1. stage' = "order" /\ stepQueue' = Roots
    BY <1>4 DEF LoadManifest
  <2>2. Valid
    BY <1>4, PassedIsValid
  <2>3. Kahn' /\ Valid'
    BY <1>1, <1>2, <2>1, <2>2, KahnStart, InputsKept
  <2> QED BY <1>1, <1>2, <1>3, <2>1, <2>3 DEF ManifestInv
<1>5. CASE ValidateManifest # "none"
  <2>1. stage' = "rejected"
    BY <1>5 DEF LoadManifest
  <2> QED BY <1>1, <1>2, <1>3, <2>1 DEF ManifestInv
<1> QED BY <1>4, <1>5

LEMMA ManifestOrder ==
    ASSUME ManifestInv, OrderStep
    PROVE  ManifestInv'
<1>1. /\ stage = "order" /\ stage' = stage
      /\ manifest' = manifest /\ env' = env /\ nodes' = nodes
      /\ plan' = plan /\ phase' = phase /\ levels' = levels
      /\ manifestErr' = manifestErr
  BY DEF OrderStep, graphVars, inputVars
<1>2. /\ IsManifest(manifest) /\ IsEnv(env) /\ nodes = Nothing /\ Valid /\ Kahn
      /\ plan = << >> /\ phase = "check" /\ levels = << >>
      /\ manifestErr = "cycle" => PipelineCyclic
  BY <1>1 DEF ManifestInv
<1>3. Kahn' /\ Valid' /\ (PipelineCyclic' <=> PipelineCyclic)
  BY <1>1, <1>2, KahnStep, InputsKept
<1> QED BY <1>1, <1>2, <1>3 DEF ManifestInv

LEMMA ManifestOrdered ==
    ASSUME ManifestInv, OrderDone
    PROVE  ManifestInv'
<1>1. /\ stage = "order" /\ stepQueue = << >>
      /\ manifest' = manifest /\ env' = env /\ nodes' = nodes
      /\ orderedNames' = orderedNames /\ stepQueue' = stepQueue
      /\ plan' = plan /\ phase' = phase /\ levels' = levels
  BY DEF OrderDone, graphVars, inputVars
<1>2. /\ IsManifest(manifest) /\ IsEnv(env) /\ nodes = Nothing /\ Valid /\ Kahn
      /\ plan = << >> /\ phase = "check" /\ levels = << >>
      /\ manifestErr = "cycle" => PipelineCyclic
  BY <1>1 DEF ManifestInv
<1>3. /\ Kahn' /\ Valid' /\ (PipelineCyclic' <=> PipelineCyclic)
      /\ pipeline' = pipeline /\ StepNames' = StepNames
  BY <1>1, <1>2, KahnKept, InputsKept
<1>4. CASE Unordered
  <2>1. stage' = "rejected" /\ PipelineCyclic
    BY <1>1, <1>2, <1>4, OrderEnds DEF OrderDone
  <2> QED BY <1>1, <1>2, <1>3, <2>1 DEF ManifestInv
<1>5. CASE ~Unordered
  <2>1. /\ stage' = "config" /\ manifestErr' = manifestErr
        /\ ~PipelineCyclic /\ Range(orderedNames) = Range(StepNames)
        /\ Len(orderedNames) = Len(pipeline)
    BY <1>1, <1>2, <1>5, OrderEnds DEF OrderDone, Unordered
  <2> QED BY <1>1, <1>2, <1>3, <2>1 DEF ManifestInv
<1> QED BY <1>4, <1>5

LEMMA ManifestBuild ==
    ASSUME ManifestInv, BuildPlan
    PROVE  ManifestInv'
<1>1. /\ stage = "config"
      /\ manifest' = manifest /\ env' = env /\ nodes' = nodes
      /\ orderedNames' = orderedNames /\ stepQueue' = stepQueue
      /\ phase' = phase /\ levels' = levels
  BY DEF BuildPlan, inputVars
<1>2. /\ IsManifest(manifest) /\ IsEnv(env) /\ nodes = Nothing /\ Valid /\ Kahn
      /\ plan = << >> /\ phase = "check" /\ levels = << >>
      /\ manifestErr = "cycle" => PipelineCyclic
      /\ ~PipelineCyclic /\ Range(orderedNames) = Range(StepNames)
      /\ Len(orderedNames) = Len(pipeline)
  BY <1>1 DEF ManifestInv
<1>3. /\ Kahn' /\ Valid' /\ (PipelineCyclic' <=> PipelineCyclic)
      /\ pipeline' = pipeline /\ StepNames' = StepNames /\ Runtime' = Runtime
  BY <1>1, <1>2, KahnKept, InputsKept
<1>4. CASE manifest.timeout = Malformed
  <2>1. stage' = "rejected" /\ manifestErr' = "timeout" /\ plan' = plan
    BY <1>4 DEF BuildPlan
  <2> QED BY <1>1, <1>2, <1>3, <2>1 DEF ManifestInv
<1>5. CASE manifest.timeout # Malformed
  <2>1. /\ stage' = "graph" /\ manifestErr' = manifestErr
        /\ plan' = buildExecutionPlan(Runtime) /\ cfg' = NewEngine(Runtime)
    BY <1>5 DEF BuildPlan, Runtime
  <2>2. cfg' = NewEngine(Runtime')
    BY <1>3, <2>1
  <2>3. plan' = buildExecutionPlan(Runtime)'
    <3>1. buildExecutionPlan(Runtime)' = buildExecutionPlan(Runtime)
      BY <1>1, <1>3, OrderKept
    <3> QED BY <2>1, <3>1
  <2>4. NewEngine(Runtime)' = NewEngine(Runtime')
    BY <1>3
  <2> QED BY <1>1, <1>2, <1>3, <1>5, <2>1, <2>2, <2>3, <2>4 DEF ManifestInv
<1> QED BY <1>4, <1>5

LEMMA ManifestGraph ==
    ASSUME ManifestInv, BuildGraph
    PROVE  ManifestInv'
<1>1. /\ stage = "graph" /\ stage' = stage /\ manifestErr' = manifestErr
      /\ manifest' = manifest /\ env' = env /\ nodes' = nodes /\ cfg' = cfg
      /\ orderedNames' = orderedNames /\ stepQueue' = stepQueue
  BY DEF BuildGraph, pipelineVars, inputVars
<1>2. /\ IsManifest(manifest) /\ IsEnv(env) /\ nodes = Nothing /\ Valid /\ Kahn
      /\ manifestErr = "cycle" => PipelineCyclic
      /\ ~PipelineCyclic /\ Range(orderedNames) = Range(StepNames)
      /\ Len(orderedNames) = Len(pipeline)
      /\ manifest.timeout # Malformed
      /\ cfg = NewEngine(Runtime) /\ plan = buildExecutionPlan(Runtime)
      /\ phase \in {"check", "levels", "built"}
      /\ phase = "check" => levels = << >>
      /\ phase = "levels" => Levelled
  BY <1>1 DEF ManifestInv
<1>3. /\ Kahn' /\ Valid' /\ (PipelineCyclic' <=> PipelineCyclic)
      /\ pipeline' = pipeline /\ StepNames' = StepNames /\ Runtime' = Runtime
  BY <1>1, <1>2, KahnKept, InputsKept
<1>4. Layered
  BY <1>2, PlanLayered
<1>5. plan' = plan
  BY DEF BuildGraph, GraphNext, CheckPlan, NextLevel, GraphDone
<1>6. /\ phase' \in {"check", "levels", "built"}
      /\ phase' = "check" => levels' = << >>
      /\ phase' = "levels" => Levelled'
  <2>1. CASE CheckPlan
    <3>1. levels = << >>
      BY <1>2, <2>1 DEF CheckPlan
    <3> QED BY <1>4, <2>1, <3>1, CheckLayered
  <2>2. CASE NextLevel
    <3>1. Levelled /\ phase' = "levels"
      BY <1>2, <2>2 DEF NextLevel
    <3> QED BY <1>4, <2>2, <3>1, LevelLayered
  <2>3. CASE GraphDone
    <3>1. Levelled
      BY <1>2, <2>3 DEF GraphDone
    <3> QED BY <1>4, <2>3, <3>1, DoneLayered
  <2> QED BY <2>1, <2>2, <2>3 DEF BuildGraph, GraphNext
<1>7. plan' = buildExecutionPlan(Runtime)'
  <2>1. buildExecutionPlan(Runtime)' = buildExecutionPlan(Runtime)
    BY <1>1, <1>3, OrderKept
  <2> QED BY <1>2, <1>5, <2>1
<1>8. cfg' = NewEngine(Runtime)'
  BY <1>1, <1>2, <1>3
<1> QED BY <1>1, <1>2, <1>3, <1>6, <1>7, <1>8 DEF ManifestInv

LEMMA ManifestStutter ==
    ASSUME ManifestInv, UNCHANGED allVars
    PROVE  ManifestInv'
<1>1. /\ stage' = stage /\ manifestErr' = manifestErr
      /\ manifest' = manifest /\ env' = env /\ nodes' = nodes /\ cfg' = cfg
      /\ orderedNames' = orderedNames /\ stepQueue' = stepQueue
      /\ plan' = plan /\ phase' = phase /\ levels' = levels /\ queue' = queue
      /\ inDegree' = inDegree
  BY DEF allVars, graphVars, pipelineVars, inputVars
<1>2. /\ Kahn' <=> Kahn
      /\ Valid' <=> Valid
      /\ PipelineCyclic' <=> PipelineCyclic
      /\ Levelled' <=> Levelled
      /\ pipeline' = pipeline /\ StepNames' = StepNames /\ Runtime' = Runtime
  BY <1>1, KahnKept, InputsKept, LevelsKept
<1>3. /\ buildExecutionPlan(Runtime)' = buildExecutionPlan(Runtime)
      /\ NewEngine(Runtime)' = NewEngine(Runtime)
  BY <1>1, <1>2, OrderKept
<1> QED BY <1>1, <1>2, <1>3 DEF ManifestInv

-----------------------------------------------------------------------------
(* A value that is not positive is replaced. *)
LEMMA DefaultFacts ==
    ASSUME NEW n \in Int, NEW d \in Int
    PROVE  /\ OrDefault(n, d) \in Int
           /\ n > 0 => OrDefault(n, d) = n
           /\ n <= 0 => OrDefault(n, d) = d
           /\ d > 0 => OrDefault(n, d) > 0
           /\ d >= 0 => OrDefault(n, d) >= 0
  BY DEF OrDefault

(* Whatever an SDK program sets, NewEngine makes usable. *)
LEMMA NewEngineUsable ==
    ASSUME NEW c \in RouterConfigs
    PROVE  /\ NewEngine(c) \in UsableConfigs
           /\ NewEngine(c).pool = OrDefault(c.pool, 1)
           /\ NewEngine(c).timeout = OrDefault(c.timeout, 30)
           /\ NewEngine(c).threshold = OrDefault(c.threshold, 0)
           /\ NewEngine(c).reset = OrDefault(c.reset, 60)
           /\ NewEngine(c).probe = OrDefault(c.probe, 5)
<1>1. /\ c.pool \in Int /\ c.timeout \in Int /\ c.attempts \in Int /\ c.threshold \in Int
      /\ c.reset \in Int /\ c.probe \in Int
  BY DEF RouterConfigs
<1>2. /\ OrDefault(c.pool, 1) \in Nat \ {0} /\ OrDefault(c.timeout, 30) \in Nat \ {0}
      /\ OrDefault(c.attempts, 1) \in Nat \ {0} /\ OrDefault(c.threshold, 0) \in Nat
      /\ OrDefault(c.reset, 60) \in Nat \ {0} /\ OrDefault(c.probe, 5) \in Nat \ {0}
  <2>1. /\ OrDefault(c.pool, 1) \in Nat \ {0} /\ OrDefault(c.timeout, 30) \in Nat \ {0}
        /\ OrDefault(c.attempts, 1) \in Nat \ {0}
    BY <1>1 DEF OrDefault
  <2>2. /\ OrDefault(c.threshold, 0) \in Nat
        /\ OrDefault(c.reset, 60) \in Nat \ {0} /\ OrDefault(c.probe, 5) \in Nat \ {0}
    BY <1>1 DEF OrDefault
  <2> QED BY <2>1, <2>2
<1> DEFINE e == NewEngine(c)
<1>3. PICK f \in Int, g \in Int, h \in Int, i \in Int, j \in Int, k \in Int :
           /\ f = OrDefault(c.pool, 1) /\ g = OrDefault(c.timeout, 30)
           /\ h = OrDefault(c.attempts, 1) /\ i = OrDefault(c.threshold, 0)
           /\ j = OrDefault(c.reset, 60) /\ k = OrDefault(c.probe, 5)
  BY <1>2
<1>4. e = [c EXCEPT !.pool = f, !.timeout = g, !.attempts = h, !.threshold = i, !.reset = j,
                    !.probe = k]
  BY <1>3 DEF NewEngine
<1> HIDE DEF e
<1>5. /\ e \in RouterConfigs
      /\ e.pool = OrDefault(c.pool, 1) /\ e.timeout = OrDefault(c.timeout, 30)
      /\ e.attempts = OrDefault(c.attempts, 1) /\ e.threshold = OrDefault(c.threshold, 0)
      /\ e.reset = OrDefault(c.reset, 60) /\ e.probe = OrDefault(c.probe, 5)
  <2>1. e \in RouterConfigs
    BY <1>4 DEF RouterConfigs
  <2>2. e.pool = f /\ e.timeout = g
    BY <1>4 DEF RouterConfigs
  <2>3. e.attempts = h /\ e.threshold = i
    BY <1>4 DEF RouterConfigs
  <2>4. e.reset = j /\ e.probe = k
    BY <1>4 DEF RouterConfigs
  <2> QED BY <1>3, <2>1, <2>2, <2>3, <2>4, Zenon
<1>6. e \in UsableConfigs
  <2>1. /\ e.pool \in Nat \ {0} /\ e.timeout \in Nat \ {0} /\ e.attempts \in Nat \ {0}
        /\ e.threshold \in Nat /\ e.reset \in Nat \ {0} /\ e.probe \in Nat \ {0}
    BY <1>2, <1>5
  <2>2. e = [pool |-> e.pool, timeout |-> e.timeout, attempts |-> e.attempts,
             threshold |-> e.threshold, reset |-> e.reset, probe |-> e.probe]
    BY <1>5 DEF RouterConfigs
  <2> QED BY <2>1, <2>2 DEF UsableConfigs
<1> QED BY <1>5, <1>6 DEF e

(* The initial states. *)
LEMMA PipelineInitInv == PipelineInit => IInv
<1> SUFFICES ASSUME PipelineInit PROVE IInv
  OBVIOUS
<1>1. /\ phase = "check" /\ levels = << >> /\ manifestErr = "none" /\ orderedNames = << >>
  BY DEF PipelineInit
<1>2. CASE /\ \E l \in Launches : manifest = l.manifest /\ env = l.env
           /\ nodes = Nothing /\ cfg = Nothing /\ stage = "load" /\ plan = << >>
  <2>1. IsManifest(manifest) /\ IsEnv(env)
    BY <1>2, LaunchesAssumption
  <2>2. FromManifest
    BY <2>1 DEF IsManifest, FromManifest
  <2>3. ManifestInv
    BY <1>1, <1>2, <2>1 DEF ManifestInv
  <2> QED BY <2>2, <2>3 DEF IInv
<1>3. CASE /\ \E c \in SDKCalls : nodes = c.nodes /\ cfg = c.cfg
           /\ manifest = Nothing /\ env = Nothing /\ stage = "sdk" /\ plan = << >>
  <2>1. nodes \in Seq(SDKNodes) /\ cfg \in RouterConfigs
    BY <1>3, SDKCallsAssumption
  <2> QED BY <1>1, <1>3, <2>1 DEF IInv, SDKInv, FromManifest
<1>4. CASE /\ manifest = Nothing /\ env = Nothing /\ nodes = Nothing /\ cfg = Nothing
           /\ stage = "graph" /\ plan \in Plans
  <2>1. nodes \in Seq(SDKNodes) /\ ~FromSDK
    BY <1>4 DEF Nothing, FromSDK
  <2> QED BY <1>1, <1>4, <2>1 DEF IInv, SDKInv, FromManifest
<1> QED BY <1>2, <1>3, <1>4 DEF PipelineInit

(* The steps of an SDK program, and of a plan given as it is. *)
LEMMA SDKRun ==
    ASSUME SDKInv, RunPlan
    PROVE  SDKInv'
<1>1. /\ stage = "sdk" /\ nodes' = nodes /\ phase' = phase /\ cfg' = NewEngine(cfg)
      /\ stage' \in {"graph", "rejected"}
      /\ stage' = "graph" => plan' = SDKPlan /\ nodes # << >>
  BY DEF RunPlan, inputVars, SDKPlan
<1>2. nodes \in Seq(SDKNodes) /\ phase = "check" /\ cfg \in RouterConfigs
  BY <1>1 DEF SDKInv
<1>3. cfg' \in UsableConfigs
  BY <1>1, <1>2, NewEngineUsable
<1>4. SDKPlan' = SDKPlan
  BY <1>1 DEF SDKPlan
<1>5. stage' = "graph" => FromSDK'
  BY <1>1 DEF FromSDK, Nothing
<1> QED BY <1>1, <1>2, <1>3, <1>4, <1>5 DEF SDKInv

LEMMA SDKGraph ==
    ASSUME SDKInv, BuildGraph
    PROVE  SDKInv'
<1>1. /\ stage = "graph" /\ stage' = stage /\ nodes' = nodes /\ cfg' = cfg
  BY DEF BuildGraph, pipelineVars, inputVars
<1>2. plan' = plan /\ phase # "invalid"
  BY DEF BuildGraph, GraphNext, CheckPlan, NextLevel, GraphDone
<1>3. SDKPlan' = SDKPlan /\ FromSDK' = FromSDK
  BY <1>1 DEF SDKPlan, FromSDK
<1>4. Validation' = Validation
  <2>1. IDs' = IDs
    BY <1>2 DEF IDs
  <2>2. BadIDs' = BadIDs
    BY <1>2 DEF BadIDs
  <2>3. \A i : BadDepsOf(i)' = BadDepsOf(i)
    BY <1>2, <2>1 DEF BadDepsOf
  <2>4. BadNodes' = BadNodes
    BY <1>2, <2>3 DEF BadNodes
  <2> QED BY <1>2, <2>1, <2>2, <2>3, <2>4 DEF Validation
<1>5. phase' = "invalid" => err' = Validation \/ err' = "cycle"
  BY DEF BuildGraph, GraphNext, CheckPlan, NextLevel, GraphDone
<1>6. phase' = "invalid" => err' \in {Validation', "cycle"}
  BY <1>4, <1>5
<1> QED BY <1>1, <1>2, <1>3, <1>6 DEF SDKInv

LEMMA SDKStutter ==
    ASSUME SDKInv, UNCHANGED allVars
    PROVE  SDKInv'
<1>1. /\ stage' = stage /\ nodes' = nodes /\ cfg' = cfg /\ plan' = plan /\ phase' = phase
      /\ err' = err
  BY DEF allVars, graphVars, pipelineVars, inputVars
<1>2. SDKPlan' = SDKPlan /\ FromSDK' = FromSDK
  BY <1>1 DEF SDKPlan, FromSDK
<1>4. Validation' = Validation
  <2>1. IDs' = IDs
    BY <1>1 DEF IDs
  <2>2. BadIDs' = BadIDs
    BY <1>1 DEF BadIDs
  <2>3. \A i : BadDepsOf(i)' = BadDepsOf(i)
    BY <1>1, <2>1 DEF BadDepsOf
  <2>4. BadNodes' = BadNodes
    BY <1>1, <2>3 DEF BadNodes
  <2> QED BY <1>1, <2>1, <2>2, <2>3, <2>4 DEF Validation
<1> QED BY <1>1, <1>2, <1>4 DEF SDKInv

(* Every step preserves the invariant. *)
LEMMA PipelineStep == IInv /\ [PipelineNext]_allVars => IInv'
<1> SUFFICES ASSUME IInv, [PipelineNext]_allVars PROVE IInv'
  OBVIOUS
<1>1. FromManifest' <=> FromManifest
  BY DEF FromManifest, PipelineNext, LoadManifest, OrderStep, OrderDone, BuildPlan, RunPlan,
         BuildGraph, allVars, pipelineVars, inputVars
<1>2. CASE FromManifest
  <2>1. ManifestInv
    BY <1>2 DEF IInv
  <2>2. ~RunPlan
    BY <2>1 DEF ManifestInv, RunPlan
  <2>3. ManifestInv'
    BY <2>1, <2>2, ManifestLoad, ManifestOrder, ManifestOrdered, ManifestBuild,
       ManifestGraph, ManifestStutter, Zenon DEF PipelineNext
  <2> QED BY <1>1, <1>2, <2>3 DEF IInv
<1>3. CASE ~FromManifest
  <2>1. SDKInv
    BY <1>3 DEF IInv
  <2>2. ~LoadManifest /\ ~OrderStep /\ ~OrderDone /\ ~BuildPlan
    BY <2>1 DEF SDKInv, LoadManifest, OrderStep, OrderDone, BuildPlan
  <2>3. SDKInv'
    BY <2>1, <2>2, SDKRun, SDKGraph, SDKStutter, Zenon DEF PipelineNext
  <2> QED BY <1>1, <1>3, <2>3 DEF IInv
<1> QED BY <1>2, <1>3

-----------------------------------------------------------------------------
(* A setting of the environment. *)
LEMMA SettingFacts ==
    ASSUME NEW v, IsSetting(v), NEW d \in Nat \ {0}
    PROVE  /\ IfPositive(v, d) \in Nat \ {0}
           /\ v \notin {Absent, Malformed} =>
                 v.n \in Int /\ IfPositive(v, d) = OrDefault(v.n, d)
<1>1. CASE v \in {Absent, Malformed}
  <2>1. v.text # "number"
    BY <1>1 DEF Absent, Malformed, Setting
  <2> QED BY <1>1, <2>1 DEF IfPositive
<1>2. CASE v \notin {Absent, Malformed}
  <2>1. v = Number(v.n) /\ v.n \in Int
    BY <1>2 DEF IsSetting
  <2>2. v.text = "number"
    BY <2>1 DEF Number, Setting
  <2> QED BY <2>1, <2>2 DEF IfPositive, OrDefault
<1> QED BY <1>1, <1>2

(* The RouterConfig of a run, setting by setting. *)
LEMMA RuntimeFacts ==
    ASSUME IsManifest(manifest), IsEnv(env), manifest.timeout # Malformed
    PROVE  /\ Runtime \in RouterConfigs
           /\ Runtime.pool = IF manifest.pool > 0 THEN manifest.pool
                             ELSE IfPositive(env.pool, 10)
           /\ Runtime.timeout = IF manifest.timeout = Absent THEN IfPositive(env.timeout, 30)
                                ELSE manifest.timeout.n
           /\ Runtime.threshold \in Nat
           /\ Runtime.reset = IfPositive(env.reset, 60) /\ Runtime.reset \in Nat \ {0}
           /\ Runtime.probe \in Nat \ {0}
<1>1. /\ IfPositive(env.pool, 10) \in Nat \ {0} /\ IfPositive(env.timeout, 30) \in Nat \ {0}
      /\ IfPositive(env.reset, 60) \in Nat \ {0} /\ IfPositive(env.probe, 5) \in Nat \ {0}
  BY SettingFacts DEF IsEnv
<1>2. PICK p, t, h, r, b : /\ p = IfPositive(env.pool, 10) /\ t = IfPositive(env.timeout, 30)
                           /\ r = IfPositive(env.reset, 60) /\ b = IfPositive(env.probe, 5)
                           /\ h = IF env.threshold.text = "number" /\ env.threshold.n >= 0
                                  THEN env.threshold.n ELSE 5
  OBVIOUS
<1>3. h \in Nat
  <2>1. env.threshold \in {Absent, Malformed} \/ env.threshold.n \in Int
    BY DEF IsEnv, IsSetting
  <2>2. env.threshold \in {Absent, Malformed} => env.threshold.text # "number"
    BY DEF Absent, Malformed, Setting
  <2> QED BY <1>2, <2>1, <2>2
<1>4. FromEnv = [pool |-> p, timeout |-> t, attempts |-> 1, threshold |-> h, reset |-> r,
                 probe |-> b]
  BY <1>2, Zenon DEF FromEnv
<1>5. PICK q, u : /\ q = IF manifest.pool > 0 THEN manifest.pool ELSE p
                  /\ u = IF manifest.timeout = Absent THEN t ELSE manifest.timeout.n
  OBVIOUS
<1>6. manifest.pool \in Int /\ q \in Int
  BY <1>1, <1>2, <1>5 DEF IsManifest
<1>7. u \in Int
  <2>1. manifest.timeout # Absent => manifest.timeout.n \in Int
    BY DEF IsManifest, IsSetting
  <2> QED BY <1>1, <1>2, <1>5, <2>1
<1>8. Runtime = [pool |-> q, timeout |-> u, attempts |-> 1, threshold |-> h, reset |-> r,
                 probe |-> b]
  <2>1. PICK e : e = FromEnv
    OBVIOUS
  <2>2. e.pool = p /\ e.timeout = t
    BY <1>4, <2>1
  <2>3. Runtime = [e EXCEPT !.pool = q, !.timeout = u]
    BY <1>5, <2>1, <2>2 DEF Runtime, RouterConfigFromManifest
  <2> QED BY <1>4, <2>1, <2>3
<1>9. Runtime \in RouterConfigs
  BY <1>1, <1>2, <1>3, <1>6, <1>7, <1>8 DEF RouterConfigs
<1>10. /\ Runtime.pool = q /\ Runtime.timeout = u /\ Runtime.threshold = h
       /\ Runtime.reset = r /\ Runtime.probe = b
  BY <1>8
<1> QED BY <1>1, <1>2, <1>3, <1>5, <1>9, <1>10

(* The agent of a step. *)
LEMMA ConfigFacts ==
    ASSUME IsManifest(manifest), AgentsValid, NEW s \in Range(AgentIDs)
    PROVE  LET a == ConfigOf(s) IN
           /\ a \in Range(manifest.agents) /\ a.id = s /\ IsAgent(a)
           /\ a.threshold >= 0 /\ a.reset # Malformed /\ a.probe # Malformed
<1>1. PICK i \in DOMAIN manifest.agents : manifest.agents[i].id = s
  BY DEF AgentIDs, Range
<1>2. manifest.agents[i] \in Range(manifest.agents)
  BY DEF Range
<1>3. ConfigOf(s) \in Range(manifest.agents) /\ ConfigOf(s).id = s
  BY <1>1, <1>2 DEF ConfigOf
<1>4. ASSUME NEW a \in Range(manifest.agents)
      PROVE  IsAgent(a) /\ a.threshold >= 0 /\ a.reset # Malformed /\ a.probe # Malformed
  BY Zenon DEF IsManifest, AgentsValid
<1> QED BY <1>3, <1>4

(* The policy of an agent, with the RouterConfig to fall back on. *)
LEMMA PolicyFacts ==
    ASSUME NEW a, IsAgent(a), a.threshold >= 0, a.reset # Malformed, a.probe # Malformed,
           NEW c, c.threshold \in Nat, c.reset \in Nat \ {0}, c.probe \in Nat \ {0}
    PROVE  LET b == BreakerPolicyOf(a, c) IN
           /\ b \in Policies /\ b.reset > 0 /\ b.probe > 0
           /\ b.threshold = IF a.threshold > 0 THEN a.threshold ELSE c.threshold
           /\ b.reset = IF a.reset = Absent THEN c.reset ELSE IfPositive(a.reset, 60)
<1>1. /\ a.threshold \in Nat /\ IsSetting(a.reset) /\ IsSetting(a.probe)
  BY DEF IsAgent
<1>2. ASSUME NEW v, IsSetting(v), v # Malformed, NEW f \in Nat \ {0}, NEW d \in Nat \ {0}
      PROVE  OrDefault(IF v = Absent THEN f ELSE v.n, d)
                = IF v = Absent THEN f ELSE IfPositive(v, d)
  <2>1. CASE v = Absent
    BY <2>1 DEF OrDefault
  <2>2. CASE v # Absent
    BY <1>2, <2>2, SettingFacts
  <2> QED BY <2>1, <2>2
<1>3. PICK t, r, p : /\ t = IF a.threshold > 0 THEN a.threshold ELSE OrDefault(c.threshold, 0)
                     /\ r = OrDefault(IF a.reset = Absent THEN c.reset ELSE a.reset.n, 60)
                     /\ p = OrDefault(IF a.probe = Absent THEN c.probe ELSE a.probe.n, 5)
  OBVIOUS
<1>4. r = IF a.reset = Absent THEN c.reset ELSE IfPositive(a.reset, 60)
  BY <1>1, <1>2, <1>3
<1>5. p = IF a.probe = Absent THEN c.probe ELSE IfPositive(a.probe, 5)
  BY <1>1, <1>2, <1>3
<1>6. r \in Nat \ {0}
  BY <1>1, <1>4, SettingFacts
<1>7. p \in Nat \ {0}
  BY <1>1, <1>5, SettingFacts
<1>8. t = (IF a.threshold > 0 THEN a.threshold ELSE c.threshold) /\ t \in Nat
  BY <1>1, <1>3 DEF OrDefault
<1>9. BreakerPolicyOf(a, c) = [threshold |-> t, reset |-> r, probe |-> p]
  BY <1>3, Zenon DEF BreakerPolicyOf
<1>10. BreakerPolicyOf(a, c) \in Policies
  BY <1>6, <1>7, <1>8, <1>9 DEF Policies
<1>11. /\ BreakerPolicyOf(a, c).threshold = t /\ BreakerPolicyOf(a, c).reset = r
       /\ BreakerPolicyOf(a, c).probe = p
  BY <1>9
<1> QED BY <1>4, <1>6, <1>7, <1>8, <1>10, <1>11

(* The policies executeNode makes of a node and a usable RouterConfig. *)
LEMMA NodeUsable ==
    ASSUME cfg \in UsableConfigs, NEW n, n.maxAttempts \in Int, n.breaker \in Policies
    PROVE  LET b == BreakerAt(n) IN
           /\ AttemptsAt(n) >= 1 /\ b.threshold >= 0 /\ b.reset > 0 /\ b.probe > 0
           /\ n.maxAttempts > 0 => AttemptsAt(n) = n.maxAttempts
           /\ b.threshold = IF n.breaker.threshold > 0 THEN n.breaker.threshold
                            ELSE cfg.threshold
           /\ n.breaker.threshold > 0 => b.reset = OrDefault(n.breaker.reset, 60)
<1>1. /\ cfg.attempts \in Nat \ {0} /\ cfg.threshold \in Nat /\ cfg.reset \in Nat \ {0}
      /\ cfg.probe \in Nat \ {0}
  BY DEF UsableConfigs
<1>2. AttemptsAt(n) >= 1 /\ (n.maxAttempts > 0 => AttemptsAt(n) = n.maxAttempts)
  BY <1>1 DEF AttemptsAt
<1>3. PICK p \in Policies : p = IF n.breaker.threshold > 0 THEN n.breaker
                                ELSE [threshold |-> cfg.threshold, reset |-> cfg.reset,
                                      probe |-> cfg.probe]
  <2>1. [threshold |-> cfg.threshold, reset |-> cfg.reset, probe |-> cfg.probe] \in Policies
    BY <1>1 DEF Policies
  <2> QED BY <2>1
<1>4. n.breaker.threshold \in Int /\ p.threshold \in Int /\ p.reset \in Int /\ p.probe \in Int
  BY DEF Policies
<1>5. PICK r, q : r = OrDefault(p.reset, 60) /\ q = OrDefault(p.probe, 5)
  OBVIOUS
<1>6. BreakerAt(n) = [p EXCEPT !.reset = r, !.probe = q]
  BY <1>3, <1>5 DEF BreakerAt
<1>7. /\ BreakerAt(n).threshold = p.threshold /\ BreakerAt(n).reset = r
      /\ BreakerAt(n).probe = q
  BY <1>6 DEF Policies
<1>8. r > 0 /\ q > 0
  BY <1>4, <1>5 DEF OrDefault
<1>9. p.threshold = IF n.breaker.threshold > 0 THEN n.breaker.threshold ELSE cfg.threshold
  BY <1>3
<1>10. p.threshold >= 0
  BY <1>1, <1>4, <1>9
<1>11. n.breaker.threshold > 0 => r = OrDefault(n.breaker.reset, 60)
  BY <1>3, <1>5
<1> QED BY <1>2, <1>7, <1>8, <1>9, <1>10, <1>11

-----------------------------------------------------------------------------
(* The invariant holds throughout. *)
LEMMA PipelineInv == PipelineSpec => []IInv
<1>1. PipelineInit => IInv
  BY PipelineInitInv
<1>2. IInv /\ [PipelineNext]_allVars => IInv'
  BY PipelineStep
<1> QED BY <1>1, <1>2, PTL DEF PipelineSpec

(* A plan built from a manifest. *)
LEMMA BuiltPlan ==
    ASSUME ManifestInv, stage = "graph"
    PROVE  /\ Follows(plan) /\ Len(plan) = Len(pipeline) /\ AgentsValid
           /\ DOMAIN plan = 1..Len(plan) /\ Len(plan) \in Nat
           /\ DOMAIN orderedNames = DOMAIN plan
           /\ \A i \in DOMAIN plan :
                 /\ plan[i].agent = orderedNames[i]
                 /\ orderedNames[i] \in Range(StepNames) /\ orderedNames[i] \in Range(AgentIDs)
                 /\ plan[i].maxAttempts = AttemptsOf(ConfigOf(orderedNames[i]))
                 /\ plan[i].breaker = BreakerPolicyOf(ConfigOf(orderedNames[i]), Runtime)
<1>1. /\ IsManifest(manifest) /\ Valid /\ Kahn
      /\ plan = buildExecutionPlan(Runtime)
      /\ Len(orderedNames) = Len(pipeline)
  BY DEF ManifestInv
<1>2. Follows(plan) /\ Layered /\ Len(plan) = Len(pipeline)
  BY <1>1, PlanLayered
<1>3. Len(pipeline) \in Nat /\ Range(StepNames) \subseteq Range(AgentIDs)
  BY <1>1, ValidFacts
<1>4. DOMAIN plan = 1..Len(plan)
  BY <1>1, <1>2 DEF Follows
<1>5. /\ DOMAIN orderedNames = 1..Len(orderedNames)
      /\ \A i \in DOMAIN orderedNames : orderedNames[i] \in Range(StepNames)
  BY <1>1 DEF Kahn
<1>6. DOMAIN orderedNames = DOMAIN plan
  BY <1>1, <1>2, <1>4, <1>5
<1>7. \A i \in DOMAIN plan :
         /\ plan[i].maxAttempts = AttemptsOf(ConfigOf(orderedNames[i]))
         /\ plan[i].breaker = BreakerPolicyOf(ConfigOf(orderedNames[i]), Runtime)
  BY <1>1, PlanFacts, Zenon DEF buildExecutionPlan
<1>8. \A i \in DOMAIN plan : plan[i].agent = orderedNames[i]
  BY <1>2 DEF Follows
<1>9. AgentsValid
  BY <1>1 DEF Valid
<1>10. ASSUME NEW i \in DOMAIN plan
       PROVE  orderedNames[i] \in Range(StepNames) /\ orderedNames[i] \in Range(AgentIDs)
  BY <1>3, <1>5, <1>6
<1> QED BY <1>2, <1>3, <1>4, <1>6, <1>7, <1>8, <1>9, <1>10

(* Two nodes of the SDK end up with one ID. *)
LEMMA RepeatedID ==
    ASSUME nodes \in Seq(SDKNodes), plan = SDKPlan, BadIDs # {}
    PROVE  /\ plan[First(BadIDs)].id # NoID
           /\ \/ Cardinality(GivenIDs) < Cardinality({i \in DOMAIN nodes : nodes[i].id # NoID})
              \/ \E i \in DOMAIN nodes : nodes[i].id = NoID /\ Generated(i) \in GivenIDs
<1>1. DOMAIN nodes = 1..Len(nodes) /\ Len(nodes) \in Nat
  OBVIOUS
<1>2. ASSUME NEW i \in DOMAIN nodes
      PROVE  nodes[i].id \in Nat /\ nodes[i] \in SDKNodes
  <2>1. nodes[i] \in SDKNodes
    BY <1>1
  <2> QED BY <2>1 DEF SDKNodes
<1>3. DOMAIN plan = DOMAIN nodes
  BY DEF SDKPlan
<1>4. ASSUME NEW i \in DOMAIN nodes
      PROVE  plan[i].id = IF nodes[i].id = NoID THEN Generated(i) ELSE nodes[i].id
  <2>1. PICK x : x = IF nodes[i].id = NoID THEN Generated(i) ELSE nodes[i].id
    OBVIOUS
  <2>2. plan[i] = [nodes[i] EXCEPT !.id = x]
    BY <2>1 DEF SDKPlan
  <2>3. plan[i].id = x
    BY <1>2, <2>2 DEF SDKNodes
  <2> QED BY <2>1, <2>3
<1>5. ASSUME NEW i \in DOMAIN nodes PROVE plan[i].id # NoID /\ Generated(i) # NoID
  BY <1>1, <1>4 DEF Generated, NoID
<1>6. BadIDs \in SUBSET Nat
  BY <1>1, <1>3 DEF BadIDs
<1>7. First(BadIDs) \in BadIDs
  <2>1. \E x \in BadIDs : \A y \in BadIDs : x <= y
    BY <1>6, Least
  <2> QED BY <2>1 DEF First
<1>8. PICK i \in DOMAIN nodes : i = First(BadIDs)
  BY <1>3, <1>7 DEF BadIDs
<1>9. PICK j \in 1..(i - 1) : plan[j].id = plan[i].id
  BY <1>5, <1>7, <1>8 DEF BadIDs
<1>10. j \in DOMAIN nodes /\ j # i
  BY <1>1, <1>8, <1>9
<1>11. ASSUME NEW a \in DOMAIN nodes, NEW b \in DOMAIN nodes, nodes[a].id = NoID,
              nodes[b].id # NoID, plan[a].id = plan[b].id
       PROVE  nodes[a].id = NoID /\ Generated(a) \in GivenIDs
  <2>1. nodes[b].id = Generated(a)
    BY <1>4, <1>11
  <2> QED BY <1>11, <2>1 DEF GivenIDs
<1>12. CASE nodes[i].id = NoID /\ nodes[j].id = NoID
  <2>1. Generated(i) = Generated(j)
    BY <1>4, <1>9, <1>10, <1>12
  <2> QED BY <1>1, <1>10, <2>1 DEF Generated
<1>13. CASE nodes[i].id # NoID /\ nodes[j].id # NoID
  <2> DEFINE S == {k \in DOMAIN nodes : nodes[k].id # NoID}
             f == [k \in S |-> nodes[k].id]
  <2>1. IsFiniteSet(DOMAIN nodes)
    BY <1>1, UpTo
  <2>2. S \in SUBSET DOMAIN nodes /\ i \in S /\ j \in S
    BY <1>10, <1>13
  <2>3. IsFiniteSet(S)
    BY <2>1, <2>2, FS_Subset, Zenon
  <2>4. f \in Surjection(S, GivenIDs)
    <3>1. f \in [S -> GivenIDs]
      BY DEF GivenIDs
    <3>2. ASSUME NEW g \in GivenIDs PROVE \E k \in S : f[k] = g
      BY DEF GivenIDs
    <3> HIDE DEF f, S
    <3> QED BY <3>1, <3>2, Zenon DEF Surjection
  <2>5. f[i] = f[j]
    BY <1>4, <1>9, <1>10, <1>13, <2>2
  <2> HIDE DEF f, S
  <2>6. f \notin Injection(S, GivenIDs)
    BY <1>10, <2>2, <2>5 DEF Injection, IsInjective
  <2>7. /\ IsFiniteSet(GivenIDs) /\ Cardinality(GivenIDs) <= Cardinality(S)
        /\ Cardinality(GivenIDs) # Cardinality(S)
    BY <2>3, <2>4, <2>6, FS_Surjection, Zenon
  <2>8. Cardinality(GivenIDs) \in Nat /\ Cardinality(S) \in Nat
    BY <2>3, <2>7, FS_CardinalityType, Zenon
  <2>9. Cardinality(GivenIDs) < Cardinality(S)
    BY <2>7, <2>8
  <2> QED BY <1>5, <1>8, <2>9 DEF S
<1> QED BY <1>5, <1>8, <1>9, <1>10, <1>11, <1>12, <1>13, Zenon

-----------------------------------------------------------------------------
(* What the invariant says of verdicts, plans and settings. *)
LEMMA InvVerdict == IInv => PlanVerdict
<1> SUFFICES ASSUME IInv PROVE PlanVerdict
  OBVIOUS
<1>1. ASSUME FromManifest
      PROVE  /\ phase # "invalid"
             /\ {plan[i].agent : i \in DOMAIN plan} \subseteq Range(AgentIDs)
             /\ manifestErr = "cycle" => PipelineCyclic
             /\ stage \in {"config", "graph"} => ~PipelineCyclic
  <2>1. ManifestInv
    BY <1>1 DEF IInv
  <2>2. /\ phase # "invalid" /\ (manifestErr = "cycle" => PipelineCyclic)
        /\ (stage \in {"config", "graph"} => ~PipelineCyclic)
    BY <2>1 DEF ManifestInv
  <2>3. CASE stage = "graph"
    <3>1. \A i \in DOMAIN plan : plan[i].agent \in Range(AgentIDs)
      BY <2>1, <2>3, BuiltPlan
    <3> QED BY <2>2, <3>1
  <2>4. CASE stage # "graph"
    <3>1. plan = << >>
      BY <2>1, <2>4 DEF ManifestInv
    <3> QED BY <2>2, <3>1
  <2> QED BY <2>3, <2>4
<1>2. ASSUME FromSDK, phase = "invalid"
      PROVE  /\ err \notin {"empty_id", "no_nodes"}
             /\ err = "duplicate_id" =>
                  \/ Cardinality(GivenIDs) < Cardinality({i \in DOMAIN nodes : nodes[i].id # NoID})
                  \/ \E i \in DOMAIN nodes : nodes[i].id = NoID /\ Generated(i) \in GivenIDs
  <2>1. SDKInv
    BY <1>2 DEF IInv, ManifestInv, FromSDK
  <2>2. /\ nodes \in Seq(SDKNodes) /\ plan = SDKPlan /\ nodes # << >>
        /\ err \in {Validation, "cycle"}
    BY <1>2, <2>1 DEF SDKInv, FromSDK, Nothing
  <2>3. plan # << >>
    <3>1. DOMAIN plan = DOMAIN nodes
      BY <2>2 DEF SDKPlan
    <3>2. DOMAIN nodes = 1..Len(nodes) /\ Len(nodes) \in Nat \ {0}
      BY <2>2
    <3> QED BY <3>1, <3>2
  <2>4. CASE BadIDs = {}
    <3>1. Validation \notin {"empty_id", "no_nodes", "duplicate_id"}
      BY <2>3, <2>4 DEF Validation
    <3> QED BY <2>2, <3>1
  <2>5. CASE BadIDs # {}
    <3>1. Validation = IF plan[First(BadIDs)].id = NoID THEN "empty_id" ELSE "duplicate_id"
      BY <2>3, <2>5 DEF Validation
    <3>2. Validation = "duplicate_id"
      BY <2>2, <2>5, <3>1, RepeatedID
    <3>3. \/ Cardinality(GivenIDs) < Cardinality({i \in DOMAIN nodes : nodes[i].id # NoID})
          \/ \E i \in DOMAIN nodes : nodes[i].id = NoID /\ Generated(i) \in GivenIDs
      BY <2>2, <2>5, RepeatedID
    <3>4. err \notin {"empty_id", "no_nodes"}
      BY <2>2, <3>2
    <3> QED BY <3>3, <3>4, Zenon
  <2> QED BY <2>4, <2>5, Zenon
<1> QED BY <1>1, <1>2, Zenon DEF PlanVerdict

LEMMA InvFollows == IInv => PlanFollowsManifest
<1> SUFFICES ASSUME IInv, FromManifest, stage = "graph" PROVE PlanFollowsManifest
  BY DEF PlanFollowsManifest
<1>1. ManifestInv
  BY DEF IInv
<1>2. /\ Follows(plan) /\ Len(plan) = Len(pipeline)
      /\ DOMAIN plan = 1..Len(plan) /\ Len(plan) \in Nat
      /\ DOMAIN orderedNames = DOMAIN plan
      /\ \A i \in DOMAIN plan : plan[i].agent = orderedNames[i]
  BY <1>1, BuiltPlan
<1>3. Range(orderedNames) = Range(StepNames)
  BY <1>1 DEF ManifestInv
<1>4. {plan[i].agent : i \in DOMAIN plan} = Range(StepNames)
  BY <1>2, <1>3 DEF Range
<1>5. ASSUME NEW i \in DOMAIN plan
      PROVE  LET p == StepOf(plan[i].agent) IN
             /\ plan[i].id = i
             /\ [k \in DOMAIN plan[i].dependsOn |-> plan[plan[i].dependsOn[k]].agent]
                   = IF p.dependsOn = NoName THEN << >> ELSE << p.dependsOn >>
             /\ \A d \in Range(plan[i].dependsOn) : d < i
  <2> DEFINE p == StepOf(plan[i].agent)
             D == [k \in DOMAIN plan[i].dependsOn |-> plan[plan[i].dependsOn[k]].agent]
  <2>1. /\ plan[i].id = i
        /\ \/ plan[i].dependsOn = << >> /\ p.dependsOn = NoName
           \/ \E d \in 1..(i - 1) :
                 /\ plan[i].dependsOn = << d >> /\ orderedNames[d] = p.dependsOn
                 /\ p.dependsOn # NoName
    BY <1>2 DEF Follows
  <2> HIDE DEF p
  <2>2. CASE plan[i].dependsOn = << >> /\ p.dependsOn = NoName
    <3>1. D = << >> /\ Range(plan[i].dependsOn) = {}
      BY <2>2 DEF Range
    <3> QED BY <2>1, <2>2, <3>1 DEF p
  <2>3. CASE \E d \in 1..(i - 1) :
                 /\ plan[i].dependsOn = << d >> /\ orderedNames[d] = p.dependsOn
                 /\ p.dependsOn # NoName
    <3>1. PICK d \in 1..(i - 1) : /\ plan[i].dependsOn = << d >>
                                  /\ orderedNames[d] = p.dependsOn /\ p.dependsOn # NoName
      BY <2>3
    <3>2. i \in 1..Len(plan) /\ d \in DOMAIN plan /\ d < i
      BY <1>2
    <3>3. plan[d].agent = p.dependsOn
      BY <1>2, <3>1, <3>2
    <3>4. D = << p.dependsOn >>
      BY <3>1, <3>3
    <3>5. Range(plan[i].dependsOn) = {d}
      BY <3>1 DEF Range
    <3> HIDE DEF D
    <3> QED BY <2>1, <3>1, <3>2, <3>4, <3>5 DEF p, D
  <2> QED BY <2>1, <2>2, <2>3
<1> QED BY <1>2, <1>4, <1>5 DEF PlanFollowsManifest

LEMMA InvSettings == IInv => SettingsUsable
<1> SUFFICES ASSUME IInv, stage = "graph", cfg # Nothing PROVE SettingsUsable
  BY DEF SettingsUsable
<1>1. CASE FromManifest
  <2>1. /\ ManifestInv /\ IsManifest(manifest) /\ IsEnv(env) /\ manifest.timeout # Malformed
        /\ cfg = NewEngine(Runtime)
    BY <1>1 DEF IInv, ManifestInv
  <2>2. /\ Runtime \in RouterConfigs
        /\ Runtime.pool = IF manifest.pool > 0 THEN manifest.pool ELSE IfPositive(env.pool, 10)
        /\ Runtime.timeout = IF manifest.timeout = Absent THEN IfPositive(env.timeout, 30)
                             ELSE manifest.timeout.n
        /\ Runtime.threshold \in Nat
        /\ Runtime.reset = IfPositive(env.reset, 60) /\ Runtime.reset \in Nat \ {0}
        /\ Runtime.probe \in Nat \ {0}
    BY <2>1, RuntimeFacts
  <2>3. /\ cfg \in UsableConfigs /\ cfg.pool = OrDefault(Runtime.pool, 1)
        /\ cfg.timeout = OrDefault(Runtime.timeout, 30)
        /\ cfg.threshold = OrDefault(Runtime.threshold, 0)
    BY <2>1, <2>2, NewEngineUsable, Zenon
  <2>4. cfg.pool >= 1 /\ cfg.timeout > 0
    BY <2>3 DEF UsableConfigs
  <2>5. cfg.pool = IfPositive(Number(manifest.pool), IfPositive(env.pool, 10))
    <3>1. manifest.pool \in Int /\ IfPositive(env.pool, 10) \in Nat \ {0}
      BY <2>1, SettingFacts DEF IsManifest, IsEnv
    <3>2. IfPositive(Number(manifest.pool), IfPositive(env.pool, 10)) = Runtime.pool
      BY <2>2 DEF IfPositive, Number, Setting
    <3> QED BY <2>2, <2>3, <3>1, <3>2 DEF OrDefault
  <2>6. cfg.timeout = IF manifest.timeout = Absent THEN IfPositive(env.timeout, 30)
                      ELSE IfPositive(manifest.timeout, 30)
    <3>1. IsSetting(manifest.timeout) /\ IfPositive(env.timeout, 30) \in Nat \ {0}
      BY <2>1, SettingFacts DEF IsManifest, IsEnv
    <3>2. CASE manifest.timeout = Absent
      BY <2>2, <2>3, <3>1, <3>2 DEF OrDefault
    <3>3. CASE manifest.timeout # Absent
      BY <2>1, <2>2, <2>3, <3>1, <3>3, SettingFacts
    <3> QED BY <3>2, <3>3
  <2>7. ASSUME NEW i \in DOMAIN plan
        PROVE  LET a == ConfigOf(plan[i].agent)  b == BreakerAt(plan[i]) IN
               /\ AttemptsAt(plan[i]) >= 1 /\ b.threshold >= 0 /\ b.reset > 0 /\ b.probe > 0
               /\ a.maxAttempts > 0 => AttemptsAt(plan[i]) = a.maxAttempts
               /\ a.threshold > 0 => b.threshold = a.threshold
               /\ b.threshold > 0 => b.reset = IF a.reset = Absent
                                               THEN IfPositive(env.reset, 60)
                                               ELSE IfPositive(a.reset, 60)
    <3>1. PICK a, n : a = ConfigOf(plan[i].agent) /\ n = plan[i]
      OBVIOUS
    <3>2. /\ AgentsValid /\ plan[i].agent \in Range(AgentIDs)
          /\ n.maxAttempts = AttemptsOf(a) /\ n.breaker = BreakerPolicyOf(a, Runtime)
      BY <2>1, <3>1, BuiltPlan
    <3>3. IsAgent(a) /\ a.threshold >= 0 /\ a.reset # Malformed /\ a.probe # Malformed
      BY <2>1, <3>1, <3>2, ConfigFacts, Zenon
    <3>4. /\ n.breaker \in Policies /\ n.breaker.reset > 0
          /\ n.breaker.threshold = IF a.threshold > 0 THEN a.threshold ELSE Runtime.threshold
          /\ n.breaker.reset = IF a.reset = Absent THEN Runtime.reset
                               ELSE IfPositive(a.reset, 60)
      <4>1. PICK c, b : c = Runtime /\ b = BreakerPolicyOf(a, c)
        OBVIOUS
      <4>2. c.threshold \in Nat /\ c.reset \in Nat \ {0} /\ c.probe \in Nat \ {0}
        BY <2>2, <4>1
      <4>3. /\ b \in Policies /\ b.reset > 0
            /\ b.threshold = IF a.threshold > 0 THEN a.threshold ELSE c.threshold
            /\ b.reset = IF a.reset = Absent THEN c.reset ELSE IfPositive(a.reset, 60)
        BY <3>3, <4>1, <4>2, PolicyFacts
      <4> QED BY <3>2, <4>1, <4>3
    <3>5. /\ a.maxAttempts \in Int /\ a.threshold \in Nat
          /\ n.maxAttempts \in Int /\ (a.maxAttempts > 0 => n.maxAttempts = a.maxAttempts)
      BY <3>2, <3>3 DEF IsAgent, AttemptsOf, OrDefault
    <3>6. /\ AttemptsAt(n) >= 1 /\ BreakerAt(n).threshold >= 0 /\ BreakerAt(n).reset > 0
          /\ BreakerAt(n).probe > 0
          /\ n.maxAttempts > 0 => AttemptsAt(n) = n.maxAttempts
          /\ BreakerAt(n).threshold = IF n.breaker.threshold > 0 THEN n.breaker.threshold
                                      ELSE cfg.threshold
          /\ n.breaker.threshold > 0 => BreakerAt(n).reset = OrDefault(n.breaker.reset, 60)
      BY <2>3, <3>4, <3>5, NodeUsable, Zenon
    <3>7. n.breaker.threshold \in Int /\ n.breaker.reset \in Int
      BY <3>4 DEF Policies
    <3>8. n.breaker.threshold <= 0 => BreakerAt(n).threshold = 0
      BY <2>2, <2>3, <3>4, <3>5, <3>6, <3>7 DEF OrDefault
    <3>9. n.breaker.threshold > 0 => BreakerAt(n).reset = n.breaker.reset
      BY <3>4, <3>6, <3>7 DEF OrDefault
    <3>10. BreakerAt(n).threshold > 0 =>
             BreakerAt(n).reset = IF a.reset = Absent THEN IfPositive(env.reset, 60)
                                  ELSE IfPositive(a.reset, 60)
      BY <2>2, <3>4, <3>7, <3>8, <3>9
    <3>11. a.threshold > 0 => BreakerAt(n).threshold = a.threshold
      BY <3>4, <3>5, <3>6
    <3> QED BY <3>1, <3>5, <3>6, <3>10, <3>11
  <2> QED BY <2>4, <2>5, <2>6, <2>7, Zenon DEF SettingsUsable
<1>2. CASE ~FromManifest
  <2>1. cfg \in UsableConfigs /\ plan = SDKPlan /\ nodes \in Seq(SDKNodes)
    BY <1>2 DEF IInv, SDKInv
  <2>2. cfg.pool >= 1 /\ cfg.timeout > 0
    BY <2>1 DEF UsableConfigs
  <2>3. ASSUME NEW i \in DOMAIN plan
        PROVE  plan[i].maxAttempts \in Int /\ plan[i].breaker \in Policies
    <3>1. nodes[i] \in SDKNodes
      BY <2>1 DEF SDKPlan
    <3>2. PICK x : plan[i] = [nodes[i] EXCEPT !.id = x]
      BY <2>1 DEF SDKPlan
    <3>3. nodes[i].maxAttempts \in Int /\ nodes[i].breaker \in Policies
      BY <3>1 DEF SDKNodes
    <3>4. plan[i].maxAttempts = nodes[i].maxAttempts /\ plan[i].breaker = nodes[i].breaker
      BY <3>1, <3>2 DEF SDKNodes
    <3> QED BY <3>3, <3>4
  <2>4. ASSUME NEW i \in DOMAIN plan
        PROVE  LET b == BreakerAt(plan[i]) IN
               AttemptsAt(plan[i]) >= 1 /\ b.threshold >= 0 /\ b.reset > 0 /\ b.probe > 0
    BY <2>1, <2>3, NodeUsable, Zenon
  <2> QED BY <1>2, <2>2, <2>4, Zenon DEF SettingsUsable
<1> QED BY <1>1, <1>2

(* Whatever manifests, SDK programs and plans there are: a manifest that     *)
(* LoadManifest accepts gives a plan that buildGraph accepts and whose       *)
(* agents are registered, OrderedPipeline reports a cycle for exactly the    *)
(* pipelines that have one, and nodes of the SDK without IDs clash only if   *)
(* the caller's own IDs do.                                                  *)
THEOREM ManifestsAccepted == PipelineSpec => []PlanVerdict
  BY PipelineInv, InvVerdict, PTL

(* The plan buildExecutionPlan makes of any manifest is its pipeline: the    *)
(* same steps, each after the one it depends on and with that dependency     *)
(* alone, and with IDs that grow along dependencies.                         *)
THEOREM PlansFollow == PipelineSpec => []PlanFollowsManifest
  BY PipelineInv, InvFollows, PTL

(* Whatever the environment, the manifest or an SDK program set, NewEngine   *)
(* and executeNode end up with a pool that has room, a timeout in the        *)
(* future, an attempt to make and a circuit that can be probed, and with the *)
(* setting that the order of precedence names.                               *)
THEOREM ConfigUsable == PipelineSpec => []SettingsUsable
  BY PipelineInv, InvSettings, PTL
=============================================================================
