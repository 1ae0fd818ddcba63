------------------------- MODULE EngineTraceProofs -------------------------
(***************************************************************************)
(* TLAPS proofs about what a run of RunPlan leaves behind, on top of the   *)
(* invariants of EngineProofs: the counters of the metrics recorder agree  *)
(* with the recorded steps, and the returned trace accounts for every      *)
(* result.  The last part follows the nodes of a deterministic plan        *)
(* through an undisturbed run, for TraceReplayProofs.                      *)
(***************************************************************************)
EXTENDS EngineProofs, TraceReplay

(* What a sequence with one more member holds. *)
LEMMA Appended ==
    ASSUME NEW S, NEW s \in Seq(S), NEW x, NEW t, t = Append(s, x)
    PROVE  /\ Len(s) \in Nat /\ DOMAIN s = 1..Len(s) /\ DOMAIN t = 1..(Len(s) + 1)
           /\ \A i \in 1..Len(s) : t[i] = s[i]
           /\ t[Len(s) + 1] = x
OBVIOUS

(* What a recorded step holds. *)
LEMMA StepParts ==
    ASSUME NEW n, NEW k, NEW e
    PROVE  Step(n, k, e).inv = n /\ Step(n, k, e).attempt = k /\ Step(n, k, e).err = e
BY DEF Step

(* How many members of s are in K. *)
Occurrences(s, K) == Cardinality({i \in DOMAIN s : s[i] \in K})

(* Appending a member counts it. *)
LEMMA OneMore ==
    ASSUME NEW S, NEW s \in Seq(S), NEW x, NEW K
    PROVE  /\ Occurrences(s, K) \in Nat
           /\ x \in K => Occurrences(Append(s, x), K) = Occurrences(s, K) + 1
           /\ x \notin K => Occurrences(Append(s, x), K) = Occurrences(s, K)
<1> DEFINE N == Len(s)  t == Append(s, x)
           I == {i \in DOMAIN s : s[i] \in K}  J == {i \in DOMAIN t : t[i] \in K}
<1>1. /\ N \in Nat /\ DOMAIN s = 1..N /\ DOMAIN t = 1..(N + 1) /\ t[N + 1] = x
      /\ \A i \in 1..N : t[i] = s[i]
  OBVIOUS
<1>2. /\ x \in K => J = I \cup {N + 1}
      /\ x \notin K => J = I
      /\ N + 1 \notin I /\ I \subseteq 1..N
  BY <1>1
<1> HIDE DEF I, J, N, t
<1>3. IsFiniteSet(I) /\ Cardinality(I) \in Nat
  BY <1>1, <1>2, UpTo, FS_Subset, FS_CardinalityType, Zenon
<1>4. Cardinality(I \cup {N + 1}) = Cardinality(I) + 1
  BY <1>2, <1>3, FS_AddElement, Zenon
<1> QED BY <1>2, <1>3, <1>4, Zenon DEF Occurrences, I, J, t

(* The steps of executed attempts of the agents A, *)
Executed(A) == {t \in StepRecords : t.inv \in IDs /\ t.attempt > 0 /\ AgentOf(t.inv) \in A}

(* the failed, the refused and the retried ones. *)
Failures == {t \in StepRecords : t.err # NoErr}
Refusals == {t \in StepRecords : t.err = CircuitOpen}
Repeated == {t \in StepRecords : /\ t.err \notin {NoErr, Unregistered} /\ shouldRetry(t.err)
                                 /\ t.attempt # MaxAttempts(t.inv)}

(* The counters are those of the recorded steps. *)
Tallied ==
    /\ \A a \in Agents :
         /\ metrics.byAgent[a].successes = Occurrences(steps, Executed({a}) \ Failures)
         /\ metrics.byAgent[a].errors = Occurrences(steps, Executed({a}) \cap Failures)
         /\ metrics.byAgent[a].opens = Occurrences(steps, Executed({a}) \cap Refusals)
         /\ metrics.byAgent[a].retries = Occurrences(steps, Executed({a}) \cap Repeated)
    /\ metrics.total = Occurrences(steps, Executed(Agents))
    /\ metrics.errors = Occurrences(steps, Executed(Agents) \cap Failures)
    /\ metrics.opens = Occurrences(steps, Executed(Agents) \cap Refusals)
    /\ metrics.retries = Occurrences(steps, Executed(Agents) \cap Repeated)

(* The classes of steps do not change. *)
LEMMA ClassesKept ==
    ASSUME [Next]_vars
    PROVE  /\ Agents' = Agents /\ Failures' = Failures /\ Refusals' = Refusals /\ Repeated' = Repeated
           /\ \A A : Executed(A)' = Executed(A)
  BY PlanKept DEF Failures, Refusals, Repeated, Executed

(* A step that is no executed attempt is not counted. *)
LEMMA NotCounted ==
    ASSUME Tallied, Values, [Next]_vars, metrics' = metrics,
           NEW x, steps' = Append(steps, x), \A A : x \notin Executed(A)
    PROVE  Tallied'
<1>1. steps \in Seq(StepRecords)
  BY DEF Values
<1>2. \A A, K : /\ Occurrences(steps', Executed(A) \cap K) = Occurrences(steps, Executed(A) \cap K)
                /\ Occurrences(steps', Executed(A) \ K) = Occurrences(steps, Executed(A) \ K)
                /\ Occurrences(steps', Executed(A)) = Occurrences(steps, Executed(A))
  BY <1>1, OneMore
<1>3. /\ Agents' = Agents /\ Failures' = Failures /\ Refusals' = Refusals /\ Repeated' = Repeated
      /\ \A A : Executed(A)' = Executed(A)
  BY ClassesKept
<1>4. ASSUME NEW A
      PROVE  /\ Occurrences(steps, Executed(A) \ Failures)' = Occurrences(steps, Executed(A) \ Failures)
             /\ Occurrences(steps, Executed(A) \cap Failures)' = Occurrences(steps, Executed(A) \cap Failures)
             /\ Occurrences(steps, Executed(A) \cap Refusals)' = Occurrences(steps, Executed(A) \cap Refusals)
             /\ Occurrences(steps, Executed(A) \cap Repeated)' = Occurrences(steps, Executed(A) \cap Repeated)
             /\ Occurrences(steps, Executed(A))' = Occurrences(steps, Executed(A))
  BY <1>2, <1>3, Zenon
<1> QED BY <1>3, <1>4, Zenon DEF Tallied

(* The failed call of attempt k with error e is followed by another. *)
IsRepeated(n, k, e) == e \notin {NoErr, Unregistered} /\ shouldRetry(e) /\ k # MaxAttempts(n)

(* To which classes a recorded step belongs. *)
LEMMA StepClasses ==
    ASSUME EInv, NEW n \in IDs, NEW k \in Nat \ {0}, NEW e \in Errors, NEW A
    PROVE  LET x == Step(n, k, e) IN
           /\ x \in Executed(A) <=> AgentOf(n) \in A
           /\ x \in Failures <=> e # NoErr
           /\ x \in Refusals <=> e = CircuitOpen
           /\ x \in Repeated <=> IsRepeated(n, k, e)
<1> DEFINE x == Step(n, k, e)
<1>1. x \in StepRecords /\ x.inv = n /\ x.attempt = k /\ x.err = e
  BY IDsInt DEF Step, StepRecords, EInv, Frame
<1> QED BY <1>1 DEF Executed, Failures, Refusals, Repeated, IsRepeated

(* What recording a step adds to a count. *)
LEMMA CountAfter ==
    ASSUME Values, NEW n, NEW k, NEW e, steps' = AddStep(n, k, e), NEW K
    PROVE  /\ Step(n, k, e) \in K => Occurrences(steps', K) = Occurrences(steps, K) + 1
           /\ Step(n, k, e) \notin K => Occurrences(steps', K) = Occurrences(steps, K)
           /\ Occurrences(steps, K) \in Nat
<1>1. steps \in Seq(StepRecords) /\ steps' = Append(steps, Step(n, k, e))
  BY Appended, Zenon DEF Values, AddStep
<1> QED BY <1>1, OneMore

(* What a step adds to the failures, refusals and retries. *)
Adds(n, k, e, f, o, r) ==
    /\ f = IF e # NoErr THEN 1 ELSE 0
    /\ o = IF e = CircuitOpen THEN 1 ELSE 0
    /\ r = IF IsRepeated(n, k, e) THEN 1 ELSE 0

(* What an attempt adds to the metrics. *)
Observed(m, o, a, f, p, r) ==
    /\ o.total = m.total + 1 /\ o.errors = m.errors + f
    /\ o.opens = m.opens + p /\ o.retries = m.retries + r
    /\ o.byAgent[a].successes = m.byAgent[a].successes + 1 - f
    /\ o.byAgent[a].errors = m.byAgent[a].errors + f
    /\ o.byAgent[a].opens = m.byAgent[a].opens + p
    /\ o.byAgent[a].retries = m.byAgent[a].retries + r
    /\ \A b \in Agents \ {a} : o.byAgent[b] = m.byAgent[b]

(* What the recorder is told of the four ways an attempt ends. *)
LEMMA AttemptObserved ==
    ASSUME NEW m \in Metrics, NEW a \in Agents
    PROVE  /\ Observed(m, ObserveInvocation(m, a, "success"), a, 0, 0, 0)
           /\ Observed(m, ObserveInvocation(m, a, "error"), a, 1, 0, 0)
           /\ Observed(m, ObserveCircuitOpen(ObserveInvocation(m, a, "circuit_open"), a), a, 1, 1, 0)
           /\ Observed(m, ObserveRetry(ObserveInvocation(m, a, "error"), a), a, 1, 0, 1)
<1>1. /\ m.opens \in Nat /\ m.retries \in Nat /\ m.errors \in Nat
      /\ m.byAgent[a].successes \in Nat /\ m.byAgent[a].errors \in Nat
      /\ m.byAgent[a].opens \in Nat /\ m.byAgent[a].retries \in Nat
  BY DEF Metrics, Counters
<1>2. ASSUME NEW s, NEW f, f = IF s = "success" THEN 0 ELSE 1
      PROVE  ObserveInvocation(m, a, s) \in Metrics /\ Observed(m, ObserveInvocation(m, a, s), a, f, 0, 0)
  BY <1>1, <1>2, InvocationObserved DEF Observed
<1>3. ASSUME NEW c \in Metrics, Observed(m, c, a, 1, 0, 0)
      PROVE  /\ Observed(m, ObserveCircuitOpen(c, a), a, 1, 1, 0)
             /\ Observed(m, ObserveRetry(c, a), a, 1, 0, 1)
  <2>1. Observed(m, ObserveCircuitOpen(c, a), a, 1, 1, 0)
    BY <1>1, <1>3, CircuitOpenObserved DEF Observed
  <2>2. Observed(m, ObserveRetry(c, a), a, 1, 0, 1)
    BY <1>1, <1>3, RetryObserved DEF Observed
  <2> QED BY <2>1, <2>2
<1> QED BY <1>2, <1>3

(* An attempt that has been executed is counted once. *)
LEMMA AttemptCounted ==
    ASSUME EInv, Values, Tallied, [Next]_vars, NEW n \in IDs, NEW k \in Nat \ {0}, NEW e \in Errors,
           steps' = AddStep(n, k, e), NEW f, NEW o, NEW r, Adds(n, k, e, f, o, r), NEW a, a = AgentOf(n),
           Observed(metrics, metrics', a, f, o, r)
    PROVE  Tallied'
<1>1. AgentOf(n) \in Agents /\ Agents' = Agents
  BY NodeFacts, PlanKept DEF EInv, Frame, IInv, Phases, Values
<1>2. ASSUME NEW A, AgentOf(n) \in A
      PROVE  /\ Occurrences(steps, Executed(A) \ Failures)'
                  = Occurrences(steps, Executed(A) \ Failures) + 1 - f
             /\ Occurrences(steps, Executed(A) \cap Failures)'
                  = Occurrences(steps, Executed(A) \cap Failures) + f
             /\ Occurrences(steps, Executed(A) \cap Refusals)'
                  = Occurrences(steps, Executed(A) \cap Refusals) + o
             /\ Occurrences(steps, Executed(A) \cap Repeated)'
                  = Occurrences(steps, Executed(A) \cap Repeated) + r
             /\ Occurrences(steps, Executed(A))' = Occurrences(steps, Executed(A)) + 1
  <2>1. /\ Step(n, k, e) \in Executed(A)
        /\ Step(n, k, e) \in Failures <=> f = 1
        /\ Step(n, k, e) \in Refusals <=> o = 1
        /\ Step(n, k, e) \in Repeated <=> r = 1
        /\ f \in {0, 1} /\ o \in {0, 1} /\ r \in {0, 1}
    BY StepClasses, <1>2 DEF Adds
  <2>2. /\ Failures' = Failures /\ Refusals' = Refusals /\ Repeated' = Repeated
        /\ Executed(A)' = Executed(A)
    BY ClassesKept
  <2>3. Occurrences(steps, Executed(A) \ Failures)'
           = Occurrences(steps, Executed(A) \ Failures) + 1 - f
    BY <2>1, <2>2, CountAfter
  <2>4. Occurrences(steps, Executed(A) \cap Failures)'
           = Occurrences(steps, Executed(A) \cap Failures) + f
    BY <2>1, <2>2, CountAfter
  <2>5. Occurrences(steps, Executed(A) \cap Refusals)'
           = Occurrences(steps, Executed(A) \cap Refusals) + o
    BY <2>1, <2>2, CountAfter
  <2>6. Occurrences(steps, Executed(A) \cap Repeated)'
           = Occurrences(steps, Executed(A) \cap Repeated) + r
    BY <2>1, <2>2, CountAfter
  <2>7. Occurrences(steps, Executed(A))' = Occurrences(steps, Executed(A)) + 1
    BY <2>1, <2>2, CountAfter
  <2> QED BY <2>3, <2>4, <2>5, <2>6, <2>7
<1>3. ASSUME NEW A, AgentOf(n) \notin A
      PROVE  /\ Occurrences(steps, Executed(A) \ Failures)' = Occurrences(steps, Executed(A) \ Failures)
             /\ Occurrences(steps, Executed(A) \cap Failures)' = Occurrences(steps, Executed(A) \cap Failures)
             /\ Occurrences(steps, Executed(A) \cap Refusals)' = Occurrences(steps, Executed(A) \cap Refusals)
             /\ Occurrences(steps, Executed(A) \cap Repeated)' = Occurrences(steps, Executed(A) \cap Repeated)
  <2>1. Step(n, k, e) \notin Executed(A)
    BY StepClasses, <1>3
  <2>2. /\ Failures' = Failures /\ Refusals' = Refusals /\ Repeated' = Repeated
        /\ Executed(A)' = Executed(A)
    BY ClassesKept
  <2> QED BY <2>1, <2>2, CountAfter
<1>4. ASSUME NEW A, A = Agents
      PROVE  /\ metrics'.total = Occurrences(steps, Executed(A))'
             /\ metrics'.errors = Occurrences(steps, Executed(A) \cap Failures)'
             /\ metrics'.opens = Occurrences(steps, Executed(A) \cap Refusals)'
             /\ metrics'.retries = Occurrences(steps, Executed(A) \cap Repeated)'
  <2>1. /\ Occurrences(steps, Executed(A))' = Occurrences(steps, Executed(A)) + 1
        /\ Occurrences(steps, Executed(A) \cap Failures)'
             = Occurrences(steps, Executed(A) \cap Failures) + f
        /\ Occurrences(steps, Executed(A) \cap Refusals)'
             = Occurrences(steps, Executed(A) \cap Refusals) + o
        /\ Occurrences(steps, Executed(A) \cap Repeated)'
             = Occurrences(steps, Executed(A) \cap Repeated) + r
    <3>1. AgentOf(n) \in A
      BY <1>1, <1>4
    <3> QED BY <3>1, <1>2, Zenon
  <2> QED BY <1>4, <2>1 DEF Tallied, Observed
<1>5. ASSUME NEW b \in Agents, NEW A, A = {b}
      PROVE  /\ metrics'.byAgent[b].successes = Occurrences(steps, Executed(A) \ Failures)'
             /\ metrics'.byAgent[b].errors = Occurrences(steps, Executed(A) \cap Failures)'
             /\ metrics'.byAgent[b].opens = Occurrences(steps, Executed(A) \cap Refusals)'
             /\ metrics'.byAgent[b].retries = Occurrences(steps, Executed(A) \cap Repeated)'
  <2>1. /\ metrics.byAgent[b].successes = Occurrences(steps, Executed(A) \ Failures)
        /\ metrics.byAgent[b].errors = Occurrences(steps, Executed(A) \cap Failures)
        /\ metrics.byAgent[b].opens = Occurrences(steps, Executed(A) \cap Refusals)
        /\ metrics.byAgent[b].retries = Occurrences(steps, Executed(A) \cap Repeated)
    BY <1>5, Zenon DEF Tallied
  <2>2. CASE b = a
    <3>1. /\ Occurrences(steps, Executed(A) \ Failures)'
               = Occurrences(steps, Executed(A) \ Failures) + 1 - f
          /\ Occurrences(steps, Executed(A) \cap Failures)'
               = Occurrences(steps, Executed(A) \cap Failures) + f
          /\ Occurrences(steps, Executed(A) \cap Refusals)'
               = Occurrences(steps, Executed(A) \cap Refusals) + o
          /\ Occurrences(steps, Executed(A) \cap Repeated)'
               = Occurrences(steps, Executed(A) \cap Repeated) + r
      <4>1. AgentOf(n) \in A
        BY <1>5, <2>2
      <4> QED BY <4>1, <1>2, Zenon
    <3> QED BY <2>1, <2>2, <3>1 DEF Observed
  <2>3. CASE b # a
    <3>1. AgentOf(n) \notin A
      BY <1>5, <2>3
    <3>2. /\ Occurrences(steps, Executed(A) \ Failures)' = Occurrences(steps, Executed(A) \ Failures)
          /\ Occurrences(steps, Executed(A) \cap Failures)' = Occurrences(steps, Executed(A) \cap Failures)
          /\ Occurrences(steps, Executed(A) \cap Refusals)' = Occurrences(steps, Executed(A) \cap Refusals)
          /\ Occurrences(steps, Executed(A) \cap Repeated)' = Occurrences(steps, Executed(A) \cap Repeated)
      BY <3>1, <1>3, Zenon
    <3> QED BY <2>1, <2>3, <3>2 DEF Observed
  <2> QED BY <2>2, <2>3
<1> QED BY <1>1, <1>4, <1>5, Zenon DEF Tallied

-----------------------------------------------------------------------------
(* Nothing is recorded and nothing counted at the start. *)
LEMMA InitCounted == Init => Tallied
<1> SUFFICES ASSUME Init PROVE Tallied
  OBVIOUS
<1>1. \A K : Occurrences(<< >>, K) = 0
  <2>1. Cardinality({}) = 0
    BY FS_EmptySet
  <2>2. \A K : {i \in DOMAIN << >> : << >>[i] \in K} = {}
    OBVIOUS
  <2> QED BY <2>1, <2>2 DEF Occurrences
<1>2. steps = << >> 
  BY DEF Init
<1>3. \A a \in Agents : /\ metrics.byAgent[a].successes = 0 /\ metrics.byAgent[a].errors = 0
                        /\ metrics.byAgent[a].opens = 0 /\ metrics.byAgent[a].retries = 0
  BY DEF Init
<1>4. metrics.total = 0 /\ metrics.errors = 0 /\ metrics.opens = 0 /\ metrics.retries = 0
  BY DEF Init
<1> QED BY <1>1, <1>2, <1>3, <1>4 DEF Tallied

(* A step of a node counts what it records, *)
LEMMA NodeCounted ==
    ASSUME EInv, Values, Limits, Tallied, NEW n \in IDs, Node(n), [Next]_vars
    PROVE  Tallied'
<1>1. /\ AgentOf(n) \in Agents /\ metrics \in Metrics /\ attempt[n] \in Nat /\ plan \in Plans
      /\ pc[n] \in Running => attempt[n] \in Nat \ {0}
  BY NodeFacts DEF EInv, Frame, IInv, Phases, Values, Limits
<1>2. /\ {NoErr, CtxErr, CircuitOpen, Unregistered} \subseteq Errors
      /\ NoErr \notin {CircuitOpen, Unregistered} /\ CircuitOpen # Unregistered
      /\ \A raw \in MayReturn(n) \ {NoErr} :
            LET e == normalizeInvocationError(raw)
            IN  e \in Errors /\ e \notin {NoErr, CircuitOpen, Unregistered}
  BY <1>1, EngineErrors, CallErrors DEF OwnErrors
<1>3. ASSUME UNCHANGED <<steps, metrics>> PROVE Tallied'
  BY <1>3, ClassesKept, Zenon DEF Tallied
<1> DEFINE a == AgentOf(n)
<1>o. /\ Observed(metrics, ObserveInvocation(metrics, a, "success"), a, 0, 0, 0)
      /\ Observed(metrics, ObserveInvocation(metrics, a, "error"), a, 1, 0, 0)
      /\ Observed(metrics, ObserveCircuitOpen(ObserveInvocation(metrics, a, "circuit_open"), a), a, 1, 1, 0)
      /\ Observed(metrics, ObserveRetry(ObserveInvocation(metrics, a, "error"), a), a, 1, 0, 1)
  BY <1>1, AttemptObserved
<1>4. CASE StartNode(n)
  <2>1. CASE steps' = AddStep(n, 1, Unregistered) /\ metrics' = ObserveInvocation(metrics, a, "error")
    <3>1. Adds(n, 1, Unregistered, 1, 0, 0)
      BY <1>2 DEF Adds, IsRepeated
    <3> QED BY <1>2, <1>o, <2>1, <3>1, AttemptCounted
  <2> QED BY <1>3, <1>4, <2>1 DEF StartNode
<1>5. CASE Allow(n)
  <2>1. CASE /\ steps' = AddStep(n, attempt[n], CircuitOpen)
             /\ metrics' = ObserveCircuitOpen(ObserveInvocation(metrics, a, "circuit_open"), a)
    <3>1. Adds(n, attempt[n], CircuitOpen, 1, 1, 0)
      <4>1. ~shouldRetry(CircuitOpen)
        BY DEF shouldRetry, CircuitOpen, NonRetryable, Error
      <4> QED BY <1>2, <4>1 DEF Adds, IsRepeated
    <3>2. attempt[n] \in Nat \ {0}
      BY <1>1, <1>5 DEF Allow, Running
    <3> QED BY <1>2, <1>o, <2>1, <3>1, <3>2, AttemptCounted
  <2> QED BY <1>3, <1>5, <2>1 DEF Allow
<1>6. CASE CallSucceeds(n)
  <2>1. Adds(n, attempt[n], NoErr, 0, 0, 0)
    BY <1>2 DEF Adds, IsRepeated
  <2>2. attempt[n] \in Nat \ {0}
    BY <1>1, <1>6 DEF CallSucceeds, Running
  <2> QED BY <1>2, <1>6, <1>o, <2>1, <2>2, AttemptCounted DEF CallSucceeds
<1>7. ASSUME NEW raw \in MayReturn(n) \ {NoErr}, CallFails(n, raw) PROVE Tallied'
  <2> DEFINE e == normalizeInvocationError(raw)
  <2>1. /\ attempt[n] \in Nat \ {0} /\ steps' = AddStep(n, attempt[n], e)
        /\ e \in Errors /\ e \notin {NoErr, CircuitOpen, Unregistered}
    BY <1>1, <1>2, <1>7 DEF CallFails, Running
  <2> HIDE DEF e
  <2>2. CASE GivesUp(n, e)
    <3>1. Adds(n, attempt[n], e, 1, 0, 0)
      BY <2>1, <2>2 DEF Adds, IsRepeated, GivesUp
    <3>2. metrics' = ObserveInvocation(metrics, a, "error")
      BY <1>7, <2>2 DEF CallFails, e
    <3> QED BY <1>o, <2>1, <3>1, <3>2, AttemptCounted
  <2>3. CASE ~GivesUp(n, e)
    <3>1. Adds(n, attempt[n], e, 1, 0, 1)
      BY <2>1, <2>3 DEF Adds, IsRepeated, GivesUp
    <3>2. metrics' = ObserveRetry(ObserveInvocation(metrics, a, "error"), a)
      BY <1>7, <2>3 DEF CallFails, e
    <3> QED BY <1>o, <2>1, <3>1, <3>2, AttemptCounted
  <2> QED BY <2>2, <2>3
<1>8. CASE BackoffElapsed(n) \/ BackoffCancelled(n) \/ Return(n)
  BY <1>3, <1>8 DEF BackoffElapsed, BackoffCancelled, Return
<1> QED BY <1>4, <1>5, <1>6, <1>7, <1>8 DEF Node

(* and so does every step. *)
LEMMA CountedStep ==
    ASSUME EInv, Values, Limits, Tallied, [Next]_vars
    PROVE  Tallied'
<1>1. ASSUME UNCHANGED <<steps, metrics>> PROVE Tallied'
  BY <1>1, ClassesKept, Zenon DEF Tallied
<1>2. CASE RejectPlan
  <2>1. PlanValidation \notin IDs
    <3>1. \A i \in DOMAIN plan : plan[i].id \in Nat
      BY PlansAssumption, Zenon DEF EInv, Frame, IInv, Phases
    <3> QED BY <3>1 DEF IDs, PlanValidation
  <2>2. \A A : Step(PlanValidation, 0, PlainErr(err)) \notin Executed(A)
    BY <2>1 DEF Executed, Step
  <2> QED BY <1>2, <2>2, NotCounted DEF RejectPlan, AddStep
<1>3. ASSUME NEW n \in IDs, Dispatch(n) PROVE Tallied'
  <2>1. \A A : Step(n, 0, DepFailed) \notin Executed(A)
    BY DEF Executed, Step
  <2>2. metrics' = metrics /\ (steps' = steps \/ steps' = Append(steps, Step(n, 0, DepFailed)))
    BY <1>3 DEF Dispatch, AddStep
  <2> QED BY <1>1, <2>1, <2>2, NotCounted
<1>4. ASSUME NEW n \in IDs, Node(n) PROVE Tallied'
  BY <1>4, NodeCounted
<1>5. CASE BuildGraph \/ StartPlan \/ CollectLevel \/ FinishPlan
  BY <1>1, <1>5 DEF BuildGraph, StartPlan, CollectLevel, FinishPlan
<1>6. CASE Cancel \/ Tick \/ (\E a \in LateAgents : Register(a)) \/ UNCHANGED vars
  BY <1>1, <1>6 DEF Cancel, Tick, Register, vars
<1> QED BY <1>2, <1>3, <1>4, <1>5, <1>6 DEF Next, Main

(* The metrics recorder agrees with the trace recorder at every moment of    *)
(* every run: executeNode observes each attempt it records exactly once, with *)
(* the status of the step, and a retry for each failed call it repeats.      *)
THEOREM MetricsAccount == Spec => []MetricsMatchTrace
<1>1. Values /\ Tallied => MetricsMatchTrace
  <2> SUFFICES ASSUME Values, Tallied PROVE MetricsMatchTrace
    OBVIOUS
  <2>1. \A i \in DOMAIN steps : steps[i] \in StepRecords
    BY DEF Values
  <2>2. ASSUME NEW A
        PROVE  /\ Occurrences(steps, Executed(A) \ Failures)
                    = Cardinality({i \in DOMAIN steps : steps[i].inv \in IDs /\ steps[i].attempt > 0
                          /\ AgentOf(steps[i].inv) \in A /\ ~(steps[i].err # NoErr)})
               /\ Occurrences(steps, Executed(A) \cap Failures)
                    = Cardinality({i \in DOMAIN steps : steps[i].inv \in IDs /\ steps[i].attempt > 0
                          /\ AgentOf(steps[i].inv) \in A /\ steps[i].err # NoErr})
               /\ Occurrences(steps, Executed(A) \cap Refusals)
                    = Cardinality({i \in DOMAIN steps : steps[i].inv \in IDs /\ steps[i].attempt > 0
                          /\ AgentOf(steps[i].inv) \in A /\ steps[i].err = CircuitOpen})
               /\ Occurrences(steps, Executed(A) \cap Repeated)
                    = Cardinality({i \in DOMAIN steps : steps[i].inv \in IDs /\ steps[i].attempt > 0
                          /\ AgentOf(steps[i].inv) \in A
                          /\ /\ steps[i].err \notin {NoErr, Unregistered} /\ shouldRetry(steps[i].err)
                             /\ steps[i].attempt # MaxAttempts(steps[i].inv)})
               /\ Occurrences(steps, Executed(A))
                    = Cardinality({i \in DOMAIN steps : steps[i].inv \in IDs /\ steps[i].attempt > 0
                          /\ AgentOf(steps[i].inv) \in A /\ TRUE})
    BY <2>1, Zenon DEF Occurrences, Executed, Failures, Refusals, Repeated
  <2> QED BY <2>2, Zenon DEF Tallied, MetricsMatchTrace
<1>2. Spec => []Tallied
  <2>1. EInv /\ Values /\ Bounds /\ Tallied /\ [Next]_vars => Tallied'
    BY CountedStep DEF Bounds
  <2> QED BY <2>1, InitCounted, RunInvariance, PTL DEF Spec
<1> QED BY <1>1, <1>2, RunInvariance, PTL

-----------------------------------------------------------------------------
(* R is a total order on S, *)
IsOrder(R, S) ==
    /\ \A x, y \in S : <<x, y>> \in R \/ <<y, x>> \in R
    /\ \A x, y \in S : <<x, y>> \in R /\ <<y, x>> \in R => x = y
    /\ \A x, y, z \in S : <<x, y>> \in R /\ <<y, z>> \in R => <<x, z>> \in R

(* rank gives the place of a member in R, *)
IsRank(rank, R, S) ==
    rank \in [S -> Nat] /\ \A x \in S : rank[x] = Cardinality({y \in S : <<y, x>> \in R})

(* and numbers the members from 1 in the order R. *)
IsNumbering(rank, R, S) ==
    /\ \A x \in S : rank[x] \in 1..Cardinality(S)
    /\ \A x, y \in S : rank[x] < rank[y] => x # y /\ <<x, y>> \in R
    /\ \A x, y \in S : rank[x] = rank[y] => x = y
    /\ \A k \in 1..Cardinality(S) : \E x \in S : rank[x] = k

(* The ranks of a total order number a finite set. *)
LEMMA Ranking ==
    ASSUME NEW S, NEW R, NEW rank, IsFiniteSet(S), IsOrder(R, S), IsRank(rank, R, S)
    PROVE  IsNumbering(rank, R, S)
<1>0. /\ \A x, y \in S : <<x, y>> \in R \/ <<y, x>> \in R
      /\ \A x, y \in S : <<x, y>> \in R /\ <<y, x>> \in R => x = y
      /\ \A x, y, z \in S : <<x, y>> \in R /\ <<y, z>> \in R => <<x, z>> \in R
      /\ rank \in [S -> Nat] /\ \A x \in S : rank[x] = Cardinality({y \in S : <<y, x>> \in R})
  BY DEF IsOrder, IsRank
<1> DEFINE below(x) == {y \in S : <<y, x>> \in R}
           N == Cardinality(S)
<1>1. N \in Nat
  BY FS_CardinalityType
<1>2. ASSUME NEW x \in S
      PROVE  IsFiniteSet(below(x)) /\ Cardinality(below(x)) \in 1..N
  <2> DEFINE B == below(x)
  <2>1. B \in SUBSET S /\ B # {}
    BY <1>0
  <2> HIDE DEF B
  <2>2. IsFiniteSet(B) /\ Cardinality(B) <= N
    BY <2>1, FS_Subset
  <2>3. Cardinality(B) \in Nat /\ Cardinality(B) # 0
    BY <2>1, <2>2, FS_CardinalityType, FS_EmptySet
  <2> QED BY <1>1, <2>2, <2>3 DEF B
<1>3. ASSUME NEW x \in S, NEW y \in S, x # y, <<x, y>> \in R
      PROVE  Cardinality(below(x)) < Cardinality(below(y))
  <2> DEFINE B == below(x)  C == below(y)
  <2>1. B \in SUBSET C /\ y \in C /\ y \notin B
    BY <1>0, <1>3
  <2>2. IsFiniteSet(C) /\ Cardinality(B) \in Nat /\ Cardinality(C) \in Nat
    BY <1>1, <1>2
  <2> HIDE DEF B, C
  <2>3. Cardinality(B) <= Cardinality(C) /\ Cardinality(C) # Cardinality(B)
    BY <2>1, <2>2, FS_Subset
  <2>4. Cardinality(B) < Cardinality(C)
    BY <2>2, <2>3
  <2> QED BY <2>4 DEF B, C
<1>4. \A x \in S : rank[x] = Cardinality(below(x))
  BY <1>0
<1> HIDE DEF below
<1>5. \A x \in S : rank[x] \in 1..N
  BY <1>2, <1>4
<1>6. \A x, y \in S : x # y /\ <<x, y>> \in R => rank[x] < rank[y]
  BY <1>3, <1>4
<1>7. ASSUME NEW x \in S, NEW y \in S
      PROVE  /\ rank[x] = rank[y] => x = y
             /\ rank[x] < rank[y] => x # y /\ <<x, y>> \in R
  <2>1. <<x, y>> \in R \/ <<y, x>> \in R
    BY <1>0
  <2>2. /\ x # y /\ <<x, y>> \in R => rank[x] < rank[y]
        /\ x # y /\ <<y, x>> \in R => rank[y] < rank[x]
    BY <1>6
  <2>3. rank[x] \in Nat /\ rank[y] \in Nat
    BY <1>0
  <2> QED BY <2>1, <2>2, <2>3
<1>9. rank \in Injection(S, 1..N)
  <2>1. rank \in [S -> 1..N]
    BY <1>0, <1>5
  <2> QED BY <1>7, <2>1, Zenon DEF Injection, IsInjective
<1>10. rank \in Surjection(S, 1..N)
  <2>1. IsFiniteSet(1..N) /\ Cardinality(1..N) = N
    BY <1>1, UpTo
  <2> QED BY <1>9, <2>1, FS_Injection
<1> QED BY <1>5, <1>7, <1>10, Zenon DEF Surjection, IsNumbering

(* The IDs of an accepted plan in their order: each once. *)
LEMMA SortedIDsFacts ==
    ASSUME IInv, phase = "built"
    PROVE  /\ \A k \in DOMAIN plan : SortedIDs[k] \in IDs
           /\ \A n \in IDs : \E k \in DOMAIN plan : SortedIDs[k] = n
<1> DEFINE R == {p \in IDs \X IDs : p[1] <= p[2]}
           rank == [n \in IDs |-> Cardinality({m \in IDs : <<m, n>> \in R})]
<1>1. /\ plan \in Plans /\ BadIDs = {} /\ IDs \subseteq Int
      /\ DOMAIN plan = 1..Len(plan)
  BY IDsInt, PlanType DEF IInv, Phases, Ordering
<1>2. IsFiniteSet(IDs) /\ Cardinality(IDs) = Len(plan)
  BY <1>1, IDsFinite
<1>3. \A n \in IDs : rank[n] = RankOf(n)
  BY Zenon DEF RankOf
<1>4. IsOrder(R, IDs)
  BY <1>1 DEF IsOrder
<1>5. IsNumbering(rank, R, IDs)
  <2> HIDE DEF R
  <2>1. \A n \in IDs : Cardinality({m \in IDs : <<m, n>> \in R}) \in Nat
    <3>1. \A n \in IDs : {m \in IDs : <<m, n>> \in R} \in SUBSET IDs
      OBVIOUS
    <3> QED BY <3>1, Finite, Zenon
  <2>2. IsRank(rank, R, IDs)
    BY <2>1 DEF IsRank
  <2> HIDE DEF rank
  <2> QED BY <1>2, <1>4, <2>2, Ranking
<1> HIDE DEF rank, R
<1>6. /\ \A k \in DOMAIN plan : \E n \in IDs : RankOf(n) = k
      /\ \A n \in IDs : RankOf(n) \in DOMAIN plan
      /\ \A m, n \in IDs : RankOf(m) = RankOf(n) => m = n
  BY <1>1, <1>2, <1>3, <1>5 DEF IsNumbering
<1> DEFINE at(k) == CHOOSE n \in IDs : RankOf(n) = k
<1>7. \A k \in DOMAIN plan : at(k) \in IDs /\ RankOf(at(k)) = k
  BY <1>6
<1>8. SortedIDs = [k \in DOMAIN plan |-> at(k)]
  BY DEF SortedIDs
<1> HIDE DEF at
<1>9. \A n \in IDs : SortedIDs[RankOf(n)] = n
  BY <1>6, <1>7, <1>8
<1> QED BY <1>6, <1>7, <1>8, <1>9

(* The returned trace has the recorded steps, in their order. *)
LEMMA FinalizeFacts ==
    ASSUME steps \in Seq(StepRecords),
           \A i, j \in DOMAIN steps :
               steps[i].inv = steps[j].inv /\ steps[i].attempt = steps[j].attempt => i = j
    PROVE  /\ DOMAIN Finalize = DOMAIN steps
           /\ \A i \in DOMAIN Finalize : \E j \in DOMAIN steps : Finalize[i] = steps[j]
           /\ \A j \in DOMAIN steps : \E i \in DOMAIN Finalize : Finalize[i] = steps[j]
           /\ \A i, j \in DOMAIN Finalize : i < j => StepBefore(Finalize[i], Finalize[j])
<1> DEFINE D == DOMAIN steps
           before(i, j) == StepBefore(steps[j], steps[i]) \/ (~StepBefore(steps[i], steps[j]) /\ j <= i)
           R == {p \in D \X D : before(p[2], p[1])}
           rank == [i \in D |-> Cardinality({j \in D : <<j, i>> \in R})]
<1>1. /\ Len(steps) \in Nat /\ D = 1..Len(steps)
      /\ \A i \in D : steps[i].inv \in Int /\ steps[i].attempt \in Int
  <2>1. Len(steps) \in Nat /\ D = 1..Len(steps) /\ \A i \in D : steps[i] \in StepRecords
    OBVIOUS
  <2> QED BY <2>1 DEF StepRecords
<1>2. IsFiniteSet(D) /\ Cardinality(D) = Len(steps)
  BY <1>1, UpTo
<1>3. \A i \in D : rank[i] = PlaceOf(i)
  BY Zenon DEF PlaceOf
<1>4. /\ \A x, y \in D : <<x, y>> \in R \/ <<y, x>> \in R
      /\ \A x, y \in D : <<x, y>> \in R /\ <<y, x>> \in R => x = y
  BY <1>1, SMTT(30) DEF StepBefore
<1>5. \A x, y, z \in D : <<x, y>> \in R /\ <<y, z>> \in R => <<x, z>> \in R
  BY <1>1 DEF StepBefore
<1>6. IsNumbering(rank, R, D)
  <2> HIDE DEF D, R
  <2>1. \A i \in D : Cardinality({j \in D : <<j, i>> \in R}) \in Nat
    <3>1. \A i \in D : {j \in D : <<j, i>> \in R} \in SUBSET D
      OBVIOUS
    <3> QED BY <1>2, <3>1, FS_Subset, FS_CardinalityType, Zenon
  <2>2. IsRank(rank, R, D)
    BY <2>1 DEF IsRank
  <2>3. IsOrder(R, D)
    BY <1>4, <1>5 DEF IsOrder
  <2> HIDE DEF rank
  <2> QED BY <1>2, <2>2, <2>3, Ranking
<1>7. \A x, y \in D : x # y /\ <<x, y>> \in R => StepBefore(steps[x], steps[y])
  BY <1>1 DEF StepBefore
<1> HIDE DEF R, rank
<1> DEFINE at(k) == CHOOSE i \in D : PlaceOf(i) = k
<1>8. \A k \in D : at(k) \in D /\ PlaceOf(at(k)) = k
  <2>1. \A k \in D : \E i \in D : PlaceOf(i) = k
    BY <1>1, <1>2, <1>3, <1>6 DEF IsNumbering
  <2> QED BY <2>1
<1>9. \A i \in D : PlaceOf(i) \in D /\ at(PlaceOf(i)) = i
  <2>1. \A i \in D : PlaceOf(i) \in D
    BY <1>1, <1>2, <1>3, <1>6 DEF IsNumbering
  <2>2. \A i, j \in D : PlaceOf(i) = PlaceOf(j) => i = j
    BY <1>3, <1>6 DEF IsNumbering
  <2> QED BY <1>8, <2>1, <2>2
<1>10. Finalize = [k \in D |-> steps[at(k)]]
  BY DEF Finalize
<1> HIDE DEF D, at
<1>11. ASSUME NEW i \in D, NEW j \in D, i < j PROVE StepBefore(steps[at(i)], steps[at(j)])
  <2>1. /\ at(i) \in D /\ at(j) \in D /\ rank[at(i)] < rank[at(j)]
    BY <1>3, <1>8, <1>11
  <2>2. at(i) # at(j) /\ <<at(i), at(j)>> \in R
    BY <1>6, <2>1 DEF IsNumbering
  <2> QED BY <1>7, <2>1, <2>2
<1> QED BY <1>8, <1>9, <1>10, <1>11, Zenon DEF D

-----------------------------------------------------------------------------
(* The attempts of node n in the trace. *)
Attempted(n) ==
    IF pc[n] \in {"idle", "spawned"} THEN {}
    ELSE IF pc[n] = "skipped" THEN {0}
    ELSE IF pc[n] \in {"allow", "call"} THEN 1..(attempt[n] - 1)
    ELSE 1..attempt[n]

(* No attempt is recorded twice. *)
Distinct ==
    \A i, j \in DOMAIN steps :
        steps[i].inv = steps[j].inv /\ steps[i].attempt = steps[j].attempt => i = j

(* The recorded steps are the attempts made so far, each once. *)
History ==
    phase = "built" =>
        /\ \A i \in DOMAIN steps : \E n \in IDs : steps[i].inv = n /\ steps[i].attempt \in Attempted(n)
        /\ Distinct
        /\ \A n \in IDs : \A k \in Attempted(n) :
              \E i \in DOMAIN steps : steps[i].inv = n /\ steps[i].attempt = k

(* A step is recorded, *)
LEMMA Recorded ==
    ASSUME EInv, Values, History, UNCHANGED graphVars, NEW n \in IDs, NEW k \in Nat, NEW e \in Errors,
           steps' = AddStep(n, k, e), k \notin Attempted(n), Attempted(n)' = Attempted(n) \cup {k},
           \A m \in IDs : m # n => Attempted(m)' = Attempted(m)
    PROVE  History'
<1> SUFFICES ASSUME phase = "built" PROVE History'
  BY DEF History, graphVars
<1>1. IDs' = IDs /\ phase' = phase
  BY PlanUnchanged DEF graphVars
<1> DEFINE N == Len(steps)
<1>2. /\ N \in Nat /\ DOMAIN steps = 1..N /\ DOMAIN steps' = 1..(N + 1)
      /\ \A i \in 1..N : steps'[i] = steps[i]
      /\ steps'[N + 1] = Step(n, k, e)
  BY DEF Values, AddStep
<1>3. steps'[N + 1].inv = n /\ steps'[N + 1].attempt = k
  BY <1>2 DEF Step
<1>4. /\ \A i \in 1..N : \E m \in IDs : steps[i].inv = m /\ steps[i].attempt \in Attempted(m)
      /\ Distinct
      /\ \A m \in IDs : \A q \in Attempted(m) :
            \E i \in 1..N : steps[i].inv = m /\ steps[i].attempt = q
  BY <1>2 DEF History
<1> HIDE DEF N
<1>5. \A m \in IDs : Attempted(m) \subseteq Attempted(m)'
  OBVIOUS
<1>6. ASSUME NEW i \in 1..(N + 1)
      PROVE  \E m \in IDs : steps'[i].inv = m /\ steps'[i].attempt \in Attempted(m)'
  <2>1. CASE i = N + 1
    BY <1>3, <2>1
  <2>2. CASE i \in 1..N
    BY <1>2, <1>4, <1>5, <2>2
  <2> QED BY <1>2, <2>1, <2>2
<1>7. Distinct'
  <2>1. \A i \in 1..N : ~(steps[i].inv = n /\ steps[i].attempt = k)
    BY <1>4
  <2>2. ASSUME NEW i \in 1..(N + 1), NEW j \in 1..(N + 1),
               steps'[i].inv = steps'[j].inv, steps'[i].attempt = steps'[j].attempt
        PROVE  i = j
    <3>1. CASE i \in 1..N /\ j \in 1..N
      BY <1>2, <1>4, <2>2, <3>1 DEF Distinct
    <3>2. CASE i = N + 1 \/ j = N + 1
      BY <1>2, <1>3, <2>1, <2>2, <3>2
    <3> QED BY <1>2, <3>1, <3>2
  <2> QED BY <1>2, <2>2 DEF Distinct
<1>8. ASSUME NEW m \in IDs, NEW q \in Attempted(m)'
      PROVE  \E i \in 1..(N + 1) : steps'[i].inv = m /\ steps'[i].attempt = q
  <2>1. CASE q \in Attempted(m)
    <3>1. PICK i \in 1..N : steps[i].inv = m /\ steps[i].attempt = q
      BY <1>4, <2>1
    <3> QED BY <1>2, <3>1
  <2>2. CASE m = n /\ q = k
    BY <1>2, <1>3, <2>2
  <2> QED BY <2>1, <2>2
<1>9. /\ \A i \in DOMAIN steps' : \E m \in IDs' : steps'[i].inv = m /\ steps'[i].attempt \in Attempted(m)'
      /\ \A m \in IDs' : \A q \in Attempted(m)' :
            \E i \in DOMAIN steps' : steps'[i].inv = m /\ steps'[i].attempt = q
  BY <1>1, <1>2, <1>6, <1>8
<1> QED BY <1>7, <1>9 DEF History

(* or none is. *)
LEMMA NotRecorded ==
    ASSUME EInv, History, UNCHANGED graphVars, steps' = steps,
           \A m \in IDs : Attempted(m)' = Attempted(m)
    PROVE  History'
<1>1. IDs' = IDs /\ phase' = phase
  BY PlanUnchanged DEF graphVars
<1> QED BY <1>1 DEF History, Distinct

-----------------------------------------------------------------------------
(* What a step of node n tells about its result: a skipped node has the one  *)
(* step of the failed dependency, only the last attempt may have succeeded,  *)
(* and its error is the result's or the context was cancelled after it.      *)
Fits(n, k, e) ==
    /\ pc[n] = "skipped" => e = DepFailed
    /\ k < attempt[n] \/ pc[n] \notin {"skipped", "done", "return"} => e # NoErr
    /\ k = attempt[n] /\ pc[n] \in {"return", "done"} =>
         res[n] = e \/ (res[n] = CtxErr /\ e # NoErr)

(* Every recorded step fits the state of its node. *)
Fitted ==
    phase = "built" =>
        \A i \in DOMAIN steps : \A n \in IDs, k \in Nat, e \in Errors :
            steps[i] = Step(n, k, e) => Fits(n, k, e)

(* The error of a failed dependency belongs to the skipped nodes. *)
Skips == \A n \in IDs : pc[n] = "skipped" <=> res[n] = DepFailed

(* Steps of other nodes fit as before. *)
LEMMA StillFits ==
    ASSUME EInv, Values, History, Fitted, UNCHANGED graphVars, NEW n \in IDs,
           \A m \in IDs : m # n => pc'[m] = pc[m] /\ attempt'[m] = attempt[m] /\ res'[m] = res[m],
           \/ steps' = steps
           \/ \E k \in Nat, e \in Errors : steps' = AddStep(n, k, e) /\ Fits(n, k, e)',
           \A k \in Attempted(n), e \in Errors : Fits(n, k, e) => Fits(n, k, e)'
    PROVE  Fitted'
<1> SUFFICES ASSUME phase = "built", NEW i \in DOMAIN steps', NEW m \in IDs, NEW k \in Nat,
                    NEW e \in Errors, steps'[i] = Step(m, k, e)
             PROVE  Fits(m, k, e)'
  <2>1. IDs' = IDs /\ phase' = phase
    BY PlanUnchanged, Zenon DEF graphVars
  <2> QED BY <2>1 DEF Fitted
<1>1. ASSUME i \in DOMAIN steps, steps[i] = Step(m, k, e) PROVE Fits(m, k, e)'
  <2>1. Fits(m, k, e)
    BY <1>1 DEF Fitted
  <2>2. CASE m = n
    <3>1. steps[i].inv = m /\ steps[i].attempt = k
      BY <1>1 DEF Step
    <3>2. k \in Attempted(n)
      BY <1>1, <2>2, <3>1, SMTT(30) DEF History
    <3> QED BY <2>1, <2>2, <3>2
  <2>3. CASE m # n
    BY <2>1, <2>3, Zenon DEF Fits
  <2> QED BY <2>2, <2>3
<1>2. CASE steps' = steps
  BY <1>1, <1>2
<1>3. ASSUME NEW q \in Nat, NEW f \in Errors, steps' = AddStep(n, q, f), Fits(n, q, f)'
      PROVE  Fits(m, k, e)'
  <2> DEFINE N == Len(steps)
  <2>1. /\ N \in Nat /\ DOMAIN steps = 1..N /\ DOMAIN steps' = 1..(N + 1)
        /\ \A j \in 1..N : steps'[j] = steps[j]
        /\ steps'[N + 1] = Step(n, q, f)
    BY <1>3 DEF Values, AddStep
  <2> HIDE DEF N
  <2>2. CASE i \in 1..N
    BY <1>1, <2>1, <2>2
  <2>3. CASE i = N + 1
    <3>1. m = n /\ k = q /\ e = f
      BY <2>1, <2>3 DEF Step
    <3> QED BY <1>3, <3>1
  <2> QED BY <2>1, <2>2, <2>3
<1> QED BY <1>2, <1>3

(* A node records the attempt it ends, *)
LEMMA NodeHistory ==
    ASSUME EInv, Values, Limits, History, NEW n \in IDs, Node(n), [Next]_vars
    PROVE  History'
<1>1. /\ UNCHANGED graphVars
      /\ \A m \in IDs : m # n => Attempted(m)' = Attempted(m)
  BY NodeAlone, Zenon DEF Attempted
<1>2. /\ pc \in [IDs -> Active \cup Ended \cup {"idle"}] /\ attempt \in [IDs -> Nat]
      /\ attempt[n] \in Nat /\ plan \in Plans
      /\ pc[n] \in Running => attempt[n] \in Nat \ {0}
  BY DEF EInv, Frame, IInv, Phases, Values, Limits
<1>3. /\ {NoErr, CircuitOpen, Unregistered} \subseteq Errors
      /\ \A raw \in MayReturn(n) \ {NoErr} : normalizeInvocationError(raw) \in Errors
  BY <1>2, EngineErrors, CallErrors DEF OwnErrors
<1>4. ASSUME steps' = steps, Attempted(n)' = Attempted(n) PROVE History'
  BY <1>1, <1>4, NotRecorded
<1>5. ASSUME NEW e \in Errors, steps' = AddStep(n, attempt[n], e), attempt' = attempt,
             pc[n] \in {"allow", "call"}, pc'[n] \in {"return", "backoff"}
      PROVE  History'
  <2>1. attempt[n] \notin Attempted(n) /\ Attempted(n)' = Attempted(n) \cup {attempt[n]}
    BY <1>2, <1>5 DEF Attempted, Running
  <2> QED BY <1>1, <1>2, <1>5, <2>1, Recorded
<1>6. CASE StartNode(n)
  <2>1. CASE pc' = [pc EXCEPT ![n] = "allow"]
    BY <1>2, <1>4, <1>6, <2>1 DEF StartNode, Attempted
  <2>2. CASE pc' = [pc EXCEPT ![n] = "return"]
    <3>1. steps' = AddStep(n, 1, Unregistered)
      BY <1>2, <1>6, <2>2 DEF StartNode
    <3>2. 1 \notin Attempted(n) /\ Attempted(n)' = Attempted(n) \cup {1}
      BY <1>2, <1>6, <2>2 DEF StartNode, Attempted
    <3> QED BY <1>1, <1>3, <3>1, <3>2, Recorded
  <2> QED BY <1>6, <2>1, <2>2 DEF StartNode
<1>7. CASE Allow(n)
  <2>1. CASE pc' = [pc EXCEPT ![n] = "call"]
    BY <1>2, <1>4, <1>7, <2>1 DEF Allow, Attempted
  <2>2. CASE pc' = [pc EXCEPT ![n] = "return"]
    BY <1>2, <1>3, <1>5, <1>7, <2>2 DEF Allow
  <2> QED BY <1>7, <2>1, <2>2 DEF Allow
<1>8. CASE CallSucceeds(n)
  BY <1>2, <1>3, <1>5, <1>8 DEF CallSucceeds
<1>9. ASSUME NEW raw \in MayReturn(n) \ {NoErr}, CallFails(n, raw) PROVE History'
  BY <1>2, <1>3, <1>5, <1>9 DEF CallFails
<1>10. CASE BackoffElapsed(n)
  BY <1>2, <1>4, <1>10 DEF BackoffElapsed, Attempted
<1>11. CASE BackoffCancelled(n)
  BY <1>2, <1>4, <1>11 DEF BackoffCancelled, Attempted
<1>12. CASE Return(n)
  BY <1>2, <1>4, <1>12 DEF Return, Attempted
<1> QED BY <1>6, <1>7, <1>8, <1>9, <1>10, <1>11, <1>12 DEF Node

-----------------------------------------------------------------------------
(* with the error that becomes its result, *)
LEMMA NodeFits ==
    ASSUME EInv, Values, Limits, History, Fitted, NEW n \in IDs, Node(n), [Next]_vars
    PROVE  Fitted'
<1>1. /\ UNCHANGED graphVars
      /\ \A m \in IDs : m # n => pc'[m] = pc[m] /\ attempt'[m] = attempt[m] /\ res'[m] = res[m]
  BY NodeAlone, Zenon
<1>2. /\ pc \in [IDs -> Active \cup Ended \cup {"idle"}] /\ attempt \in [IDs -> Nat]
      /\ res \in [IDs -> Errors] /\ attempt[n] \in Nat /\ plan \in Plans
      /\ pc[n] \in Running => attempt[n] \in Nat \ {0}
  BY DEF EInv, Frame, IInv, Phases, Values, Limits
<1>3. /\ {NoErr, CtxErr, CircuitOpen, Unregistered} \subseteq Errors
      /\ NoErr \notin {CtxErr, CircuitOpen, Unregistered}
      /\ \A raw \in MayReturn(n) \ {NoErr} : normalizeInvocationError(raw) \in Errors \ {NoErr}
  BY <1>2, EngineErrors, CallErrors DEF OwnErrors
<1>4. ASSUME steps' = steps,
             \A k \in Attempted(n), e \in Errors : Fits(n, k, e) => Fits(n, k, e)'
      PROVE  Fitted'
  BY <1>1, <1>4, StillFits, Zenon
<1>5. ASSUME NEW k \in Nat, NEW e \in Errors, steps' = AddStep(n, k, e), Fits(n, k, e)',
             \A q \in Attempted(n), f \in Errors : Fits(n, q, f) => Fits(n, q, f)'
      PROVE  Fitted'
  BY <1>1, <1>5, StillFits, Zenon
<1>6. CASE StartNode(n)
  <2>1. \A q \in Attempted(n), f \in Errors : Fits(n, q, f) => Fits(n, q, f)'
    BY <1>6 DEF StartNode, Attempted
  <2>2. CASE pc' = [pc EXCEPT ![n] = "allow"]
    <3>1. steps' = steps
      BY <1>2, <1>6, <2>2 DEF StartNode
    <3> QED BY <1>4, <2>1, <3>1
  <2>3. CASE pc' = [pc EXCEPT ![n] = "return"]
    <3>1. /\ steps' = AddStep(n, 1, Unregistered) /\ pc'[n] = "return"
          /\ attempt'[n] = 1 /\ res'[n] = Unregistered
      BY <1>2, <1>6, <2>3 DEF StartNode
    <3>2. Fits(n, 1, Unregistered)'
      BY <1>3, <3>1, Zenon DEF Fits
    <3> QED BY <1>3, <1>5, <2>1, <3>1, <3>2, Zenon
  <2> QED BY <1>6, <2>2, <2>3 DEF StartNode
(* A call or its refusal ends the attempt. *)
<1>7. ASSUME NEW e \in Errors, steps' = AddStep(n, attempt[n], e), attempt' = attempt,
             pc[n] \in {"allow", "call"}, pc'[n] \in {"return", "backoff"},
             pc'[n] = "return" => res'[n] = e \/ (res'[n] = CtxErr /\ e # NoErr),
             pc'[n] = "backoff" => e # NoErr
      PROVE  Fitted'
  <2>1. Fits(n, attempt[n], e)'
    <3>1. /\ attempt'[n] = attempt[n] /\ ~(attempt[n] < attempt[n])
          /\ pc'[n] = "return" \/ pc'[n] = "backoff"
      <4>1. PICK a \in Nat : a = attempt[n]
        BY <1>2, Zenon
      <4>2. ~(a < a)
        OBVIOUS
      <4> QED BY <1>7, <4>1, <4>2, Zenon
    <3>2. pc'[n] # "skipped" /\ (pc'[n] = "backoff" => pc'[n] \notin {"return", "done"})
      BY <3>1
    <3> QED BY <1>7, <3>1, <3>2, Zenon DEF Fits
  <2>2. ASSUME NEW q \in Attempted(n), NEW f \in Errors, Fits(n, q, f) PROVE Fits(n, q, f)'
    <3>1. q < attempt[n] /\ q # attempt[n] /\ f # NoErr
      <4>1. PICK a : a = attempt[n]
        OBVIOUS
      <4>2. a \in Nat /\ q \in 1..(a - 1)
        BY <1>2, <1>7, <4>1, Zenon DEF Attempted
      <4>3. q < a /\ q # a
        BY <4>2
      <4>4. pc[n] \notin {"skipped", "done", "return"}
        BY <1>7, Zenon
      <4>5. f # NoErr
        BY <2>2, <4>4, Zenon DEF Fits
      <4> QED BY <4>1, <4>3, <4>5, Zenon
    <3> QED BY <1>7, <3>1, Zenon DEF Fits
  <2> QED BY <1>2, <1>5, <1>7, <2>1, <2>2, Zenon
<1>8. CASE Allow(n)
  <2>1. CASE pc' = [pc EXCEPT ![n] = "call"]
    <3>1. /\ steps' = steps /\ pc[n] = "allow" /\ pc'[n] = "call"
          /\ attempt'[n] = attempt[n] /\ res'[n] = res[n]
      BY <1>2, <1>8, <2>1 DEF Allow
    <3>2. \A q \in Attempted(n), f \in Errors : Fits(n, q, f) => Fits(n, q, f)'
      BY <3>1, Zenon DEF Fits
    <3> QED BY <1>4, <3>1, <3>2, Zenon
  <2>2. CASE pc' = [pc EXCEPT ![n] = "return"]
    <3>1. /\ steps' = AddStep(n, attempt[n], CircuitOpen) /\ pc[n] = "allow" /\ pc'[n] = "return"
          /\ attempt' = attempt /\ res'[n] = CircuitOpen
      BY <1>2, <1>8, <2>2 DEF Allow
    <3> QED BY <1>3, <1>7, <3>1, Zenon
  <2> QED BY <1>8, <2>1, <2>2 DEF Allow
<1>9. CASE CallSucceeds(n)
  <2>1. /\ steps' = AddStep(n, attempt[n], NoErr) /\ pc[n] = "call" /\ pc'[n] = "return"
        /\ attempt' = attempt /\ res'[n] = NoErr
    BY <1>2, <1>9 DEF CallSucceeds
  <2> QED BY <1>3, <1>7, <2>1, Zenon
<1>10. ASSUME NEW raw \in MayReturn(n) \ {NoErr}, CallFails(n, raw) PROVE Fitted'
  <2> DEFINE e == normalizeInvocationError(raw)
  <2>1. /\ steps' = AddStep(n, attempt[n], e) /\ pc[n] = "call" /\ pc'[n] \in {"return", "backoff"}
        /\ attempt' = attempt /\ res'[n] \in {e, CtxErr} /\ e \in Errors /\ e # NoErr
    BY <1>2, <1>3, <1>10, Zenon DEF CallFails
  <2> HIDE DEF e
  <2> QED BY <1>7, <2>1, Zenon
<1>11. CASE BackoffElapsed(n)
  <2>1. /\ steps' = steps /\ pc[n] = "backoff" /\ pc'[n] = "allow"
    BY <1>2, <1>11 DEF BackoffElapsed
  <2>2. \A q \in Attempted(n), f \in Errors : Fits(n, q, f) => Fits(n, q, f)'
    BY <2>1, Zenon DEF Fits
  <2> QED BY <1>4, <2>1, <2>2, Zenon
<1>12. CASE BackoffCancelled(n)
  <2>1. /\ steps' = steps /\ pc[n] = "backoff" /\ pc'[n] = "return" /\ res'[n] = CtxErr
    BY <1>2, <1>12 DEF BackoffCancelled
  <2>2. \A q \in Attempted(n), f \in Errors : Fits(n, q, f) => Fits(n, q, f)'
    BY <2>1, Zenon DEF Fits
  <2> QED BY <1>4, <2>1, <2>2, Zenon
<1>13. CASE Return(n)
  <2>1. /\ steps' = steps /\ pc[n] = "return" /\ pc'[n] = "done"
        /\ attempt'[n] = attempt[n] /\ res'[n] = res[n]
    BY <1>2, <1>13 DEF Return
  <2>2. \A q \in Attempted(n), f \in Errors : Fits(n, q, f) => Fits(n, q, f)'
    BY <2>1, Zenon DEF Fits
  <2> QED BY <1>4, <2>1, <2>2, Zenon
<1> QED BY <1>6, <1>8, <1>9, <1>10, <1>11, <1>12, <1>13 DEF Node

(* which is never that of a skipped node. *)
LEMMA NodeSkips ==
    ASSUME EInv, Values, Skips, NEW n \in IDs, Node(n), [Next]_vars
    PROVE  Skips'
<1>1. /\ IDs' = IDs /\ pc[n] \in Active /\ pc'[n] \in Running \cup {"done"}
      /\ \A m \in IDs : m # n => pc'[m] = pc[m] /\ res'[m] = res[m]
  BY PlanKept, NodeAlone, Zenon
<1>2. /\ pc[n] # "skipped" /\ pc'[n] # "skipped" /\ res[n] # DepFailed
      /\ res \in [IDs -> Errors] /\ plan \in Plans
  BY <1>1, Zenon DEF Active, Running, Skips, Values, EInv, Frame, IInv, Phases
<1>3. /\ DepFailed \notin {NoErr, CtxErr, CircuitOpen, Unregistered}
      /\ \A raw \in MayReturn(n) \ {NoErr} : normalizeInvocationError(raw) # DepFailed
  BY <1>2, EngineErrors, CallErrors, Zenon DEF OwnErrors
<1>4. res'[n] # DepFailed
  <2>1. CASE StartNode(n)
    BY <1>2, <1>3, <2>1 DEF StartNode
  <2>2. CASE Allow(n)
    BY <1>2, <1>3, <2>2 DEF Allow
  <2>3. CASE CallSucceeds(n)
    BY <1>2, <1>3, <2>3 DEF CallSucceeds
  <2>4. ASSUME NEW raw \in MayReturn(n) \ {NoErr}, CallFails(n, raw) PROVE res'[n] # DepFailed
    BY <1>2, <1>3, <2>4 DEF CallFails
  <2>5. CASE BackoffElapsed(n) \/ BackoffCancelled(n) \/ Return(n)
    BY <1>2, <1>3, <2>5 DEF BackoffElapsed, BackoffCancelled, Return
  <2> QED BY <2>1, <2>2, <2>3, <2>4, <2>5 DEF Node
<1> QED BY <1>1, <1>2, <1>4, Zenon DEF Skips

-----------------------------------------------------------------------------
(* What the recorded steps tell. *)
Story == History /\ Fitted /\ Skips

(* They tell it at the start, *)
LEMMA InitStory == Init => Story
<1> SUFFICES ASSUME Init PROVE Story
  OBVIOUS
<1>1. /\ steps = << >> /\ DOMAIN steps = {}
      /\ \A n \in IDs : pc[n] = "idle" /\ res[n] = NoErr /\ Attempted(n) = {}
  <2>1. steps = << >> /\ pc = [n \in IDs |-> "idle"] /\ res = [n \in IDs |-> NoErr]
    BY Zenon DEF Init
  <2>2. \A n \in IDs : pc[n] = "idle" /\ res[n] = NoErr
    BY <2>1
  <2> QED BY <2>1, <2>2 DEF Attempted
<1>2. NoErr # DepFailed
  BY EngineErrors
<1> QED BY <1>1, <1>2, Zenon DEF Story, History, Distinct, Fitted, Skips

(* Before the plan is started nothing has been recorded. *)
LEMMA BuildStory == ASSUME EInv, Values, Story, BuildGraph, [Next]_vars PROVE Story'
<1>1. /\ main = "build" /\ IDs' = IDs /\ pc' = pc /\ res' = res /\ steps' = steps
  BY PlanKept DEF BuildGraph, nodeVars
<1>2. steps' = << >> /\ DOMAIN steps' = {} /\ \A n \in IDs : Attempted(n)' = {}
  <2>1. steps = << >>
    BY <1>1 DEF Values
  <2>2. \A n \in IDs : pc'[n] = "idle"
    BY <1>1 DEF EInv, Frame
  <2>3. \A n \in IDs : Attempted(n)' = {}
    BY <2>2, Zenon DEF Attempted
  <2> QED BY <1>1, <2>1, <2>3
<1>3. History' /\ Fitted'
  BY <1>1, <1>2, Zenon DEF History, Distinct, Fitted
<1>4. Skips'
  BY <1>1, Zenon DEF Story, Skips
<1> QED BY <1>3, <1>4 DEF Story

(* A skipped node has its one step; a started one has none. *)
LEMMA DispatchStory ==
    ASSUME EInv, Values, Story, NEW n \in IDs, Dispatch(n), [Next]_vars
    PROVE  Story'
<1>1. /\ main = "level" /\ n \in todo /\ UNCHANGED graphVars /\ attempt' = attempt
      /\ IDs' = IDs
  BY PlanKept DEF Dispatch
<1>2. /\ pc \in [IDs -> Active \cup Ended \cup {"idle"}] /\ res \in [IDs -> Errors]
      /\ pc[n] = "idle" /\ Attempted(n) = {}
  BY <1>1, Zenon DEF EInv, Frame, InLevels, Values, Attempted
<1>3. DepFailed \in Errors /\ DepFailed # NoErr
  BY EngineErrors
<1>4. CASE pc' = [pc EXCEPT ![n] = "skipped"]
  <2>1. /\ steps' = AddStep(n, 0, DepFailed) /\ res' = [res EXCEPT ![n] = DepFailed]
    BY <1>2, <1>4 DEF Dispatch
  <2>2. /\ pc'[n] = "skipped" /\ res'[n] = DepFailed
        /\ \A m \in IDs : m # n => pc'[m] = pc[m] /\ res'[m] = res[m] /\ Attempted(m)' = Attempted(m)
    BY <1>1, <1>2, <1>4, <2>1 DEF Attempted
  <2>3. 0 \notin Attempted(n) /\ Attempted(n)' = Attempted(n) \cup {0}
    BY <1>2, <2>2, Zenon DEF Attempted
  <2>4. History'
    BY <1>1, <1>3, <2>1, <2>2, <2>3, Recorded, Zenon DEF Story
  <2>5. Fits(n, 0, DepFailed)'
    BY <1>3, <2>2, Zenon DEF Fits
  <2>6. Fitted'
    BY <1>1, <1>2, <1>3, <2>1, <2>2, <2>5, StillFits, Zenon DEF Story
  <2>7. Skips'
    BY <1>1, <2>2, Zenon DEF Story, Skips
  <2> QED BY <2>4, <2>6, <2>7 DEF Story
<1>5. CASE pc' = [pc EXCEPT ![n] = "spawned"]
  <2>1. steps' = steps /\ res' = res
    BY <1>2, <1>5 DEF Dispatch
  <2>2. /\ pc'[n] = "spawned"
        /\ \A m \in IDs : m # n => pc'[m] = pc[m] /\ Attempted(m)' = Attempted(m)
    BY <1>1, <1>2, <1>5 DEF Attempted
  <2>3. Attempted(n)' = Attempted(n)
    BY <1>2, <2>2, Zenon DEF Attempted
  <2>4. History'
    BY <1>1, <2>1, <2>2, <2>3, NotRecorded DEF Story
  <2>5. Fitted'
    BY <1>1, <1>2, <2>1, <2>2, StillFits, Zenon DEF Story
  <2>6. Skips'
    BY <1>1, <1>2, <2>1, <2>2 DEF Story, Skips
  <2> QED BY <2>4, <2>5, <2>6 DEF Story
<1> QED BY <1>4, <1>5 DEF Dispatch

(* Steps that record nothing. *)
LEMMA SilentStory ==
    ASSUME EInv, Values, Story, UNCHANGED <<graphVars, pc, attempt, res, steps>>
    PROVE  Story'
<1>1. IDs' = IDs /\ phase' = phase /\ \A n \in IDs : Attempted(n)' = Attempted(n)
  BY PlanUnchanged, Zenon DEF graphVars, Attempted
<1>2. History'
  BY <1>1, NotRecorded DEF Story
<1>3. Fitted'
  <2>1. pc' = pc /\ attempt' = attempt /\ res' = res /\ steps' = steps
    OBVIOUS
  <2>2. \A n \in IDs, k \in Nat, e \in Errors : Fits(n, k, e)' <=> Fits(n, k, e)
    BY <2>1 DEF Fits
  <2> QED BY <1>1, <2>1, <2>2, Zenon DEF Story, Fitted
<1>4. Skips'
  BY <1>1 DEF Story, Skips
<1> QED BY <1>2, <1>3, <1>4 DEF Story

(* and after every step. *)
LEMMA StoryStep == ASSUME EInv, Values, Bounds, Story, [Next]_vars PROVE Story'
<1>1. CASE BuildGraph
  BY <1>1, BuildStory
<1>2. CASE RejectPlan
  <2>1. /\ phase' # "built" /\ pc' = pc /\ res' = res /\ IDs' = IDs
    BY <1>2, PlanKept DEF RejectPlan, graphVars, nodeVars
  <2> QED BY <2>1, Zenon DEF Story, History, Fitted, Skips
<1>3. CASE StartPlan \/ CollectLevel \/ FinishPlan
  BY <1>3, SilentStory, Zenon DEF StartPlan, CollectLevel, FinishPlan, nodeVars
<1>4. ASSUME NEW n \in IDs, Dispatch(n) PROVE Story'
  BY <1>4, DispatchStory
<1>5. ASSUME NEW n \in IDs, Node(n) PROVE Story'
  BY <1>5, NodeHistory, NodeFits, NodeSkips DEF Story, Bounds
<1>6. CASE Cancel \/ Tick \/ (\E a \in LateAgents : Register(a)) \/ UNCHANGED vars
  BY <1>6, SilentStory DEF Cancel, Tick, Register, vars, nodeVars
<1> QED BY <1>1, <1>2, <1>3, <1>4, <1>5, <1>6 DEF Next, Main

-----------------------------------------------------------------------------
(* What RunPlan has returned. *)
Returned ==
    main = "done" /\ phase = "built" =>
        /\ trace = Finalize
        /\ results = [i \in DOMAIN plan |-> [id |-> SortedIDs[i], err |-> res[SortedIDs[i]]]]
        /\ \A n \in IDs : pc[n] \in Ended

(* It is made of what the nodes left, and nothing changes it. *)
LEMMA ReturnedStep == ASSUME EInv, Values, Bounds, Returned, [Next]_vars PROVE Returned'
<1>1. CASE FinishPlan
  <2>1. /\ main = "level" /\ lvl > Len(levels) /\ trace' = Finalize
        /\ results' = [i \in DOMAIN plan |-> [id |-> SortedIDs[i], err |-> resultsByID[SortedIDs[i]]]]
        /\ steps' = steps /\ res' = res /\ pc' = pc /\ plan' = plan /\ IDs' = IDs
    BY <1>1, PlanKept, Zenon DEF FinishPlan, nodeVars
  <2>2. IInv /\ phase = "built" /\ lvl \in 1..(Len(levels) + 1)
    BY <2>1 DEF EInv, Frame
  <2>3. /\ Len(levels) \in Nat /\ lvl = Len(levels) + 1
        /\ IDs = UNION {levels[j] : j \in 1..Len(levels)}
    BY <2>1, <2>2, LevelType
  <2>4. \A n \in IDs : pc[n] \in Ended /\ resultsByID[n] = res[n]
    <3>1. lvl - 1 = Len(levels)
      BY <2>3
    <3>2. /\ \A j \in 1..Len(levels) : \A n \in levels[j] : pc[n] \in Ended
          /\ DOMAIN resultsByID = UNION {levels[j] : j \in 1..Len(levels)}
          /\ \A n \in DOMAIN resultsByID : resultsByID[n] = res[n]
      BY <2>1, <3>1, Zenon DEF EInv, InLevels, Collected
    <3> QED BY <2>3, <3>2, Zenon
  <2>5. \A i \in DOMAIN plan : resultsByID[SortedIDs[i]] = res[SortedIDs[i]]
    BY <2>2, <2>4, SortedIDsFacts
  <2>6. results' = [i \in DOMAIN plan |-> [id |-> SortedIDs[i], err |-> res[SortedIDs[i]]]]
    BY <2>1, <2>5
  <2>7. Finalize' = Finalize /\ SortedIDs' = SortedIDs
    BY <2>1 DEF Finalize, PlaceOf, SortedIDs, RankOf
  <2> QED BY <2>1, <2>4, <2>6, <2>7, Zenon DEF Returned
<1>2. CASE UNCHANGED <<graphVars, main, pc, res, steps, outVars>>
  <2>1. plan' = plan /\ IDs' = IDs /\ phase' = phase /\ main' = main
    BY <1>2, PlanUnchanged DEF graphVars
  <2>2. Finalize' = Finalize /\ SortedIDs' = SortedIDs
    BY <1>2, <2>1 DEF Finalize, PlaceOf, SortedIDs, RankOf
  <2> QED BY <1>2, <2>1, <2>2, Zenon DEF Returned, outVars
<1>3. CASE main' # "done" \/ phase' # "built"
  BY <1>3 DEF Returned
<1>4. CASE BuildGraph \/ RejectPlan \/ StartPlan \/ CollectLevel \/ \E n \in IDs : Dispatch(n)
  BY <1>3, <1>4, Zenon DEF BuildGraph, RejectPlan, StartPlan, CollectLevel, LevelEnded, Dispatch, graphVars
<1>5. ASSUME NEW n \in IDs, Node(n) PROVE Returned'
  <2>1. pc[n] \in Active /\ main' = main
    BY <1>5, NodeAlone, Zenon
  <2>2. main # "done"
    BY <2>1 DEF Bounds, Over
  <2> QED BY <1>3, <2>1, <2>2
<1>6. CASE Cancel \/ Tick \/ (\E a \in LateAgents : Register(a)) \/ UNCHANGED vars
  BY <1>2, <1>6 DEF Cancel, Tick, Register, vars, nodeVars
<1> QED BY <1>1, <1>4, <1>5, <1>6 DEF Next, Main

-----------------------------------------------------------------------------
(* The steps of a node in the returned trace. *)
LEMMA StepsReturned ==
    ASSUME Values, Story, phase = "built", trace = Finalize, NEW n \in IDs
    PROVE  /\ \A s \in StepsOf(n) : /\ s.attempt \in Attempted(n) /\ s.attempt \in Nat
                                    /\ s.err \in Errors /\ Fits(n, s.attempt, s.err)
           /\ \A k \in Attempted(n) : \E s \in StepsOf(n) : s.attempt = k
           /\ \A s, t \in StepsOf(n) : s.attempt = t.attempt => s = t
<1>1. steps \in Seq(StepRecords) /\ Distinct
  BY DEF Values, Story, History
<1>2. /\ DOMAIN trace = DOMAIN steps
      /\ \A i \in DOMAIN trace : \E j \in DOMAIN steps : trace[i] = steps[j]
      /\ \A j \in DOMAIN steps : \E i \in DOMAIN trace : trace[i] = steps[j]
  <2>1. \A i, j \in DOMAIN steps :
            steps[i].inv = steps[j].inv /\ steps[i].attempt = steps[j].attempt => i = j
    BY <1>1 DEF Distinct
  <2> QED BY <1>1, <2>1, FinalizeFacts
<1>3. StepsOf(n) = {steps[j] : j \in {i \in DOMAIN steps : steps[i].inv = n}}
  <2>1. ASSUME NEW s \in StepsOf(n) PROVE \E j \in DOMAIN steps : s = steps[j] /\ steps[j].inv = n
    BY <1>2, <2>1 DEF StepsOf
  <2>2. ASSUME NEW j \in DOMAIN steps, steps[j].inv = n PROVE steps[j] \in StepsOf(n)
    BY <1>2, <2>2 DEF StepsOf
  <2> QED BY <2>1, <2>2
<1>4. ASSUME NEW j \in DOMAIN steps, steps[j].inv = n
      PROVE  LET s == steps[j]
             IN  /\ s.attempt \in Attempted(n) /\ s.attempt \in Nat
                 /\ s.err \in Errors /\ Fits(n, s.attempt, s.err)
  <2> DEFINE k == steps[j].attempt
             e == steps[j].err
  <2>1. steps[j] \in StepRecords
    BY <1>1
  <2>2. k \in Nat /\ e \in Errors /\ steps[j] = Step(n, k, e)
    BY <1>4, <2>1, Zenon DEF StepRecords, Step
  <2>3. k \in Attempted(n)
    BY <1>4 DEF Story, History
  <2> HIDE DEF k, e
  <2>4. Fits(n, k, e)
    BY <2>2 DEF Story, Fitted
  <2> QED BY <2>2, <2>3, <2>4 DEF k, e
<1>5. \A k \in Attempted(n) : \E j \in DOMAIN steps : steps[j].inv = n /\ steps[j].attempt = k
  BY DEF Story, History
<1>6. \A k \in Attempted(n) : \E s \in StepsOf(n) : s.attempt = k
  BY <1>3, <1>5
<1>7. \A s, t \in StepsOf(n) : s.attempt = t.attempt => s = t
  BY <1>1, <1>3 DEF Distinct
<1>8. \A s \in StepsOf(n) : /\ s.attempt \in Attempted(n) /\ s.attempt \in Nat
                            /\ s.err \in Errors /\ Fits(n, s.attempt, s.err)
  BY <1>3, <1>4
<1> QED BY <1>6, <1>7, <1>8

(* They explain its result. *)
LEMMA ResultExplained ==
    ASSUME EInv, Values, Bounds, Story, phase = "built", trace = Finalize,
           NEW n \in IDs, pc[n] \in Ended
    PROVE  Explains(StepsOf(n), res[n])
<1> DEFINE ss == StepsOf(n)
<1>1. /\ \A s \in ss : /\ s.attempt \in Attempted(n) /\ s.attempt \in Nat
                       /\ Fits(n, s.attempt, s.err)
      /\ \A k \in Attempted(n) : \E s \in ss : s.attempt = k
      /\ \A s, t \in ss : s.attempt = t.attempt => s = t
  BY StepsReturned
<1> HIDE DEF ss
<1>2. {s.attempt : s \in ss} = Attempted(n)
  BY <1>1
<1>3. CASE pc[n] = "skipped"
  <2>1. Attempted(n) = {0} /\ res[n] = DepFailed
    BY <1>3 DEF Attempted, Story, Skips
  <2>2. PICK last \in ss : last.attempt = 0
    BY <1>1, <2>1, Zenon
  <2>3. last.err = DepFailed
    BY <1>1, <1>3 DEF Fits
  <2>4. \A s \in ss : s = last
    BY <1>1, <2>1, <2>2
  <2> QED BY <1>2, <2>1, <2>2, <2>3, <2>4 DEF Explains, ss
<1>4. CASE pc[n] = "done"
  <2>1. /\ attempt[n] \in Nat /\ attempt[n] >= 1 /\ Attempted(n) = 1..attempt[n]
        /\ res[n] # DepFailed
    BY <1>4 DEF Attempted, Story, Skips, Values, Bounds, Limits
  <2>2. PICK last \in ss : last.attempt = attempt[n]
    BY <1>1, <2>1, SMTT(30)
  <2>3. res[n] = last.err \/ (res[n] = CtxErr /\ last.err # NoErr)
    BY <1>1, <1>4, <2>2, Zenon DEF Fits
  <2>4. ASSUME NEW s \in ss, s # last PROVE s.attempt < last.attempt /\ s.err # NoErr
    <3>1. s.attempt \in 1..attempt[n] /\ s.attempt # attempt[n]
      BY <1>1, <2>1, <2>2, <2>4
    <3>2. s.attempt < attempt[n]
      <4>1. PICK x, a : x = s.attempt /\ a = attempt[n]
        OBVIOUS
      <4>2. a \in Nat /\ x \in 1..a /\ x # a
        BY <2>1, <3>1, <4>1, Zenon
      <4>3. x < a
        BY <4>2
      <4> QED BY <4>1, <4>3, Zenon
    <3> QED BY <1>1, <2>2, <3>2 DEF Fits
  <2> QED BY <1>2, <2>1, <2>2, <2>3, <2>4 DEF Explains, ss
<1> QED BY <1>3, <1>4 DEF Ended

(* The trace RunPlan returns accounts for its results, for every plan and    *)
(* interleaving: it is strictly ordered, has attempts 1, 2, ... or the one   *)
(* step of a skipped node, and the last one explains the result.             *)
THEOREM TraceAccounts == Spec => []TraceExplainsResults
<1>1. Init => Story /\ Returned
  BY InitStory, Zenon DEF Init, Returned
<1>2. EInv /\ Values /\ Bounds /\ Story /\ Returned /\ [Next]_vars => Story' /\ Returned'
  BY StoryStep, ReturnedStep
<1>3. EInv /\ Values /\ Bounds /\ Story /\ Returned => TraceExplainsResults
  <2> SUFFICES ASSUME EInv, Values, Bounds, Story, Returned, main = "done", phase = "built"
               PROVE  /\ \A i, j \in DOMAIN trace : i < j => StepBefore(trace[i], trace[j])
                      /\ Len(results) = Len(plan)
                      /\ \A i \in DOMAIN results : Explains(StepsOf(results[i].id), results[i].err)
    BY DEF TraceExplainsResults
  <2>1. /\ trace = Finalize /\ \A n \in IDs : pc[n] \in Ended
        /\ results = [i \in DOMAIN plan |-> [id |-> SortedIDs[i], err |-> res[SortedIDs[i]]]]
    BY DEF Returned
  <2>2. \A i, j \in DOMAIN trace : i < j => StepBefore(trace[i], trace[j])
    <3>1. steps \in Seq(StepRecords) /\ \A i, j \in DOMAIN steps :
             steps[i].inv = steps[j].inv /\ steps[i].attempt = steps[j].attempt => i = j
      BY Zenon DEF Values, Story, History, Distinct
    <3> QED BY <2>1, <3>1, FinalizeFacts, Zenon
  <2>3. IInv /\ plan \in Plans
    BY DEF EInv, Frame, IInv, Phases
  <2>4. DOMAIN plan = 1..Len(plan) /\ Len(plan) \in Nat
    BY <2>3, PlanType, Zenon
  <2>5. DOMAIN results = DOMAIN plan /\ Len(results) = Len(plan)
    BY <2>1, <2>4
  <2>6. ASSUME NEW i \in DOMAIN plan PROVE Explains(StepsOf(results[i].id), results[i].err)
    <3>1. /\ SortedIDs[i] \in IDs /\ results[i].id = SortedIDs[i] /\ results[i].err = res[SortedIDs[i]]
      BY <2>1, <2>3, SortedIDsFacts, Zenon
    <3>2. \A n \in IDs : Explains(StepsOf(n), res[n])
      BY <2>1, ResultExplained, Zenon
    <3> QED BY <3>1, <3>2
  <2> QED BY <2>2, <2>5, <2>6
<1> QED BY <1>1, <1>2, <1>3, RunInvariance, PTL DEF Spec

-----------------------------------------------------------------------------
(* The circuit of node n refuses its k-th attempt: the ones before have      *)
(* reached the threshold.                                                    *)
Refuses(n, k) == Threshold(n) > 0 /\ k > Threshold(n)

(* What the k-th attempt of a deterministic agent ends with, *)
TryErr(n, k) ==
    LET kind == KindOf[AgentOf(n)]
    IN  IF Refuses(n, k) THEN CircuitOpen
        ELSE IF kind = "panic" THEN Panic
        ELSE IF kind = "fail" THEN PlainErr("forced")
        ELSE IF kind = "flaky" /\ k = 1 THEN PlainErr("transient")
        ELSE NoErr

(* and which attempt is the last. *)
LastTry(n) ==
    LET kind == KindOf[AgentOf(n)]
    IN  IF kind = "fail"
        THEN IF Refuses(n, MaxAttempts(n)) THEN Threshold(n) + 1 ELSE MaxAttempts(n)
        ELSE IF kind = "flaky" /\ MaxAttempts(n) > 1 THEN 2 ELSE 1

(* The circuit of node n after f failures in a row. *)
AfterFailures(n, s, f) ==
    Threshold(n) > 0 =>
        /\ ~HalfOpen(s)
        /\ IF f < Threshold(n) THEN s.consecutiveFailures = f /\ ~Open(s)
                               ELSE s.openUntil >= ResetTimeout

(* What a deterministic agent may be. *)
DetKinds == {"ok", "fail", "flaky", "panic"}

(* A deterministic plan. *)
LEMMA DeterministicFacts ==
    ASSUME plan \in Plans, Deterministic, NEW n \in IDs
    PROVE  /\ KindOf[AgentOf(n)] \in DetKinds
           /\ AgentOf(n) \in Agents /\ AgentOf(n) \in Registered
           /\ PriorCircuits[AgentOf(n)] = {ZeroCircuit}
           /\ Threshold(n) \in Nat /\ MaxAttempts(n) \in Nat \ {0}
           /\ RetryableErrs = {}
<1>1. /\ AgentOf(n) \in Agents /\ KindOf[AgentOf(n)] \in AgentKinds
      /\ Threshold(n) \in Nat /\ MaxAttempts(n) \in Nat \ {0}
  BY NodeFacts
<1> QED BY <1>1, Zenon DEF Deterministic, AgentKinds, DetKinds

(* No two of its steps have the same agent. *)
LEMMA AgentsApart ==
    ASSUME plan \in Plans, Deterministic, NEW n \in IDs, NEW m \in IDs, AgentOf(n) = AgentOf(m)
    PROVE  n = m
<1> DEFINE D == DOMAIN plan
           f == [i \in D |-> plan[i].agent]
           at(x) == CHOOSE i \in DOMAIN plan : plan[i].id = x
<1>1. D = 1..Len(plan) /\ Len(plan) \in Nat
  BY PlanType
<1>2. IsFiniteSet(D) /\ Cardinality(D) = Len(plan)
  BY <1>1, UpTo
<1>3. f \in Surjection(D, Agents)
  BY DEF Surjection, Agents
<1>4. Cardinality(Agents) = Cardinality(D)
  BY <1>2 DEF Deterministic
<1>5. f \in Injection(D, Agents)
  <2> HIDE DEF D, f
  <2> QED BY <1>2, <1>3, <1>4, FS_Surjection
<1>6. \A x \in IDs : at(x) \in D /\ plan[at(x)].id = x
  BY DEF IDs
<1>7. f[at(n)] = AgentOf(n) /\ f[at(m)] = AgentOf(m)
  BY <1>6 DEF AgentOf, NodeOf
<1> HIDE DEF at, f
<1>8. \A x, y \in D : f[x] = f[y] => x = y
  BY <1>5 DEF Injection, IsInjective
<1>9. at(n) = at(m)
  BY <1>6, <1>7, <1>8, Zenon
<1> QED BY <1>6, <1>9

-----------------------------------------------------------------------------
(* The breaker lets an attempt pass unless it refuses it, *)
LEMMA AllowsTry ==
    ASSUME NEW n, Threshold(n) \in Nat, NEW s \in CircuitState, NEW k \in Nat \ {0},
           AfterFailures(n, s, k - 1), NEW now \in Nat, now < ResetTimeout
    PROVE  /\ Allowed(s, Threshold(n), now) <=> ~Refuses(n, k)
           /\ ~Refuses(n, k) => AfterAllow(s, Threshold(n), now) = s
<1>1. ResetTimeout \in Nat \ {0} /\ s.openUntil \in Nat
  BY EngineAssumption DEF CircuitState
<1>2. CASE Refuses(n, k)
  <2>1. Threshold(n) > 0 /\ ~HalfOpen(s) /\ s.openUntil >= ResetTimeout
    BY <1>2 DEF AfterFailures, Refuses
  <2>2. Open(s) /\ ~(now >= s.openUntil)
    BY <1>1, <2>1 DEF Open
  <2> QED BY <1>2, <2>1, <2>2 DEF Allowed
<1>3. CASE ~Refuses(n, k) /\ Threshold(n) > 0
  <2>1. ~HalfOpen(s) /\ ~Open(s)
    BY <1>3 DEF AfterFailures, Refuses
  <2> QED BY <1>3, <2>1 DEF Allowed, AfterAllow, IsProbe
<1>4. CASE ~Refuses(n, k) /\ ~(Threshold(n) > 0)
  BY <1>4 DEF Allowed, AfterAllow, IsProbe
<1> QED BY <1>2, <1>3, <1>4

(* and counts its failure. *)
LEMMA FailsTry ==
    ASSUME NEW n, Threshold(n) \in Nat, NEW s \in CircuitState, NEW k \in Nat \ {0},
           AfterFailures(n, s, k - 1), NEW now \in Nat, ~Refuses(n, k)
    PROVE  AfterFailures(n, AfterFailure(s, Threshold(n), ResetTimeout, now), k)
<1> DEFINE T == Threshold(n)
           t == AfterFailure(s, T, ResetTimeout, now)
<1> SUFFICES ASSUME T > 0
             PROVE  /\ ~HalfOpen(t)
                    /\ IF k < T THEN t.consecutiveFailures = k /\ ~Open(t)
                                ELSE t.openUntil >= ResetTimeout
  BY DEF AfterFailures
<1>1. ResetTimeout \in Nat \ {0} /\ Normalized(ResetTimeout) = ResetTimeout
  BY EngineAssumption DEF Normalized
<1>2. k <= T /\ ~HalfOpen(s) /\ s.consecutiveFailures = k - 1 /\ ~Open(s)
  BY DEF AfterFailures, Refuses
<1>3. CASE k < T
  <2>1. t = [s EXCEPT !.consecutiveFailures = (k - 1) + 1]
    BY <1>2, <1>3 DEF AfterFailure
  <2> HIDE DEF t
  <2>2. /\ t.consecutiveFailures = k /\ t.openUntil = s.openUntil
        /\ t.halfOpenProbeActive = s.halfOpenProbeActive
    BY <2>1 DEF CircuitState
  <2> QED BY <1>2, <1>3, <2>2 DEF HalfOpen, Open
<1>4. CASE ~(k < T)
  <2>1. t = Opened(now, ResetTimeout)
    BY <1>2, <1>4 DEF AfterFailure
  <2> HIDE DEF t
  <2>2. t.openUntil = now + ResetTimeout /\ ~HalfOpen(t)
    BY <1>1, <2>1 DEF Opened, ZeroCircuit, HalfOpen
  <2> QED BY <1>1, <1>4, <2>2
<1> QED BY <1>3, <1>4

-----------------------------------------------------------------------------
(* The errors of deterministic agents. *)
LEMMA TryErrors ==
    ASSUME NEW n, NEW k, KindOf[AgentOf(n)] \in DetKinds, ~Refuses(n, k), RetryableErrs = {}
    PROVE  LET e == TryErr(n, k)
           IN  /\ normalizeInvocationError(e) = e
               /\ e # NoErr => (shouldRetry(e) <=> KindOf[AgentOf(n)] # "panic")
               /\ KindOf[AgentOf(n)] = "panic" => e # NoErr
<1>1. CASE KindOf[AgentOf(n)] = "panic"
  BY <1>1 DEF TryErr, Panic, NonRetryable, Error, normalizeInvocationError, shouldRetry, NoErr
<1>2. CASE KindOf[AgentOf(n)] = "fail"
  BY <1>2 DEF TryErr, PlainErr, Error, normalizeInvocationError, shouldRetry, NoErr
<1>3. CASE KindOf[AgentOf(n)] = "flaky"
  BY <1>3 DEF TryErr, PlainErr, Error, normalizeInvocationError, shouldRetry, NoErr
<1>4. CASE KindOf[AgentOf(n)] = "ok"
  BY <1>4, Zenon DEF TryErr, Error, normalizeInvocationError, NoErr
<1> QED BY <1>1, <1>2, <1>3, <1>4, Zenon DEF DetKinds

(* What the agent returns in an undisturbed run. *)
LEMMA Returns ==
    ASSUME NEW n, KindOf[AgentOf(n)] \in DetKinds, ~Refuses(n, attempt[n]), ~cancelled
    PROVE  MayReturn(n) = {TryErr(n, attempt[n])}
<1>1. CASE KindOf[AgentOf(n)] = "panic"
  BY <1>1 DEF TryErr, MayReturn
<1>2. CASE KindOf[AgentOf(n)] = "fail"
  BY <1>2 DEF TryErr, MayReturn
<1>3. CASE KindOf[AgentOf(n)] = "flaky"
  BY <1>3 DEF TryErr, MayReturn
<1>4. CASE KindOf[AgentOf(n)] = "ok"
  BY <1>4 DEF TryErr, MayReturn
<1> QED BY <1>1, <1>2, <1>3, <1>4 DEF DetKinds

(* Which attempt is followed by another. *)
LEMMA TriesEnd ==
    ASSUME NEW n, KindOf[AgentOf(n)] \in DetKinds, Threshold(n) \in Nat, MaxAttempts(n) \in Nat \ {0},
           NEW k \in 1..LastTry(n), k <= MaxAttempts(n)
    PROVE  /\ LastTry(n) \in 1..MaxAttempts(n)
           /\ Refuses(n, k) => k = LastTry(n)
           /\ ~Refuses(n, k) =>
                /\ TryErr(n, k) = NoErr => k = LastTry(n)
                /\ k = MaxAttempts(n) => k = LastTry(n)
                /\ KindOf[AgentOf(n)] = "panic" => k = LastTry(n)
                /\ TryErr(n, k) # NoErr /\ k # MaxAttempts(n) /\ KindOf[AgentOf(n)] # "panic" =>
                     k < LastTry(n)
<1>1. /\ NoErr \notin {Panic, CircuitOpen}
      /\ \A c \in {"forced", "transient"} : PlainErr(c) # NoErr
  BY EngineErrors
<1>2. CASE KindOf[AgentOf(n)] = "panic"
  <2>1. LastTry(n) = 1 /\ k = 1
    BY <1>2 DEF LastTry
  <2> QED BY <1>2, <2>1
<1>3. CASE KindOf[AgentOf(n)] = "fail"
  <2> DEFINE M == MaxAttempts(n)
             T == Threshold(n)
  <2>1. LastTry(n) = IF T > 0 /\ M > T THEN T + 1 ELSE M
    BY <1>3 DEF LastTry, Refuses
  <2>2. ~Refuses(n, k) => TryErr(n, k) # NoErr
    BY <1>1, <1>3 DEF TryErr
  <2>3. Refuses(n, k) <=> T > 0 /\ k > T
    BY DEF Refuses
  <2>4. M \in Nat \ {0} /\ T \in Nat /\ k \in 1..LastTry(n) /\ k <= M
    OBVIOUS
  <2> HIDE DEF M, T
  <2>5. /\ LastTry(n) \in 1..M /\ (Refuses(n, k) => k = LastTry(n))
        /\ ~Refuses(n, k) => (k = M => k = LastTry(n)) /\ (k # M => k < LastTry(n))
    BY <2>1, <2>3, <2>4
  <2> QED BY <1>3, <2>2, <2>5 DEF M
<1>4. CASE KindOf[AgentOf(n)] = "flaky"
  <2> DEFINE M == MaxAttempts(n)
             T == Threshold(n)
  <2>1. LastTry(n) = IF M > 1 THEN 2 ELSE 1
    BY <1>4 DEF LastTry
  <2>2. ~Refuses(n, k) => (TryErr(n, k) = NoErr <=> k # 1)
    BY <1>1, <1>4 DEF TryErr
  <2>3. Refuses(n, k) <=> T > 0 /\ k > T
    BY DEF Refuses
  <2>4. M \in Nat \ {0} /\ T \in Nat /\ k \in 1..LastTry(n) /\ k <= M
    OBVIOUS
  <2> HIDE DEF M, T
  <2>5. /\ LastTry(n) \in 1..M /\ (Refuses(n, k) => k = LastTry(n))
        /\ (k # 1 => k = LastTry(n)) /\ (k = M => k = LastTry(n))
        /\ k = 1 /\ k # M => k < LastTry(n)
    BY <2>1, <2>3, <2>4
  <2> QED BY <1>4, <2>2, <2>5 DEF M
<1>5. CASE KindOf[AgentOf(n)] = "ok"
  <2>1. LastTry(n) = 1 /\ k = 1
    BY <1>5 DEF LastTry
  <2>2. ~Refuses(n, k) => TryErr(n, k) = NoErr
    BY <1>5 DEF TryErr
  <2> QED BY <2>1, <2>2
<1> QED BY <1>2, <1>3, <1>4, <1>5, Zenon DEF DetKinds

-----------------------------------------------------------------------------
(* Node n, with k attempts and the circuit s, is where its agent and its     *)
(* policies put it.                                                          *)
ForetoldAt(n, k, s) ==
    /\ pc[n] \in {"idle", "spawned"} => s = ZeroCircuit
    /\ pc[n] \in Running \cup {"done"} => k <= LastTry(n)
    /\ pc[n] \in {"allow", "call"} => AfterFailures(n, s, k - 1)
    /\ pc[n] = "call" => ~Refuses(n, k)
    /\ pc[n] = "backoff" => k < LastTry(n) /\ AfterFailures(n, s, k)
    /\ pc[n] \in {"return", "done"} => k = LastTry(n) /\ res[n] = TryErr(n, k)

Foretold(n) == \A k \in {attempt[n]}, s \in {states[AgentOf(n)]} : ForetoldAt(n, k, s)

(* The attempts recorded so far ended as they had to. *)
AsForetold ==
    \A i \in DOMAIN steps : \A n \in IDs, k \in {steps[i].attempt} :
        steps[i].inv = n /\ k # 0 => steps[i].err = TryErr(n, k)

(* An undisturbed run of a deterministic plan. *)
OnCourse ==
    Deterministic /\ Undisturbed => (\A n \in IDs : Foretold(n)) /\ AsForetold

(* The predictions do not change during a run. *)
LEMMA PredictionsKept ==
    ASSUME [Next]_vars
    PROVE  /\ Deterministic' = Deterministic
           /\ \A n, k : Refuses(n, k)' = Refuses(n, k) /\ TryErr(n, k)' = TryErr(n, k)
           /\ \A n : LastTry(n)' = LastTry(n)
           /\ \A n, s, f : AfterFailures(n, s, f)' = AfterFailures(n, s, f)
<1>1. /\ plan' = plan /\ IDs' = IDs /\ Agents' = Agents
      /\ \A n : /\ AgentOf(n)' = AgentOf(n) /\ MaxAttempts(n)' = MaxAttempts(n)
                /\ Threshold(n)' = Threshold(n)
  BY PlanKept
<1>2. Deterministic' = Deterministic
  BY <1>1 DEF Deterministic
<1>3. \A n, k : Refuses(n, k)' = Refuses(n, k)
  BY <1>1 DEF Refuses
<1>4. \A n, k : TryErr(n, k)' = TryErr(n, k)
  BY <1>1, <1>3 DEF TryErr
<1>5. \A n : LastTry(n)' = LastTry(n)
  BY <1>1, <1>3, Zenon DEF LastTry
<1>6. \A n, s, f : AfterFailures(n, s, f)' = AfterFailures(n, s, f)
  BY <1>1 DEF AfterFailures
<1> QED BY <1>2, <1>3, <1>4, <1>5, <1>6

(* A run that is undisturbed now has been so. *)
LEMMA WasUndisturbed ==
    ASSUME Values, [Next]_vars, Undisturbed'
    PROVE  Undisturbed
<1>1. clock \in Nat /\ ResetTimeout \in Nat
  BY EngineAssumption DEF Values
<1>2. (cancelled' = cancelled \/ cancelled') /\ (clock' = clock \/ clock' = clock + 1)
  BY Zenon DEF Next, Main, Node, BuildGraph, RejectPlan, StartPlan, Dispatch, CollectLevel, FinishPlan,
         StartNode, Allow, CallSucceeds, CallFails, BackoffElapsed, BackoffCancelled, Return,
         Cancel, Tick, Register, envVars, vars
<1> QED BY <1>1, <1>2 DEF Undisturbed

(* A step of node n leaves the circuits of other agents alone. *)
LEMMA OtherCircuits ==
    ASSUME Values, NEW n \in IDs, Node(n), NEW a \in Agents, a # AgentOf(n)
    PROVE  states'[a] = states[a]
<1>1. states \in [Agents -> CircuitState]
  BY DEF Values
<1>2. CASE Allow(n)
  BY <1>1, <1>2 DEF Allow
<1>3. CASE CallSucceeds(n)
  BY <1>1, <1>3 DEF CallSucceeds
<1>4. ASSUME NEW raw, CallFails(n, raw) PROVE states'[a] = states[a]
  BY <1>1, <1>4 DEF CallFails
<1>5. CASE StartNode(n) \/ BackoffElapsed(n) \/ BackoffCancelled(n) \/ Return(n)
  BY <1>5, Zenon DEF StartNode, BackoffElapsed, BackoffCancelled, Return
<1> QED BY <1>2, <1>3, <1>4, <1>5, Zenon DEF Node

(* A recorded attempt ends as foretold. *)
LEMMA RecordForetold ==
    ASSUME Values, AsForetold, IDs' = IDs, NEW n, NEW k, NEW e,
           \A m, q : TryErr(m, q)' = TryErr(m, q),
           steps' = AddStep(n, k, e), k # 0 => e = TryErr(n, k)
    PROVE  AsForetold'
<1> DEFINE N == Len(steps)
<1>1. /\ N \in Nat /\ DOMAIN steps = 1..N /\ DOMAIN steps' = 1..(N + 1)
      /\ \A i \in 1..N : steps'[i] = steps[i]
      /\ steps'[N + 1] = Step(n, k, e)
  <2>1. steps \in Seq(StepRecords)
    BY Zenon DEF Values
  <2>2. steps' = Append(steps, Step(n, k, e))
    BY Zenon DEF AddStep
  <2> QED BY <2>1, <2>2, Appended, Zenon
<1>2. steps'[N + 1].inv = n /\ steps'[N + 1].attempt = k /\ steps'[N + 1].err = e
  <2> HIDE DEF N
  <2>1. steps'[N + 1] = Step(n, k, e)
    BY <1>1, Zenon
  <2> QED BY <2>1, StepParts
<1> HIDE DEF N
<1>3. ASSUME NEW i \in 1..(N + 1), NEW m \in IDs, NEW q, steps'[i].inv = m, q = steps'[i].attempt, q # 0
      PROVE  steps'[i].err = TryErr(m, q)
  <2>1. CASE i \in 1..N
    BY <1>1, <1>3, <2>1, Zenon DEF AsForetold
  <2>2. CASE i = N + 1
    BY <1>2, <1>3, <2>2
  <2>3. i \in 1..N \/ i = N + 1
    <3>1. N \in Nat
      BY <1>1, Zenon
    <3> QED BY <3>1
  <2> QED BY <2>1, <2>2, <2>3, Zenon
<1>4. \A i \in DOMAIN steps' : \A m \in IDs', q \in {steps'[i].attempt} :
         steps'[i].inv = m /\ q # 0 => steps'[i].err = TryErr(m, q)'
  BY <1>1, <1>3
<1> QED BY <1>4, Zenon DEF AsForetold

-----------------------------------------------------------------------------
(* The step of a node leads where it has to, *)
LEMMA NodeForetold ==
    ASSUME EInv, Values, Limits, [Next]_vars, Deterministic, Undisturbed, AsForetold,
           NEW n \in IDs, Foretold(n), Node(n)
    PROVE  Foretold(n)' /\ AsForetold'
<1> DEFINE a == AgentOf(n)
           T == Threshold(n)
<1>0. PICK k, s : k = attempt[n] /\ s = states[a]
  OBVIOUS
<1>1. /\ pc \in [IDs -> Active \cup Ended \cup {"idle"}] /\ attempt \in [IDs -> Nat]
      /\ res \in [IDs -> Errors] /\ k \in Nat /\ plan \in Plans
      /\ states \in [Agents -> CircuitState] /\ clock \in Nat /\ Registered \subseteq registry
      /\ k <= MaxAttempts(n) /\ (pc[n] \in Running => k \in Nat \ {0})
  <2>1. /\ pc \in [IDs -> Active \cup Ended \cup {"idle"}] /\ plan \in Plans
        /\ attempt \in [IDs -> Nat] /\ res \in [IDs -> Errors]
        /\ states \in [Agents -> CircuitState] /\ Registered \subseteq registry
        /\ clock \in 0..MaxClock
    BY Zenon DEF EInv, Frame, IInv, Phases, Values
  <2>2. k \in Nat /\ k <= MaxAttempts(n) /\ (pc[n] \in Running => k >= 1)
    <3>1. attempt[n] \in Nat
      BY <2>1
    <3>2. attempt[n] <= MaxAttempts(n) /\ (pc[n] \in Running => attempt[n] >= 1)
      BY Zenon DEF Limits
    <3> QED BY <1>0, <3>1, <3>2, Zenon
  <2>3. clock \in Nat /\ (pc[n] \in Running => k \in Nat \ {0})
    BY <2>1, <2>2, EngineAssumption
  <2> QED BY <2>1, <2>2, <2>3, Zenon
<1>2. /\ KindOf[a] \in DetKinds /\ a \in Agents /\ a \in registry /\ s \in CircuitState
      /\ T \in Nat /\ MaxAttempts(n) \in Nat \ {0} /\ RetryableErrs = {}
      /\ ~cancelled /\ clock < ResetTimeout
  BY <1>0, <1>1, DeterministicFacts, Zenon DEF Undisturbed
<1>3. /\ IDs' = IDs /\ AgentOf(n)' = a
      /\ \A m, q : Refuses(m, q)' = Refuses(m, q) /\ TryErr(m, q)' = TryErr(m, q)
      /\ LastTry(n)' = LastTry(n)
      /\ \A u, f : AfterFailures(n, u, f)' = AfterFailures(n, u, f)
  BY PlanKept, PredictionsKept, Zenon
<1>4. ForetoldAt(n, k, s) /\ (pc[n] \in Running => k \in 1..LastTry(n))
  <2>1. ForetoldAt(n, k, s)
    BY <1>0 DEF Foretold
  <2> QED BY <1>1, <2>1 DEF ForetoldAt
<1>5. steps' = steps => AsForetold'
  BY <1>3, Zenon DEF AsForetold
<1>6. ASSUME NEW q, NEW u, attempt'[n] = q, states'[a] = u, ForetoldAt(n, q, u)' PROVE Foretold(n)'
  BY <1>3, <1>6, Zenon DEF Foretold
(* The attempt ends with its error and is the last. *)
<1>7. ASSUME steps' = AddStep(n, k, TryErr(n, k)), attempt'[n] = k, k = LastTry(n),
             pc'[n] = "return", res'[n] = TryErr(n, k)
      PROVE  Foretold(n)' /\ AsForetold'
  <2>1. AsForetold'
    BY <1>3, <1>7, RecordForetold, Zenon
  <2>2. PICK u : states'[a] = u
    OBVIOUS
  <2>3. k <= LastTry(n) /\ LastTry(n)' = LastTry(n) /\ TryErr(n, k)' = TryErr(n, k)
    <3>1. k \in Nat /\ k = LastTry(n)
      BY <1>1, <1>7, Zenon
    <3>2. k <= LastTry(n)
      BY <3>1
    <3> QED BY <1>3, <3>2, Zenon
  <2>4. ForetoldAt(n, k, u)'
    BY <1>7, <2>3, Zenon DEF ForetoldAt
  <2> QED BY <1>6, <1>7, <2>1, <2>2, <2>4, Zenon
<1>8. CASE StartNode(n)
  <2>1. /\ pc[n] = "spawned" /\ pc'[n] = "allow" /\ attempt'[n] = 1 /\ steps' = steps
        /\ states'[a] = s
    BY <1>0, <1>1, <1>2, <1>8, Zenon DEF StartNode
  <2>2. s = ZeroCircuit /\ 1 <= LastTry(n)
    <3>1. s = ZeroCircuit
      BY <1>4, <2>1, Zenon DEF ForetoldAt
    <3>2. 1 <= LastTry(n)
      BY <1>2 DEF LastTry
    <3> QED BY <3>1, <3>2
  <2>3. AfterFailures(n, s, 1 - 1)
    BY <2>2 DEF AfterFailures, ZeroCircuit, HalfOpen, Open
  <2>4. ForetoldAt(n, 1, s)'
    BY <1>3, <2>1, <2>2, <2>3, Zenon DEF ForetoldAt
  <2> QED BY <1>5, <1>6, <2>1, <2>4, Zenon
<1>9. CASE Allow(n)
  <2>1. /\ pc[n] = "allow" /\ attempt' = attempt /\ AfterFailures(n, s, k - 1)
        /\ k \in Nat \ {0} /\ k \in 1..LastTry(n)
    BY <1>1, <1>4, <1>9, Zenon DEF Allow, ForetoldAt, Running
  <2>2. /\ Allowed(s, T, clock) <=> ~Refuses(n, k)
        /\ ~Refuses(n, k) => AfterAllow(s, T, clock) = s
    BY <1>2, <1>1, <2>1, AllowsTry
  <2>3. CASE Refuses(n, k)
    <3>1. /\ pc'[n] = "return" /\ res'[n] = CircuitOpen /\ steps' = AddStep(n, k, CircuitOpen)
      BY <1>0, <1>1, <1>9, <2>2, <2>3, Zenon DEF Allow
    <3>2. TryErr(n, k) = CircuitOpen /\ k = LastTry(n)
      BY <1>1, <1>2, <2>1, <2>3, TriesEnd, Zenon DEF TryErr
    <3> QED BY <1>0, <1>7, <2>1, <3>1, <3>2, Zenon
  <2>4. CASE ~Refuses(n, k)
    <3>1. /\ pc'[n] = "call" /\ states' = [states EXCEPT ![a] = s] /\ steps' = steps
      BY <1>0, <1>1, <1>9, <2>2, <2>4, Zenon DEF Allow
    <3>2. states'[a] = s /\ attempt'[n] = k
      BY <1>0, <1>1, <1>2, <2>1, <3>1, Zenon
    <3>3. /\ k <= LastTry(n) /\ LastTry(n)' = LastTry(n) /\ Refuses(n, k)' = Refuses(n, k)
          /\ AfterFailures(n, s, k - 1)' = AfterFailures(n, s, k - 1)
      BY <1>3, <2>1
    <3>4. ForetoldAt(n, k, s)'
      BY <2>1, <2>4, <3>1, <3>3, Zenon DEF ForetoldAt
    <3> QED BY <1>5, <1>6, <3>1, <3>2, <3>4, Zenon
  <2> QED BY <2>3, <2>4
<1>10. ASSUME pc[n] = "call"
       PROVE  /\ MayReturn(n) = {TryErr(n, k)} /\ ~Refuses(n, k) /\ k \in 1..LastTry(n)
              /\ AfterFailures(n, s, k - 1) /\ k \in Nat \ {0}
  <2>1. ~Refuses(n, k) /\ k \in 1..LastTry(n) /\ AfterFailures(n, s, k - 1) /\ k \in Nat \ {0}
    BY <1>1, <1>4, <1>10 DEF ForetoldAt, Running
  <2> QED BY <1>0, <1>2, <2>1, Returns, Zenon
<1>11. CASE CallSucceeds(n)
  <2>1. /\ pc[n] = "call" /\ pc'[n] = "return" /\ res'[n] = NoErr /\ attempt'[n] = k
        /\ steps' = AddStep(n, k, NoErr) /\ NoErr \in MayReturn(n)
    BY <1>0, <1>1, <1>11 DEF CallSucceeds
  <2>2. TryErr(n, k) = NoErr /\ k \in 1..LastTry(n) /\ ~Refuses(n, k)
    BY <1>10, <2>1, Zenon
  <2>3. k = LastTry(n)
    BY <1>1, <1>2, <2>2, TriesEnd, Zenon
  <2> QED BY <1>7, <2>1, <2>2, <2>3, Zenon
<1>12. ASSUME NEW raw \in MayReturn(n) \ {NoErr}, CallFails(n, raw) PROVE Foretold(n)' /\ AsForetold'
  <2> DEFINE e == TryErr(n, k)
             t == AfterFailure(s, T, ResetTimeout, clock)
  <2>1. pc[n] = "call"
    BY <1>12 DEF CallFails
  <2>2. /\ raw = e /\ e # NoErr /\ ~Refuses(n, k) /\ k \in 1..LastTry(n)
        /\ AfterFailures(n, s, k - 1) /\ k \in Nat \ {0}
    BY <1>10, <1>12, <2>1
  <2>3. normalizeInvocationError(raw) = e /\ (shouldRetry(e) <=> KindOf[a] # "panic")
    BY <1>2, <2>2, TryErrors
  <2>4. GivesUp(n, e) <=> k = MaxAttempts(n) \/ KindOf[a] = "panic"
    BY <1>0, <2>3, Zenon DEF GivesUp
  <2>5. /\ k = MaxAttempts(n) \/ KindOf[a] = "panic" => k = LastTry(n)
        /\ k # MaxAttempts(n) /\ KindOf[a] # "panic" => k < LastTry(n)
    BY <1>1, <1>2, <2>2, TriesEnd, Zenon
  <2> HIDE DEF e
  <2>6. /\ steps' = AddStep(n, k, e) /\ attempt'[n] = k
        /\ states' = [states EXCEPT ![a] = t]
    BY <1>0, <1>1, <1>2, <1>12, <2>3, Zenon DEF CallFails
  <2>7. CASE GivesUp(n, e)
    <3>1. pc'[n] = "return" /\ res'[n] = e
      BY <1>1, <1>12, <2>3, <2>7, Zenon DEF CallFails
    <3> QED BY <1>7, <2>4, <2>5, <2>6, <2>7, <3>1, Zenon DEF e
  <2>8. CASE ~GivesUp(n, e)
    <3>1. pc'[n] = "backoff"
      BY <1>1, <1>2, <1>12, <2>3, <2>8, Zenon DEF CallFails
    <3>2. k < LastTry(n) /\ k <= LastTry(n)
      BY <2>2, <2>4, <2>5, <2>8
    <3>3. states'[a] = t
      BY <1>1, <1>2, <2>6
    <3>4. AfterFailures(n, t, k)
      BY <1>1, <1>2, <2>2, FailsTry
    <3>5. PICK u : u = t
      OBVIOUS
    <3>6. AsForetold'
      BY <1>3, <2>6, RecordForetold, Zenon DEF e
    <3> HIDE DEF t
    <3>7. AfterFailures(n, u, k)'
      BY <1>3, <3>4, <3>5
    <3>8. ForetoldAt(n, k, u)'
      BY <1>3, <3>1, <3>2, <3>7, Zenon DEF ForetoldAt
    <3> QED BY <1>6, <2>6, <3>3, <3>5, <3>6, <3>8
  <2> QED BY <2>7, <2>8
<1>13. CASE BackoffElapsed(n)
  <2>1. /\ pc[n] = "backoff" /\ pc'[n] = "allow" /\ attempt'[n] = k + 1 /\ states'[a] = s
        /\ steps' = steps
    BY <1>0, <1>1, <1>13 DEF BackoffElapsed
  <2>2. k < LastTry(n) /\ AfterFailures(n, s, k) /\ (k + 1) - 1 = k
    <3>1. k < LastTry(n) /\ AfterFailures(n, s, k)
      BY <1>4, <2>1, Zenon DEF ForetoldAt
    <3>2. (k + 1) - 1 = k
      BY <1>1
    <3> QED BY <3>1, <3>2
  <2>3. LastTry(n) \in Nat
    BY <1>2 DEF LastTry
  <2>4. k + 1 <= LastTry(n)
    BY <1>1, <2>2, <2>3
  <2>5. ForetoldAt(n, k + 1, s)'
    BY <1>3, <2>1, <2>2, <2>4, Zenon DEF ForetoldAt
  <2> QED BY <1>5, <1>6, <2>1, <2>5, Zenon
<1>14. CASE BackoffCancelled(n)
  BY <1>2, <1>14 DEF BackoffCancelled
<1>15. CASE Return(n)
  <2>1. /\ pc[n] = "return" /\ pc'[n] = "done" /\ attempt'[n] = k /\ res' = res /\ steps' = steps
        /\ states'[a] = s
    BY <1>0, <1>1, <1>15 DEF Return
  <2>2. k = LastTry(n) /\ k <= LastTry(n) /\ res'[n] = TryErr(n, k)
    BY <1>1, <1>4, <2>1, Zenon DEF ForetoldAt, Running
  <2>3. ForetoldAt(n, k, s)'
    BY <1>3, <2>1, <2>2, Zenon DEF ForetoldAt
  <2> QED BY <1>5, <1>6, <2>1, <2>3, Zenon
<1> QED BY <1>8, <1>9, <1>11, <1>12, <1>13, <1>14, <1>15 DEF Node
=============================================================================
