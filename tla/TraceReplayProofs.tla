------------------------- MODULE TraceReplayProofs -------------------------
(***************************************************************************)
(* TLAPS proofs about TraceReplay, for every deterministic plan, pool and  *)
(* interleaving: an undisturbed run leaves the trace its plan foretells,   *)
(* ReplayAndCompare gives the verdict that follows from it, and Compare    *)
(* finds where the results of any run differ from it.                      *)
(***************************************************************************)
EXTENDS EngineTraceProofs

(* A node that is left alone stays where it has to be. *)
LEMMA StillForetold ==
    ASSUME [Next]_vars, NEW m \in IDs, Foretold(m), pc'[m] = pc[m], attempt'[m] = attempt[m],
           res'[m] = res[m], states'[AgentOf(m)] = states[AgentOf(m)]
    PROVE  Foretold(m)'
<1>1. PICK k, s : k = attempt[m] /\ s = states[AgentOf(m)]
  OBVIOUS
<1>2. /\ AgentOf(m)' = AgentOf(m)
      /\ \A n, q : Refuses(n, q)' = Refuses(n, q) /\ TryErr(n, q)' = TryErr(n, q)
      /\ LastTry(m)' = LastTry(m)
      /\ \A u, f : AfterFailures(m, u, f)' = AfterFailures(m, u, f)
  BY PlanKept, PredictionsKept
<1>3. ForetoldAt(m, k, s)
  BY <1>1 DEF Foretold
<1>4. ForetoldAt(m, k, s)'
  BY <1>2, <1>3 DEF ForetoldAt
<1> QED BY <1>1, <1>2, <1>4 DEF Foretold

(* A run is on its course at the start *)
LEMMA InitOnCourse == Init => OnCourse
<1> SUFFICES ASSUME Init, Deterministic PROVE (\A n \in IDs : Foretold(n)) /\ AsForetold
  BY DEF OnCourse
<1>1. plan \in Plans /\ DOMAIN steps = {} /\ \A n \in IDs : pc[n] = "idle"
  BY DEF Init, GraphInit
<1>2. \A a \in Agents : states[a] \in PriorCircuits[a]
  BY DEF Init
<1>3. \A n \in IDs : states[AgentOf(n)] = ZeroCircuit
  BY <1>1, <1>2, DeterministicFacts
<1>4. \A n \in IDs : Foretold(n)
  BY <1>1, <1>3 DEF Foretold, ForetoldAt, Running
<1> QED BY <1>1, <1>4 DEF AsForetold

(* and stays on it. *)
LEMMA OnCourseStep ==
    ASSUME EInv, Values, Bounds, OnCourse, [Next]_vars
    PROVE  OnCourse'
<1> SUFFICES ASSUME Deterministic', Undisturbed'
             PROVE  (\A m \in IDs' : Foretold(m)') /\ AsForetold'
  BY DEF OnCourse
<1>1. /\ Deterministic /\ Undisturbed /\ IDs' = IDs /\ plan \in Plans
      /\ \A n, k : TryErr(n, k)' = TryErr(n, k)
  BY PredictionsKept, WasUndisturbed, PlanKept, Zenon DEF EInv, Frame, IInv, Phases
<1>2. (\A n \in IDs : Foretold(n)) /\ AsForetold
  BY <1>1 DEF OnCourse
<1>3. steps' = steps => AsForetold'
  BY <1>1, <1>2 DEF AsForetold
<1>4. CASE UNCHANGED <<pc, attempt, res, states>> /\ steps' = steps
  BY <1>1, <1>2, <1>3, <1>4, StillForetold
<1>5. CASE RejectPlan
  <2>1. /\ UNCHANGED <<pc, attempt, res, states>>
        /\ steps' = AddStep(PlanValidation, 0, PlainErr(err))
    BY <1>5 DEF RejectPlan, nodeVars
  <2>2. AsForetold'
    BY <1>1, <1>2, <2>1, RecordForetold
  <2> QED BY <1>1, <1>2, <2>1, <2>2, StillForetold
<1>6. ASSUME NEW n \in IDs, Dispatch(n) PROVE (\A m \in IDs' : Foretold(m)') /\ AsForetold'
  <2>1. /\ pc \in [IDs -> Active \cup Ended \cup {"idle"}] /\ res \in [IDs -> Errors]
        /\ pc[n] = "idle" /\ pc'[n] \in {"skipped", "spawned"}
        /\ states' = states /\ attempt' = attempt
        /\ \A m \in IDs : m # n => pc'[m] = pc[m] /\ res'[m] = res[m]
    BY <1>6 DEF EInv, Frame, InLevels, Values, Dispatch
  <2>2. steps' = steps \/ steps' = AddStep(n, 0, DepFailed)
    BY <1>6 DEF Dispatch
  <2>3. AsForetold'
    BY <1>1, <1>2, <1>3, <2>2, RecordForetold
  <2>4. \A m \in IDs : m # n => Foretold(m)'
    BY <1>2, <2>1, StillForetold
  <2>5. Foretold(n)'
    <3>1. states[AgentOf(n)] = ZeroCircuit
      BY <1>2, <2>1 DEF Foretold, ForetoldAt
    <3>2. states'[AgentOf(n)'] = ZeroCircuit
      BY <2>1, <3>1, PlanKept
    <3> QED BY <2>1, <3>2 DEF Foretold, ForetoldAt, Running
  <2> QED BY <1>1, <2>3, <2>4, <2>5
<1>7. ASSUME NEW n \in IDs, Node(n) PROVE (\A m \in IDs' : Foretold(m)') /\ AsForetold'
  <2>1. Foretold(n)' /\ AsForetold'
    BY <1>1, <1>2, <1>7, NodeForetold DEF Bounds
  <2>2. ASSUME NEW m \in IDs, m # n PROVE Foretold(m)'
    <3>1. AgentOf(m) \in Agents /\ AgentOf(m) # AgentOf(n)
      BY <1>1, <2>2, AgentsApart, DeterministicFacts
    <3>2. states'[AgentOf(m)] = states[AgentOf(m)]
      BY <1>7, <3>1, OtherCircuits
    <3>3. pc'[m] = pc[m] /\ attempt'[m] = attempt[m] /\ res'[m] = res[m]
      BY <1>7, <2>2, NodeAlone
    <3> QED BY <1>2, <3>2, <3>3, StillForetold
  <2> QED BY <1>1, <2>1, <2>2
<1>8. CASE BuildGraph \/ StartPlan \/ CollectLevel \/ FinishPlan
  BY <1>4, <1>8 DEF BuildGraph, StartPlan, CollectLevel, FinishPlan, nodeVars
<1>9. CASE Cancel \/ Tick \/ (\E a \in LateAgents : Register(a)) \/ UNCHANGED vars
  BY <1>4, <1>9 DEF Cancel, Tick, Register, nodeVars, vars
<1> QED BY <1>5, <1>6, <1>7, <1>8, <1>9 DEF Next, Main

-----------------------------------------------------------------------------
(* Who was skipped has a dependency that did not succeed, who was started    *)
(* has none.                                                                 *)
Justified ==
    phase = "built" =>
        \A n \in IDs :
            /\ Outcomes[n] = "skipped" => \E d \in Deps(n) : Outcomes[d] \in {"failed", "skipped"}
            /\ Outcomes[n] \in {"running", "ok", "failed"} => \A d \in Deps(n) : Outcomes[d] = "ok"

(* All dependencies are nodes. *)
LEMMA DepsInside ==
    ASSUME IInv, phase = "built", NEW n \in IDs
    PROVE  Deps(n) \subseteq IDs
  BY NodeType DEF IInv, Phases, Ordering

(* What was justified stays so: decided outcomes do not change. *)
LEMMA JustifiedStep == ASSUME EInv, Justified, [Next]_vars PROVE Justified'
<1> SUFFICES ASSUME phase' = "built" PROVE Justified'
  BY DEF Justified
<1>1. /\ IDs' = IDs /\ \A n : Deps(n)' = Deps(n)
  BY PlanKept, PlanUnchanged
<1>2. CASE phase # "built"
  <2>1. main = "build" /\ pc' = pc
    <3>1. main # "level"
      BY <1>2 DEF EInv, Frame
    <3>2. CASE BuildGraph
      BY <3>2 DEF BuildGraph, nodeVars
    <3>3. ~BuildGraph => phase' = phase
      BY Zenon DEF Next, Main, Node, RejectPlan, StartPlan, Dispatch, CollectLevel, FinishPlan,
             StartNode, Allow, CallSucceeds, CallFails, BackoffElapsed, BackoffCancelled, Return,
             Cancel, Tick, Register, graphVars, vars
    <3> QED BY <1>2, <3>2, <3>3
  <2>2. \A n \in IDs : pc'[n] = "idle"
    BY <2>1 DEF EInv, Frame
  <2>3. \A n \in IDs : Outcomes'[n] = "pending"
    BY <1>1, <2>2 DEF Outcomes, OutcomeOf, Running
  <2> QED BY <1>1, <2>3 DEF Justified
<1>3. CASE phase = "built"
  <2>1. \A n \in IDs : Deps(n) \subseteq IDs
    BY <1>3, DepsInside DEF EInv, Frame
  <2>2. Outcomes = [n \in IDs |-> Outcomes[n]] /\ DepsOf = [n \in IDs |-> Deps(n)]
    BY DEF Outcomes, DepsOf
  <2>3. \A n \in IDs :
            /\ Outcomes[n] = "skipped" => \E d \in Deps(n) : Outcomes[d] \in {"failed", "skipped"}
            /\ Outcomes[n] \in {"running", "ok", "failed"} => \A d \in Deps(n) : Outcomes[d] = "ok"
    BY <1>3 DEF Justified
  <2>4. CASE Outcomes' = Outcomes
    BY <1>1, <2>3, <2>4 DEF Justified
  <2>5. ASSUME NEW n \in IDs, NEW o, Outcomes' = [Outcomes EXCEPT ![n] = o],
               Outcomes[n] \in {"pending", "running"}, o \in {"skipped", "running", "ok", "failed"},
               o = "skipped" => \E d \in Deps(n) : Outcomes[d] \in {"failed", "skipped"},
               o # "skipped" => \A d \in Deps(n) : Outcomes[d] = "ok"
        PROVE  Justified'
    <3>1. Outcomes'[n] = o /\ \A m \in IDs : m # n => Outcomes'[m] = Outcomes[m]
      BY <2>2, <2>5
    <3>2. \A d \in IDs : Outcomes[d] \in {"ok", "failed", "skipped"} => Outcomes'[d] = Outcomes[d]
      BY <2>5, <3>1
    <3>3. \A m \in IDs :
            /\ Outcomes'[m] = "skipped" => \E d \in Deps(m) : Outcomes'[d] \in {"failed", "skipped"}
            /\ Outcomes'[m] \in {"running", "ok", "failed"} => \A d \in Deps(m) : Outcomes'[d] = "ok"
      <4> TAKE m \in IDs
      <4>1. CASE m = n
        BY <2>1, <2>5, <3>1, <3>2, <4>1
      <4>2. CASE m # n
        BY <2>1, <2>3, <3>1, <3>2, <4>2
      <4> QED BY <4>1, <4>2
    <3> QED BY <1>1, <3>3 DEF Justified
  <2>6. \/ Outcomes' = Outcomes
        \/ \E n \in IDs :
                   \/ /\ Outcomes[n] = "pending"
                      /\ \A d \in DepsOf[n] : Outcomes[d] \in {"ok", "failed", "skipped"}
                      /\ \E d \in DepsOf[n] : Outcomes[d] # "ok"
                      /\ Outcomes' = [Outcomes EXCEPT ![n] = "skipped"]
                   \/ /\ Outcomes[n] = "pending"
                      /\ \A d \in DepsOf[n] : Outcomes[d] = "ok"
                      /\ Outcomes' = [Outcomes EXCEPT ![n] = "running"]
                   \/ /\ Outcomes[n] = "running"
                      /\ \E o \in {"ok", "failed"} : Outcomes' = [Outcomes EXCEPT ![n] = o]
    BY OutcomeNext
  <2>7. CASE Outcomes' # Outcomes
    <3>1. PICK n \in IDs :
                   \/ /\ Outcomes[n] = "pending"
                      /\ \A d \in Deps(n) : Outcomes[d] \in {"ok", "failed", "skipped"}
                      /\ \E d \in Deps(n) : Outcomes[d] # "ok"
                      /\ Outcomes' = [Outcomes EXCEPT ![n] = "skipped"]
                   \/ /\ Outcomes[n] = "pending"
                      /\ \A d \in Deps(n) : Outcomes[d] = "ok"
                      /\ Outcomes' = [Outcomes EXCEPT ![n] = "running"]
                   \/ /\ Outcomes[n] = "running"
                      /\ \E o \in {"ok", "failed"} : Outcomes' = [Outcomes EXCEPT ![n] = o]
      BY <2>2, <2>6, <2>7
    <3>2. CASE /\ Outcomes[n] = "pending"
               /\ \A d \in Deps(n) : Outcomes[d] \in {"ok", "failed", "skipped"}
               /\ \E d \in Deps(n) : Outcomes[d] # "ok"
               /\ Outcomes' = [Outcomes EXCEPT ![n] = "skipped"]
      <4>1. \E d \in Deps(n) : Outcomes[d] \in {"failed", "skipped"}
        BY <3>2
      <4> QED BY <2>5, <3>2, <4>1, Zenon
    <3>3. CASE /\ Outcomes[n] = "pending"
               /\ \A d \in Deps(n) : Outcomes[d] = "ok"
               /\ Outcomes' = [Outcomes EXCEPT ![n] = "running"]
      BY <2>5, <3>3, Zenon
    <3>4. ASSUME Outcomes[n] = "running", NEW o \in {"ok", "failed"},
                 Outcomes' = [Outcomes EXCEPT ![n] = o]
          PROVE  Justified'
      <4>1. \A d \in Deps(n) : Outcomes[d] = "ok"
        BY <2>3, <3>4
      <4> QED BY <2>5, <3>4, <4>1, Zenon
    <3> QED BY <3>1, <3>2, <3>3, <3>4
  <2> QED BY <2>4, <2>7
<1> QED BY <1>2, <1>3

-----------------------------------------------------------------------------
(* A concatenation: its elements, *)
LEMMA Concatenation ==
    ASSUME NEW S, NEW s \in Seq(S), NEW t \in Seq(S)
    PROVE  /\ s \o t \in Seq(S) /\ Len(s \o t) = Len(s) + Len(t)
           /\ \A i \in 1..(Len(s) + Len(t)) :
                (s \o t)[i] = IF i <= Len(s) THEN s[i] ELSE t[i - Len(s)]
<1>1. s \o t \in Seq(S)
  OBVIOUS
<1>2. Len(s \o t) = Len(s) + Len(t)
  OBVIOUS
<1>3. ASSUME NEW i \in 1..(Len(s) + Len(t))
      PROVE  (s \o t)[i] = IF i <= Len(s) THEN s[i] ELSE t[i - Len(s)]
  <2>1. CASE i <= Len(s)
    BY <2>1
  <2>2. CASE ~(i <= Len(s))
    BY <2>2
  <2> QED BY <2>1, <2>2
<1> QED BY <1>1, <1>2, <1>3

(* and one with a sequence given as a function and one element more. *)
LEMMA Joined ==
    ASSUME NEW t \in Nat, NEW f, f = [k \in 1..t |-> f[k]], NEW x
    PROVE  /\ f \o << >> = f
           /\ DOMAIN (f \o << x >>) = 1..(t + 1)
           /\ Len(f) = t /\ Len(f \o << x >>) = t + 1
           /\ \A k \in 1..t : (f \o << x >>)[k] = f[k]
           /\ (f \o << x >>)[t + 1] = x
<1> DEFINE S == {f[k] : k \in 1..t} \cup {x}
           g == << x >>
           h == f \o g
<1>1. f \in Seq(S) /\ g \in Seq(S) /\ Len(f) = t /\ Len(g) = 1 /\ g[1] = x
  OBVIOUS
<1> HIDE DEF S, g
<1>2. /\ h \in Seq(S) /\ Len(h) = t + 1
      /\ \A i \in 1..(t + 1) : h[i] = IF i <= t THEN f[i] ELSE g[i - t]
  <2>1. /\ h \in Seq(S) /\ Len(h) = Len(f) + Len(g)
        /\ \A i \in 1..(Len(f) + Len(g)) : h[i] = IF i <= Len(f) THEN f[i] ELSE g[i - Len(f)]
    BY <1>1, Concatenation, Zenon
  <2> QED BY <1>1, <2>1
<1>3. f \o << >> = f
  BY <1>1
<1> HIDE DEF h
<1>4. DOMAIN h = 1..(t + 1) /\ \A k \in 1..t : h[k] = f[k]
  BY <1>2
<1>5. h[t + 1] = x
  <2>1. t + 1 \in 1..(t + 1) /\ ~(t + 1 <= t) /\ (t + 1) - t = 1
    OBVIOUS
  <2> QED BY <1>1, <1>2, <2>1
<1> QED BY <1>1, <1>2, <1>3, <1>4, <1>5 DEF h, g

(* The steps of a node that is run are its attempts, up to the last one. *)
LEMMA OwnStepsFacts ==
    ASSUME plan \in Plans, Deterministic, NEW n \in IDs
    PROVE  /\ LastTry(n) \in Nat \ {0} /\ Len(OwnSteps(n)) = LastTry(n)
           /\ DOMAIN OwnSteps(n) = 1..LastTry(n)
           /\ \A k \in 1..LastTry(n) : OwnSteps(n)[k] = Step(n, k, TryErr(n, k))
<1> DEFINE T == Threshold(n)
           M == MaxAttempts(n)
           kind == KindOf[AgentOf(n)]
<1>1. kind \in DetKinds /\ T \in Nat /\ M \in Nat \ {0}
  BY DeterministicFacts
<1> DEFINE f(c) == [k \in 1..Tries(n) |-> Step(n, k, PlainErr(c))]
           refused == IF Tries(n) < M THEN << Step(n, Tries(n) + 1, CircuitOpen) >> ELSE << >>
<1>2. Tries(n) \in Nat \ {0}
  BY <1>1 DEF Tries
<1>3. ASSUME NEW c
      PROVE  /\ Tries(n) < M => /\ DOMAIN (f(c) \o refused) = 1..(Tries(n) + 1)
                                /\ Len(f(c) \o refused) = Tries(n) + 1
                                /\ \A k \in 1..Tries(n) : (f(c) \o refused)[k] = Step(n, k, PlainErr(c))
                                /\ (f(c) \o refused)[Tries(n) + 1] = Step(n, Tries(n) + 1, CircuitOpen)
             /\ ~(Tries(n) < M) => f(c) \o refused = f(c) /\ Len(f(c)) = Tries(n)
  <2> DEFINE g == f(c)
             x == Step(n, Tries(n) + 1, CircuitOpen)
  <2>1. g = [k \in 1..Tries(n) |-> g[k]] /\ \A k \in 1..Tries(n) : g[k] = Step(n, k, PlainErr(c))
    OBVIOUS
  <2> HIDE DEF g, x
  <2>2. /\ g \o << >> = g
        /\ DOMAIN (g \o << x >>) = 1..(Tries(n) + 1)
        /\ Len(g) = Tries(n) /\ Len(g \o << x >>) = Tries(n) + 1
        /\ \A k \in 1..Tries(n) : (g \o << x >>)[k] = g[k]
        /\ (g \o << x >>)[Tries(n) + 1] = x
    BY <1>2, <2>1, Joined
  <2>3. CASE Tries(n) < M
    BY <2>1, <2>2, <2>3, Zenon DEF g, x
  <2>4. CASE ~(Tries(n) < M)
    BY <2>2, <2>4, Zenon DEF g
  <2> QED BY <2>3, <2>4, Zenon
<1>4. CASE kind = "ok"
  BY <1>1, <1>4 DEF OwnSteps, LastTry, TryErr, Refuses
<1>5. CASE kind = "panic"
  BY <1>1, <1>5 DEF OwnSteps, LastTry, TryErr, Refuses
<1>6. CASE kind = "fail"
  <2>1. OwnSteps(n) = f("forced") \o refused
    BY <1>6, Zenon DEF OwnSteps
  <2>2. CASE Tries(n) < M
    <3>1. Tries(n) = T /\ T > 0 /\ LastTry(n) = Tries(n) + 1
      BY <1>1, <1>6, <2>2 DEF Tries, LastTry, Refuses
    <3>2. /\ \A k \in 1..Tries(n) : TryErr(n, k) = PlainErr("forced")
          /\ TryErr(n, Tries(n) + 1) = CircuitOpen
      BY <1>1, <1>6, <3>1 DEF TryErr, Refuses
    <3> HIDE DEF f, refused
    <3>3. \A k \in 1..LastTry(n) : k \in 1..Tries(n) \/ k = Tries(n) + 1
      BY <1>2, <3>1
    <3> QED BY <1>2, <1>3, <2>1, <2>2, <3>1, <3>2, <3>3
  <2>3. CASE ~(Tries(n) < M)
    <3>1. Tries(n) = M /\ LastTry(n) = M /\ ~Refuses(n, M)
      BY <1>1, <1>6, <2>3 DEF Tries, LastTry, Refuses
    <3>2. \A k \in 1..M : TryErr(n, k) = PlainErr("forced")
      BY <1>1, <1>6, <3>1 DEF TryErr, Refuses
    <3>3. OwnSteps(n) = f("forced") /\ Len(f("forced")) = M
      BY <1>3, <2>1, <2>3, <3>1, Zenon
    <3> QED BY <1>1, <3>1, <3>2, <3>3
  <2> QED BY <2>2, <2>3
<1>7. CASE kind = "flaky"
  <2>1. CASE Tries(n) = 1 /\ Tries(n) < M
    <3>1. OwnSteps(n) = f("transient") \o refused
      BY <1>7, <2>1 DEF OwnSteps
    <3>2. T = 1 /\ LastTry(n) = 2 /\ TryErr(n, 1) = PlainErr("transient") /\ TryErr(n, 2) = CircuitOpen
      BY <1>1, <1>7, <2>1 DEF Tries, LastTry, TryErr, Refuses
    <3> HIDE DEF f, refused
    <3>3. /\ DOMAIN OwnSteps(n) = 1..2 /\ Len(OwnSteps(n)) = 2
          /\ OwnSteps(n)[1] = Step(n, 1, PlainErr("transient"))
          /\ OwnSteps(n)[2] = Step(n, 2, CircuitOpen)
      BY <1>3, <2>1, <3>1
    <3> QED BY <3>2, <3>3
  <2>2. CASE Tries(n) = 1 /\ ~(Tries(n) < M)
    <3>1. OwnSteps(n) = f("transient") /\ Len(f("transient")) = 1
      BY <1>3, <1>7, <2>2 DEF OwnSteps
    <3>2. LastTry(n) = 1 /\ TryErr(n, 1) = PlainErr("transient")
      BY <1>1, <1>7, <2>2 DEF Tries, LastTry, TryErr, Refuses
    <3> QED BY <2>2, <3>1, <3>2
  <2>3. CASE Tries(n) # 1
    <3>1. OwnSteps(n) = << Step(n, 1, PlainErr("transient")), Step(n, 2, NoErr) >>
      BY <1>7, <2>3 DEF OwnSteps
    <3>2. LastTry(n) = 2 /\ TryErr(n, 1) = PlainErr("transient") /\ TryErr(n, 2) = NoErr
      BY <1>1, <1>7, <2>3 DEF Tries, LastTry, TryErr, Refuses
    <3> QED BY <3>1, <3>2
  <2> QED BY <2>1, <2>2, <2>3
<1> QED BY <1>1, <1>4, <1>5, <1>6, <1>7 DEF DetKinds

(* Whether it succeeds. *)
LEMMA SucceedsFact ==
    ASSUME plan \in Plans, Deterministic, NEW n \in IDs
    PROVE  Succeeds(n) <=> TryErr(n, LastTry(n)) = NoErr
<1>1. /\ LastTry(n) \in Nat \ {0} /\ Len(OwnSteps(n)) = LastTry(n)
      /\ \A k \in 1..LastTry(n) : OwnSteps(n)[k] = Step(n, k, TryErr(n, k))
  BY OwnStepsFacts
<1>2. OwnSteps(n)[LastTry(n)] = Step(n, LastTry(n), TryErr(n, LastTry(n)))
  BY <1>1
<1> QED BY <1>1, <1>2 DEF Succeeds, Step

-----------------------------------------------------------------------------
(* The recursion of Reached. *)
Reaches(f) == f = [n \in IDs |-> Succeeds(n) /\ \A d \in Deps(n) : f[d]]

(* It has a solution: the nodes that are in a set of succeeding nodes with   *)
(* all their dependencies.                                                   *)
LEMMA ReachedFact ==
    ASSUME \A n \in IDs : Deps(n) \subseteq IDs
    PROVE  \A n \in IDs : Reached[n] <=> Succeeds(n) /\ \A d \in Deps(n) : Reached[d]
<1> DEFINE closed(S) == \A m \in S : Succeeds(m) /\ Deps(m) \subseteq S
           G == UNION {S \in SUBSET IDs : closed(S)}
           f == [n \in IDs |-> n \in G]
<1>1. G \subseteq IDs /\ closed(G)
  OBVIOUS
<1>2. ASSUME NEW n \in IDs, Succeeds(n), Deps(n) \subseteq G PROVE n \in G
  <2>1. closed(G \cup {n}) /\ G \cup {n} \in SUBSET IDs
    BY <1>1, <1>2
  <2> QED BY <2>1, Zenon
<1> HIDE DEF G
<1>3. \A n \in IDs : (n \in G) = (Succeeds(n) /\ \A d \in Deps(n) : f[d])
  <2> SUFFICES ASSUME NEW n \in IDs PROVE (n \in G) <=> (Succeeds(n) /\ \A d \in Deps(n) : f[d])
    OBVIOUS
  <2>1. \A d \in Deps(n) : f[d] <=> d \in G
    BY Zenon
  <2> QED BY <1>1, <1>2, <2>1, Zenon
<1>4. Reaches(f)
  BY <1>3 DEF Reaches
<1> HIDE DEF f
<1>5. Reached = CHOOSE g : Reaches(g)
  BY DEF Reached, Reaches
<1>6. Reaches(Reached)
  BY <1>4, <1>5
<1> QED BY <1>6, Zenon DEF Reaches

-----------------------------------------------------------------------------
(* The end of an undisturbed run of a deterministic plan. *)
Concluded ==
    /\ main = "done" /\ phase = "built" /\ Deterministic /\ Undisturbed
    /\ EInv /\ Values /\ Bounds /\ Story /\ Returned /\ OnCourse /\ Justified

(* What is known of a node by then. *)
LEMMA NodesConcluded ==
    ASSUME Concluded
    PROVE  /\ plan \in Plans /\ Deterministic /\ trace = Finalize
           /\ \A n \in IDs :
                /\ Deps(n) \subseteq IDs
                /\ pc[n] \in Ended
                /\ pc[n] = "done" => /\ attempt[n] = LastTry(n) /\ res[n] = TryErr(n, LastTry(n))
                                     /\ \A d \in Deps(n) : pc[d] = "done" /\ res[d] = NoErr
                /\ pc[n] = "skipped" => \E d \in Deps(n) : ~(pc[d] = "done" /\ res[d] = NoErr)
<1>1. /\ plan \in Plans /\ Deterministic /\ trace = Finalize /\ phase = "built"
      /\ \A n \in IDs : Deps(n) \subseteq IDs /\ pc[n] \in Ended
  BY DepsInside DEF Concluded, Returned, EInv, Frame, IInv, Phases
<1>2. ASSUME NEW n \in IDs, pc[n] = "done" PROVE attempt[n] = LastTry(n) /\ res[n] = TryErr(n, LastTry(n))
  <2>1. Foretold(n)
    BY DEF Concluded, OnCourse
  <2>2. PICK k, s : k = attempt[n] /\ s = states[AgentOf(n)] /\ ForetoldAt(n, k, s)
    BY <2>1 DEF Foretold
  <2>3. k = LastTry(n) /\ res[n] = TryErr(n, k)
    BY <1>2, <2>2 DEF ForetoldAt
  <2> QED BY <2>2, <2>3
<1>3. \A n \in IDs : /\ Outcomes[n] = "ok" <=> pc[n] = "done" /\ res[n] = NoErr
                     /\ pc[n] = "done" => Outcomes[n] \in {"ok", "failed"}
                     /\ pc[n] = "skipped" => Outcomes[n] = "skipped"
  BY <1>1 DEF Outcomes, OutcomeOf, Running, Ended
<1>4. \A n \in IDs :
        /\ Outcomes[n] = "skipped" => \E d \in Deps(n) : Outcomes[d] \in {"failed", "skipped"}
        /\ Outcomes[n] \in {"running", "ok", "failed"} => \A d \in Deps(n) : Outcomes[d] = "ok"
  BY <1>1 DEF Concluded, Justified
<1>5. ASSUME NEW n \in IDs, pc[n] = "done" PROVE \A d \in Deps(n) : pc[d] = "done" /\ res[d] = NoErr
  BY <1>1, <1>3, <1>4, <1>5
<1>6. ASSUME NEW n \in IDs, pc[n] = "skipped"
      PROVE  \E d \in Deps(n) : ~(pc[d] = "done" /\ res[d] = NoErr)
  <2>1. PICK d \in Deps(n) : Outcomes[d] \in {"failed", "skipped"}
    BY <1>3, <1>4, <1>6
  <2>2. d \in IDs /\ Outcomes[d] # "ok"
    BY <1>1, <2>1
  <2> QED BY <1>3, <2>2
<1> QED BY <1>1, <1>2, <1>5, <1>6

(* The nodes that had to succeed have succeeded: by induction on the level,  *)
(* as the least one with a node for which it is not so.                      *)
LEMMA ReachedOutcomes ==
    ASSUME Concluded
    PROVE  \A n \in IDs : Reached[n] <=> pc[n] = "done" /\ res[n] = NoErr
<1> DEFINE ok(n) == pc[n] = "done" /\ res[n] = NoErr
           bad == {n \in IDs : ~(Reached[n] <=> ok(n))}
           T == {j \in DOMAIN levels : levels[j] \cap bad # {}}
<1> SUFFICES ASSUME bad # {} PROVE FALSE
  OBVIOUS
<1>1. /\ plan \in Plans /\ Deterministic
      /\ \A n \in IDs :
           /\ Deps(n) \subseteq IDs
           /\ pc[n] \in Ended
           /\ pc[n] = "done" => res[n] = TryErr(n, LastTry(n)) /\ \A d \in Deps(n) : ok(d)
           /\ pc[n] = "skipped" => \E d \in Deps(n) : ~ok(d)
  BY NodesConcluded
<1>2. \A n \in IDs : Reached[n] <=> Succeeds(n) /\ \A d \in Deps(n) : Reached[d]
  BY <1>1, ReachedFact
<1>3. \A n \in IDs : ok(n) <=> Succeeds(n) /\ \A d \in Deps(n) : ok(d)
  <2> TAKE n \in IDs
  <2>1. Succeeds(n) <=> TryErr(n, LastTry(n)) = NoErr
    BY <1>1, SucceedsFact
  <2> QED BY <1>1, <2>1 DEF Ended
<1>4. /\ DOMAIN levels = 1..Len(levels) /\ Len(levels) \in Nat
      /\ IDs = UNION {levels[j] : j \in 1..Len(levels)} /\ Ordered
  BY LevelType DEF Concluded, EInv, Frame, IInv
<1> HIDE DEF ok
<1>5. T \in SUBSET Nat /\ T # {} /\ bad \subseteq IDs
  BY <1>4
<1>6. PICK j \in T : \A i \in T : j <= i
  <2> HIDE DEF T
  <2> QED BY <1>5, Least
<1>7. PICK n \in bad : n \in levels[j]
  BY <1>6
<1>8. ASSUME NEW d \in Deps(n) PROVE d \notin bad
  <2>1. j \in DOMAIN levels /\ j \in Nat
    BY <1>4, <1>6
  <2>2. PICK i \in 1..(j - 1) : d \in levels[i]
    BY <1>4, <1>7, <2>1 DEF Ordered
  <2>3. i \in DOMAIN levels /\ ~(j <= i)
    BY <1>4, <2>1, <2>2
  <2> QED BY <1>6, <2>2, <2>3
<1>9. n \in IDs /\ ~(Reached[n] <=> ok(n)) /\ \A d \in Deps(n) : Reached[d] <=> ok(d)
  BY <1>1, <1>5, <1>7, <1>8
<1> QED BY <1>2, <1>3, <1>9

(* The steps of a node in the returned trace are those of the reference. *)
LEMMA StepsForetold ==
    ASSUME Concluded, NEW n \in IDs
    PROVE  /\ pc[n] = "done" => /\ ReferenceSteps(n) = OwnSteps(n)
                                /\ StepsOf(n) = {Step(n, k, TryErr(n, k)) : k \in 1..LastTry(n)}
           /\ pc[n] = "skipped" => /\ ReferenceSteps(n) = << Step(n, 0, DepFailed) >>
                                   /\ StepsOf(n) = {Step(n, 0, DepFailed)}
<1>1. /\ plan \in Plans /\ Deterministic /\ trace = Finalize /\ phase = "built"
      /\ Values /\ Story /\ AsForetold
      /\ Deps(n) \subseteq IDs /\ pc[n] \in Ended
      /\ pc[n] = "done" => /\ attempt[n] = LastTry(n)
                           /\ \A d \in Deps(n) : pc[d] = "done" /\ res[d] = NoErr
      /\ pc[n] = "skipped" => \E d \in Deps(n) : ~(pc[d] = "done" /\ res[d] = NoErr)
  BY NodesConcluded DEF Concluded, OnCourse
<1>2. \A d \in Deps(n) : Reached[d] <=> pc[d] = "done" /\ res[d] = NoErr
  BY <1>1, ReachedOutcomes
<1>3. /\ \A s \in StepsOf(n) : /\ s.attempt \in Attempted(n) /\ s.attempt \in Nat
                               /\ s.err \in Errors /\ Fits(n, s.attempt, s.err)
      /\ \A k \in Attempted(n) : \E s \in StepsOf(n) : s.attempt = k
  BY <1>1, StepsReturned
<1>4. \A s \in StepsOf(n) : s.inv = n /\ \E i \in DOMAIN steps : s = steps[i]
  <2>1. steps \in Seq(StepRecords) /\ \A i, j \in DOMAIN steps :
            steps[i].inv = steps[j].inv /\ steps[i].attempt = steps[j].attempt => i = j
    BY <1>1 DEF Values, Story, History, Distinct
  <2>2. \A i \in DOMAIN trace : \E j \in DOMAIN steps : trace[i] = steps[j]
    BY <1>1, <2>1, FinalizeFacts
  <2> QED BY <2>2 DEF StepsOf
<1>5. \A s \in StepsOf(n) : s = Step(n, s.attempt, s.err)
  <2>1. steps \in Seq(StepRecords)
    BY <1>1 DEF Values
  <2>2. \A i \in DOMAIN steps : steps[i] \in StepRecords
    BY <2>1
  <2> QED BY <1>4, <2>2 DEF StepRecords, Step
<1>6. CASE pc[n] = "done"
  <2>1. ReferenceSteps(n) = OwnSteps(n)
    BY <1>1, <1>2, <1>6 DEF ReferenceSteps
  <2>2. LastTry(n) \in Nat \ {0} /\ Attempted(n) = 1..LastTry(n)
    BY <1>1, <1>6, OwnStepsFacts DEF Attempted
  <2>3. ASSUME NEW s \in StepsOf(n) PROVE s.attempt \in 1..LastTry(n) /\ s = Step(n, s.attempt, TryErr(n, s.attempt))
    <3>1. PICK k : k = s.attempt /\ k \in 1..LastTry(n) /\ k # 0
      BY <1>3, <2>2, <2>3
    <3>2. PICK i \in DOMAIN steps : s = steps[i] /\ s.inv = n
      BY <1>4, <2>3
    <3>3. s.err = TryErr(n, k)
      BY <1>1, <3>1, <3>2 DEF AsForetold
    <3> QED BY <1>5, <2>3, <3>1, <3>3
  <2>4. ASSUME NEW k \in 1..LastTry(n) PROVE Step(n, k, TryErr(n, k)) \in StepsOf(n)
    <3>1. PICK s \in StepsOf(n) : s.attempt = k
      BY <1>3, <2>2, <2>4
    <3> QED BY <2>3, <3>1
  <2>5. StepsOf(n) = {Step(n, k, TryErr(n, k)) : k \in 1..LastTry(n)}
    BY <2>3, <2>4
  <2> QED BY <1>6, <2>1, <2>5
<1>7. CASE pc[n] = "skipped"
  <2>1. ReferenceSteps(n) = << Step(n, 0, DepFailed) >>
    BY <1>1, <1>2, <1>7 DEF ReferenceSteps
  <2>2. Attempted(n) = {0}
    BY <1>7 DEF Attempted
  <2>3. \A s \in StepsOf(n) : s.attempt = 0 /\ s.err = DepFailed
    BY <1>3, <1>7, <2>2 DEF Fits
  <2>4. StepsOf(n) = {Step(n, 0, DepFailed)}
    BY <1>3, <1>5, <2>2, <2>3
  <2> QED BY <1>7, <2>1, <2>4
<1> QED BY <1>1, <1>6, <1>7 DEF Ended

-----------------------------------------------------------------------------
(* The whole invariant. *)
LEMMA CourseInvariance ==
    Spec => [](EInv /\ Values /\ Bounds /\ Story /\ Returned /\ OnCourse /\ Justified)
<1>1. Init => Story /\ Returned /\ OnCourse /\ Justified
  BY InitStory, InitOnCourse DEF Init, GraphInit, Returned, Justified
<1>2. EInv /\ Values /\ Bounds /\ Story /\ Returned /\ OnCourse /\ Justified /\ [Next]_vars
         => Story' /\ Returned' /\ OnCourse' /\ Justified'
  BY StoryStep, ReturnedStep, OnCourseStep, JustifiedStep
<1> QED BY <1>1, <1>2, RunInvariance, PTL DEF Spec

(* Undisturbed runs of a manifest's plan leave the same trace whatever the   *)
(* interleaving, the pool and the plan: the one ReferenceSteps gives.        *)
THEOREM RunsAlike == Spec => []RunsRepeatable
<1>1. EInv /\ Values /\ Bounds /\ Story /\ Returned /\ OnCourse /\ Justified => RunsRepeatable
  <2> SUFFICES ASSUME Concluded, NEW n \in IDs PROVE StepsOf(n) = Range(ReferenceSteps(n))
    BY DEF Concluded, RunsRepeatable
  <2>1. /\ pc[n] = "done" => /\ ReferenceSteps(n) = OwnSteps(n)
                             /\ StepsOf(n) = {Step(n, k, TryErr(n, k)) : k \in 1..LastTry(n)}
        /\ pc[n] = "skipped" => /\ ReferenceSteps(n) = << Step(n, 0, DepFailed) >>
                                /\ StepsOf(n) = {Step(n, 0, DepFailed)}
        /\ pc[n] \in Ended /\ plan \in Plans /\ Deterministic
    BY StepsForetold, NodesConcluded
  <2>2. CASE pc[n] = "done"
    <3>1. /\ DOMAIN OwnSteps(n) = 1..LastTry(n)
          /\ \A k \in 1..LastTry(n) : OwnSteps(n)[k] = Step(n, k, TryErr(n, k))
      BY <2>1, OwnStepsFacts
    <3> QED BY <2>1, <2>2, <3>1 DEF Range
  <2>3. CASE pc[n] = "skipped"
    BY <2>1, <2>3 DEF Range
  <2> QED BY <2>1, <2>2, <2>3 DEF Ended
<1> QED BY <1>1, CourseInvariance, PTL

-----------------------------------------------------------------------------
(* What latestByInvocation finds. *)
LEMMA Latest ==
    ASSUME NEW tr, NEW n, NEW i \in DOMAIN tr, tr[i].inv = n,
           \A j \in DOMAIN tr : tr[j].inv = n => tr[j].attempt \in Int,
           \A j \in DOMAIN tr : tr[j].inv = n => tr[j].attempt <= tr[i].attempt,
           \A j \in DOMAIN tr : tr[j].inv = n /\ tr[j].attempt = tr[i].attempt => tr[j] = tr[i]
    PROVE  latestByInvocation(tr, n) = tr[i]
<1> DEFINE found(k) == tr[k].inv = n /\ \A j \in DOMAIN tr : tr[j].inv = n => tr[j].attempt <= tr[k].attempt
           c == CHOOSE k \in DOMAIN tr : found(k)
<1>1. c \in DOMAIN tr /\ found(c)
  OBVIOUS
<1>2. latestByInvocation(tr, n) = tr[c]
  BY DEF latestByInvocation
<1> HIDE DEF c
<1>3. tr[c].attempt <= tr[i].attempt /\ tr[i].attempt <= tr[c].attempt
  BY <1>1
<1>4. tr[c].attempt = tr[i].attempt
  BY <1>1, <1>3
<1> QED BY <1>1, <1>2, <1>4

(* The last step of a node in the returned trace. *)
LEMMA LatestReturned ==
    ASSUME Concluded
    PROVE  /\ Invocations(trace) = IDs
           /\ \A n \in IDs :
                /\ pc[n] = "done" =>
                     latestByInvocation(trace, n) = Step(n, LastTry(n), TryErr(n, LastTry(n)))
                /\ pc[n] = "skipped" => latestByInvocation(trace, n) = Step(n, 0, DepFailed)
<1>1. /\ plan \in Plans /\ Deterministic /\ trace = Finalize /\ \A n \in IDs : pc[n] \in Ended
  BY NodesConcluded
<1>2. \A n \in IDs :
        /\ pc[n] = "done" => StepsOf(n) = {Step(n, k, TryErr(n, k)) : k \in 1..LastTry(n)}
        /\ pc[n] = "skipped" => StepsOf(n) = {Step(n, 0, DepFailed)}
  BY StepsForetold
<1>3. ASSUME NEW n \in IDs, NEW last, NEW m \in Nat, last = Step(n, m, last.err), last \in StepsOf(n),
             \A s \in StepsOf(n) : s.attempt \in Int /\ s.attempt <= m /\ (s.attempt = m => s = last)
      PROVE  latestByInvocation(trace, n) = last
  <2>1. PICK i \in DOMAIN trace : trace[i] = last /\ trace[i].inv = n
    BY <1>3 DEF StepsOf
  <2>2. \A j \in DOMAIN trace : trace[j].inv = n => trace[j] \in StepsOf(n)
    BY DEF StepsOf
  <2>3. trace[i].attempt = m
    BY <1>3, <2>1 DEF Step
  <2> QED BY <1>3, <2>1, <2>2, <2>3, Latest
<1>4. ASSUME NEW n \in IDs, pc[n] = "done"
      PROVE  latestByInvocation(trace, n) = Step(n, LastTry(n), TryErr(n, LastTry(n)))
  <2> DEFINE m == LastTry(n)
             last == Step(n, m, TryErr(n, m))
  <2>1. m \in Nat \ {0}
    BY <1>1, OwnStepsFacts
  <2>2. last.err = TryErr(n, m) /\ last = Step(n, m, last.err)
    BY DEF Step
  <2>3. last \in StepsOf(n)
    BY <1>2, <1>4, <2>1
  <2>4. \A s \in StepsOf(n) : s.attempt \in Int /\ s.attempt <= m /\ (s.attempt = m => s = last)
    <3> TAKE s \in StepsOf(n)
    <3>1. PICK k \in 1..m : s = Step(n, k, TryErr(n, k))
      BY <1>2, <1>4
    <3>2. s.attempt = k
      BY <3>1 DEF Step
    <3> QED BY <2>1, <3>1, <3>2
  <2> HIDE DEF m, last
  <2>5. latestByInvocation(trace, n) = last
    BY <1>3, <2>1, <2>2, <2>3, <2>4
  <2> QED BY <2>5 DEF m, last
<1>5. ASSUME NEW n \in IDs, pc[n] = "skipped"
      PROVE  latestByInvocation(trace, n) = Step(n, 0, DepFailed)
  <2> DEFINE last == Step(n, 0, DepFailed)
  <2>1. last.err = DepFailed /\ last.attempt = 0 /\ last = Step(n, 0, last.err)
    BY DEF Step
  <2> HIDE DEF last
  <2>2. StepsOf(n) = {last}
    BY <1>2, <1>5 DEF last
  <2>3. latestByInvocation(trace, n) = last
    BY <1>3, <2>1, <2>2
  <2> QED BY <2>3 DEF last
<1>6. Invocations(trace) = IDs
  <2>1. ASSUME NEW n \in IDs PROVE n \in Invocations(trace)
    <3>1. LastTry(n) \in Nat \ {0}
      BY <1>1, OwnStepsFacts
    <3>2. 1 \in 1..LastTry(n)
      BY <3>1
    <3>3. \E s : s \in StepsOf(n)
      BY <1>1, <1>2, <3>2 DEF Ended
    <3> QED BY <3>3 DEF StepsOf, Invocations
  <2>2. ASSUME NEW i \in DOMAIN trace PROVE trace[i].inv \in IDs
    <3>1. steps \in Seq(StepRecords) /\ (\A a, b \in DOMAIN steps :
            steps[a].inv = steps[b].inv /\ steps[a].attempt = steps[b].attempt => a = b)
      BY DEF Concluded, Values, Story, History, Distinct
    <3>2. PICK j \in DOMAIN steps : trace[i] = steps[j]
      BY <1>1, <3>1, FinalizeFacts
    <3> QED BY <3>2 DEF Concluded, Story, History
  <2> QED BY <2>1, <2>2 DEF Invocations
<1> QED BY <1>4, <1>5, <1>6

-----------------------------------------------------------------------------
(* The attempt with which a deterministic agent succeeds, if it does. *)
SuccessTry(n) == IF KindOf[AgentOf(n)] = "flaky" THEN 2 ELSE 1

(* Node n retries only what its agent may still do, also in a run that is    *)
(* disturbed: an error of the context ends the retries.                      *)
Timely(n) ==
    /\ pc[n] \in Running => /\ KindOf[AgentOf(n)] \in {"ok", "panic"} => attempt[n] = 1
                            /\ KindOf[AgentOf(n)] = "flaky" => attempt[n] \in {1, 2}
    /\ pc[n] = "backoff" => /\ KindOf[AgentOf(n)] \notin {"ok", "panic"}
                            /\ KindOf[AgentOf(n)] = "flaky" => attempt[n] = 1

(* Recorded successes came with that attempt. *)
Prompt ==
    \A i \in DOMAIN steps : \A n \in IDs :
        steps[i].inv = n /\ steps[i].err = NoErr => steps[i].attempt = SuccessTry(n)

Punctual == Deterministic => (\A n \in IDs : Timely(n)) /\ Prompt

(* A run starts punctual, *)
LEMMA InitPunctual == Init => Punctual
<1> SUFFICES ASSUME Init PROVE Punctual
  OBVIOUS
<1>1. (\A n \in IDs : pc[n] = "idle") /\ steps = << >>
  BY DEF Init
<1>2. ASSUME NEW n \in IDs PROVE Timely(n)
  BY <1>1, Zenon DEF Timely, Running
<1>3. Prompt
  BY <1>1 DEF Prompt
<1> QED BY <1>2, <1>3 DEF Punctual

(* records only such steps, *)
LEMMA RecordPrompt ==
    ASSUME Values, Prompt, [Next]_vars, NEW n, NEW k, NEW e,
           steps' = AddStep(n, k, e), e = NoErr => k = SuccessTry(n)
    PROVE  Prompt'
<1> DEFINE N == Len(steps)
<1>1. /\ N \in Nat /\ DOMAIN steps = 1..N /\ DOMAIN steps' = 1..(N + 1)
      /\ \A i \in 1..N : steps'[i] = steps[i]
      /\ steps'[N + 1] = Step(n, k, e)
  BY DEF Values, AddStep
<1>2. steps'[N + 1].inv = n /\ steps'[N + 1].attempt = k /\ steps'[N + 1].err = e
  BY <1>1 DEF Step
<1>3. IDs' = IDs /\ \A m : SuccessTry(m)' = SuccessTry(m)
  BY PlanKept DEF SuccessTry
<1> HIDE DEF N
<1>4. ASSUME NEW i \in 1..(N + 1), NEW m \in IDs, steps'[i].inv = m, steps'[i].err = NoErr
      PROVE  steps'[i].attempt = SuccessTry(m)
  <2>1. CASE i \in 1..N
    BY <1>1, <1>4, <2>1 DEF Prompt
  <2>2. CASE i = N + 1
    BY <1>2, <1>4, <2>2
  <2> QED BY <1>1, <2>1, <2>2
<1> QED BY <1>1, <1>3, <1>4 DEF Prompt

(* and stays so with every step of a node *)
LEMMA NodePunctual ==
    ASSUME EInv, Values, Limits, [Next]_vars, Deterministic, Prompt,
           NEW n \in IDs, Timely(n), Node(n)
    PROVE  Timely(n)' /\ Prompt'
<1> DEFINE kind == KindOf[AgentOf(n)]
<1>1. /\ pc \in [IDs -> Active \cup Ended \cup {"idle"}] /\ attempt \in [IDs -> Nat]
      /\ plan \in Plans /\ kind \in DetKinds /\ RetryableErrs = {}
  BY DeterministicFacts, Zenon DEF EInv, Frame, IInv, Phases, Values
<1>2. IDs' = IDs /\ AgentOf(n)' = AgentOf(n) /\ \A m : SuccessTry(m)' = SuccessTry(m)
  BY PlanKept DEF SuccessTry
<1>3. steps' = steps => Prompt'
  BY <1>2 DEF Prompt
<1>4. NoErr \notin {Panic, CtxErr, CircuitOpen, Unregistered}
  BY EngineErrors
<1>5. CASE StartNode(n)
  <2>1. pc'[n] \in {"allow", "return"} /\ attempt'[n] = 1
    BY <1>1, <1>5 DEF StartNode
  <2>2. steps' = steps \/ steps' = AddStep(n, 1, Unregistered)
    BY <1>5 DEF StartNode
  <2>3. Prompt'
    BY <1>3, <1>4, <2>2, RecordPrompt
  <2> QED BY <2>1, <2>3 DEF Timely
<1>6. CASE Allow(n)
  <2>1. pc[n] = "allow" /\ pc'[n] \in {"call", "return"} /\ attempt' = attempt
    BY <1>1, <1>6 DEF Allow
  <2>2. steps' = steps \/ steps' = AddStep(n, attempt[n], CircuitOpen)
    BY <1>6 DEF Allow
  <2>3. Prompt'
    BY <1>3, <1>4, <2>2, RecordPrompt
  <2> QED BY <1>2, <2>1, <2>3 DEF Timely, Running
<1>7. CASE CallSucceeds(n)
  <2>1. /\ pc[n] = "call" /\ pc'[n] = "return" /\ attempt' = attempt
        /\ steps' = AddStep(n, attempt[n], NoErr) /\ NoErr \in MayReturn(n)
    BY <1>1, <1>7 DEF CallSucceeds
  <2>2. /\ \A c \in {"forced", "transient"} : PlainErr(c) # NoErr
    BY EngineErrors
  <2>3. kind = "ok" \/ (kind = "flaky" /\ attempt[n] # 1)
    BY <1>1, <1>4, <2>1, <2>2 DEF MayReturn, DetKinds
  <2>4. attempt[n] = SuccessTry(n)
    BY <2>1, <2>3 DEF Timely, SuccessTry, Running
  <2>5. Prompt'
    BY <2>1, <2>4, RecordPrompt
  <2> QED BY <1>2, <2>1, <2>5 DEF Timely, Running
<1>8. ASSUME NEW raw \in MayReturn(n) \ {NoErr}, CallFails(n, raw) PROVE Timely(n)' /\ Prompt'
  <2> DEFINE e == normalizeInvocationError(raw)
  <2>1. /\ pc[n] = "call" /\ pc'[n] \in {"return", "backoff"} /\ attempt' = attempt
        /\ steps' = AddStep(n, attempt[n], e) /\ (GivesUp(n, e) => pc'[n] = "return")
    BY <1>1, <1>8 DEF CallFails
  <2>2. e # NoErr
    BY <1>1, <1>8, CallErrors
  <2>3. Prompt'
    BY <2>1, <2>2, RecordPrompt, Zenon
  <2>4. \/ raw \in {CtxErr, Panic} \/ kind = "fail"
        \/ (kind = "flaky" /\ attempt[n] = 1)
    BY <1>1, <1>8 DEF MayReturn, DetKinds
  <2>5. raw \in {CtxErr, Panic} => GivesUp(n, e)
    BY DEF GivesUp, CtxErr, Panic, PlainErr, NonRetryable, Error, normalizeInvocationError, shouldRetry
  <2>6. pc'[n] = "backoff" => kind = "fail" \/ (kind = "flaky" /\ attempt[n] = 1)
    BY <2>1, <2>4, <2>5, Zenon
  <2> QED BY <1>2, <2>1, <2>3, <2>6, Zenon DEF Timely, Running
<1>9. CASE BackoffElapsed(n)
  <2>1. pc[n] = "backoff" /\ pc'[n] = "allow" /\ attempt'[n] = attempt[n] + 1 /\ steps' = steps
    BY <1>1, <1>9 DEF BackoffElapsed
  <2>2. kind \notin {"ok", "panic"} /\ (kind = "flaky" => attempt[n] = 1)
    BY <2>1, Zenon DEF Timely
  <2>3. kind = "flaky" => attempt'[n] = 2
    <3>1. attempt[n] = 1 => attempt[n] + 1 = 2
      OBVIOUS
    <3> QED BY <2>1, <2>2, <3>1, Zenon
  <2> QED BY <1>2, <1>3, <2>1, <2>2, <2>3, Zenon DEF Timely
<1>10. CASE BackoffCancelled(n) \/ Return(n)
  <2>1. /\ pc[n] \in Running /\ pc'[n] \in {"return", "done"}
        /\ attempt' = attempt /\ steps' = steps
    BY <1>1, <1>10 DEF BackoffCancelled, Return, Running
  <2> QED BY <1>2, <1>3, <2>1 DEF Timely
<1> QED BY <1>5, <1>6, <1>7, <1>8, <1>9, <1>10 DEF Node

(* and of the run. *)
LEMMA PunctualStep == ASSUME EInv, Values, Bounds, Punctual, [Next]_vars PROVE Punctual'
<1> SUFFICES ASSUME Deterministic' PROVE (\A m \in IDs' : Timely(m)') /\ Prompt'
  BY DEF Punctual
<1>1. /\ Deterministic /\ IDs' = IDs
      /\ \A m : AgentOf(m)' = AgentOf(m) /\ SuccessTry(m)' = SuccessTry(m)
  <2>1. IDs' = IDs /\ \A m : AgentOf(m)' = AgentOf(m)
    BY PlanKept
  <2>2. \A m : SuccessTry(m)' = SuccessTry(m)
    BY <2>1 DEF SuccessTry
  <2>3. Deterministic
    BY PredictionsKept, Zenon
  <2> QED BY <2>1, <2>2, <2>3
<1>2. (\A m \in IDs : Timely(m)) /\ Prompt
  BY <1>1 DEF Punctual
<1>3. steps' = steps => Prompt'
  BY <1>1, <1>2 DEF Prompt
<1>4. ASSUME NEW m \in IDs, pc'[m] = pc[m], attempt'[m] = attempt[m] PROVE Timely(m)'
  BY <1>1, <1>2, <1>4 DEF Timely
<1>5. CASE UNCHANGED <<pc, attempt>> /\ steps' = steps
  BY <1>1, <1>3, <1>4, <1>5
<1>6. CASE RejectPlan
  <2>1. UNCHANGED <<pc, attempt>> /\ steps' = AddStep(PlanValidation, 0, PlainErr(err))
    BY <1>6 DEF RejectPlan, nodeVars
  <2>2. PlainErr(err) # NoErr
    BY DEF PlainErr, NoErr, Error
  <2>3. Prompt'
    BY <1>2, <2>1, <2>2, RecordPrompt
  <2> QED BY <1>1, <1>4, <2>1, <2>3
<1>7. ASSUME NEW n \in IDs, Dispatch(n) PROVE (\A m \in IDs' : Timely(m)') /\ Prompt'
  <2>1. /\ pc'[n] \in {"skipped", "spawned"} /\ attempt' = attempt
        /\ \A m \in IDs : m # n => pc'[m] = pc[m]
    BY <1>7 DEF EInv, Frame, Dispatch
  <2>2. steps' = steps \/ steps' = AddStep(n, 0, DepFailed)
    BY <1>7 DEF Dispatch
  <2>3. Prompt'
    BY <1>2, <1>3, <2>2, RecordPrompt, EngineErrors
  <2>4. Timely(n)'
    BY <2>1 DEF Timely, Running
  <2> QED BY <1>1, <1>4, <2>1, <2>3, <2>4
<1>8. ASSUME NEW n \in IDs, Node(n) PROVE (\A m \in IDs' : Timely(m)') /\ Prompt'
  <2>1. Timely(n)' /\ Prompt'
    BY <1>1, <1>2, <1>8, NodePunctual DEF Bounds
  <2>2. \A m \in IDs : m # n => pc'[m] = pc[m] /\ attempt'[m] = attempt[m]
    BY <1>8, NodeAlone
  <2> QED BY <1>1, <1>4, <2>1, <2>2
<1>9. CASE BuildGraph \/ StartPlan \/ CollectLevel \/ FinishPlan
  BY <1>5, <1>9 DEF BuildGraph, StartPlan, CollectLevel, FinishPlan, nodeVars
<1>10. CASE Cancel \/ Tick \/ (\E a \in LateAgents : Register(a)) \/ UNCHANGED vars
  BY <1>5, <1>10 DEF Cancel, Tick, Register, nodeVars, vars
<1> QED BY <1>6, <1>7, <1>8, <1>9, <1>10 DEF Next, Main

-----------------------------------------------------------------------------
(* The members of a concatenation. *)
LEMMA Concatenated ==
    ASSUME NEW S, NEW s \in Seq(S), NEW t \in Seq(S)
    PROVE  s \o t \in Seq(S) /\ Range(s \o t) = Range(s) \cup Range(t)
<1> DEFINE u == s \o t
           N == Len(s)
           M == Len(t)
<1>1. /\ u \in Seq(S) /\ Len(u) = N + M
      /\ \A i \in 1..(N + M) : u[i] = IF i <= N THEN s[i] ELSE t[i - N]
  BY Concatenation
<1>2. /\ N \in Nat /\ M \in Nat /\ DOMAIN s = 1..N /\ DOMAIN t = 1..M
  OBVIOUS
<1> HIDE DEF u, N, M
<1>3. DOMAIN u = 1..(N + M)
  BY <1>1
<1>4. ASSUME NEW x \in Range(u) PROVE x \in Range(s) \cup Range(t)
  <2>1. PICK i \in 1..(N + M) : x = u[i]
    BY <1>3, <1>4 DEF Range
  <2>2. CASE i <= N
    <3>1. i \in DOMAIN s /\ x = s[i]
      BY <1>1, <1>2, <2>1, <2>2
    <3> QED BY <3>1 DEF Range
  <2>3. CASE ~(i <= N)
    <3>1. i - N \in DOMAIN t /\ x = t[i - N]
      BY <1>1, <1>2, <2>1, <2>3
    <3> QED BY <3>1 DEF Range
  <2> QED BY <2>2, <2>3
<1>5. ASSUME NEW x \in Range(s) PROVE x \in Range(u)
  <2>1. PICK i \in 1..N : x = s[i]
    BY <1>2, <1>5 DEF Range
  <2>2. i \in DOMAIN u /\ u[i] = x
    BY <1>1, <1>2, <1>3, <2>1
  <2> QED BY <2>2 DEF Range
<1>6. ASSUME NEW x \in Range(t) PROVE x \in Range(u)
  <2>1. PICK i \in 1..M : x = t[i]
    BY <1>2, <1>6 DEF Range
  <2>2. i + N \in 1..(N + M) /\ ~(i + N <= N) /\ (i + N) - N = i
    BY <1>2
  <2>3. i + N \in DOMAIN u /\ u[i + N] = x
    BY <1>1, <1>3, <2>1, <2>2
  <2> QED BY <2>3 DEF Range
<1>7. Range(u) = Range(s) \cup Range(t)
  BY <1>4, <1>5, <1>6
<1> QED BY <1>1, <1>7 DEF u

(* The values of ReferenceTrace's recursion over the first n invocations. *)
Traces(f, n) ==
    f = [k \in 0..n |-> IF k = 0 THEN << >> ELSE f[k - 1] \o ReferenceSteps(SortedIDs[k])]

(* There are such values, by induction on n. *)
LEMMA TracesExist ==
    ASSUME NEW N \in Nat
    PROVE  \E f : Traces(f, N)
<1> DEFINE T == {k \in 0..N : ~\E f : Traces(f, k)}
<1> SUFFICES ASSUME T # {} PROVE FALSE
  OBVIOUS
<1>1. T \in SUBSET Nat
  OBVIOUS
<1>2. PICK k \in T : \A j \in T : k <= j
  <2> HIDE DEF T
  <2> QED BY <1>1, Least
<1>3. k # 0
  <2>1. Traces([i \in 0..0 |-> << >>], 0)
    BY DEF Traces
  <2> QED BY <1>2, <2>1
<1>4. k - 1 \in 0..N /\ k - 1 \notin T /\ k \in Nat
  BY <1>1, <1>2, <1>3
<1>5. PICK f : Traces(f, k - 1)
  BY <1>4
<1> DEFINE part(i) == ReferenceSteps(SortedIDs[i])
           g == [i \in 0..k |-> IF i = k THEN f[k - 1] \o part(k) ELSE f[i]]
<1>6. Traces(g, k)
  <2>0. f = [i \in 0..(k - 1) |-> IF i = 0 THEN << >> ELSE f[i - 1] \o part(i)]
    BY <1>5, Zenon DEF Traces
  <2> HIDE DEF part
  <2>1. \A i \in 0..(k - 1) : g[i] = f[i]
    BY <1>4
  <2>2. \A i \in 0..(k - 1) : f[i] = IF i = 0 THEN << >> ELSE f[i - 1] \o part(i)
    BY <2>0, Zenon
  <2>3. g[k] = f[k - 1] \o part(k)
    BY <1>4
  <2>4. g = [i \in 0..k |-> g[i]]
    OBVIOUS
  <2> HIDE DEF g
  <2>5. ASSUME NEW i \in 0..k PROVE g[i] = IF i = 0 THEN << >> ELSE g[i - 1] \o part(i)
    <3>1. CASE i = k
      <4>1. g[k - 1] = f[k - 1]
        BY <1>3, <1>4, <2>1
      <4> QED BY <1>3, <2>3, <3>1, <4>1
    <3>2. CASE i # k /\ i # 0
      <4>1. i \in 0..(k - 1) /\ i - 1 \in 0..(k - 1)
        BY <1>4, <3>2
      <4> QED BY <2>1, <2>2, <3>2, <4>1, Zenon
    <3>3. CASE i # k /\ i = 0
      BY <1>3, <1>4, <2>1, <2>2, <3>3
    <3> QED BY <3>1, <3>2, <3>3
  <2> QED BY <2>4, <2>5 DEF Traces, part
<1> HIDE DEF g
<1> QED BY <1>2, <1>6

-----------------------------------------------------------------------------
(* The last of the steps a node has in the reference trace. *)
FinalStep(n) ==
    IF \A d \in Deps(n) : Reached[d] THEN Step(n, LastTry(n), TryErr(n, LastTry(n)))
                                     ELSE Step(n, 0, DepFailed)

(* The steps of a node that is run are a sequence. *)
LEMMA OwnStepsSequence ==
    ASSUME plan \in Plans, Deterministic, NEW n \in IDs
    PROVE  \E S : OwnSteps(n) \in Seq(S)
<1> DEFINE kind == KindOf[AgentOf(n)]
           f(c) == [k \in 1..Tries(n) |-> Step(n, k, PlainErr(c))]
           refused == IF Tries(n) < MaxAttempts(n)
                      THEN << Step(n, Tries(n) + 1, CircuitOpen) >> ELSE << >>
<1>1. kind \in DetKinds /\ Tries(n) \in Nat
  BY DeterministicFacts DEF Tries
<1>2. ASSUME NEW c PROVE \E S : f(c) \o refused \in Seq(S)
  <2> DEFINE S == {Step(n, k, PlainErr(c)) : k \in 1..Tries(n)} \cup {Step(n, Tries(n) + 1, CircuitOpen)}
  <2>1. f(c) \in Seq(S) /\ refused \in Seq(S)
    <3>1. Step(n, Tries(n) + 1, CircuitOpen) \in S /\ \A k \in 1..Tries(n) : Step(n, k, PlainErr(c)) \in S
      OBVIOUS
    <3> HIDE DEF S
    <3>2. f(c) \in Seq(S)
      BY <1>1, <3>1
    <3>3. refused \in Seq(S)
      <4>1. CASE Tries(n) < MaxAttempts(n)
        BY <3>1, <4>1
      <4>2. CASE ~(Tries(n) < MaxAttempts(n))
        BY <4>2
      <4> QED BY <4>1, <4>2
    <3> QED BY <3>2, <3>3
  <2> HIDE DEF S, f, refused
  <2> QED BY <2>1
<1>3. ASSUME NEW x, NEW y PROVE << x >> \in Seq({x}) /\ << x, y >> \in Seq({x, y})
  OBVIOUS
<1>4. \/ \E x : OwnSteps(n) = << x >>
      \/ \E x, y : OwnSteps(n) = << x, y >>
      \/ \E c : OwnSteps(n) = f(c) \o refused
  <2> HIDE DEF f, refused
  <2>1. /\ kind = "ok" => OwnSteps(n) = << Step(n, 1, NoErr) >>
        /\ kind = "panic" => OwnSteps(n) = << Step(n, 1, Panic) >>
        /\ kind = "fail" => OwnSteps(n) = f("forced") \o refused
        /\ kind = "flaky" /\ Tries(n) = 1 => OwnSteps(n) = f("transient") \o refused
        /\ kind = "flaky" /\ Tries(n) # 1 =>
             OwnSteps(n) = << Step(n, 1, PlainErr("transient")), Step(n, 2, NoErr) >>
    BY Zenon DEF OwnSteps, f, refused
  <2> QED BY <1>1, <2>1 DEF DetKinds
<1> HIDE DEF f, refused
<1>5. ASSUME NEW x, OwnSteps(n) = << x >> PROVE \E S : OwnSteps(n) \in Seq(S)
  BY <1>3, <1>5, Zenon
<1>6. ASSUME NEW x, NEW y, OwnSteps(n) = << x, y >> PROVE \E S : OwnSteps(n) \in Seq(S)
  <2> DEFINE S == {x, y}
  <2>1. << x, y >> \in Seq(S)
    BY <1>3
  <2> HIDE DEF S
  <2>2. OwnSteps(n) \in Seq(S)
    BY <1>6, <2>1
  <2> QED BY <2>2
<1>7. ASSUME NEW c, OwnSteps(n) = f(c) \o refused PROVE \E S : OwnSteps(n) \in Seq(S)
  <2>1. PICK S : f(c) \o refused \in Seq(S)
    BY <1>2
  <2> QED BY <1>7, <2>1
<1> QED BY <1>4, <1>5, <1>6, <1>7

(* The steps of a node in the reference trace. *)
LEMMA ReferenceStepsFacts ==
    ASSUME plan \in Plans, Deterministic, NEW n \in IDs
    PROVE  /\ ReferenceSteps(n) \in Seq(Range(ReferenceSteps(n)))
           /\ ReferenceSteps(n)[Len(ReferenceSteps(n))] = FinalStep(n)
           /\ FinalStep(n) \in Range(ReferenceSteps(n))
           /\ FinalStep(n).inv = n /\ FinalStep(n).attempt \in Nat
           /\ \A s \in Range(ReferenceSteps(n)) :
                /\ s.inv = n /\ s.attempt \in Nat /\ s.attempt <= FinalStep(n).attempt
                /\ s.attempt = FinalStep(n).attempt => s = FinalStep(n)
<1>1. CASE \A d \in Deps(n) : Reached[d]
  <2> DEFINE m == LastTry(n)
             ss == OwnSteps(n)
             e(k) == TryErr(n, k)
  <2>1. /\ m \in Nat \ {0} /\ Len(ss) = m /\ DOMAIN ss = 1..m
        /\ \A k \in 1..m : ss[k] = Step(n, k, e(k))
    BY OwnStepsFacts
  <2>2. ReferenceSteps(n) = ss /\ FinalStep(n) = Step(n, m, e(m))
    BY <1>1 DEF ReferenceSteps, FinalStep
  <2> HIDE DEF m, ss, e
  <2>3. Range(ss) = {Step(n, k, e(k)) : k \in 1..m}
    BY <2>1 DEF Range
  <2>4. ss \in Seq(Range(ss))
    <3>1. PICK S : ss \in Seq(S)
      BY OwnStepsSequence DEF ss
    <3>2. ss = [k \in 1..Len(ss) |-> ss[k]] /\ \A k \in 1..Len(ss) : ss[k] \in Range(ss)
      BY <3>1 DEF Range
    <3> QED BY <2>1, <3>2
  <2>5. m \in 1..m /\ ss[m] = Step(n, m, e(m))
    BY <2>1
  <2>6. \A k : Step(n, k, e(k)).inv = n /\ Step(n, k, e(k)).attempt = k
    BY DEF Step
  <2>7. \A s \in Range(ss) : /\ s.inv = n /\ s.attempt \in Nat /\ s.attempt <= m
                             /\ s.attempt = m => s = Step(n, m, e(m))
    BY <2>1, <2>3, <2>6
  <2>8. Step(n, m, e(m)) \in Range(ss)
    BY <2>3, <2>5
  <2> QED BY <2>1, <2>2, <2>4, <2>5, <2>6, <2>7, <2>8
<1>2. CASE ~(\A d \in Deps(n) : Reached[d])
  <2> DEFINE x == Step(n, 0, DepFailed)
  <2>1. ReferenceSteps(n) = << x >> /\ FinalStep(n) = x
    BY <1>2 DEF ReferenceSteps, FinalStep
  <2>2. x.inv = n /\ x.attempt = 0
    BY DEF Step
  <2> HIDE DEF x
  <2>3. Range(<< x >>) = {x} /\ << x >> \in Seq({x}) /\ << x >>[Len(<< x >>)] = x
    BY DEF Range
  <2> QED BY <2>1, <2>2, <2>3
<1> QED BY <1>1, <1>2

(* A replay of the trace of an undisturbed run confirms it only when every   *)
(* agent gives again what it gave, and otherwise names the first that does   *)
(* not, for every plan and interleaving.                                     *)
THEOREM ReplayVerdict == Spec => []ReplaySound
<1>1. EInv /\ Values /\ Bounds /\ Story /\ Returned /\ OnCourse /\ Justified => ReplaySound
  <2> DEFINE verdict == ReplayAndCompare(trace)
  <2> SUFFICES ASSUME Concluded
               PROVE  /\ verdict \in IDs \cup {NoID}
                      /\ \A n \in IDs : /\ verdict = NoID \/ n < verdict => GivesAgain(n)
                                        /\ verdict = n => ~GivesAgain(n)
    BY DEF Concluded, ReplaySound
  <2>1. /\ plan \in Plans /\ Deterministic
        /\ \A n \in IDs :
             /\ pc[n] \in Ended /\ Deps(n) \subseteq IDs
             /\ pc[n] = "done" => \A d \in Deps(n) : pc[d] = "done" /\ res[d] = NoErr
             /\ pc[n] = "skipped" => \E d \in Deps(n) : ~(pc[d] = "done" /\ res[d] = NoErr)
    BY NodesConcluded
  <2>2. \A n \in IDs : Reached[n] <=> pc[n] = "done" /\ res[n] = NoErr
    BY ReachedOutcomes
  <2>3. /\ Invocations(trace) = IDs
        /\ \A n \in IDs :
             /\ pc[n] = "done" =>
                  latestByInvocation(trace, n) = Step(n, LastTry(n), TryErr(n, LastTry(n)))
             /\ pc[n] = "skipped" => latestByInvocation(trace, n) = Step(n, 0, DepFailed)
    BY LatestReturned
  <2>4. ASSUME NEW n \in IDs PROVE Diverges(latestByInvocation(trace, n)) <=> ~GivesAgain(n)
    <3>1. latestByInvocation(trace, n) = FinalStep(n)
      <4>1. CASE pc[n] = "done"
        <5>1. \A d \in Deps(n) : Reached[d]
          BY <2>1, <2>2, <4>1
        <5> QED BY <2>3, <4>1, <5>1, Zenon DEF FinalStep
      <4>2. CASE pc[n] = "skipped"
        <5>1. ~(\A d \in Deps(n) : Reached[d])
          BY <2>1, <2>2, <4>2
        <5> QED BY <2>3, <4>2, <5>1, Zenon DEF FinalStep
      <4> QED BY <2>1, <4>1, <4>2 DEF Ended
    <3>2. /\ ReferenceSteps(n)[Len(ReferenceSteps(n))] = FinalStep(n)
          /\ FinalStep(n).inv = n
      BY <2>1, ReferenceStepsFacts
    <3> DEFINE last == FinalStep(n)
               again == FirstCall(KindOf[AgentOf(n)])
    <3>3. GivesAgain(n) <=> last.err = again /\ (last.err = NoErr => last.attempt = 1)
      BY <3>2, SMT DEF GivesAgain, LastReference
    <3>4. Diverges(last) <=> (IF last.err # NoErr THEN again # last.err
                              ELSE again # NoErr \/ last.attempt # 1)
      BY <3>2, SMT DEF Diverges
    <3>5. Diverges(last) <=> ~GivesAgain(n)
      BY <3>3, <3>4
    <3> QED BY <3>1, <3>5, Zenon
  <2>5. Divergent(trace) = {n \in IDs : ~GivesAgain(n)}
    BY <2>3, <2>4 DEF Divergent
  <2>6. IDs \in SUBSET Nat /\ NoID \notin IDs /\ PlanValidation \notin Invocations(trace)
    <3>1. BadIDs = {}
      BY DEF Concluded, EInv, Frame, IInv, Phases, Verdict, Ordering
    <3>2. NoID \notin IDs
      BY <2>1, <3>1, IDsFinite
    <3> QED BY <2>1, <2>3, <3>2, PlanType DEF PlanValidation, IDs
  <2>7. CASE Divergent(trace) = {}
    <3>1. verdict = NoID
      BY <2>6, <2>7 DEF ReplayAndCompare
    <3> HIDE DEF verdict
    <3> QED BY <2>5, <2>6, <2>7, <3>1
  <2>8. CASE Divergent(trace) # {}
    <3>1. verdict = First(Divergent(trace))
      BY <2>6, <2>8 DEF ReplayAndCompare
    <3>2. \E x \in Divergent(trace) : \A y \in Divergent(trace) : x <= y
      BY <2>5, <2>6, <2>8, Least
    <3>3. /\ First(Divergent(trace)) \in Divergent(trace)
          /\ \A y \in Divergent(trace) : First(Divergent(trace)) <= y
      BY <3>2, Zenon DEF First
    <3> HIDE DEF verdict
    <3>4. /\ verdict \in {n \in IDs : ~GivesAgain(n)}
          /\ \A n \in IDs : ~GivesAgain(n) => verdict <= n
      BY <2>5, <3>1, <3>3
    <3>5. \A n \in IDs : n < verdict => ~(verdict <= n)
      BY <2>6, <3>4
    <3>6. verdict # NoID
      BY <2>6, <3>4
    <3> QED BY <3>4, <3>5, <3>6
  <2> QED BY <2>7, <2>8
<1> QED BY <1>1, CourseInvariance, PTL

-----------------------------------------------------------------------------
(* The reference trace is made of the steps of its nodes: the induction is   *)
(* over the invocations in their order, as the least of them up to which it  *)
(* would not be so.                                                          *)
LEMMA ReferenceTraceFacts ==
    ASSUME IInv, phase = "built", Deterministic
    PROVE  Range(ReferenceTrace) = UNION {Range(ReferenceSteps(n)) : n \in IDs}
<1> DEFINE N == Len(plan)
           part(k) == ReferenceSteps(SortedIDs[k])
           S == UNION {Range(ReferenceSteps(n)) : n \in IDs}
<1>1. /\ plan \in Plans /\ N \in Nat /\ DOMAIN plan = 1..N
      /\ \A k \in 1..N : SortedIDs[k] \in IDs
      /\ \A n \in IDs : \E k \in 1..N : SortedIDs[k] = n
  BY PlanType, SortedIDsFacts DEF IInv, Phases
<1>2. PICK f : Traces(f, N) /\ ReferenceTrace = f[N]
  <2>1. ReferenceTrace = (CHOOSE f : Traces(f, N))[N]
    BY DEF ReferenceTrace, Traces
  <2>2. \E f : Traces(f, N)
    BY <1>1, TracesExist, Zenon
  <2>3. Traces(CHOOSE f : Traces(f, N), N)
    <3> HIDE DEF N
    <3> QED BY <2>2, Zenon
  <2> QED BY <2>1, <2>3, Zenon
<1>3. /\ f[0] = << >> /\ \A k \in 1..N : f[k] = f[k - 1] \o part(k)
  <2>1. f = [k \in 0..N |-> IF k = 0 THEN << >> ELSE f[k - 1] \o part(k)]
    BY <1>2 DEF Traces
  <2> HIDE DEF part, N
  <2>2. \A k \in 1..N : k \in 0..N /\ k # 0
    BY <1>1
  <2>3. 0 \in 0..N
    BY <1>1
  <2> DEFINE at(k) == IF k = 0 THEN << >> ELSE f[k - 1] \o part(k)
  <2>4. \A k \in 0..N : f[k] = at(k)
    <3> HIDE DEF at
    <3>1. f = [k \in 0..N |-> at(k)]
      BY <2>1, Zenon DEF at
    <3> QED BY <3>1, Zenon
  <2> QED BY <2>2, <2>3, <2>4, Zenon
<1>4. \A k \in 1..N : part(k) \in Seq(S)
  <2> SUFFICES ASSUME NEW k \in 1..N PROVE part(k) \in Seq(S)
    OBVIOUS
  <2>1. part(k) \in Seq(Range(part(k)))
    BY <1>1, ReferenceStepsFacts
  <2>2. Range(part(k)) \subseteq S
    BY <1>1
  <2> HIDE DEF part, S
  <2> QED BY <2>1, <2>2
<1> DEFINE upTo(k) == UNION {Range(part(j)) : j \in 1..k}
           T == {k \in 0..N : ~(f[k] \in Seq(S) /\ Range(f[k]) = upTo(k))}
<1> HIDE DEF N, part, S
<1>5. T = {}
  <2> SUFFICES ASSUME T # {} PROVE FALSE
    OBVIOUS
  <2>1. T \in SUBSET Nat
    BY <1>1
  <2>2. PICK k \in T : \A j \in T : k <= j
    <3> HIDE DEF T
    <3> QED BY <2>1, Least
  <2>3. k # 0
    <3>1. << >> \in Seq(S) /\ Range(<< >>) = {} /\ upTo(0) = {}
      BY DEF Range
    <3> QED BY <1>3, <2>2, <3>1, Zenon
  <2>4. k \in 1..N /\ k - 1 \in 0..N /\ k - 1 \notin T
    BY <1>1, <2>2, <2>3
  <2>5. f[k - 1] \in Seq(S) /\ Range(f[k - 1]) = upTo(k - 1)
    BY <2>4
  <2>6. f[k] \in Seq(S) /\ Range(f[k]) = Range(f[k - 1]) \cup Range(part(k))
    <3>1. f[k] = f[k - 1] \o part(k) /\ part(k) \in Seq(S)
      BY <1>3, <1>4, <2>4, Zenon
    <3>2. f[k - 1] \o part(k) \in Seq(S)
      BY <2>5, <3>1
    <3>3. Range(f[k - 1] \o part(k)) = Range(f[k - 1]) \cup Range(part(k))
      BY <2>5, <3>1, Concatenated, Zenon
    <3> QED BY <3>1, <3>2, <3>3, Zenon
  <2>7. upTo(k) = upTo(k - 1) \cup Range(part(k))
    <3>1. 1..k = (1..(k - 1)) \cup {k}
      BY <1>1, <2>4
    <3> QED BY <3>1, Zenon
  <2> QED BY <2>2, <2>5, <2>6, <2>7
<1>6. Range(f[N]) = upTo(N)
  BY <1>1, <1>5
<1>7. upTo(N) = S
  BY <1>1 DEF S, part
<1> QED BY <1>2, <1>6, <1>7 DEF S

(* Where Compare looks in the reference trace. *)
LEMMA LatestReference ==
    ASSUME IInv, phase = "built", Deterministic, NEW n \in IDs
    PROVE  n \in Invocations(ReferenceTrace) /\ latestByInvocation(ReferenceTrace, n) = FinalStep(n)
<1> DEFINE tr == ReferenceTrace
<1>1. plan \in Plans /\ Range(tr) = UNION {Range(ReferenceSteps(m)) : m \in IDs}
  BY ReferenceTraceFacts DEF IInv, Phases
<1>2. \A m \in IDs :
        /\ FinalStep(m) \in Range(ReferenceSteps(m))
        /\ FinalStep(m).inv = m /\ FinalStep(m).attempt \in Nat
        /\ \A s \in Range(ReferenceSteps(m)) :
             /\ s.inv = m /\ s.attempt \in Nat /\ s.attempt <= FinalStep(m).attempt
             /\ s.attempt = FinalStep(m).attempt => s = FinalStep(m)
  BY <1>1, ReferenceStepsFacts
<1> HIDE DEF tr
<1>3. PICK i \in DOMAIN tr : tr[i] = FinalStep(n)
  <2>1. FinalStep(n) \in Range(tr)
    BY <1>1, <1>2, Zenon
  <2> QED BY <2>1 DEF Range
<1>4. ASSUME NEW j \in DOMAIN tr, tr[j].inv = n
      PROVE  /\ tr[j].attempt \in Int /\ tr[j].attempt <= tr[i].attempt
             /\ tr[j].attempt = tr[i].attempt => tr[j] = tr[i]
  <2>1. tr[j] \in Range(tr)
    BY DEF Range
  <2>2. PICK m \in IDs : tr[j] \in Range(ReferenceSteps(m))
    BY <1>1, <2>1
  <2>3. m = n
    BY <1>2, <1>4, <2>2
  <2> QED BY <1>2, <1>3, <2>2, <2>3
<1>5. tr[i].inv = n
  BY <1>2, <1>3
<1>6. latestByInvocation(tr, n) = tr[i]
  BY <1>4, <1>5, Latest
<1> QED BY <1>3, <1>5, <1>6 DEF tr, Invocations

(* What the reference ends with. *)
LEMMA FinalError ==
    ASSUME plan \in Plans, Deterministic, NEW n \in IDs
    PROVE  /\ FinalStep(n).err # CtxErr
           /\ FinalStep(n).err = NoErr => FinalStep(n).attempt = SuccessTry(n)
<1>1. /\ KindOf[AgentOf(n)] \in DetKinds /\ Threshold(n) \in Nat /\ MaxAttempts(n) \in Nat \ {0}
  BY DeterministicFacts
<1>2. /\ CtxErr \notin {NoErr, DepFailed, CircuitOpen, Panic}
      /\ NoErr \notin {DepFailed, CircuitOpen, Panic}
      /\ \A c \in {"forced", "transient"} : PlainErr(c) \notin {NoErr, CtxErr}
  BY DEF NoErr, CtxErr, DepFailed, CircuitOpen, Panic, PlainErr, NonRetryable, Error
<1>3. CASE \A d \in Deps(n) : Reached[d]
  <2>1. FinalStep(n).err = TryErr(n, LastTry(n)) /\ FinalStep(n).attempt = LastTry(n)
    BY <1>3 DEF FinalStep, Step
  <2>2. TryErr(n, LastTry(n)) # CtxErr
    BY <1>2 DEF TryErr
  <2>3. TryErr(n, LastTry(n)) = NoErr => LastTry(n) = SuccessTry(n)
    BY <1>1, <1>2 DEF TryErr, LastTry, SuccessTry, DetKinds
  <2> QED BY <2>1, <2>2, <2>3
<1>4. CASE ~(\A d \in Deps(n) : Reached[d])
  <2>1. FinalStep(n).err = DepFailed
    BY <1>4 DEF FinalStep, Step
  <2> QED BY <1>2, <2>1
<1> QED BY <1>3, <1>4

(* Where Compare looks in the returned trace: at the step that explains the  *)
(* result, and a success has come when it had to.                            *)
LEMMA LatestOfRun ==
    ASSUME EInv, Values, Bounds, Story, Punctual, Deterministic, phase = "built", trace = Finalize,
           NEW n \in IDs, pc[n] \in Ended
    PROVE  \E last : /\ n \in Invocations(trace) /\ latestByInvocation(trace, n) = last
                     /\ res[n] = last.err \/ (res[n] = CtxErr /\ last.err # NoErr)
                     /\ last.err = NoErr => last.attempt = SuccessTry(n)
<1>1. PICK last \in StepsOf(n) :
        /\ \A s \in StepsOf(n) \ {last} : s.attempt < last.attempt
        /\ res[n] = last.err \/ (res[n] = CtxErr /\ last.err # NoErr)
  BY ResultExplained DEF Explains
<1>2. \A s \in StepsOf(n) : s.attempt \in Nat
  BY StepsReturned
<1>3. PICK i \in DOMAIN trace : trace[i] = last /\ trace[i].inv = n
  BY <1>1 DEF StepsOf
<1>4. ASSUME NEW j \in DOMAIN trace, trace[j].inv = n
      PROVE  /\ trace[j].attempt \in Int /\ trace[j].attempt <= trace[i].attempt
             /\ trace[j].attempt = trace[i].attempt => trace[j] = trace[i]
  <2>1. trace[j] \in StepsOf(n)
    BY <1>4 DEF StepsOf
  <2> QED BY <1>1, <1>2, <1>3, <2>1
<1>5. latestByInvocation(trace, n) = last
  BY <1>3, <1>4, Latest
<1>6. last.err = NoErr => last.attempt = SuccessTry(n)
  <2>1. steps \in Seq(StepRecords) /\ \A a, b \in DOMAIN steps :
            steps[a].inv = steps[b].inv /\ steps[a].attempt = steps[b].attempt => a = b
    BY Zenon DEF Values, Story, History, Distinct
  <2>2. PICK j \in DOMAIN steps : trace[i] = steps[j]
    BY <1>3, <2>1, FinalizeFacts
  <2> QED BY <1>3, <2>2 DEF Punctual, Prompt
<1> QED BY <1>1, <1>3, <1>5, <1>6 DEF Invocations

(* Compare finds the invocations whose results differ from the undisturbed   *)
(* run's, and only those, for every plan, interleaving and cancellation.     *)
THEOREM CompareExact == Spec => []CompareTellsResults
<1>1. EInv /\ Values /\ Bounds /\ Story /\ Returned /\ Punctual => CompareTellsResults
  <2> DEFINE reference(n) == ReferenceSteps(n)[Len(ReferenceSteps(n))].err
  <2> SUFFICES ASSUME EInv, Values, Bounds, Story, Returned, Punctual,
                      main = "done", phase = "built", Deterministic,
                      NEW i \in DOMAIN results
               PROVE  IF results[i].id \in Compare(ReferenceTrace, trace)
                      THEN results[i].err # reference(results[i].id)
                      ELSE \/ results[i].err = reference(results[i].id)
                           \/ results[i].err = CtxErr /\ reference(results[i].id) # NoErr
    BY DEF CompareTellsResults
  <2>1. /\ trace = Finalize /\ (\A n \in IDs : pc[n] \in Ended) /\ IInv /\ plan \in Plans
        /\ results = [k \in DOMAIN plan |-> [id |-> SortedIDs[k], err |-> res[SortedIDs[k]]]]
    BY DEF Returned, EInv, Frame, IInv, Phases
  <2>2. PICK n \in IDs : results[i].id = n /\ results[i].err = res[n]
    BY <2>1, SortedIDsFacts
  <2>3. PICK a : /\ n \in Invocations(trace) /\ latestByInvocation(trace, n) = a
                 /\ res[n] = a.err \/ (res[n] = CtxErr /\ a.err # NoErr)
                 /\ a.err = NoErr => a.attempt = SuccessTry(n)
    BY <2>1, LatestOfRun, Zenon
  <2>4. PICK e : /\ n \in Invocations(ReferenceTrace) /\ latestByInvocation(ReferenceTrace, n) = e
                 /\ reference(n) = e.err /\ e.err # CtxErr
                 /\ e.err = NoErr => e.attempt = SuccessTry(n)
    BY <2>1, LatestReference, FinalError, ReferenceStepsFacts
  <2>5. n \in Compare(ReferenceTrace, trace) <=>
            ~(/\ e.err = a.err
              /\ (IF e.err = NoErr THEN e.attempt ELSE 0) = (IF a.err = NoErr THEN a.attempt ELSE 0))
    BY <2>3, <2>4, Zenon DEF Compare
  <2>6. n \in Compare(ReferenceTrace, trace) <=> e.err # a.err
    BY <2>3, <2>4, <2>5, Zenon
  <2> HIDE DEF reference
  <2>7. CASE n \in Compare(ReferenceTrace, trace)
    BY <2>2, <2>3, <2>4, <2>6, <2>7, Zenon
  <2>8. CASE n \notin Compare(ReferenceTrace, trace)
    BY <2>2, <2>3, <2>4, <2>6, <2>8
  <2> QED BY <2>2, <2>7, <2>8, Zenon
<1>2. Init => Story /\ Returned /\ Punctual
  BY InitStory, InitPunctual, Zenon DEF Init, Returned
<1>3. EInv /\ Values /\ Bounds /\ Story /\ Returned /\ Punctual /\ [Next]_vars
        => Story' /\ Returned' /\ Punctual'
  BY StoryStep, ReturnedStep, PunctualStep
<1> QED BY <1>1, <1>2, <1>3, RunInvariance, PTL DEF Spec
=============================================================================
