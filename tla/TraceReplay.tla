---------------------------- MODULE TraceReplay ----------------------------
(***************************************************************************)
(* What is done with the trace a run leaves.  ReplayAndCompare of          *)
(* internal/trace/replay.go as ReplayTrace of internal/app/run.go calls    *)
(* it, with a registry of newly made deterministic agents, and Compare of  *)
(* internal/trace/debug.go, which DebugTrace calls for two traces.  Both   *)
(* are sequential, so they are operators on traces.  An output is          *)
(* determined by agent, input and the agent's own count of calls, which is *)
(* the attempt in the run and 1 in a replay.  Error texts are equal when   *)
(* the error records are.                                                  *)
(***************************************************************************)
EXTENDS Engine, Functions

Invocations(tr) == {tr[i].inv : i \in DOMAIN tr}

latestByInvocationFirst(tr, n) ==
    tr[CHOOSE i \in DOMAIN tr : tr[i].inv = n /\
          \A j \in DOMAIN tr : tr[j].inv = n => tr[i].attempt <= tr[j].attempt]

(* The step replay expects of an invocation: the one with its last attempt. *)
latestByInvocation(tr, n) ==
    tr[CHOOSE i \in DOMAIN tr : tr[i].inv = n /\
          \A j \in DOMAIN tr : tr[j].inv = n => tr[j].attempt <= tr[i].attempt]

(* What a newly made agent returns on its first call; replay's own safeCall *)
(* words a panic differently from the engine's.                             *)
FirstCall(kind) ==
    CASE kind = "ok"    -> NoErr
      [] kind = "slow"  -> NoErr
      [] kind = "fail"  -> PlainErr("forced")
      [] kind = "flaky" -> PlainErr("transient")
      [] kind = "panic" -> PlainErr("agent panic")

(* One round of the comparison loop. *)
Diverges(s) ==
    LET actual == FirstCall(KindOf[AgentOf(s.inv)])
    IN  IF s.err # NoErr
        THEN actual # s.err
        ELSE actual # NoErr \/ s.attempt # 1

Divergent(tr) == {n \in Invocations(tr) : Diverges(latestByInvocation(tr, n))}

(* ReplayAndCompare: the first divergence in the order of IDs, or NoID.  The *)
(* step of a rejected plan belongs to "router", which is never registered.   *)
ReplayAndCompare(tr) ==
    IF PlanValidation \in Invocations(tr) THEN PlanValidation
    ELSE IF Divergent(tr) = {} THEN NoID ELSE First(Divergent(tr))

(* Compare: the invocations at which two traces diverge.  An output is       *)
(* compared by the attempt it names; agent and request are those of the plan. *)
Compare(expected, actual) ==
    LET both == Invocations(expected) \cap Invocations(actual)
        output(s) == IF s.err = NoErr THEN s.attempt ELSE 0
        same(e, a) == e.err = a.err /\ output(e) = output(a)
    IN  {n \in Invocations(expected) \cup Invocations(actual) :
            ~(n \in both /\ same(latestByInvocation(expected, n), latestByInvocation(actual, n)))}

-----------------------------------------------------------------------------
(* A plan as buildExecutionPlan makes them, on the new engine of a run:      *)
(* every step has an agent of its own, one of the deterministic ones, whose  *)
(* circuit is new, and no policy names the errors that are retried.          *)
Deterministic ==
    /\ Cardinality(Agents) = Len(plan)
    /\ \A a \in Agents : /\ a \in Registered /\ KindOf[a] \notin {"any", "slow"}
                         /\ PriorCircuits[a] = {ZeroCircuit}
    /\ RetryableErrs = {}

Undisturbed == ~cancelled /\ clock < ResetTimeout

(* The steps of a node that is run, from its agent's kind and its policies   *)
(* alone: an agent that fails every time is called until the attempts are    *)
(* used up or its circuit opens.                                             *)
Tries(n) == IF Threshold(n) > 0 /\ Threshold(n) < MaxAttempts(n)
            THEN Threshold(n) ELSE MaxAttempts(n)

OwnSteps(n) ==
    LET failing(cause) == [k \in 1..Tries(n) |-> Step(n, k, PlainErr(cause))]
        refused == IF Tries(n) < MaxAttempts(n)
                   THEN << Step(n, Tries(n) + 1, CircuitOpen) >> ELSE << >>
    IN  CASE KindOf[AgentOf(n)] = "ok"    -> << Step(n, 1, NoErr) >>
          [] KindOf[AgentOf(n)] = "panic" -> << Step(n, 1, Panic) >>
          [] KindOf[AgentOf(n)] = "fail"  -> failing("forced") \o refused
          [] KindOf[AgentOf(n)] = "flaky" ->
                IF Tries(n) = 1 THEN failing("transient") \o refused
                ELSE << Step(n, 1, PlainErr("transient")), Step(n, 2, NoErr) >>

Succeeds(n) == LET ss == OwnSteps(n) IN ss[Len(ss)].err = NoErr

(* Whether a node and all it depends on succeed. *)
Reached == LET ok[n \in IDs] == Succeeds(n) /\ \A d \in Deps(n) : ok[d] IN ok

ReferenceSteps(n) ==
    IF \A d \in Deps(n) : Reached[d] THEN OwnSteps(n) ELSE << Step(n, 0, DepFailed) >>

ReferenceTrace ==
    LET upTo[k \in 0..Len(plan)] ==
          IF k = 0 THEN << >> ELSE upTo[k - 1] \o ReferenceSteps(SortedIDs[k])
    IN  upTo[Len(plan)]

(* Runs of a manifest's plan are repeatable: unless the context is cancelled *)
(* or a reset timeout runs out during the run, the trace RunPlan returns is  *)
(* a function of the plan, whatever the interleaving and the pool.           *)
RunsRepeatable ==
    main = "done" /\ phase = "built" /\ Deterministic /\ Undisturbed =>
        \A n \in IDs : StepsOf(n) = Range(ReferenceSteps(n))

LastReference(n) == ReferenceSteps(n)[Len(ReferenceSteps(n))]

(* What the undisturbed run of the plan ends with at n is what a newly made  *)
(* agent gives on its first call.                                            *)
GivesAgain(n) ==
    /\ LastReference(n).err = FirstCall(KindOf[AgentOf(n)])
    /\ LastReference(n).err = NoErr => LastReference(n).attempt = 1

(* A replay's verdict is true of the run, whatever its interleaving: when    *)
(* it confirms a trace every agent gives again what it gave in the run, and  *)
(* when it reports a divergence the agent it names does not, but those of    *)
(* all earlier invocations do.                                               *)
ReplaySound ==
    main = "done" /\ phase = "built" /\ Deterministic /\ Undisturbed =>
        LET verdict == ReplayAndCompare(trace) IN
        /\ verdict \in IDs \cup {NoID}
        /\ \A n \in IDs : /\ verdict = NoID \/ n < verdict => GivesAgain(n)
                          /\ verdict = n => ~GivesAgain(n)

(* "Replay either confirms determinism or surfaces exact divergence points": *)
(* nothing disturbed the run of these deterministic agents, so nothing has   *)
(* diverged and a replay of its trace confirms it.                           *)
ReplayConfirms ==
    main = "done" /\ phase = "built" /\ Deterministic /\ Undisturbed =>
        ReplayAndCompare(trace) = NoID

(* Compare tells a run from the undisturbed run of its plan, at exactly the  *)
(* invocations whose results differ, also when it was cancelled or a reset   *)
(* timeout ran out.  Only one difference escapes it: an invocation that      *)
(* fails either way and was cancelled while it waited to be retried.         *)
CompareTellsResults ==
    main = "done" /\ phase = "built" /\ Deterministic =>
        LET reference(n) == ReferenceSteps(n)[Len(ReferenceSteps(n))].err IN
        \A i \in DOMAIN results :
            LET n == results[i].id  e == results[i].err IN
            IF n \in Compare(ReferenceTrace, trace) THEN e # reference(n)
            ELSE e = reference(n) \/ (e = CtxErr /\ reference(n) # NoErr)
=============================================================================
