------------------------------- MODULE Engine -------------------------------
(***************************************************************************)
(* Engine.RunPlan of internal/router/router.go: one plan executed by the   *)
(* goroutine that calls RunPlan (it builds the graph, dispatches a level,  *)
(* waits for it and collects it) and one goroutine per invocation, which   *)
(* takes a slot of the worker pool and runs executeNode: registry lookup,  *)
(* circuit breaker, agent call, retries with backoff.  The trace recorder  *)
(* and the metrics recorder are called where the code calls them.          *)
(*                                                                         *)
(* A plan node has the fields id and dependsOn (PlanGraph) and agent,      *)
(* maxAttempts, backoff and threshold.  An error is a record: mark says    *)
(* whether it is a *retry.AgentError and with which Retryable, cause what  *)
(* errors.Is finds in it.                                                  *)
(*                                                                         *)
(* Registry and breaker belong to the engine, which a program may use for  *)
(* several plans (pkg/sdk): circuits start as earlier plans left them, and *)
(* agents may be registered while a plan runs.                             *)
(***************************************************************************)
EXTENDS PlanGraph, Circuit

CONSTANTS
    Registered,      \* agents in the registry when the plan starts
    LateAgents,      \* agents the program may register while it runs
    PriorCircuits,   \* per agent: the circuits earlier plans may have left
    WorkerPoolSize, CfgMaxAttempts, CfgBackoff, CfgThreshold,   \* EngineConfig
    ResetTimeout,
    RetryableErrs,   \* causes in RetryPolicy.RetryableErrs
    KindOf,          \* what an agent does: a kind of deterministicAgent, or
                     \* "any" for one a program registers itself
    AgentErrors,     \* errors an agent of kind "any" may return
    MayCancel,       \* whether the caller may cancel the context
    Width,           \* bits of a Duration
    MaxClock         \* bound: the clock stops here

ASSUME EngineAssumption ==
    /\ WorkerPoolSize \in Nat \ {0}
    /\ CfgMaxAttempts \in Nat \ {0}
    /\ CfgThreshold \in Nat
    /\ ResetTimeout \in Nat \ {0}
    /\ MayCancel \in BOOLEAN
    /\ Width \in Nat \ {0}
    /\ MaxClock \in Nat

AgentKinds == {"any", "ok", "fail", "flaky", "panic", "slow"}

ASSUME NodesAssumption ==
    \A p \in Plans : \A i \in DOMAIN p :
        /\ p[i].maxAttempts \in Int /\ p[i].threshold \in Int
        /\ KindOf[p[i].agent] \in AgentKinds

(* No earlier plan left a probe behind: BreakerSettles says so of this one. *)
ASSUME PriorAssumption ==
    \A p \in Plans : \A i \in DOMAIN p : \A s \in PriorCircuits[p[i].agent] :
        s \in CircuitState /\ ~HalfOpen(s)

VARIABLES
    main,          \* the goroutine of RunPlan: "build", "level", "done"
    lvl,           \* the level being executed
    todo,          \* its nodes not yet dispatched
    pc,            \* the goroutine of a node
    attempt,       \* its attempt counter
    res,           \* its lastErr, then the Err of its AgentResult
    sem,           \* taken slots of the worker pool
    resultCh,      \* the level's results, by node
    resultsByID,
    steps,         \* Recorder.steps
    results, trace,   \* what RunPlan returns
    registry,      \* the agents in the registry
    states,        \* the breaker, per agent
    metrics,       \* InMemoryRecorder
    cancelled,     \* ctx.Done() is closed
    clock

nodeVars == <<pc, attempt, res>>
outVars == <<results, trace>>
envVars == <<cancelled, clock>>
vars == <<graphVars, main, lvl, todo, nodeVars, sem, resultCh, resultsByID,
          steps, outVars, registry, states, metrics, envVars>>

-----------------------------------------------------------------------------
(* Errors *)
Error(mark, cause) == [mark |-> mark, cause |-> cause]

Causes == {"nil", "panic", "circuit_open", "unregistered", "dependency", "canceled",
           "deadline", "timeout", "forced", "transient"}
          \cup ErrorKinds \cup {e.cause : e \in AgentErrors}

Errors == [mark : {"nil", "plain", "retryable", "nonretryable"}, cause : Causes]

NoErr         == Error("nil", "nil")
PlainErr(c)   == Error("plain", c)
NonRetryable(c) == Error("nonretryable", c)

Panic         == NonRetryable("panic")        \* safeCall's recover
CircuitOpen   == NonRetryable("circuit_open")
Unregistered  == PlainErr("unregistered")
DepFailed     == PlainErr("dependency")
CtxErr        == PlainErr("canceled")         \* ctx.Err()
Timeout       == PlainErr("timeout")          \* ErrAgentTimeout

(* No context in the program has a deadline of its own: RunManifestReport    *)
(* passes context.Background() on, so ctx.Err() is a cancellation.  (That an *)
(* SDK program passes a context with a deadline is left out.)                *)
(*                                                                           *)
(* Agents do not return the errors the engine makes for calls it does not    *)
(* place.                                                                    *)
ASSUME AgentErrorsAssumption ==
    AgentErrors \subseteq Errors \ {DepFailed, CircuitOpen, Unregistered}

(* The deadline error is formatted with %v: neither the deadline nor an      *)
(* AgentError around it survives.                                            *)
normalizeInvocationError(e) == IF e.cause = "deadline" THEN Timeout ELSE e

shouldRetry(e) ==
    CASE e.mark = "retryable"    -> TRUE
      [] e.mark = "nonretryable" -> FALSE
      [] OTHER -> e.cause # "canceled" /\ (RetryableErrs = {} \/ e.cause \in RetryableErrs)

-----------------------------------------------------------------------------
AgentOf(n) == NodeOf(n).agent
Agents == {plan[i].agent : i \in DOMAIN plan}

MaxAttempts(n) == IF NodeOf(n).maxAttempts <= 0 THEN CfgMaxAttempts ELSE NodeOf(n).maxAttempts

Threshold(n) == IF NodeOf(n).threshold <= 0 THEN CfgThreshold ELSE NodeOf(n).threshold

Step(n, k, e) == [inv |-> n, attempt |-> k, err |-> e]

AddStepFailuresOnly(n, k, e) == IF e.mark = "nil" THEN steps ELSE Append(steps, Step(n, k, e))

(* Recorder.AddStep *)
AddStep(n, k, e) == Append(steps, Step(n, k, e))

PlanValidation == -1     \* the InvocationID "plan_validation"

(* MultiRecorder passes every observation on: one recorder is modelled. *)
ObserveInvocationErrorOnly(m, a, status) ==
    LET failure == IF status = "error" THEN 1 ELSE 0
    IN  [m EXCEPT !.total = @ + 1, !.errors = @ + failure,
                  !.byAgent[a].successes = @ + 1 - failure,
                  !.byAgent[a].errors = @ + failure]

ObserveInvocation(m, a, status) ==
    LET failure == IF status = "success" THEN 0 ELSE 1
    IN  [m EXCEPT !.total = @ + 1, !.errors = @ + failure,
                  !.byAgent[a].successes = @ + 1 - failure,
                  !.byAgent[a].errors = @ + failure]

ObserveCircuitOpen(m, a) == [m EXCEPT !.opens = @ + 1, !.byAgent[a].opens = @ + 1]
ObserveRetry(m, a)       == [m EXCEPT !.retries = @ + 1, !.byAgent[a].retries = @ + 1]

-----------------------------------------------------------------------------
(* Backoff, in milliseconds *)
Base == 100

(* A Duration has room for some base intervals.  The rest is true of any     *)
(* Width: the provers do not know powers.                                    *)
ASSUME DurationAssumption ==
    /\ 2^(Width - 1) > 2 * Base
    /\ 2^0 = 1 /\ \A k \in 0..(Width - 1) : 2^k \in Nat /\ 2^(k + 1) = 2 * 2^k

Wrap(x) == ((x + 2^(Width - 1)) % 2^Width) - 2^(Width - 1)

(* 1 << uint(k): no bit is left when k is negative or too large. *)
Shifted(k) == IF k \in 0..(Width - 1) THEN Wrap(2^k) ELSE 0

BackoffDurationFromZero(strategy, k) ==
    IF strategy = "linear" THEN Wrap(Base * (k - 1)) ELSE Wrap(Base * Shifted(k - 2))

BackoffDuration(strategy, k) ==
    CASE strategy = "exponential" -> Wrap(Base * Shifted(k - 1))
      [] strategy = "exponential_jitter" ->
            Wrap(Wrap(Base * Shifted(k - 1)) + ((k * 37) % 100))
      [] OTHER -> Wrap(Base * k)

(* The wait before the attempt after the k-th. *)
Wait(n, k) ==
    BackoffDuration(IF NodeOf(n).maxAttempts <= 0 THEN CfgBackoff ELSE NodeOf(n).backoff, k)

Init ==
    /\ GraphInit
    /\ main = "build" /\ lvl = 0 /\ todo = {}
    /\ pc = [n \in IDs |-> "idle"]
    /\ attempt = [n \in IDs |-> 0]
    /\ res = [n \in IDs |-> NoErr]
    /\ sem = 0
    /\ resultCh = << >>
    /\ resultsByID = << >>
    /\ steps = << >>
    /\ results = << >> /\ trace = << >>
    /\ registry = Registered
    /\ states \in {f \in [Agents -> UNION {PriorCircuits[a] : a \in Agents}] :
                      \A a \in Agents : f[a] \in PriorCircuits[a]}
    /\ metrics = [total |-> 0, errors |-> 0, retries |-> 0, opens |-> 0,
                  byAgent |-> [a \in Agents |->
                     [successes |-> 0, errors |-> 0, retries |-> 0, opens |-> 0]]]
    /\ cancelled = FALSE
    /\ clock = 0

-----------------------------------------------------------------------------
(* The goroutine of RunPlan. *)

BuildGraph ==
    /\ main = "build"
    /\ GraphNext
    /\ UNCHANGED <<main, lvl, todo, nodeVars, sem, resultCh, resultsByID, steps,
                   outVars, registry, states, metrics, envVars>>

(* An invalid plan yields one result and a trace of one step. *)
RejectPlan ==
    /\ main = "build" /\ phase = "invalid"
    /\ main' = "done"
    /\ steps' = AddStep(PlanValidation, 0, PlainErr(err))
    /\ trace' = steps'
    /\ results' = <<[id |-> NoID, err |-> PlainErr(err)]>>
    /\ UNCHANGED <<graphVars, lvl, todo, nodeVars, sem, resultCh, resultsByID,
                   registry, states, metrics, envVars>>

StartPlan ==
    /\ main = "build" /\ phase = "built"
    /\ main' = "level" /\ lvl' = 1 /\ todo' = levels[1]
    /\ UNCHANGED <<graphVars, nodeVars, sem, resultCh, resultsByID, steps,
                   outVars, registry, states, metrics, envVars>>

CapacityOfPool == WorkerPoolSize

(* resultCh := make(chan AgentResult, len(level)) *)
Capacity == Cardinality(levels[lvl])

Failed(d) == d \notin DOMAIN resultsByID \/ resultsByID[d] # NoErr

dependencyErrorOnlyFirst(n) == DependsOn(n) # << >> /\ Failed(DependsOn(n)[1])

dependencyError(n) == \E d \in Deps(n) : Failed(d)

(* The dispatch loop of executeLevel, one node at a time in ID order. *)
Dispatch(n) ==
    /\ main = "level" /\ n \in todo /\ \A m \in todo : n <= m
    /\ todo' = todo \ {n}
    /\ \/ /\ dependencyError(n)
          /\ Len(resultCh) < Capacity
          /\ steps' = AddStep(n, 0, DepFailed)
          /\ res' = [res EXCEPT ![n] = DepFailed]
          /\ resultCh' = Append(resultCh, n)
          /\ pc' = [pc EXCEPT ![n] = "skipped"]
       \/ /\ ~dependencyError(n)
          /\ pc' = [pc EXCEPT ![n] = "spawned"]
          /\ UNCHANGED <<steps, res, resultCh>>
    /\ UNCHANGED <<graphVars, main, lvl, attempt, sem, resultsByID,
                   outVars, registry, states, metrics, envVars>>

(* wg.Wait() returns: every goroutine of the level has ended. *)
LevelEnded ==
    /\ main = "level" /\ lvl <= Len(levels) /\ todo = {}
    /\ \A n \in levels[lvl] : pc[n] \in {"done", "skipped"}

Received == {resultCh[i] : i \in DOMAIN resultCh}

CollectLevel ==
    /\ LevelEnded
    /\ resultsByID' = [n \in DOMAIN resultsByID \cup Received |->
                         IF n \in Received THEN res[n] ELSE resultsByID[n]]
    /\ resultCh' = << >>
    /\ lvl' = lvl + 1
    /\ todo' = IF lvl < Len(levels) THEN levels[lvl + 1] ELSE {}
    /\ sem' = 0      \* the next level makes its own semaphore
    /\ UNCHANGED <<graphVars, main, nodeVars, steps, outVars, registry, states,
                   metrics, envVars>>

(* Recorder.Finalize's order: invocation ID, then attempt. *)
StepBefore(s, t) == s.inv < t.inv \/ (s.inv = t.inv /\ s.attempt < t.attempt)

(* Where the i-th recorded step comes in that order. *)
PlaceOf(i) ==
    Cardinality({j \in DOMAIN steps :
        StepBefore(steps[j], steps[i]) \/ (~StepBefore(steps[i], steps[j]) /\ j <= i)})

Finalize == [k \in DOMAIN steps |-> steps[CHOOSE i \in DOMAIN steps : PlaceOf(i) = k]]

RankOf(n) == Cardinality({m \in IDs : m <= n})

SortedIDs == [k \in DOMAIN plan |-> CHOOSE n \in IDs : RankOf(n) = k]

FinishPlan ==
    /\ main = "level" /\ lvl > Len(levels)
    /\ main' = "done"
    /\ results' = [i \in DOMAIN plan |->
                     [id |-> SortedIDs[i], err |-> resultsByID[SortedIDs[i]]]]
    /\ trace' = Finalize
    /\ UNCHANGED <<graphVars, lvl, todo, nodeVars, sem, resultCh, resultsByID,
                   steps, registry, states, metrics, envVars>>

-----------------------------------------------------------------------------
(* The goroutine of node n. *)

(* sem <- struct{}{} does not block *)
PoolHasRoom == sem < WorkerPoolSize

(* The node takes a slot of the pool and looks its agent up. *)
StartNode(n) ==
    /\ pc[n] = "spawned" /\ PoolHasRoom
    /\ sem' = sem + 1
    /\ attempt' = [attempt EXCEPT ![n] = 1]
    /\ \/ /\ AgentOf(n) \in registry
          /\ pc' = [pc EXCEPT ![n] = "allow"]
          /\ UNCHANGED <<res, metrics, steps>>
       \/ /\ AgentOf(n) \notin registry
          /\ pc' = [pc EXCEPT ![n] = "return"]
          /\ res' = [res EXCEPT ![n] = Unregistered]
          /\ metrics' = ObserveInvocation(metrics, AgentOf(n), "error")
          /\ steps' = AddStep(n, 1, Unregistered)
    /\ UNCHANGED <<graphVars, main, lvl, todo, resultCh, resultsByID,
                   outVars, registry, states, envVars>>

(* breaker.Allow, and the return with ErrCircuitOpen when it refuses. *)
Allow(n) ==
    LET s == states[AgentOf(n)] IN
    /\ pc[n] = "allow"
    /\ \/ /\ Allowed(s, Threshold(n), clock)
          /\ states' = [states EXCEPT ![AgentOf(n)] = AfterAllow(s, Threshold(n), clock)]
          /\ pc' = [pc EXCEPT ![n] = "call"]
          /\ UNCHANGED <<res, metrics, steps>>
       \/ /\ ~Allowed(s, Threshold(n), clock)
          /\ pc' = [pc EXCEPT ![n] = "return"]
          /\ res' = [res EXCEPT ![n] = CircuitOpen]
          /\ metrics' = ObserveCircuitOpen(
                           ObserveInvocation(metrics, AgentOf(n), "circuit_open"), AgentOf(n))
          /\ steps' = AddStep(n, attempt[n], CircuitOpen)
          /\ UNCHANGED states
    /\ UNCHANGED <<graphVars, main, lvl, todo, attempt, sem, resultCh,
                   resultsByID, outVars, registry, envVars>>

(* What the agent of node n may return or panic with.  The kinds are the     *)
(* prefixes deterministicAgent looks for; the calls it has counted for a     *)
(* request are the attempts so far.                                          *)
MayReturn(n) ==
    LET kind == KindOf[AgentOf(n)] IN
    (IF cancelled THEN {CtxErr} ELSE {}) \cup
    CASE kind = "any"   -> AgentErrors \cup {Panic, NoErr}
      [] kind = "ok"    -> {NoErr}
      [] kind = "fail"  -> {PlainErr("forced")}
      [] kind = "flaky" -> {IF attempt[n] = 1 THEN PlainErr("transient") ELSE NoErr}
      [] kind = "panic" -> {Panic}
      [] kind = "slow"  -> {NoErr, PlainErr("deadline")}

(* The agent returns a nil error. *)
CallSucceeds(n) ==
    /\ pc[n] = "call" /\ NoErr \in MayReturn(n)
    /\ pc' = [pc EXCEPT ![n] = "return"]
    /\ res' = [res EXCEPT ![n] = NoErr]
    /\ states' = [states EXCEPT ![AgentOf(n)] = AfterSuccess(@)]
    /\ metrics' = ObserveInvocation(metrics, AgentOf(n), "success")
    /\ steps' = AddStep(n, attempt[n], NoErr)
    /\ UNCHANGED <<graphVars, main, lvl, todo, attempt, sem, resultCh,
                   resultsByID, outVars, registry, envVars>>

GivesUpLate(n, e) == attempt[n] > MaxAttempts(n) \/ ~shouldRetry(e)

GivesUpUnmarked(n, e) == attempt[n] = MaxAttempts(n)

GivesUp(n, e) == attempt[n] = MaxAttempts(n) \/ ~shouldRetry(e)

(* The agent returns raw or panics; the failure is recorded, and the node   *)
(* gives up, or counts a retry and waits for its backoff.  With the context *)
(* already cancelled the select takes ctx.Done() at once.                    *)
CallFails(n, raw) ==
    LET e == normalizeInvocationError(raw) IN
    /\ pc[n] = "call"
    /\ states' = [states EXCEPT ![AgentOf(n)] =
                     AfterFailure(@, Threshold(n), ResetTimeout, clock)]
    /\ steps' = AddStep(n, attempt[n], e)
    /\ \/ /\ GivesUp(n, e)
          /\ pc' = [pc EXCEPT ![n] = "return"]
          /\ res' = [res EXCEPT ![n] = e]
          /\ metrics' = ObserveInvocation(metrics, AgentOf(n), "error")
       \/ /\ ~GivesUp(n, e)
          /\ pc' = [pc EXCEPT ![n] = IF cancelled THEN "return" ELSE "backoff"]
          /\ res' = [res EXCEPT ![n] = IF cancelled THEN CtxErr ELSE e]
          /\ metrics' = ObserveRetry(ObserveInvocation(metrics, AgentOf(n), "error"), AgentOf(n))
    /\ UNCHANGED <<graphVars, main, lvl, todo, attempt, sem, resultCh,
                   resultsByID, outVars, registry, envVars>>

(* time.After(Wait(n, attempt[n])) fires, at once for a wait below zero, *)
BackoffElapsed(n) ==
    /\ pc[n] = "backoff"
    /\ pc' = [pc EXCEPT ![n] = "allow"]
    /\ attempt' = [attempt EXCEPT ![n] = @ + 1]
    /\ UNCHANGED <<graphVars, main, lvl, todo, res, sem, resultCh,
                   resultsByID, steps, outVars, registry, states, metrics, envVars>>

(* or the context is cancelled first: no step is recorded for ctx.Err(). *)
BackoffCancelled(n) ==
    /\ pc[n] = "backoff" /\ cancelled
    /\ pc' = [pc EXCEPT ![n] = "return"]
    /\ res' = [res EXCEPT ![n] = CtxErr]
    /\ UNCHANGED <<graphVars, main, lvl, todo, attempt, sem, resultCh,
                   resultsByID, steps, outVars, registry, states, metrics, envVars>>

SlotKept == sem

SlotReleased == sem - 1

(* The result is sent, the slot released and the wait group told. *)
Return(n) ==
    /\ pc[n] = "return"
    /\ Len(resultCh) < Capacity
    /\ resultCh' = Append(resultCh, n)
    /\ sem' = SlotReleased
    /\ pc' = [pc EXCEPT ![n] = "done"]
    /\ UNCHANGED <<graphVars, main, lvl, todo, attempt, res,
                   resultsByID, steps, outVars, registry, states, metrics, envVars>>

-----------------------------------------------------------------------------
(* The caller's context and time. *)
Cancel ==
    /\ MayCancel /\ ~cancelled /\ main # "done"
    /\ cancelled' = TRUE
    /\ UNCHANGED <<graphVars, main, lvl, todo, nodeVars, sem, resultCh,
                   resultsByID, steps, outVars, registry, states, metrics, clock>>

(* RegisterAgent of pkg/sdk while the plan runs. *)
Register(a) ==
    /\ a \in (LateAgents \cap Agents) \ registry /\ main # "done"
    /\ registry' = registry \cup {a}
    /\ UNCHANGED <<graphVars, main, lvl, todo, nodeVars, sem, resultCh,
                   resultsByID, steps, outVars, states, metrics, envVars>>

Tick ==
    /\ clock < MaxClock /\ main = "level"
    /\ clock' = clock + 1
    /\ UNCHANGED <<graphVars, main, lvl, todo, nodeVars, sem, resultCh,
                   resultsByID, steps, outVars, registry, states, metrics, cancelled>>

Main == \/ BuildGraph \/ RejectPlan \/ StartPlan
        \/ \E n \in IDs : Dispatch(n)
        \/ CollectLevel \/ FinishPlan

Node(n) == \/ StartNode(n) \/ Allow(n)
           \/ CallSucceeds(n) \/ \E e \in MayReturn(n) \ {NoErr} : CallFails(n, e)
           \/ BackoffElapsed(n) \/ BackoffCancelled(n)
           \/ Return(n)

Next == Main \/ (\E n \in IDs : Node(n)) \/ Cancel \/ Tick
        \/ \E a \in LateAgents : Register(a)

(* Goroutines are scheduled, timers fire, and an agent call ends because its *)
(* context carries a timeout.                                                *)
AllIDs == UNION {{p[i].id : i \in DOMAIN p} : p \in Plans}

NodeStep(n) == n \in IDs /\ Node(n)

Fairness == WF_vars(Main) /\ \A n \in AllIDs : WF_vars(NodeStep(n))

Spec == Init /\ [][Next]_vars /\ Fairness

-----------------------------------------------------------------------------
Running == {"allow", "call", "backoff", "return"}

(* The state of RunPlan is well typed: no node makes more attempts than its  *)
(* policy allows, and the taken slots of the pool, never more than there     *)
(* are, are those of the nodes between their start and their result.         *)
TypeOK ==
    /\ GraphTypeOK
    /\ main \in {"build", "level", "done"}
    /\ lvl \in 0..(Len(levels) + 1)
    /\ todo \subseteq IDs
    /\ pc \in [IDs -> Running \cup {"idle", "skipped", "spawned", "done"}]
    /\ attempt \in [IDs -> Nat] /\ \A n \in IDs : attempt[n] <= MaxAttempts(n)
    /\ res \in [IDs -> Errors]
    /\ sem \in 0..WorkerPoolSize
    /\ sem = Cardinality({n \in IDs : pc[n] \in Running})
    /\ resultCh \in Seq(IDs)
    /\ DOMAIN resultsByID \subseteq IDs
    /\ states \in [Agents -> CircuitState]
    /\ metrics \in [total : Nat, errors : Nat, retries : Nat, opens : Nat,
                    byAgent : [Agents -> [successes : Nat, errors : Nat, retries : Nat, opens : Nat]]]
    /\ Registered \subseteq registry
    /\ cancelled \in BOOLEAN
    /\ clock \in 0..MaxClock

(* Nobody blocks on resultCh, which is read only after wg.Wait(): there is   *)
(* room for every result still to come, of running and of undispatched       *)
(* nodes.                                                                    *)
SendNeverBlocks ==
    main = "level" /\ lvl <= Len(levels) =>
        Len(resultCh) + Cardinality(todo)
            + Cardinality({n \in levels[lvl] : pc[n] \in Running \cup {"spawned"}})
          <= Capacity

StepsOf(n) == {trace[i] : i \in {j \in DOMAIN trace : trace[j].inv = n}}

(* A node's steps are the attempts 1, 2, ..., k or the one attempt 0. *)
Explains(ss, result) ==
    \E last \in ss :
        /\ {s.attempt : s \in ss} = IF result = DepFailed THEN {0} ELSE 1..last.attempt
        /\ \A s \in ss \ {last} : s.attempt < last.attempt /\ s.err # NoErr
        /\ result = last.err \/ (result = CtxErr /\ last.err # NoErr)

(* The returned trace does not depend on the interleaving and accounts for   *)
(* every result: its steps are strictly ordered, an invocation has attempts  *)
(* 1, 2, ... (or the single attempt 0 of a skipped one), only the last may   *)
(* have succeeded, and the last one's error is the result's, except when the *)
(* context was cancelled during a backoff.                                   *)
TraceExplainsResults ==
    main = "done" /\ phase = "built" =>
        /\ \A i, j \in DOMAIN trace : i < j => StepBefore(trace[i], trace[j])
        /\ Len(results) = Len(plan)
        /\ \A i \in DOMAIN results : Explains(StepsOf(results[i].id), results[i].err)

(* When RunPlan returns no circuit is left half-open: the next run on the    *)
(* same Engine is not shut out by a probe of this one.                       *)
BreakerSettles == main = "done" => \A a \in Agents : ~HalfOpen(states[a])

(* The counters agree with the trace, agent by agent and in total: every     *)
(* step of an executed attempt is one observed invocation, failed ones are   *)
(* errors, refused ones are circuit events, and a failed call is a retry     *)
(* exactly when the policy leaves the node another attempt.                  *)
MetricsMatchTrace ==
    LET by(A, P(_)) == Cardinality({i \in DOMAIN steps :
                          steps[i].inv \in IDs /\ steps[i].attempt > 0
                          /\ AgentOf(steps[i].inv) \in A /\ P(steps[i])})
        failed(s) == s.err # NoErr
        refused(s) == s.err = CircuitOpen
        retried(s) == /\ s.err \notin {NoErr, Unregistered} /\ shouldRetry(s.err)
                      /\ s.attempt # MaxAttempts(s.inv)
    IN  /\ \A a \in Agents :
             /\ metrics.byAgent[a].successes = by({a}, LAMBDA s : ~failed(s))
             /\ metrics.byAgent[a].errors = by({a}, failed)
             /\ metrics.byAgent[a].opens = by({a}, refused)
             /\ metrics.byAgent[a].retries = by({a}, retried)
        /\ metrics.total = by(Agents, LAMBDA s : TRUE)
        /\ metrics.errors = by(Agents, failed)
        /\ metrics.opens = by(Agents, refused)
        /\ metrics.retries = by(Agents, retried)

(* Every wait is longer than the one before and the first is positive: the   *)
(* arithmetic of BackoffDuration wraps only after waits that add up to the   *)
(* range of a Duration (292 years for int64), less two base intervals.       *)
BackoffSpreads ==
    \A n \in IDs : pc[n] = "backoff" =>
        LET k == attempt[n]
            sum[j \in 0..k] == IF j = 0 THEN 0 ELSE sum[j - 1] + Wait(n, j)
        IN  \/ Wait(n, 1) > 0 /\ (k > 1 => Wait(n, k - 1) < Wait(n, k))
            \/ \E i \in 1..(k - 1) : sum[i] >= 2^(Width - 1) - 2 * Base

Outcome == INSTANCE PlanOutcome WITH
    ids <- IDs,
    deps <- [n \in IDs |-> Deps(n)],
    outcome <- [n \in IDs |-> CASE pc[n] = "skipped" -> "skipped"
                                [] pc[n] \in Running \cup {"spawned"} -> "running"
                                [] pc[n] = "done" -> IF res[n] = NoErr THEN "ok" ELSE "failed"
                                [] OTHER -> "pending"]

(* Levels, goroutines, retries and circuits implement PlanOutcome: an        *)
(* invocation starts only when all its dependencies have succeeded, it is    *)
(* decided once, and it is skipped exactly when one of them did not succeed. *)
ImplementsOutcome == Outcome!Spec

(* RunPlan returns: neither the pool, nor the channel, nor the wait group,   *)
(* nor a backoff holds it for ever.                                          *)
PlanReturns == <>(main = "done")
=============================================================================
