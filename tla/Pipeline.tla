----------------------------- MODULE Pipeline -----------------------------
(***************************************************************************)
(* What becomes of a plan before RunPlan executes it.  A run starts from a *)
(* manifest and the environment: LoadManifest's checks and OrderedPipeline *)
(* of internal/config/manifest.go, the settings of internal/config/        *)
(* config.go, and buildExecutionPlan of internal/app/run.go.  A program    *)
(* that uses pkg/sdk brings nodes and a RouterConfig.  NewEngine and       *)
(* buildGraph get the result.  A plan may also be given to buildGraph as   *)
(* it is.                                                                  *)
(*                                                                         *)
(* Agents and steps have the same names, natural numbers with 0 for the    *)
(* empty string.  The ID of the node at position i is i in the plan of a   *)
(* manifest, since "%04d_" puts it first, and Generated(i) in one of the   *)
(* SDK, where callers choose IDs too.  A setting is absent, malformed or a *)
(* number (of seconds for a duration).                                     *)
(***************************************************************************)
EXTENDS PlanGraph, Functions

CONSTANTS
    Launches,   \* records with a manifest (agents, pipeline, namespaceOK, rolesOK,
                \* pool, timeout) and the settings env of the environment
    SDKCalls    \* records with the nodes and the cfg of an SDK program

Setting(text, n) == [text |-> text, n |-> n]
Absent == Setting("absent", 0)
Malformed == Setting("malformed", 0)
Number(n) == Setting("number", n)

NoName == 0
Nothing == << >>

IsSetting(v) == v \in {Absent, Malformed} \/ (v = Number(v.n) /\ v.n \in Int)

IsAgent(a) ==
    /\ a.id \in Nat /\ a.maxAttempts \in Int /\ a.threshold \in Int
    /\ IsSetting(a.reset) /\ IsSetting(a.probe)

IsManifest(m) ==
    /\ m # Nothing
    /\ m.agents \in Seq(Range(m.agents)) /\ \A a \in Range(m.agents) : IsAgent(a)
    /\ m.pipeline \in Seq([step : Nat, dependsOn : Nat])
    /\ m.pool \in Int /\ IsSetting(m.timeout)

IsEnv(e) ==
    /\ IsSetting(e.pool) /\ IsSetting(e.timeout) /\ IsSetting(e.threshold)
    /\ IsSetting(e.reset) /\ IsSetting(e.probe)

Policies == [threshold : Int, reset : Int, probe : Int]

SDKNodes == [id : Nat, agent : Nat, dependsOn : Seq(Nat), maxAttempts : Int,
             breaker : Policies]

RouterConfigs == [pool : Int, timeout : Int, attempts : Int, threshold : Int, reset : Int,
                  probe : Int]

ASSUME LaunchesAssumption == \A l \in Launches : IsManifest(l.manifest) /\ IsEnv(l.env)

ASSUME SDKCallsAssumption ==
    \A c \in SDKCalls : c.nodes \in Seq(SDKNodes) /\ c.cfg \in RouterConfigs

VARIABLES
    manifest,      \* the manifest of the run, or Nothing
    env,           \* the environment of the run, or Nothing
    nodes,         \* the nodes given to the SDK, or Nothing
    stage,         \* "load", "order", "config" or "sdk", then "graph" or "rejected"
    manifestErr,   \* why it was rejected
    stepQueue,     \* OrderedPipeline's queue
    orderedNames,
    cfg            \* the RouterConfig, then Engine.cfg

inputVars == <<manifest, env, nodes>>
pipelineVars == <<inputVars, stage, manifestErr, stepQueue, orderedNames, cfg>>
allVars == <<graphVars, pipelineVars>>

pipeline == manifest.pipeline
StepNames == [i \in DOMAIN pipeline |-> pipeline[i].step]
AgentIDs == [i \in DOMAIN manifest.agents |-> manifest.agents[i].id]

-----------------------------------------------------------------------------
Distinct(names) == NoName \notin Range(names) /\ IsInjective(names)

AgentsValid ==
    /\ Distinct(AgentIDs)
    /\ \A a \in Range(manifest.agents) : a.threshold >= 0 /\ a.reset # Malformed /\ a.probe # Malformed

StepsValidWithRepeats ==
    NoName \notin Range(StepNames) /\ Range(StepNames) \subseteq Range(AgentIDs)

StepsValid == Distinct(StepNames) /\ Range(StepNames) \subseteq Range(AgentIDs)

DependenciesValid ==
    \A p \in Range(pipeline) : p.dependsOn # NoName =>
        p.dependsOn # p.step /\ p.dependsOn \in Range(StepNames)

(* The checks in their order; the last one, OrderedPipeline, follows. *)
ValidateManifest ==
    CASE manifest.agents = << >>   -> "no_agents"
      [] manifest.agents # << >> /\ pipeline = << >> -> "no_pipeline"
      [] OTHER -> IF ~manifest.namespaceOK THEN "namespace"
                  ELSE IF ~manifest.rolesOK THEN "role"
                  ELSE IF ~AgentsValid THEN "agent"
                  ELSE IF ~StepsValid THEN "step"
                  ELSE IF ~DependenciesValid THEN "dependency" ELSE "none"

(* A loop over the pipeline that picks the steps at the positions S. *)
Picked(S) ==
    LET at == CHOOSE q \in [1..Cardinality(S) -> S] : \A i, j \in DOMAIN q : i < j => q[i] < q[j]
    IN  [k \in 1..Cardinality(S) |-> StepNames[at[k]]]

Roots == Picked({i \in DOMAIN pipeline : pipeline[i].dependsOn = NoName})

LoadManifest ==
    /\ stage = "load"
    /\ manifestErr' = ValidateManifest
    /\ IF ValidateManifest = "none"
       THEN stage' = "order" /\ stepQueue' = Roots
       ELSE stage' = "rejected" /\ UNCHANGED stepQueue
    /\ UNCHANGED <<graphVars, inputVars, orderedNames, cfg>>

-----------------------------------------------------------------------------
(* children[s], in the order of the pipeline.  A checked step has at most    *)
(* one dependency, so its in-degree is zero once that one has been taken.    *)
Children(s) == Picked({i \in DOMAIN pipeline : pipeline[i].dependsOn = s})

OrderStep ==
    /\ stage = "order" /\ stepQueue # << >>
    /\ orderedNames' = Append(orderedNames, Head(stepQueue))
    /\ stepQueue' = Tail(stepQueue) \o Children(Head(stepQueue))
    /\ UNCHANGED <<graphVars, inputVars, stage, manifestErr, cfg>>

(* len(orderedNames) != len(m.Pipeline) *)
Unordered == Len(orderedNames) # Len(pipeline)

OrderDone ==
    /\ stage = "order" /\ stepQueue = << >>
    /\ IF Unordered THEN stage' = "rejected" /\ manifestErr' = "cycle"
       ELSE stage' = "config" /\ UNCHANGED manifestErr
    /\ UNCHANGED <<graphVars, inputVars, stepQueue, orderedNames, cfg>>

-----------------------------------------------------------------------------
(* Settings.  FromEnv takes what parses and is in range. *)
IfPositive(v, default) == IF v.text = "number" /\ v.n > 0 THEN v.n ELSE default

FromEnv ==
    [pool      |-> IfPositive(env.pool, 10),
     timeout   |-> IfPositive(env.timeout, 30),
     attempts  |-> 1,
     threshold |-> IF env.threshold.text = "number" /\ env.threshold.n >= 0
                   THEN env.threshold.n ELSE 5,
     reset     |-> IfPositive(env.reset, 60),
     probe     |-> IfPositive(env.probe, 5)]

(* A default_timeout that parses is taken, be it positive or not. *)
RouterConfigFromManifest(base) ==
    [base EXCEPT !.pool = IF manifest.pool > 0 THEN manifest.pool ELSE @,
                 !.timeout = IF manifest.timeout = Absent THEN @ ELSE manifest.timeout.n]

OrDefault(n, default) == IF n <= 0 THEN default ELSE n

NewEngineTrustsPool(c) ==
    [c EXCEPT !.timeout = OrDefault(@, 30), !.attempts = OrDefault(@, 1),
              !.threshold = OrDefault(@, 0), !.reset = OrDefault(@, 60),
              !.probe = OrDefault(@, 5)]

NewEngine(c) ==
    [c EXCEPT !.pool = OrDefault(@, 1), !.timeout = OrDefault(@, 30),
              !.attempts = OrDefault(@, 1), !.threshold = OrDefault(@, 0),
              !.reset = OrDefault(@, 60), !.probe = OrDefault(@, 5)]

ConfigOf(s) == CHOOSE a \in Range(manifest.agents) : a.id = s

StepOf(s) == pipeline[CHOOSE i \in DOMAIN pipeline : StepNames[i] = s /\
                         \A j \in DOMAIN pipeline : StepNames[j] = s => j <= i]

(* RetryPolicyFromConfig and CircuitBreakerPolicyFromConfig *)
AttemptsOf(a) == OrDefault(a.maxAttempts, 1)

BreakerPolicyOf(a, fallback) ==
    LET parsed(v, other) == IF v = Absent THEN other ELSE v.n IN
    [threshold |-> IF a.threshold > 0 THEN a.threshold ELSE OrDefault(fallback.threshold, 0),
     reset     |-> OrDefault(parsed(a.reset, fallback.reset), 60),
     probe     |-> OrDefault(parsed(a.probe, fallback.probe), 5)]

(* invocationIDByStep: the last position with the name *)
invocationIDByStep(names, s) ==
    IF s \in Range(names)
    THEN CHOOSE i \in DOMAIN names : names[i] = s /\
            \A j \in DOMAIN names : names[j] = s => j <= i
    ELSE NoID

PlanOf(names, c) ==
    [i \in DOMAIN names |->
        LET p == StepOf(names[i]) IN
        [id          |-> invocationIDByStep(names, p.step),
         agent       |-> p.step,
         dependsOn   |-> IF p.dependsOn = NoName THEN << >>
                         ELSE << invocationIDByStep(names, p.dependsOn) >>,
         maxAttempts |-> AttemptsOf(ConfigOf(p.step)),
         breaker     |-> BreakerPolicyOf(ConfigOf(p.step), c)]]

buildExecutionPlanUnordered(c) == PlanOf(StepNames, c)

buildExecutionPlan(c) == PlanOf(orderedNames, c)

(* RouterConfigFromManifest may still refuse router.default_timeout, which   *)
(* ValidateManifest does not look at; otherwise the plan is built.           *)
BuildPlan ==
    LET runtimeCfg == RouterConfigFromManifest(FromEnv) IN
    /\ stage = "config"
    /\ IF manifest.timeout = Malformed
       THEN stage' = "rejected" /\ manifestErr' = "timeout" /\ UNCHANGED <<plan, cfg>>
       ELSE /\ stage' = "graph"
            /\ plan' = buildExecutionPlan(runtimeCfg)
            /\ cfg' = NewEngine(runtimeCfg)
            /\ UNCHANGED manifestErr
    /\ UNCHANGED <<phase, err, inDegree, queue, levels, inputVars, stepQueue, orderedNames>>

-----------------------------------------------------------------------------
(* fmt.Sprintf("%04d_%s", i, n.AgentID): callers may use the same names. *)
Generated(i) == 10 + i

(* NewRuntime and RunPlan of pkg/sdk *)
RunPlan ==
    /\ stage = "sdk"
    /\ cfg' = NewEngine(cfg)
    /\ IF nodes = << >>
       THEN stage' = "rejected" /\ manifestErr' = "no_nodes" /\ UNCHANGED plan
       ELSE /\ stage' = "graph"
            /\ plan' = [i \in DOMAIN nodes |->
                          [nodes[i] EXCEPT !.id = IF @ = NoID THEN Generated(i) ELSE @]]
            /\ UNCHANGED manifestErr
    /\ UNCHANGED <<phase, err, inDegree, queue, levels, inputVars, stepQueue, orderedNames>>

(* What executeNode makes of the policies of a node. *)
AttemptsAt(n) == IF n.maxAttempts <= 0 THEN cfg.attempts ELSE n.maxAttempts

BreakerAt(n) ==
    LET p == IF n.breaker.threshold > 0 THEN n.breaker
             ELSE [threshold |-> cfg.threshold, reset |-> cfg.reset, probe |-> cfg.probe]
    IN  [p EXCEPT !.reset = OrDefault(@, 60), !.probe = OrDefault(@, 5)]

BuildGraph == stage = "graph" /\ GraphNext /\ UNCHANGED pipelineVars

FromManifest == manifest # Nothing
FromSDK == nodes # Nothing

PipelineInit ==
    /\ \/ /\ \E l \in Launches : manifest = l.manifest /\ env = l.env
          /\ nodes = Nothing /\ cfg = Nothing /\ stage = "load" /\ plan = << >>
       \/ /\ \E c \in SDKCalls : nodes = c.nodes /\ cfg = c.cfg
          /\ manifest = Nothing /\ env = Nothing /\ stage = "sdk" /\ plan = << >>
       \/ /\ manifest = Nothing /\ env = Nothing /\ nodes = Nothing /\ cfg = Nothing
          /\ stage = "graph" /\ plan \in Plans
    /\ phase = "check" /\ err = "none"
    /\ inDegree = << >> /\ queue = {} /\ levels = << >>
    /\ manifestErr = "none" /\ stepQueue = << >> /\ orderedNames = << >>

PipelineNext == LoadManifest \/ OrderStep \/ OrderDone \/ BuildPlan \/ RunPlan \/ BuildGraph

PipelineSpec == PipelineInit /\ [][PipelineNext]_allVars /\ WF_allVars(PipelineNext)

-----------------------------------------------------------------------------
(* Some steps each wait for another one of them. *)
PipelineCyclic ==
    \E S \in SUBSET Range(StepNames) : S # {} /\
        \A s \in S : \E p \in Range(pipeline) : p.step = s /\ p.dependsOn \in S

GivenIDs == {nodes[i].id : i \in DOMAIN nodes} \ {NoID}

(* What LoadManifest accepts, the engine accepts: buildGraph never rejects   *)
(* the plan of a manifest, whose agents are all registered.  And it does not *)
(* reject too much: a cycle is reported for exactly the pipelines that have  *)
(* one, wherever the cycle hangs off the steps that can be ordered.  Nodes   *)
(* of the SDK may leave their IDs out: buildGraph then finds no empty ID,    *)
(* and a duplicate only if the caller repeats an ID or gives a generated one *)
(* to another node.                                                          *)
PlanVerdict ==
    /\ FromManifest => /\ phase # "invalid"
                       /\ {plan[i].agent : i \in DOMAIN plan} \subseteq Range(AgentIDs)
                       /\ manifestErr = "cycle" => PipelineCyclic
                       /\ stage \in {"config", "graph"} => ~PipelineCyclic
    /\ FromSDK /\ phase = "invalid" =>
         /\ err \notin {"empty_id", "no_nodes"}
         /\ err = "duplicate_id" =>
              \/ Cardinality(GivenIDs) < Cardinality({i \in DOMAIN nodes : nodes[i].id # NoID})
              \/ \E i \in DOMAIN nodes : nodes[i].id = NoID /\ Generated(i) \in GivenIDs

(* The plan is the pipeline: one node per step, after the node of the step   *)
(* it depends on and depending on that node alone.  IDs grow along           *)
(* dependencies, so that sorting by ID, as RunPlan and the trace do, keeps   *)
(* causes before effects.                                                    *)
PlanFollowsManifest ==
    FromManifest /\ stage = "graph" =>
        /\ {plan[i].agent : i \in DOMAIN plan} = Range(StepNames)
        /\ Len(plan) = Len(pipeline)
        /\ \A i \in DOMAIN plan :
              LET p == StepOf(plan[i].agent) IN
              /\ plan[i].id = i
              /\ [k \in DOMAIN plan[i].dependsOn |-> plan[plan[i].dependsOn[k]].agent]
                    = IF p.dependsOn = NoName THEN << >> ELSE << p.dependsOn >>
              /\ \A d \in Range(plan[i].dependsOn) : d < i

(* Whatever the environment, the manifest or an SDK program say, the engine  *)
(* executes every node with a pool that has room, a timeout in the future,   *)
(* an attempt to make and a circuit that can be probed.  A setting of the    *)
(* manifest that makes sense is in force, else that of the environment,      *)
(* except that a default_timeout of zero or less hides the environment's.    *)
SettingsUsable ==
    stage = "graph" /\ cfg # Nothing =>
        /\ cfg.pool >= 1 /\ cfg.timeout > 0
        /\ \A i \in DOMAIN plan : LET b == BreakerAt(plan[i]) IN
              AttemptsAt(plan[i]) >= 1 /\ b.threshold >= 0 /\ b.reset > 0 /\ b.probe > 0
        /\ FromManifest =>
             /\ cfg.pool = IfPositive(Number(manifest.pool), IfPositive(env.pool, 10))
             /\ cfg.timeout = IF manifest.timeout = Absent THEN IfPositive(env.timeout, 30)
                              ELSE IfPositive(manifest.timeout, 30)
             /\ \A i \in DOMAIN plan :
                  LET a == ConfigOf(plan[i].agent)  b == BreakerAt(plan[i]) IN
                  /\ a.maxAttempts > 0 => AttemptsAt(plan[i]) = a.maxAttempts
                  /\ a.threshold > 0 => b.threshold = a.threshold
                  /\ b.threshold > 0 => b.reset = IF a.reset = Absent
                                                  THEN IfPositive(env.reset, 60)
                                                  ELSE IfPositive(a.reset, 60)

(* Loading, ordering and building end, whatever manifest or plan is given. *)
PipelineTerminates == <>(stage = "rejected" \/ phase \in {"built", "invalid"})
===========================================================================
