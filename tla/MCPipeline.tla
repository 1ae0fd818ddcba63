----------------------------- MODULE MCPipeline -----------------------------
(***************************************************************************)
(* Every plan of three nodes with up to two dependencies each (repeated,   *)
(* self, unknown and cyclic ones included), every plan of four nodes with  *)
(* at most one, and every assignment of IDs to a plan without edges; every *)
(* manifest of three steps over three agents, with empty, repeated and     *)
(* unknown names, and one manifest for each other check of the loader;     *)
(* combinations of settings; and nodes of an SDK program.                  *)
(***************************************************************************)
EXTENDS Pipeline

SeqsUpTo(S, n) == UNION {[1..k -> S] : k \in 0..n}

WithDeps(n, deps) ==
    {[i \in 1..n |-> [id |-> i, dependsOn |-> f[i]]] : f \in [1..n -> deps]}

WithIDs(n) ==
    {[i \in 1..n |-> [id |-> f[i], dependsOn |-> << >>]] : f \in [1..n -> 0..n]}

BoundedPlans ==
    UNION {WithDeps(3, SeqsUpTo(1..4, 2)), WithDeps(4, SeqsUpTo(1..4, 1)),
           WithIDs(3), WithIDs(1), {<< >>}}

AgentSpec(id, max, threshold) ==
    [id |-> id, maxAttempts |-> max, threshold |-> threshold, reset |-> Absent,
     probe |-> Absent]

ThreeAgents == << AgentSpec(1, 0, 0), AgentSpec(2, 2, 1), AgentSpec(3, 3, 2) >>

ManifestOf(p) == [agents |-> ThreeAgents, pipeline |-> p, namespaceOK |-> TRUE,
                  rolesOK |-> TRUE, pool |-> 0, timeout |-> Absent]

StepSpecs == [step : 0..3, dependsOn : 0..4]

Chain == << [step |-> 2, dependsOn |-> 1], [step |-> 1, dependsOn |-> 0] >>

Good == ManifestOf(Chain)

BadManifests ==
    { [Good EXCEPT !.agents = << >>],
      [Good EXCEPT !.namespaceOK = FALSE], [Good EXCEPT !.rolesOK = FALSE],
      [Good EXCEPT !.timeout = Malformed],
      [Good EXCEPT !.agents[3].id = 1], [Good EXCEPT !.agents[3].id = 0],
      [Good EXCEPT !.agents[1].threshold = -1], [Good EXCEPT !.agents[1].reset = Malformed],
      [Good EXCEPT !.agents[1].probe = Malformed] }

UnsetEnv == [pool |-> Absent, timeout |-> Absent, threshold |-> Absent, reset |-> Absent,
             probe |-> Absent]

(* Settings out of range, in range and malformed, in every layer. *)
Some == {Absent, Malformed, Number(-1), Number(0), Number(7)}

ConfiguredLaunches ==
    {[manifest |-> [Good EXCEPT !.pool = p, !.timeout = t, !.agents[1].reset = r],
      env |-> [UnsetEnv EXCEPT !.pool = e, !.timeout = e, !.threshold = e, !.reset = e]] :
        p \in {-1, 0, 3}, t \in {Absent, Number(-1), Number(9)},
        r \in {Absent, Number(0), Number(4)}, e \in Some}

BoundedLaunches ==
    {[manifest |-> ManifestOf(p), env |-> UnsetEnv] : p \in SeqsUpTo(StepSpecs, 3)}
    \cup {[manifest |-> m, env |-> UnsetEnv] : m \in BadManifests}
    \cup ConfiguredLaunches

SDKConfigs ==
    [pool : {-1, 0, 2}, timeout : {0, 9}, attempts : {0, 2}, threshold : {-1, 3},
     reset : {0}, probe : {0, 2}]

SDKNode(id, deps, max, threshold) ==
    [id |-> id, agent |-> 1, dependsOn |-> deps, maxAttempts |-> max,
     breaker |-> [threshold |-> threshold, reset |-> 0, probe |-> -1]]

(* Nodes with and without IDs, which are repeated, name generated ones and  *)
(* depend on them; and all configurations.                                   *)
BoundedSDKCalls ==
    {[nodes |-> [i \in 1..3 |-> SDKNode(f[i], d[i], 0, 0)],
      cfg |-> [pool |-> 2, timeout |-> 9, attempts |-> 2, threshold |-> 3, reset |-> 0,
               probe |-> 2]] :
        f \in [1..3 -> {0, 1, 12}], d \in [1..3 -> {<< >>, <<1>>, <<11>>, <<12>>}]}
    \cup {[nodes |-> n, cfg |-> c] : c \in SDKConfigs,
             n \in {<< >>, << SDKNode(0, << >>, 0, 0), SDKNode(0, <<11>>, 3, 2) >>}}
=============================================================================
