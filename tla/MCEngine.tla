------------------------------ MODULE MCEngine ------------------------------
(***************************************************************************)
(* Plans and configurations of Engine for TLC.                             *)
(***************************************************************************)
EXTENDS TraceReplay

NodeSpec(id, agent, deps, max, threshold) ==
    [id |-> id, agent |-> agent, dependsOn |-> deps, maxAttempts |-> max,
     backoff |-> "linear", threshold |-> threshold]

(* Three independent calls of one agent under different policies: they      *)
(* contend for the pool and for the agent's circuit.                        *)
WidePlan == << NodeSpec(1, "a", << >>, 3, 1),
               NodeSpec(2, "a", << >>, 2, 2),
               NodeSpec(3, "a", << >>, 0, 0) >>

(* A diamond, listed out of order, whose last node needs both branches. *)
DiamondPlan == << NodeSpec(4, "a", <<2, 3>>, 0, 2),
                  NodeSpec(2, "a", <<1>>, 2, 1),
                  NodeSpec(3, "b", <<1>>, 2, 2),
                  NodeSpec(1, "b", << >>, 0, 0) >>

(* A node whose agent is not registered, and its dependent. *)
UnregisteredPlan == << NodeSpec(1, "x", << >>, 2, 0), NodeSpec(2, "a", <<1, 1>>, 0, 0) >>

CyclicPlan == << NodeSpec(1, "a", <<2>>, 0, 0), NodeSpec(2, "a", <<1>>, 0, 0) >>

(* Plans of manifests: one agent per step.  In the first, steps are retried, *)
(* refused by their circuit, panic and are skipped; the second replays.      *)
ManifestPlan == << NodeSpec(1, "flaky_1", << >>, 2, 2),
                   NodeSpec(2, "fail_1", << >>, 3, 2),
                   NodeSpec(3, "panic_1", <<1>>, 2, 0),
                   NodeSpec(4, "ok_1", <<2>>, 1, 0) >>

ReplayablePlan == << NodeSpec(1, "ok_1", << >>, 2, 1),
                     NodeSpec(2, "fail_1", <<1>>, 2, 0),
                     NodeSpec(3, "flaky_1", << >>, 1, 2),
                     NodeSpec(4, "slow_1", <<1>>, 2, 1) >>

(* The pipeline of examples/enterprise-workflow/manifest.yaml. *)
EnterprisePlan ==
    << [NodeSpec(1, "flaky_ingest", << >>, 2, 3) EXCEPT !.backoff = "exponential_jitter"],
       NodeSpec(2, "validate_agent", <<1>>, 1, 3),
       [NodeSpec(3, "classify_agent", <<2>>, 2, 3) EXCEPT !.backoff = "exponential"],
       NodeSpec(4, "audit_agent", <<3>>, 1, 3) >>

ExamplePlans == {EnterprisePlan}

(* One call that fails until its attempts are used up, for each strategy:    *)
(* more attempts than the exponential waits have room for.                   *)
LongRetryPlan(strategy) ==
    << [NodeSpec(1, "fail_1", << >>, 14, 0) EXCEPT !.backoff = strategy] >>

(* Two calls of an agent whose circuit an earlier plan has used. *)
SecondPlan == << NodeSpec(1, "c", << >>, 2, 2), NodeSpec(2, "c", << >>, 1, 1) >>

AllPlans == {WidePlan, DiamondPlan, UnregisteredPlan, CyclicPlan, << >>,
             ManifestPlan, ReplayablePlan, SubSeq(ReplayablePlan, 1, 3), SecondPlan}
            \cup {LongRetryPlan(b) : b \in {"linear", "exponential", "exponential_jitter"}}

Kinds == [a |-> "any", b |-> "any", c |-> "any", x |-> "any", flaky_1 |-> "flaky", fail_1 |-> "fail",
          panic_1 |-> "panic", ok_1 |-> "ok", slow_1 |-> "slow", flaky_ingest |-> "flaky",
          validate_agent |-> "ok", classify_agent |-> "ok", audit_agent |-> "ok"]

(* Closed with a failure counted, and open: what BreakerSettles leaves. *)
Prior == [a \in DOMAIN Kinds |->
            IF a = "c" THEN {ZeroCircuit, [ZeroCircuit EXCEPT !.consecutiveFailures = 1],
                             [ZeroCircuit EXCEPT !.openUntil = 1]}
            ELSE {ZeroCircuit}]

AppError  == {PlainErr("app")}
=============================================================================
