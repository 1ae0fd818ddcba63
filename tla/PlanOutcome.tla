---------------------------- MODULE PlanOutcome ----------------------------
(***************************************************************************)
(* What RunPlan promises about a plan, without levels, retries or          *)
(* circuits: an invocation starts when all its dependencies have           *)
(* succeeded, and is skipped when all are decided and one of them did not  *)
(* succeed.  Each is decided once.                                         *)
(***************************************************************************)
VARIABLES ids, deps, outcome

vars == <<ids, deps, outcome>>

Init == outcome = [n \in ids |-> "pending"]

Decided == {"ok", "failed", "skipped"}

Skip(n) == /\ outcome[n] = "pending"
           /\ \A d \in deps[n] : outcome[d] \in Decided
           /\ \E d \in deps[n] : outcome[d] # "ok"
           /\ outcome' = [outcome EXCEPT ![n] = "skipped"]

Start(n) == /\ outcome[n] = "pending"
            /\ \A d \in deps[n] : outcome[d] = "ok"
            /\ outcome' = [outcome EXCEPT ![n] = "running"]

Finish(n) == /\ outcome[n] = "running"
             /\ \E o \in {"ok", "failed"} : outcome' = [outcome EXCEPT ![n] = o]

Next == (\E n \in ids : Skip(n) \/ Start(n) \/ Finish(n)) /\ UNCHANGED <<ids, deps>>

Spec == Init /\ [][Next]_vars
=============================================================================
