-------------------------- MODULE MCCircuitBreaker --------------------------
(***************************************************************************)
(* Instances of CircuitBreaker for TLC.  Two callers with thresholds 2 and *)
(* 1 share the circuit with one whose policy disables the breaker.         *)
(***************************************************************************)
EXTENDS CircuitBreaker, TLC

CONSTANTS c1, c2, c3

MixedCallers    == {c1, c2, c3}
MixedThresholds == c1 :> 2 @@ c2 :> 1 @@ c3 :> 0
MixedResets     == c1 :> 2 @@ c2 :> 0 @@ c3 :> 1

PairCallers    == {c1, c2}
PairThresholds == c1 :> 1 @@ c2 :> 1
PairResets     == c1 :> 1 @@ c2 :> 1
=============================================================================
