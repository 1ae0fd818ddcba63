------------------------------ MODULE Circuit ------------------------------
(***************************************************************************)
(* One agent's entry in CircuitBreaker.states                              *)
(* (internal/retry/circuit_breaker.go) and what the three methods of the   *)
(* breaker do to it.  Each method holds cb.mu from its first line to its   *)
(* last, so each is one function from a circuitState to a circuitState.    *)
(* Time is a natural number; 0 is Go's zero time.Time.                     *)
(***************************************************************************)
EXTENDS Integers

CONSTANT DefaultResetTimeout   \* the 60s a policy without a reset timeout gets

ASSUME DefaultResetAssumption == DefaultResetTimeout \in Nat \ {0}

CircuitState == [consecutiveFailures : Nat,
                 openUntil           : Nat,
                 halfOpenProbeActive : BOOLEAN]

(* The zero circuitState: what a map lookup yields for an unknown agent. *)
ZeroCircuit == [consecutiveFailures |-> 0,
                openUntil           |-> 0,
                halfOpenProbeActive |-> FALSE]

HalfOpen(s) == s.halfOpenProbeActive
Open(s)     == s.openUntil # 0
Closed(s)   == ~HalfOpen(s) /\ ~Open(s)

-----------------------------------------------------------------------------
(* Allow: the first return value. *)
Allowed(s, threshold, now) ==
    \/ threshold <= 0
    \/ ~HalfOpen(s) /\ (~Open(s) \/ now >= s.openUntil)

(* Allow: the second return value, TRUE when the call is the half-open probe. *)
IsProbe(s, threshold, now) ==
    threshold > 0 /\ ~HalfOpen(s) /\ Open(s) /\ now >= s.openUntil

AfterAllow(s, threshold, now) ==
    IF IsProbe(s, threshold, now)
    THEN [ZeroCircuit EXCEPT !.halfOpenProbeActive = TRUE]
    ELSE s

-----------------------------------------------------------------------------
AfterSuccessKeepsProbe(s) ==
    [ZeroCircuit EXCEPT !.halfOpenProbeActive = s.halfOpenProbeActive]

AfterSuccessDecrements(s) ==
    [ZeroCircuit EXCEPT !.consecutiveFailures = s.consecutiveFailures - 1]

(* RecordSuccess takes no policy: whoever succeeds resets the entry. *)
AfterSuccess(s) == ZeroCircuit

-----------------------------------------------------------------------------
Normalized(reset) == IF reset <= 0 THEN DefaultResetTimeout ELSE reset

Opened(now, reset) == [ZeroCircuit EXCEPT !.openUntil = now + Normalized(reset)]

AfterFailureOffByOne(s, threshold, reset, now) ==
    IF threshold <= 0
    THEN s
    ELSE IF HalfOpen(s) \/ s.consecutiveFailures >= threshold
         THEN Opened(now, reset)
         ELSE [s EXCEPT !.consecutiveFailures = @ + 1]

AfterFailureProbeUncleared(s, threshold, reset, now) ==
    IF threshold <= 0 THEN s
    ELSE [s EXCEPT !.consecutiveFailures = (@ + 1) % threshold,
                   !.openUntil = IF s.consecutiveFailures + 1 >= threshold
                                 THEN now + Normalized(reset) ELSE @]

(* RecordFailure: a failure while half-open re-opens at once, any other one *)
(* counts and opens when the caller's own threshold is reached.             *)
AfterFailure(s, threshold, reset, now) ==
    IF threshold <= 0
    THEN s
    ELSE IF HalfOpen(s) \/ s.consecutiveFailures + 1 >= threshold
         THEN Opened(now, reset)
         ELSE [s EXCEPT !.consecutiveFailures = @ + 1]
=============================================================================
