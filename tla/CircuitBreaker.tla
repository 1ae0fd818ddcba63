--------------------------- MODULE CircuitBreaker ---------------------------
(***************************************************************************)
(* The circuit breaker of internal/retry/circuit_breaker.go under the      *)
(* goroutines that use it: every caller runs the part of                   *)
(* Engine.executeNode (internal/router/router.go) that reads the clock,    *)
(* calls Allow, calls the agent and records the outcome.  Callers of one   *)
(* agent may have different policies, because the policy belongs to the    *)
(* plan node while the circuit belongs to the agent.                       *)
(*                                                                         *)
(* time.Now() is evaluated before the method takes cb.mu, so the reading a *)
(* method works with (now[c]) may be older than the clock.                 *)
(***************************************************************************)
EXTENDS Circuit

CONSTANTS
    Agents,
    Callers,            \* goroutines in executeNode
    FailureThreshold,   \* per caller: policy.FailureThreshold, <= 0 disables
    ResetTimeout,       \* per caller: policy.ResetTimeout
    MaxClock            \* bound: the clock stops here

ASSUME CallerAssumption ==
    /\ FailureThreshold \in [Callers -> Int]
    /\ ResetTimeout \in [Callers -> Int]
    /\ MaxClock \in Nat

VARIABLES
    states,   \* CircuitBreaker.states
    clock,
    pc,       \* where a caller is in the retry loop
    agent,    \* the agent a caller invokes
    now,      \* the caller's last time.Now()
    probe,    \* the caller's halfOpenProbe
    streak,   \* history: counted failures since the last success or probe
    calls     \* history: callers a circuit admitted in its present mode and
              \* has not heard from

vars == <<states, clock, pc, agent, now, probe, streak, calls>>

Enabled(c) == FailureThreshold[c] > 0

Thresholds == {FailureThreshold[c] : c \in {d \in Callers : Enabled(d)}}

(* The caller's agent call is running or has not yet been recorded. *)
InFlight(c) == pc[c] \in {"call", "fail"}

ModeOf(s) == IF HalfOpen(s) THEN "halfOpen" ELSE IF Open(s) THEN "open" ELSE "closed"

(* calls once c is let through: a caller with the breaker disabled passes an  *)
(* open or half-open circuit unseen.                                          *)
Admitted(c, isProbe) ==
    [calls EXCEPT ![agent[c]] =
        IF isProbe THEN {c} ELSE IF Closed(states[agent[c]]) THEN @ \cup {c} ELSE @]

(* calls once c has reported and its agent's circuit is u. *)
Reported(c, u) ==
    [calls EXCEPT ![agent[c]] =
        IF ModeOf(u) = ModeOf(states[agent[c]]) THEN @ \ {c} ELSE {}]

(* Entries, clock readings and program counters are well typed: no failure  *)
(* count ever goes below zero.                                               *)
TypeOK ==
    /\ states \in [Agents -> CircuitState]
    /\ clock \in 0..MaxClock
    /\ pc \in [Callers -> {"idle", "allow", "call", "fail"}]
    /\ agent \in [Callers -> Agents]
    /\ now \in [Callers -> 0..MaxClock]
    /\ probe \in [Callers -> BOOLEAN]
    /\ streak \in [Agents -> Nat]
    /\ calls \in [Agents -> SUBSET Callers]

Init ==
    /\ states = [a \in Agents |-> ZeroCircuit]
    /\ clock = 0
    /\ pc = [c \in Callers |-> "idle"]
    /\ agent \in [Callers -> Agents]
    /\ now = [c \in Callers |-> 0]
    /\ probe = [c \in Callers |-> FALSE]
    /\ streak = [a \in Agents |-> 0]
    /\ calls = [a \in Agents |-> {}]

-----------------------------------------------------------------------------
(* The loop of executeNode reaches Allow: its argument time.Now() is read. *)
Attempt(c, a) ==
    /\ pc[c] = "idle"
    /\ pc' = [pc EXCEPT ![c] = "allow"]
    /\ agent' = [agent EXCEPT ![c] = a]
    /\ now' = [now EXCEPT ![c] = clock]
    /\ UNCHANGED <<states, clock, probe, streak, calls>>

(* Allow: the call goes ahead, possibly as the half-open probe, ... *)
Allow(c) ==
    LET s == states[agent[c]]
        isProbe == IsProbe(s, FailureThreshold[c], now[c])
    IN  /\ pc[c] = "allow"
        /\ Allowed(s, FailureThreshold[c], now[c])
        /\ states' = [states EXCEPT ![agent[c]] =
                         AfterAllow(s, FailureThreshold[c], now[c])]
        /\ probe' = [probe EXCEPT ![c] = isProbe]
        /\ streak' = IF isProbe THEN [streak EXCEPT ![agent[c]] = 0] ELSE streak
        /\ calls' = Admitted(c, isProbe)
        /\ pc' = [pc EXCEPT ![c] = "call"]
        /\ UNCHANGED <<clock, agent, now>>

(* ... or the invocation ends with ErrCircuitOpen. *)
Reject(c) ==
    /\ pc[c] = "allow"
    /\ ~Allowed(states[agent[c]], FailureThreshold[c], now[c])
    /\ pc' = [pc EXCEPT ![c] = "idle"]
    /\ UNCHANGED <<states, clock, agent, now, probe, streak, calls>>

(* The agent returns without an error and RecordSuccess runs. *)
RecordSuccess(c) ==
    /\ pc[c] = "call"
    /\ states' = [states EXCEPT ![agent[c]] = AfterSuccess(@)]
    /\ streak' = [streak EXCEPT ![agent[c]] = 0]
    /\ calls' = Reported(c, AfterSuccess(states[agent[c]]))
    /\ probe' = [probe EXCEPT ![c] = FALSE]
    /\ pc' = [pc EXCEPT ![c] = "idle"]
    /\ UNCHANGED <<clock, agent, now>>

(* The agent fails, panics or times out; RecordFailure's time.Now() is read. *)
CallFails(c) ==
    /\ pc[c] = "call"
    /\ pc' = [pc EXCEPT ![c] = "fail"]
    /\ now' = [now EXCEPT ![c] = clock]
    /\ UNCHANGED <<states, clock, agent, probe, streak, calls>>

RecordFailure(c) ==
    LET u == AfterFailure(states[agent[c]], FailureThreshold[c], ResetTimeout[c], now[c])
    IN  /\ pc[c] = "fail"
        /\ states' = [states EXCEPT ![agent[c]] = u]
        /\ streak' = IF Enabled(c) THEN [streak EXCEPT ![agent[c]] = @ + 1] ELSE streak
        /\ calls' = Reported(c, u)
        /\ probe' = [probe EXCEPT ![c] = FALSE]
        /\ pc' = [pc EXCEPT ![c] = "idle"]
        /\ UNCHANGED <<clock, agent, now>>

Tick ==
    /\ clock < MaxClock
    /\ clock' = clock + 1
    /\ UNCHANGED <<states, pc, agent, now, probe, streak, calls>>

Next ==
    \/ \E c \in Callers :
          \/ \E a \in Agents : Attempt(c, a)
          \/ Allow(c) \/ Reject(c)
          \/ RecordSuccess(c) \/ CallFails(c) \/ RecordFailure(c)
    \/ Tick

(* A goroutine that wants cb.mu gets it, and an agent call ends: its context *)
(* carries DefaultTimeout or ProbeTimeout.                                    *)
Fairness ==
    \A c \in Callers : /\ WF_vars(Allow(c) \/ Reject(c))
                       /\ WF_vars(RecordSuccess(c) \/ CallFails(c))
                       /\ WF_vars(RecordFailure(c))

Spec == Init /\ [][Next]_vars /\ Fairness

-----------------------------------------------------------------------------
(* A half-open circuit rejects every caller, so it must not outlive its      *)
(* probe: while halfOpenProbeActive is set, one admitted probe has yet to    *)
(* record its outcome, and it is the only call the circuit has admitted      *)
(* since it became half-open.                                                *)
ProbeHasOwner ==
    \A a \in Agents : HalfOpen(states[a]) =>
        \E c \in Callers : /\ InFlight(c) /\ probe[c] /\ agent[c] = a
                           /\ calls[a] = {c}

(* A closed circuit never owes a trip: in any order of outcomes, late ones   *)
(* included, the failures since the last success or probe stay below the     *)
(* largest threshold while the circuit is closed.                            *)
StreakOpens ==
    \A a \in Agents : Closed(states[a]) =>
        streak[a] = 0 \/ \E t \in Thresholds : streak[a] < t

(* The half-open mode ends: the probe's own outcome, or an earlier one of    *)
(* another caller, closes or re-opens the circuit.                           *)
ProbeResolves ==
    \A a \in Agents : HalfOpen(states[a]) ~> ~HalfOpen(states[a])

Modes == INSTANCE BreakerModes
         WITH mode    <- [a \in Agents |-> ModeOf(states[a])],
              elapsed <- [a \in Agents |-> clock >= states[a].openUntil]

(* The breaker moves on the edges of the documented diagram, except for the  *)
(* outcomes of calls admitted in an earlier mode or with the breaker         *)
(* disabled: those, and no others, may close an open or a half-open circuit  *)
(* or re-open a half-open one.                                               *)
ImplementsModes == Modes!Spec

(* The state diagram of README.md, lines 104-115: an open circuit is left    *)
(* only for half-open, once the reset timeout has elapsed, and a half-open   *)
(* one only by the outcome of its single probe.                              *)
FollowsDiagram == Modes!Diagram
=============================================================================
