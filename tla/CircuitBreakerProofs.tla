------------------------ MODULE CircuitBreakerProofs ------------------------
(***************************************************************************)
(* TLAPS proofs about CircuitBreaker, for any number of agents and callers *)
(* and any mix of policies.                                                *)
(***************************************************************************)
EXTENDS CircuitBreaker, TLAPS

(* A half-open entry has no deadline and no count; only an enabled policy  *)
(* makes a caller a probe.                                                 *)
HalfOpenClean ==
    \A a \in Agents : HalfOpen(states[a]) =>
        states[a].openUntil = 0 /\ states[a].consecutiveFailures = 0

ProbesEnabled == \A c \in Callers : probe[c] => InFlight(c) /\ Enabled(c)

(* While the circuit is not open the stored count is the streak, ... *)
CountIsStreak ==
    \A a \in Agents : ~Open(states[a]) => states[a].consecutiveFailures = streak[a]

(* ... and a stored count is always short of some caller's threshold. *)
CountBelow ==
    \A a \in Agents : \/ states[a].consecutiveFailures = 0
                      \/ \E t \in Thresholds : states[a].consecutiveFailures < t

(* An open circuit admits no call through the breaker: those in flight when  *)
(* it opened are out of date.                                                *)
OpenAdmitsNone == \A a \in Agents : Open(states[a]) => calls[a] = {}

(* A reading of the clock is never in the future. *)
ReadingsPast == \A c \in Callers : now[c] <= clock

(* The inductive invariant. *)
IInv == TypeOK /\ ProbeHasOwner /\ HalfOpenClean /\ ProbesEnabled
        /\ CountIsStreak /\ CountBelow /\ OpenAdmitsNone /\ ReadingsPast

-----------------------------------------------------------------------------
(* The methods of the breaker map circuit states to circuit states. *)
LEMMA NormalizedType ==
    ASSUME NEW r \in Int
    PROVE  Normalized(r) \in Nat \ {0}
  BY DefaultResetAssumption DEF Normalized

LEMMA AfterAllowType ==
    ASSUME NEW s \in CircuitState, NEW t \in Int, NEW n \in Nat
    PROVE  AfterAllow(s, t, n) \in CircuitState
  BY DEF AfterAllow, ZeroCircuit, CircuitState

LEMMA AfterFailureType ==
    ASSUME NEW s \in CircuitState, NEW t \in Int, NEW r \in Int, NEW n \in Nat
    PROVE  AfterFailure(s, t, r, n) \in CircuitState
<1>1. n + Normalized(r) \in Nat
  BY NormalizedType
<1>2. Opened(n, r) \in CircuitState
  BY <1>1 DEF Opened, ZeroCircuit, CircuitState
<1>3. [s EXCEPT !.consecutiveFailures = @ + 1] \in CircuitState
  BY DEF CircuitState
<1> QED BY <1>2, <1>3 DEF AfterFailure

LEMMA ReportedType ==
    ASSUME NEW c \in Callers, NEW u, calls \in [Agents -> SUBSET Callers]
    PROVE  Reported(c, u) \in [Agents -> SUBSET Callers]
  BY DEF Reported

LEMMA TypeInit == Init => TypeOK
  BY CallerAssumption DEF Init, TypeOK, ZeroCircuit, CircuitState

LEMMA TypeStep == TypeOK /\ [Next]_vars => TypeOK'
<1> SUFFICES ASSUME TypeOK, [Next]_vars PROVE TypeOK'
  OBVIOUS
<1> USE CallerAssumption DEF TypeOK
<1>1. ASSUME NEW c \in Callers, NEW a \in Agents, Attempt(c, a) PROVE TypeOK'
  BY <1>1 DEF Attempt
<1>2. ASSUME NEW c \in Callers, Allow(c) PROVE TypeOK'
  <2>1. AfterAllow(states[agent[c]], FailureThreshold[c], now[c]) \in CircuitState
    BY AfterAllowType
  <2>2. IsProbe(states[agent[c]], FailureThreshold[c], now[c]) \in BOOLEAN
    BY DEF IsProbe
  <2>3. calls' \in [Agents -> SUBSET Callers]
    BY <1>2 DEF Allow, Admitted
  <2> QED BY <1>2, <2>1, <2>2, <2>3 DEF Allow
<1>3. ASSUME NEW c \in Callers, Reject(c) PROVE TypeOK'
  BY <1>3 DEF Reject
<1>4. ASSUME NEW c \in Callers, RecordSuccess(c) PROVE TypeOK'
  <2>1. AfterSuccess(states[agent[c]]) \in CircuitState
    BY DEF AfterSuccess, ZeroCircuit, CircuitState
  <2>2. calls' \in [Agents -> SUBSET Callers]
    BY <1>4, ReportedType DEF RecordSuccess
  <2> QED BY <1>4, <2>1, <2>2 DEF RecordSuccess
<1>5. ASSUME NEW c \in Callers, CallFails(c) PROVE TypeOK'
  BY <1>5 DEF CallFails
<1>6. ASSUME NEW c \in Callers, RecordFailure(c) PROVE TypeOK'
  <2>1. AfterFailure(states[agent[c]], FailureThreshold[c], ResetTimeout[c], now[c])
           \in CircuitState
    BY AfterFailureType
  <2>2. calls' \in [Agents -> SUBSET Callers]
    BY <1>6, ReportedType DEF RecordFailure
  <2> QED BY <1>6, <2>1, <2>2 DEF RecordFailure
<1>7. CASE Tick
  BY <1>7 DEF Tick
<1>8. CASE UNCHANGED vars
  BY <1>8 DEF vars
<1> QED BY <1>1, <1>2, <1>3, <1>4, <1>5, <1>6, <1>7, <1>8 DEF Next

(* Every reachable state of the breaker is well typed: counts and deadlines  *)
(* stay natural numbers under every interleaving of Allow, RecordSuccess and *)
(* RecordFailure.                                                            *)
THEOREM TypeCorrect == Spec => []TypeOK
  BY TypeInit, TypeStep, PTL DEF Spec

-----------------------------------------------------------------------------
(* What each method leaves in the entry, field by field. *)
LEMMA AfterAllowFields ==
    ASSUME NEW s \in CircuitState, NEW t \in Int, NEW n \in Nat, Allowed(s, t, n)
    PROVE  LET u == AfterAllow(s, t, n)
           IN  /\ IsProbe(s, t, n) => /\ t > 0 /\ Open(s) /\ ~HalfOpen(s)
                                      /\ HalfOpen(u) /\ u.openUntil = 0
                                      /\ u.consecutiveFailures = 0
               /\ ~IsProbe(s, t, n) => u = s
  BY DEF AfterAllow, IsProbe, ZeroCircuit, HalfOpen, CircuitState

LEMMA AfterSuccessFields ==
    ASSUME NEW s
    PROVE  LET u == AfterSuccess(s)
           IN  ~HalfOpen(u) /\ ~Open(u) /\ u.openUntil = 0 /\ u.consecutiveFailures = 0
  BY DEF AfterSuccess, ZeroCircuit, HalfOpen, Open

LEMMA AfterFailureFields ==
    ASSUME NEW s \in CircuitState, NEW t \in Int, NEW r \in Int, NEW n \in Nat
    PROVE  LET u == AfterFailure(s, t, r, n)
           IN  /\ t <= 0 => u = s
               /\ t > 0 /\ (HalfOpen(s) \/ s.consecutiveFailures + 1 >= t) =>
                      ~HalfOpen(u) /\ Open(u) /\ u.consecutiveFailures = 0
               /\ t > 0 /\ ~(HalfOpen(s) \/ s.consecutiveFailures + 1 >= t) =>
                      /\ ~HalfOpen(u) /\ u.openUntil = s.openUntil
                      /\ u.consecutiveFailures = s.consecutiveFailures + 1
                      /\ u.consecutiveFailures < t
<1> DEFINE u == AfterFailure(s, t, r, n)
<1>1. CASE t <= 0
  BY <1>1 DEF AfterFailure
<1>2. CASE t > 0 /\ (HalfOpen(s) \/ s.consecutiveFailures + 1 >= t)
  <2>1. u = Opened(n, r)
    BY <1>2 DEF AfterFailure
  <2>2. n + Normalized(r) # 0
    BY NormalizedType
  <2> QED BY <1>2, <2>1, <2>2 DEF Opened, ZeroCircuit, HalfOpen, Open
<1>3. CASE t > 0 /\ ~(HalfOpen(s) \/ s.consecutiveFailures + 1 >= t)
  <2>1. u = [s EXCEPT !.consecutiveFailures = @ + 1]
    BY <1>3 DEF AfterFailure
  <2> QED BY <1>3, <2>1 DEF CircuitState, HalfOpen
<1> QED BY <1>1, <1>2, <1>3

-----------------------------------------------------------------------------
LEMMA IInvInit == Init => IInv
  BY TypeInit DEF Init, IInv, ProbeHasOwner, HalfOpenClean, ProbesEnabled,
     CountIsStreak, CountBelow, OpenAdmitsNone, ReadingsPast, ZeroCircuit, HalfOpen, Open

(* Who is left of an agent's admitted calls once c has reported. *)
LEMMA ReportedAt ==
    ASSUME TypeOK, NEW c \in Callers, NEW u, NEW a \in Agents
    PROVE  Reported(c, u)[a] = IF a # agent[c] THEN calls[a]
                               ELSE IF ModeOf(u) = ModeOf(states[a]) THEN calls[a] \ {c}
                               ELSE {}
  BY DEF TypeOK, Reported

(* and leaves those of the other agents alone. *)
LEMMA ReportedElsewhere ==
    ASSUME TypeOK, NEW c \in Callers, NEW u
    PROVE  \A a \in Agents \ {agent[c]} : Reported(c, u)[a] = calls[a]
<1> TAKE a \in Agents \ {agent[c]}
<1>1. a \in Agents /\ a # agent[c]
  OBVIOUS
<1> QED BY <1>1, ReportedAt, Zenon

(* Every half-open circuit keeps its probe in a step of c that leaves the    *)
(* probes of other callers alone.                                            *)
LEMMA OwnerStep ==
    ASSUME ProbeHasOwner, NEW c \in Callers, agent' = agent,
           \A d \in Callers \ {c} : pc'[d] = pc[d] /\ probe'[d] = probe[d],
           \A a \in Agents : HalfOpen(states'[a]) =>
              \/ InFlight(c)' /\ probe'[c] /\ agent[c] = a /\ calls'[a] = {c}
              \/ /\ HalfOpen(states[a]) /\ calls'[a] \in {calls[a], calls[a] \ {c}}
                 /\ ~(InFlight(c) /\ probe[c] /\ agent[c] = a)
    PROVE  ProbeHasOwner'
<1> SUFFICES ASSUME NEW a \in Agents, HalfOpen(states'[a])
             PROVE  \E d \in Callers : /\ InFlight(d)' /\ probe'[d] /\ agent'[d] = a
                                       /\ calls'[a] = {d}
  BY DEF ProbeHasOwner
<1>1. CASE InFlight(c)' /\ probe'[c] /\ agent[c] = a /\ calls'[a] = {c}
  BY <1>1
<1>2. CASE /\ HalfOpen(states[a]) /\ calls'[a] \in {calls[a], calls[a] \ {c}}
           /\ ~(InFlight(c) /\ probe[c] /\ agent[c] = a)
  <2>1. PICK d \in Callers : InFlight(d) /\ probe[d] /\ agent[d] = a /\ calls[a] = {d}
    BY <1>2 DEF ProbeHasOwner
  <2>2. d # c /\ calls'[a] = {d}
    BY <1>2, <2>1
  <2> QED BY <2>1, <2>2 DEF InFlight
<1> QED BY <1>1, <1>2

LEMMA AuxStep == IInv /\ [Next]_vars => OpenAdmitsNone' /\ ReadingsPast'
<1> SUFFICES ASSUME IInv, [Next]_vars PROVE OpenAdmitsNone' /\ ReadingsPast'
  OBVIOUS
<1>t. TypeOK /\ TypeOK' /\ OpenAdmitsNone /\ ReadingsPast
  BY TypeStep DEF IInv
<1>1. ReadingsPast'
  BY <1>t, CallerAssumption DEF Next, vars, Attempt, Allow, Reject, RecordSuccess, CallFails,
     RecordFailure, Tick, ReadingsPast, TypeOK
<1>2. ASSUME NEW c \in Callers, Allow(c) PROVE OpenAdmitsNone'
  <2> DEFINE b == agent[c]
             s == states[b]
             u == AfterAllow(s, FailureThreshold[c], now[c])
             isProbe == IsProbe(s, FailureThreshold[c], now[c])
  <2>0. /\ s \in CircuitState /\ FailureThreshold[c] \in Int /\ now[c] \in Nat
        /\ b \in Agents
    BY <1>t, CallerAssumption DEF TypeOK
  <2>1. /\ isProbe => ~Open(u)
        /\ ~isProbe => u = s
    BY <1>2, <2>0, AfterAllowFields DEF Allow, Open
  <2>2. /\ states' = [states EXCEPT ![b] = u]
        /\ calls' = [calls EXCEPT ![b] =
                         IF isProbe THEN {c} ELSE IF Closed(s) THEN @ \cup {c} ELSE @]
    BY <1>2 DEF Allow, Admitted
  <2>3. \A a \in Agents \ {b} : states'[a] = states[a] /\ calls'[a] = calls[a]
    BY <2>0, <2>2, <1>t DEF TypeOK
  <2>4. Open(states'[b]) => calls'[b] = {}
    BY <2>0, <2>1, <2>2, <1>t DEF TypeOK, OpenAdmitsNone, Closed
  <2> QED BY <2>3, <2>4, <1>t DEF OpenAdmitsNone
<1>3. ASSUME NEW c \in Callers, RecordSuccess(c) PROVE OpenAdmitsNone'
  <2> DEFINE b == agent[c]
             u == AfterSuccess(states[b])
  <2>1. b \in Agents /\ ~Open(u)
    BY <1>t, AfterSuccessFields DEF TypeOK
  <2>2. states' = [states EXCEPT ![b] = u] /\ calls' = Reported(c, u)
    BY <1>3 DEF RecordSuccess
  <2>3. \A a \in Agents \ {b} : states'[a] = states[a] /\ calls'[a] = calls[a]
    <3> HIDE DEF u
    <3>1. \A a \in Agents \ {b} : states'[a] = states[a]
      BY <2>1, <2>2, <1>t DEF TypeOK
    <3> QED BY <2>2, <3>1, <1>t, ReportedElsewhere, Zenon
  <2>4. states'[b] = u
    BY <2>1, <2>2, <1>t DEF TypeOK
  <2> QED BY <2>1, <2>3, <2>4, <1>t DEF OpenAdmitsNone
<1>4. ASSUME NEW c \in Callers, RecordFailure(c) PROVE OpenAdmitsNone'
  <2> DEFINE b == agent[c]
             s == states[b]
             t == FailureThreshold[c]
             u == AfterFailure(s, t, ResetTimeout[c], now[c])
  <2>0. /\ s \in CircuitState /\ t \in Int /\ ResetTimeout[c] \in Int /\ now[c] \in Nat
        /\ b \in Agents
    BY <1>t, CallerAssumption DEF TypeOK
  <2>1. states' = [states EXCEPT ![b] = u] /\ calls' = Reported(c, u)
    BY <1>4 DEF RecordFailure
  <2>2. \A a \in Agents \ {b} : states'[a] = states[a] /\ calls'[a] = calls[a]
    <3> HIDE DEF u
    <3>1. \A a \in Agents \ {b} : states'[a] = states[a]
      BY <2>0, <2>1, <1>t DEF TypeOK
    <3> QED BY <2>1, <3>1, <1>t, ReportedElsewhere, Zenon
  <2>3. states'[b] = u
    BY <2>0, <2>1, <1>t DEF TypeOK
  <2>r. calls'[b] = IF ModeOf(u) = ModeOf(s) THEN calls[b] \ {c} ELSE {}
    <3> HIDE DEF u
    <3>1. Reported(c, u)[b] = IF ModeOf(u) = ModeOf(s) THEN calls[b] \ {c} ELSE {}
      BY <2>0, <1>t, ReportedAt
    <3> QED BY <2>1, <3>1
  <2>4. ASSUME Open(u) PROVE calls'[b] = {}
    <3>1. CASE ModeOf(u) # ModeOf(s)
      BY <3>1, <2>r
    <3>2. CASE ModeOf(u) = ModeOf(s)
      <4>1. Open(s)
        <5>1. CASE t <= 0
          BY <5>1, <2>0, <2>4, AfterFailureFields
        <5>2. CASE t > 0
          <6>1. ~HalfOpen(u)
            BY <5>2, <2>0, AfterFailureFields
          <6> QED BY <6>1, <2>4, <3>2 DEF ModeOf
        <5> QED BY <2>0, <5>1, <5>2
      <4>2. calls[b] = {}
        BY <4>1, <2>0, <1>t DEF OpenAdmitsNone
      <4>3. calls'[b] = calls[b] \ {c}
        BY <3>2, <2>r
      <4> QED BY <4>2, <4>3
    <3> QED BY <3>1, <3>2
  <2> QED BY <2>2, <2>3, <2>4, <1>t DEF OpenAdmitsNone
<1>5. ASSUME states' = states, calls' = calls PROVE OpenAdmitsNone'
  BY <1>5, <1>t DEF OpenAdmitsNone
<1>6. OpenAdmitsNone'
  BY <1>2, <1>3, <1>4, <1>5 DEF Next, vars, Attempt, Reject, CallFails, Tick
<1> QED BY <1>1, <1>6

LEMMA IInvStep == IInv /\ [Next]_vars => IInv'
<1> SUFFICES ASSUME IInv, [Next]_vars PROVE IInv'
  OBVIOUS
<1>t. TypeOK /\ TypeOK' /\ OpenAdmitsNone' /\ ReadingsPast'
  BY TypeStep, AuxStep DEF IInv
<1> USE DEF IInv, InFlight, Enabled
<1>1. ASSUME NEW c \in Callers, NEW a \in Agents, Attempt(c, a) PROVE IInv'
  BY <1>1, <1>t DEF Attempt, TypeOK, ProbeHasOwner, HalfOpenClean, ProbesEnabled,
     CountIsStreak, CountBelow
<1>2. ASSUME NEW c \in Callers, Allow(c) PROVE IInv'
  <2> DEFINE s == states[agent[c]]
             u == AfterAllow(s, FailureThreshold[c], now[c])
             isProbe == IsProbe(s, FailureThreshold[c], now[c])
  <2>0. /\ s \in CircuitState /\ FailureThreshold[c] \in Int /\ now[c] \in Nat
        /\ agent[c] \in Agents
    BY <1>t, CallerAssumption DEF TypeOK
  <2>1. /\ isProbe => /\ FailureThreshold[c] > 0 /\ HalfOpen(u)
                      /\ u.openUntil = 0 /\ u.consecutiveFailures = 0
        /\ ~isProbe => u = s
    BY <1>2, <2>0, AfterAllowFields DEF Allow
  <2>2. CASE isProbe
    <3>1. /\ states' = [states EXCEPT ![agent[c]] = u]
          /\ probe' = [probe EXCEPT ![c] = TRUE]
          /\ pc' = [pc EXCEPT ![c] = "call"]
          /\ streak' = [streak EXCEPT ![agent[c]] = 0]
          /\ calls' = [calls EXCEPT ![agent[c]] = {c}]
          /\ agent' = agent
      BY <1>2, <2>2 DEF Allow, Admitted
    <3>2. ProbeHasOwner'
      <4>1. \A a \in Agents : HalfOpen(states'[a]) =>
               \/ InFlight(c)' /\ probe'[c] /\ agent[c] = a /\ calls'[a] = {c}
               \/ /\ HalfOpen(states[a]) /\ calls'[a] \in {calls[a], calls[a] \ {c}}
                  /\ ~(InFlight(c) /\ probe[c] /\ agent[c] = a)
        BY <3>1, <1>t DEF TypeOK
      <4>2. \A d \in Callers \ {c} : pc'[d] = pc[d] /\ probe'[d] = probe[d]
        BY <3>1, <1>t DEF TypeOK
      <4> QED BY <4>1, <4>2, <3>1, OwnerStep, Zenon DEF IInv
    <3>3. HalfOpenClean' /\ ProbesEnabled' /\ CountIsStreak' /\ CountBelow'
      BY <3>1, <2>1, <2>2, <1>t
         DEF TypeOK, HalfOpenClean, ProbesEnabled, CountIsStreak, CountBelow
    <3> QED BY <3>2, <3>3, <1>t
  <2>3. CASE ~isProbe
    <3>1. /\ states' = states /\ streak' = streak /\ agent' = agent
          /\ probe' = [probe EXCEPT ![c] = FALSE]
          /\ pc' = [pc EXCEPT ![c] = "call"] /\ pc[c] = "allow"
      <4>1. states' = [states EXCEPT ![agent[c]] = s]
        BY <1>2, <2>1, <2>3 DEF Allow
      <4>2. states' = states
        BY <4>1, <2>0, <1>t DEF TypeOK
      <4>3. probe' = [probe EXCEPT ![c] = FALSE]
        BY <1>2, <2>3, <1>t DEF Allow, IsProbe
      <4> QED BY <1>2, <2>3, <4>2, <4>3 DEF Allow
    <3>2. \A a \in Agents : HalfOpen(states[a]) => calls'[a] = calls[a]
      BY <1>2, <2>0, <2>3, <1>t DEF Allow, Admitted, TypeOK, Closed
    <3>3. ProbeHasOwner'
      <4>1. \A a \in Agents : HalfOpen(states'[a]) =>
               HalfOpen(states[a]) /\ calls'[a] = calls[a] /\ ~InFlight(c)
        BY <3>1, <3>2
      <4>2. \A d \in Callers \ {c} : pc'[d] = pc[d] /\ probe'[d] = probe[d]
        BY <3>1, <1>t DEF TypeOK
      <4> QED BY <4>1, <4>2, <3>1, OwnerStep
    <3>4. HalfOpenClean' /\ ProbesEnabled' /\ CountIsStreak' /\ CountBelow'
      BY <3>1, <1>t DEF TypeOK, HalfOpenClean, ProbesEnabled, CountIsStreak, CountBelow
    <3> QED BY <3>3, <3>4, <1>t
  <2> QED BY <2>2, <2>3
<1>3. ASSUME NEW c \in Callers, Reject(c) PROVE IInv'
  BY <1>3, <1>t DEF Reject, TypeOK, ProbeHasOwner, HalfOpenClean, ProbesEnabled,
     CountIsStreak, CountBelow
<1>4. ASSUME NEW c \in Callers, RecordSuccess(c) PROVE IInv'
  <2> DEFINE u == AfterSuccess(states[agent[c]])
  <2>1. /\ ~HalfOpen(u) /\ ~Open(u) /\ u.openUntil = 0 /\ u.consecutiveFailures = 0
    BY AfterSuccessFields
  <2>2. /\ states' = [states EXCEPT ![agent[c]] = u]
        /\ streak' = [streak EXCEPT ![agent[c]] = 0]
        /\ probe' = [probe EXCEPT ![c] = FALSE]
        /\ pc' = [pc EXCEPT ![c] = "idle"]
        /\ agent' = agent
    BY <1>4 DEF RecordSuccess
  <2>r. \A a \in Agents \ {agent[c]} : calls'[a] = calls[a]
    <3>1. calls' = Reported(c, u)
      BY <1>4 DEF RecordSuccess
    <3> HIDE DEF u
    <3> QED BY <3>1, <1>t, ReportedElsewhere, Zenon
  <2>3. ProbeHasOwner'
    <3>1. \A a \in Agents : HalfOpen(states'[a]) =>
             HalfOpen(states[a]) /\ calls'[a] = calls[a] /\ agent[c] # a
      BY <2>1, <2>2, <2>r, <1>t DEF TypeOK
    <3>2. \A d \in Callers \ {c} : pc'[d] = pc[d] /\ probe'[d] = probe[d]
      BY <2>2, <1>t DEF TypeOK
    <3> QED BY <3>1, <3>2, <2>2, OwnerStep
  <2>4. HalfOpenClean' /\ ProbesEnabled' /\ CountIsStreak' /\ CountBelow'
    BY <2>1, <2>2, <1>t
       DEF TypeOK, HalfOpenClean, ProbesEnabled, CountIsStreak, CountBelow
  <2> QED BY <2>3, <2>4, <1>t
<1>5. ASSUME NEW c \in Callers, CallFails(c) PROVE IInv'
  BY <1>5, <1>t DEF CallFails, TypeOK, ProbeHasOwner, HalfOpenClean, ProbesEnabled,
     CountIsStreak, CountBelow
<1>6. ASSUME NEW c \in Callers, RecordFailure(c) PROVE IInv'
  <2> DEFINE s == states[agent[c]]
             t == FailureThreshold[c]
             u == AfterFailure(s, t, ResetTimeout[c], now[c])
  <2>0. /\ s \in CircuitState /\ t \in Int /\ ResetTimeout[c] \in Int /\ now[c] \in Nat
        /\ agent[c] \in Agents
    BY <1>t, CallerAssumption DEF TypeOK
  <2>1. /\ t <= 0 => u = s
        /\ t > 0 => /\ ~HalfOpen(u)
                    /\ \/ Open(u) /\ u.consecutiveFailures = 0
                       \/ /\ ~HalfOpen(s) /\ u.openUntil = s.openUntil
                          /\ u.consecutiveFailures = s.consecutiveFailures + 1
                          /\ u.consecutiveFailures < t
    BY <2>0, AfterFailureFields
  <2>2. /\ states' = [states EXCEPT ![agent[c]] = u]
        /\ probe' = [probe EXCEPT ![c] = FALSE]
        /\ pc' = [pc EXCEPT ![c] = "idle"]
        /\ agent' = agent
        /\ streak' = IF t > 0 THEN [streak EXCEPT ![agent[c]] = @ + 1] ELSE streak
    BY <1>6 DEF RecordFailure
  <2>r. /\ \A a \in Agents \ {agent[c]} : calls'[a] = calls[a]
        /\ u = s => calls'[agent[c]] = calls[agent[c]] \ {c}
    <3>1. calls' = Reported(c, u)
      BY <1>6 DEF RecordFailure
    <3>2. \A a \in Agents \ {agent[c]} : calls'[a] = calls[a]
      <4> HIDE DEF u
      <4> QED BY <3>1, <1>t, ReportedElsewhere
    <3>3. u = s => calls'[agent[c]] = calls[agent[c]] \ {c}
      <4>1. Reported(c, u)[agent[c]] = IF ModeOf(u) = ModeOf(s) THEN calls[agent[c]] \ {c} ELSE {}
        <5> HIDE DEF u
        <5> QED BY <2>0, <1>t, ReportedAt
      <4>2. u = s => ModeOf(u) = ModeOf(s)
        <5> HIDE DEF u, s
        <5> QED BY Zenon
      <4> HIDE DEF u, s
      <4> QED BY <3>1, <4>1, <4>2
    <3> QED BY <3>2, <3>3
  <2>3. CASE t <= 0
    <3>1. states' = states /\ streak' = streak /\ ~probe[c]
      BY <2>0, <2>1, <2>2, <2>3, <1>t DEF TypeOK, ProbesEnabled
    <3>2. calls'[agent[c]] = calls[agent[c]] \ {c}
      BY <2>0, <2>1, <2>3, <2>r
    <3>3. ProbeHasOwner'
      <4>1. \A a \in Agents : HalfOpen(states'[a]) =>
               /\ HalfOpen(states[a]) /\ calls'[a] \in {calls[a], calls[a] \ {c}}
               /\ ~probe[c]
        BY <3>1, <3>2, <2>r
      <4>2. \A d \in Callers \ {c} : pc'[d] = pc[d] /\ probe'[d] = probe[d]
        BY <2>2, <1>t DEF TypeOK
      <4> QED BY <4>1, <4>2, <2>2, OwnerStep
    <3>4. HalfOpenClean' /\ ProbesEnabled' /\ CountIsStreak' /\ CountBelow'
      BY <3>1, <2>2, <1>t DEF TypeOK, HalfOpenClean, ProbesEnabled, CountIsStreak, CountBelow
    <3> QED BY <3>3, <3>4, <1>t
  <2>4. CASE t > 0
    <3>1. t \in Thresholds
      BY <2>4 DEF Thresholds
    <3>o. ProbeHasOwner'
      <4>1. \A a \in Agents : HalfOpen(states'[a]) =>
               HalfOpen(states[a]) /\ calls'[a] = calls[a] /\ agent[c] # a
        BY <2>1, <2>2, <2>r, <2>4, <1>t DEF TypeOK
      <4>2. \A d \in Callers \ {c} : pc'[d] = pc[d] /\ probe'[d] = probe[d]
        BY <2>2, <1>t DEF TypeOK
      <4> QED BY <4>1, <4>2, <2>2, OwnerStep
    <3>2. HalfOpenClean' /\ ProbesEnabled'
      BY <2>1, <2>2, <2>4, <1>t DEF TypeOK, HalfOpenClean, ProbesEnabled
    <3>3. CountIsStreak'
      BY <2>1, <2>2, <2>4, <1>t DEF TypeOK, CountIsStreak, Open
    <3>4. CountBelow'
      BY <2>1, <2>2, <2>4, <3>1, <1>t DEF TypeOK, CountBelow, Thresholds
    <3> QED BY <3>o, <3>2, <3>3, <3>4, <1>t
  <2> QED BY <2>0, <2>3, <2>4
<1>7. CASE Tick
  BY <1>7, <1>t DEF Tick, TypeOK, ProbeHasOwner, HalfOpenClean, ProbesEnabled,
     CountIsStreak, CountBelow
<1>8. CASE UNCHANGED vars
  BY <1>8, <1>t DEF vars, TypeOK, ProbeHasOwner, HalfOpenClean, ProbesEnabled,
     CountIsStreak, CountBelow
<1> QED BY <1>1, <1>2, <1>3, <1>4, <1>5, <1>6, <1>7, <1>8 DEF Next

LEMMA IInvCorrect == Spec => []IInv
  BY IInvInit, IInvStep, PTL DEF Spec

(* A half-open circuit always has a probe still to report: no interleaving   *)
(* of Allow, RecordSuccess and RecordFailure leaves halfOpenProbeActive set  *)
(* with nobody to clear it.                                                  *)
THEOREM HalfOpenHasProbe == Spec => []ProbeHasOwner
<1>1. IInv => ProbeHasOwner
  BY DEF IInv
<1> QED BY <1>1, IInvCorrect, PTL

(* A closed circuit never owes a trip, whatever mix of thresholds its        *)
(* callers bring and however late their outcomes arrive.                     *)
THEOREM ClosedOwesNoTrip == Spec => []StreakOpens
<1>1. IInv => StreakOpens
  BY DEF IInv, StreakOpens, CountIsStreak, CountBelow, Closed
<1> QED BY <1>1, IInvCorrect, PTL

-----------------------------------------------------------------------------
(* Refinement of BreakerModes, the modes seen through ModeOf. *)

(* Steps that leave the map, the history and the clock alone are stutters. *)
LEMMA ModeStutter ==
    states' = states /\ streak' = streak /\ calls' = calls /\ clock' = clock
        => UNCHANGED Modes!vars
  BY DEF Modes!vars

LEMMA ModeInit == Init => Modes!Init
<1> SUFFICES ASSUME Init PROVE Modes!Init
  OBVIOUS
<1>1. \A a \in Agents : ModeOf(states[a]) = "closed" /\ (clock >= states[a].openUntil) = TRUE
  BY DEF Init, ModeOf, ZeroCircuit, HalfOpen, Open
<1> QED BY <1>1 DEF Init, Modes!Init

(* A step on the entry of one agent, seen in the abstract machine. *)
LEMMA EntersStep ==
    ASSUME TypeOK, NEW b \in Agents, NEW u, NEW m, NEW n, NEW cs, m = ModeOf(u),
           states' = [states EXCEPT ![b] = u],
           streak' = [streak EXCEPT ![b] = n],
           calls' = [calls EXCEPT ![b] = cs],
           clock' = clock
    PROVE  Modes!Enters(b, m, n, cs)
<1>1. [a \in Agents |-> ModeOf(states'[a])]
        = [[a \in Agents |-> ModeOf(states[a])] EXCEPT ![b] = m]
  BY DEF TypeOK
<1>2. [a \in Agents |-> clock' >= states'[a].openUntil]
        = [[a \in Agents |-> clock >= states[a].openUntil]
              EXCEPT ![b] = (clock >= u.openUntil)]
  BY DEF TypeOK
<1>3. (clock >= u.openUntil) \in BOOLEAN
  OBVIOUS
<1> QED BY <1>1, <1>2, <1>3 DEF Modes!Enters

(* The mode of an entry, and the three modes apart. *)
LEMMA ModeCases ==
    ASSUME NEW s
    PROVE  /\ ModeOf(s) = "closed" <=> Closed(s)
           /\ ModeOf(s) = "halfOpen" <=> HalfOpen(s)
           /\ ModeOf(s) = "open" => Open(s)
           /\ ModeOf(s) \in {"closed", "open", "halfOpen"}
  BY DEF ModeOf, Closed

LEMMA AllowMode ==
    ASSUME IInv, NEW c \in Callers, Allow(c), NEW b \in Agents, b = agent[c]
    PROVE  [Modes!Next]_(Modes!vars)
<1> DEFINE s == states[b]
           u == AfterAllow(s, FailureThreshold[c], now[c])
           isProbe == IsProbe(s, FailureThreshold[c], now[c])
<1>0. /\ s \in CircuitState /\ FailureThreshold[c] \in Int /\ now[c] \in Nat
      /\ b \in Agents /\ TypeOK
  BY CallerAssumption DEF IInv, TypeOK
<1>1. /\ isProbe => Open(s) /\ ~HalfOpen(s) /\ HalfOpen(u)
      /\ ~isProbe => u = s
  BY <1>0, AfterAllowFields DEF Allow
<1>2. CASE isProbe
  <2>1. /\ states' = [states EXCEPT ![b] = u] /\ streak' = [streak EXCEPT ![b] = 0]
        /\ calls' = [calls EXCEPT ![b] = {c}] /\ clock' = clock
    BY <1>2 DEF Allow, Admitted
  <2>2. ModeOf(s) = "open" /\ ModeOf(u) = "halfOpen"
    BY <1>1, <1>2 DEF ModeOf
  <2>3. clock >= s.openUntil
    BY <1>0, <1>2 DEF IInv, ReadingsPast, IsProbe, TypeOK, CircuitState
  <2>4. Modes!Enters(b, "halfOpen", 0, {c})
    <3> HIDE DEF u
    <3> QED BY <2>1, <2>2, <1>0, EntersStep, Zenon
  <2>5. Modes!Probe(b, c)
    BY <2>2, <2>3, <2>4, <1>0 DEF Modes!Probe
  <2>d. Modes!Documented(b)
    BY <2>5 DEF Modes!Documented
  <2> QED BY <2>d, <1>0 DEF Modes!Next
<1>3. CASE ~isProbe
  <2>1. states' = [states EXCEPT ![b] = s] /\ streak' = streak /\ clock' = clock
    BY <1>1, <1>3 DEF Allow
  <2>2. CASE Closed(s)
    <3>1. PICK cs, k : cs = calls[b] \cup {c} /\ k = streak[b]
      OBVIOUS
    <3>2. ModeOf(s) = "closed"
      BY <2>2, ModeCases
    <3>3. Modes!Enters(b, "closed", k, cs)
      <4>1. calls' = [calls EXCEPT ![b] = cs] /\ streak' = [streak EXCEPT ![b] = k]
        BY <2>1, <2>2, <3>1, <1>3, <1>0 DEF Allow, Admitted, TypeOK
      <4>2. TypeOK /\ "closed" = ModeOf(s)
        BY <3>2, <1>0
      <4> QED BY <2>1, <4>1, <4>2, EntersStep, Zenon
    <3>4. Modes!Admit(b, c)
      BY <3>1, <3>2, <3>3, <1>0 DEF Modes!Admit, Modes!Enters
    <3>d. Modes!Documented(b)
      BY <3>4 DEF Modes!Documented
    <3> QED BY <3>d, <1>0 DEF Modes!Next
  <2>3. CASE ~Closed(s)
    <3>1. calls' = calls /\ states' = states
      BY <2>1, <2>3, <1>3, <1>0 DEF Allow, Admitted, TypeOK
    <3> QED BY <3>1, <2>1, ModeStutter
  <2> QED BY <2>2, <2>3
<1> QED BY <1>2, <1>3

LEMMA SuccessMode ==
    ASSUME IInv, NEW c \in Callers, RecordSuccess(c), NEW b \in Agents, b = agent[c]
    PROVE  [Modes!Next]_(Modes!vars)
<1> DEFINE s == states[b]
           u == AfterSuccess(s)
<1>0. b \in Agents /\ TypeOK
  BY DEF IInv, TypeOK
<1>1. ModeOf(u) = "closed"
  BY AfterSuccessFields DEF ModeOf
<1>2. /\ states' = [states EXCEPT ![b] = u] /\ streak' = [streak EXCEPT ![b] = 0]
      /\ clock' = clock /\ calls' = Reported(c, u)
  BY DEF RecordSuccess
<1> HIDE DEF u
<1>3. CASE ModeOf(s) = "closed"
  <2>1. calls' = [calls EXCEPT ![b] = calls[b] \ {c}]
    BY <1>1, <1>2, <1>3, <1>0 DEF Reported
  <2>2. PICK cs : cs = calls[b] \ {c}
    OBVIOUS
  <2>e. Modes!Enters(b, "closed", 0, cs)
    <3>1. /\ states' = [states EXCEPT ![b] = u] /\ streak' = [streak EXCEPT ![b] = 0]
          /\ clock' = clock /\ calls' = [calls EXCEPT ![b] = cs]
      BY <1>2, <2>1, <2>2
    <3>2. TypeOK /\ "closed" = ModeOf(u)
      BY <1>0, <1>1
    <3> QED BY <3>1, <3>2, EntersStep, Zenon
  <2>3. Modes!CountSuccess(b, c)
    BY <2>2, <2>e, <1>3, <1>0 DEF Modes!CountSuccess, Modes!Enters
  <2>d. Modes!Documented(b)
    BY <2>3 DEF Modes!Documented
  <2> QED BY <2>d, <1>0 DEF Modes!Next
<1>4. CASE ModeOf(s) # "closed"
  <2>1. calls' = [calls EXCEPT ![b] = {}]
    BY <1>1, <1>2, <1>4, <1>0 DEF Reported
  <2>2. Modes!Enters(b, "closed", 0, {})
    BY <1>0, <1>1, <1>2, <2>1, EntersStep, Zenon
  <2>3. CASE c \notin calls[b]
    <3>1. Modes!LateSuccess(b, c)
      BY <2>2, <2>3, <1>4, <1>0 DEF Modes!LateSuccess
    <3>d. Modes!Late(b)
      BY <3>1 DEF Modes!Late
    <3> QED BY <3>d, <1>0 DEF Modes!Next
  <2>4. CASE c \in calls[b]
    <3>1. ModeOf(s) = "halfOpen"
      BY <2>4, <1>4, <1>0, ModeCases DEF IInv, OpenAdmitsNone
    <3>2. Modes!ProbeSuccess(b, c)
      BY <2>2, <2>4, <3>1, <1>0 DEF Modes!ProbeSuccess
    <3>d. Modes!Documented(b)
      BY <3>2 DEF Modes!Documented
    <3> QED BY <3>d, <1>0 DEF Modes!Next
  <2> QED BY <2>3, <2>4
<1> QED BY <1>3, <1>4

(* A failure the breaker ignores: a closed circuit has one admitted call     *)
(* less, any other one did not admit the call.                               *)
LEMMA IgnoredMode ==
    ASSUME IInv, NEW c \in Callers, RecordFailure(c), NEW b \in Agents, b = agent[c],
           ~Enabled(c)
    PROVE  [Modes!Next]_(Modes!vars)
<1> DEFINE s == states[b]
           u == AfterFailure(s, FailureThreshold[c], ResetTimeout[c], now[c])
<1>0. /\ s \in CircuitState /\ FailureThreshold[c] \in Int /\ ResetTimeout[c] \in Int
      /\ now[c] \in Nat /\ TypeOK
  BY CallerAssumption DEF IInv, TypeOK
<1>1. u = s
  BY <1>0, AfterFailureFields DEF Enabled
<1>2. states' = [states EXCEPT ![b] = u] /\ calls' = Reported(c, u)
  BY DEF RecordFailure
<1>3. /\ states' = [states EXCEPT ![b] = s] /\ calls' = [calls EXCEPT ![b] = calls[b] \ {c}]
      /\ clock' = clock /\ streak' = streak
  <2>1. calls' = Reported(c, s)
    BY <1>1, <1>2
  <2> QED BY <1>1, <1>2, <2>1, <1>0 DEF Reported, RecordFailure
<1>4. CASE ModeOf(s) = "closed"
  <2>1. streak' = [streak EXCEPT ![b] = streak[b]]
    BY <1>0, <1>3 DEF TypeOK
  <2>2. PICK cs, k : cs = calls[b] \ {c} /\ k = streak[b]
    OBVIOUS
  <2>e. Modes!Enters(b, "closed", k, cs)
    <3>1. /\ states' = [states EXCEPT ![b] = s] /\ streak' = [streak EXCEPT ![b] = k]
          /\ clock' = clock /\ calls' = [calls EXCEPT ![b] = cs]
      BY <1>3, <2>1, <2>2
    <3>2. TypeOK /\ "closed" = ModeOf(s)
      BY <1>0, <1>4
    <3> QED BY <3>1, <3>2, EntersStep, Zenon
  <2>3. Modes!Uncounted(b, c)
    BY <2>2, <2>e, <1>4 DEF Modes!Uncounted, Modes!Enters
  <2>d. Modes!Documented(b)
    BY <2>3 DEF Modes!Documented
  <2> QED BY <2>d DEF Modes!Next
<1>5. CASE ModeOf(s) # "closed"
  <2>1. c \notin calls[b]
    <3>1. CASE Open(s)
      BY <3>1 DEF IInv, OpenAdmitsNone
    <3>2. CASE HalfOpen(s)
      BY <3>2 DEF IInv, ProbeHasOwner, ProbesEnabled
    <3> QED BY <1>5, <3>1, <3>2 DEF ModeOf
  <2>2. calls' = calls /\ states' = states
    BY <2>1, <1>3, <1>0 DEF TypeOK
  <2> QED BY <2>2, <1>3, ModeStutter
<1> QED BY <1>4, <1>5

(* A counted failure: what it makes of each mode. *)
LEMMA CountedMode ==
    ASSUME IInv, NEW c \in Callers, RecordFailure(c), NEW b \in Agents, b = agent[c],
           Enabled(c)
    PROVE  [Modes!Next]_(Modes!vars)
<1> DEFINE s == states[b]
           t == FailureThreshold[c]
           u == AfterFailure(s, t, ResetTimeout[c], now[c])
           n == streak[b] + 1
<1>0. /\ s \in CircuitState /\ t \in Int /\ ResetTimeout[c] \in Int /\ now[c] \in Nat
      /\ t > 0 /\ t \in Thresholds /\ TypeOK /\ streak[b] \in Nat
  BY CallerAssumption DEF IInv, TypeOK, Enabled, Thresholds
<1>1. /\ states' = [states EXCEPT ![b] = u] /\ streak' = [streak EXCEPT ![b] = n]
      /\ clock' = clock /\ calls' = Reported(c, u)
  BY DEF RecordFailure, Enabled
<1>2. ModeOf(s) = "closed" => s.consecutiveFailures = streak[b]
  BY DEF IInv, CountIsStreak, ModeOf
<1>3. ModeOf(u) = IF ModeOf(s) = "closed" /\ n < t THEN "closed" ELSE "open"
  <2>1. CASE HalfOpen(s) \/ s.consecutiveFailures + 1 >= t
    <3>1. ModeOf(u) = "open"
      BY <1>0, <2>1, AfterFailureFields DEF ModeOf
    <3>2. ~(ModeOf(s) = "closed" /\ n < t)
      BY <1>2, <2>1, <1>0 DEF ModeOf
    <3> QED BY <3>1, <3>2
  <2>2. CASE ~(HalfOpen(s) \/ s.consecutiveFailures + 1 >= t)
    <3>1. ~HalfOpen(u) /\ u.openUntil = s.openUntil
      BY <1>0, <2>2, AfterFailureFields
    <3>2. ModeOf(u) = ModeOf(s) /\ ModeOf(s) \in {"closed", "open"}
      BY <3>1, <2>2 DEF ModeOf, Open
    <3>3. ModeOf(s) = "closed" => n < t
      BY <1>2, <2>2, <1>0 DEF CircuitState
    <3> QED BY <3>2, <3>3
  <2> QED BY <2>1, <2>2
<1> HIDE DEF u
<1>4. CASE ModeOf(s) = "closed" /\ n < t
  <2>1. ModeOf(u) = "closed" /\ calls' = [calls EXCEPT ![b] = calls[b] \ {c}]
    BY <1>1, <1>3, <1>4 DEF Reported
  <2>2. PICK cs, k : cs = calls[b] \ {c} /\ k = n
    OBVIOUS
  <2>e. Modes!Enters(b, "closed", k, cs)
    <3>1. /\ states' = [states EXCEPT ![b] = u] /\ streak' = [streak EXCEPT ![b] = k]
          /\ clock' = clock /\ calls' = [calls EXCEPT ![b] = cs]
      BY <1>1, <2>1, <2>2
    <3>2. TypeOK /\ "closed" = ModeOf(u)
      BY <1>0, <2>1
    <3> QED BY <3>1, <3>2, EntersStep, Zenon
  <2>3. Modes!CountFailure(b, c, t)
    BY <2>2, <2>e, <1>4 DEF Modes!CountFailure, Modes!Enters
  <2>d. Modes!Documented(b)
    BY <2>3, <1>0 DEF Modes!Documented
  <2> QED BY <2>d DEF Modes!Next
<1>5. CASE ModeOf(s) = "closed" /\ ~(n < t)
  <2>1. ModeOf(u) = "open" /\ calls' = [calls EXCEPT ![b] = {}]
    BY <1>1, <1>3, <1>5 DEF Reported
  <2>2. Modes!Enters(b, "open", n, {})
    BY <1>0, <1>1, <2>1, EntersStep, Zenon
  <2>3. Modes!CountFailure(b, c, t)
    BY <2>2, <1>5 DEF Modes!CountFailure
  <2>d. Modes!Documented(b)
    BY <2>3, <1>0 DEF Modes!Documented
  <2> QED BY <2>d DEF Modes!Next
<1>6. CASE ModeOf(s) = "open"
  <2>1. calls[b] = {}
    BY <1>6 DEF IInv, OpenAdmitsNone, ModeOf
  <2>2. ModeOf(u) = "open" /\ calls' = [calls EXCEPT ![b] = {}]
    BY <1>1, <1>3, <1>6, <2>1, <1>0 DEF Reported
  <2>3. Modes!Enters(b, "open", n, {})
    BY <1>0, <1>1, <2>2, EntersStep, Zenon
  <2>4. Modes!StaysOpen(b)
    BY <2>3, <1>6 DEF Modes!StaysOpen
  <2>d. Modes!Documented(b)
    BY <2>4 DEF Modes!Documented
  <2> QED BY <2>d DEF Modes!Next
<1>7. CASE ModeOf(s) = "halfOpen"
  <2>1. ModeOf(u) = "open" /\ calls' = [calls EXCEPT ![b] = {}]
    BY <1>1, <1>3, <1>7 DEF Reported
  <2>2. Modes!Enters(b, "open", n, {})
    BY <1>0, <1>1, <2>1, EntersStep, Zenon
  <2>3. CASE c \in calls[b]
    <3>1. Modes!ProbeFailure(b, c)
      BY <2>2, <2>3, <1>7 DEF Modes!ProbeFailure
    <3>d. Modes!Documented(b)
      BY <3>1 DEF Modes!Documented
    <3> QED BY <3>d DEF Modes!Next
  <2>4. CASE c \notin calls[b]
    <3>1. Modes!LateFailure(b, c)
      BY <2>2, <2>4, <1>7 DEF Modes!LateFailure
    <3>d. Modes!Late(b)
      BY <3>1 DEF Modes!Late
    <3> QED BY <3>d DEF Modes!Next
  <2> QED BY <2>3, <2>4
<1> QED BY <1>4, <1>5, <1>6, <1>7, ModeCases

LEMMA TickMode ==
    ASSUME IInv, Tick
    PROVE  [Modes!Next]_(Modes!vars)
<1> DEFINE over == {a \in Agents : clock' >= states[a].openUntil}
<1>1. \A a \in Agents : clock >= states[a].openUntil => clock' >= states[a].openUntil
  BY DEF IInv, TypeOK, CircuitState, Tick
<1>2. states' = states /\ streak' = streak /\ calls' = calls
  BY DEF Tick
<1>3. [a \in Agents |-> clock' >= states'[a].openUntil]
        = [a \in Agents |-> [d \in Agents |-> clock >= states[d].openUntil][a] \/ a \in over]
  <2> SUFFICES ASSUME NEW a \in Agents
               PROVE  (clock' >= states'[a].openUntil)
                        = ([d \in Agents |-> clock >= states[d].openUntil][a] \/ a \in over)
    BY Zenon
  <2>1. (clock' >= states'[a].openUntil) = ((clock >= states[a].openUntil) \/ a \in over)
    BY <1>1, <1>2
  <2>2. [d \in Agents |-> clock >= states[d].openUntil][a] = (clock >= states[a].openUntil)
    BY Zenon
  <2> QED BY <2>1, <2>2, Zenon
<1>4. Modes!Elapse
  BY <1>2, <1>3 DEF Modes!Elapse
<1> QED BY <1>4 DEF Modes!Next

LEMMA ModeStep == IInv /\ [Next]_vars => [Modes!Next]_(Modes!vars)
<1> SUFFICES ASSUME IInv, [Next]_vars PROVE [Modes!Next]_(Modes!vars)
  OBVIOUS
<1>1. ASSUME NEW c \in Callers, Allow(c) \/ RecordSuccess(c) \/ RecordFailure(c)
      PROVE  [Modes!Next]_(Modes!vars)
  <2>1. PICK b \in Agents : b = agent[c]
    BY DEF IInv, TypeOK
  <2>2. CASE Allow(c)
    BY <2>1, <2>2, AllowMode
  <2>3. CASE RecordSuccess(c)
    BY <2>1, <2>3, SuccessMode
  <2>4. CASE RecordFailure(c)
    BY <2>1, <2>4, IgnoredMode, CountedMode
  <2> QED BY <1>1, <2>2, <2>3, <2>4
<1>2. ASSUME NEW c \in Callers, NEW a \in Agents, Attempt(c, a)
      PROVE  [Modes!Next]_(Modes!vars)
  BY <1>2, ModeStutter DEF Attempt
<1>3. ASSUME NEW c \in Callers, Reject(c) \/ CallFails(c)
      PROVE  [Modes!Next]_(Modes!vars)
  BY <1>3, ModeStutter DEF Reject, CallFails
<1>4. CASE Tick
  BY <1>4, TickMode
<1>5. CASE UNCHANGED vars
  BY <1>5, ModeStutter DEF vars
<1> QED BY <1>1, <1>2, <1>3, <1>4, <1>5 DEF Next

(* The breaker, with its clocks, stale readings and interleaved callers,     *)
(* keeps to the documented diagram except where a call it did not admit in   *)
(* its present mode reports: a circuit becomes half-open only from open,     *)
(* after the reset timeout and for one probe; it trips exactly when the      *)
(* streak reaches the threshold of the caller that reports the failure; and  *)
(* it is closed, or re-opened from half-open, by its probe or by such a late *)
(* outcome.                                                                  *)
THEOREM BreakerImplementsModes == Spec => ImplementsModes
  BY ModeInit, ModeStep, IInvCorrect, PTL DEF Spec, ImplementsModes, Modes!Spec
=============================================================================
