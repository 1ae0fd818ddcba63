SPECIFICATION Spec
CONSTANTS
  c1 = c1
  c2 = c2
  c3 = c3
  Agents = {a1}
  Callers <- MixedCallers
  FailureThreshold <- MixedThresholds
  ResetTimeout <- MixedResets
  DefaultResetTimeout = 1
  MaxClock = 4
INVARIANTS TypeOK ProbeHasOwner StreakOpens
PROPERTIES ProbeResolves ImplementsModes
