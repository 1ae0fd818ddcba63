SPECIFICATION Spec
CONSTANTS
  c1 = c1
  c2 = c2
  c3 = c3
  Agents = {a1}
  Callers <- PairCallers
  FailureThreshold <- PairThresholds
  ResetTimeout <- PairResets
  DefaultResetTimeout = 1
  MaxClock = 3
PROPERTY FollowsDiagram
