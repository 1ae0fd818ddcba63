SPECIFICATION Spec
CONSTANTS
  Plans <- AllPlans
  Registered = {"a", "b", "c", "flaky_1", "fail_1", "panic_1", "ok_1", "slow_1"}
  LateAgents = {"x"}
  PriorCircuits <- Prior
  KindOf <- Kinds
  WorkerPoolSize = 2
  CfgMaxAttempts = 1
  CfgBackoff = "linear"
  CfgThreshold = 0
  ResetTimeout = 1
  DefaultResetTimeout = 2
  RetryableErrs = {}
  AgentErrors <- AppError
  MayCancel = TRUE
  Width = 12
  MaxClock = 2
INVARIANTS TypeOK SendNeverBlocks TraceExplainsResults BreakerSettles MetricsMatchTrace BackoffSpreads RunsRepeatable ReplaySound CompareTellsResults
PROPERTIES PlanReturns ImplementsOutcome
CHECK_DEADLOCK FALSE
