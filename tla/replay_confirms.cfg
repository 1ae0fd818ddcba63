SPECIFICATION Spec
CONSTANTS
  Plans <- ExamplePlans
  Registered = {"flaky_ingest", "validate_agent", "classify_agent", "audit_agent"}
  LateAgents = {}
  PriorCircuits <- Prior
  KindOf <- Kinds
  WorkerPoolSize = 2
  CfgMaxAttempts = 1
  CfgBackoff = "linear"
  CfgThreshold = 0
  ResetTimeout = 2
  DefaultResetTimeout = 2
  RetryableErrs = {}
  AgentErrors = {}
  MayCancel = FALSE
  Width = 12
  MaxClock = 1
INVARIANT ReplayConfirms
CHECK_DEADLOCK FALSE
