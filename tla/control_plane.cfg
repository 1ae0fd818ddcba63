SPECIFICATION Spec
CONSTANTS
  Clients = {c1, c2}
  Requests <- MixedRequests
  KeyRequired = TRUE
  AskedSizes <- Sizes
  DefaultPageSize = 2
  MaxPageSize = 3
  Width = 4
  MonthLength = 2
  MaxClock = 2
  MaxTenant = 3
  MaxEvents = 2
SYMMETRY ClientSymmetry
INVARIANTS TypeOK MonthsAddUpToUsage WalkMissesNobody
PROPERTY ClosedMonthFinal
CHECK_DEADLOCK FALSE
