SPECIFICATION MemorySpec
CONSTANTS
  c1 = c1
  c2 = c2
  Clients <- PerRunClients
  CoordinatorOf <- PerRun
  TTL = 2
  DefaultTTL = 3
  MaxFaults = 0
INVARIANT LiveExclusion
