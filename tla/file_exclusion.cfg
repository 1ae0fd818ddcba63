SPECIFICATION Spec
CONSTANTS
  Clients = {c1, c2}
  TTL = 1
  DefaultTTL = 3
  MaxFaults = 0
INVARIANT LiveExclusion
