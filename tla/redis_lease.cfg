SPECIFICATION Spec
CONSTANTS
  Clients = {c1, c2, c3}
  Tokens = {t1, t2, t3, t4}
  NoToken = NoToken
  TTL = 2
  DefaultTTL = 3
  MaxFaults = 2
INVARIANTS TypeOK LiveExclusion
PROPERTIES OnlyOwnerReleases ImplementsLock KeyNotWedged
