SPECIFICATION Spec
CONSTANTS
  Clients = {c1, c2, c3}
  TTL = 2
  DefaultTTL = 3
  MaxFaults = 2
PROPERTY FileNotWedged
