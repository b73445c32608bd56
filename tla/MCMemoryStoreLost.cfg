SPECIFICATION Spec
CONSTANTS
  i1 = i1
  i2 = i2
  i3 = i3
  s1 = s1
  s2 = s2
  Incidents <- TwoIncidents
  Rejected = {}
  Sessions <- OneSession
  SessionOf <- Together
  LineLen = 2
  Cap = 8
  MaxFailures = 0
  MaxCrashes = 0
INVARIANT
  EveryLineIsKept
CHECK_DEADLOCK FALSE
