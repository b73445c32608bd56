SPECIFICATION Spec
CONSTANTS
  i1 = i1
  i2 = i2
  i3 = i3
  s1 = s1
  s2 = s2
  Incidents <- ThreeIncidents
  Rejected = {i3}
  Sessions <- TwoSessions
  SessionOf <- Apart
  LineLen = 2
  Cap = 3
  MaxFailures = 1
  MaxCrashes = 1
INVARIANTS
  TypeOK
  LinesHaveEpisodes
  FixCountIsBounded
  EveryLineIsKept
  RecallIsSound
CHECK_DEADLOCK FALSE
