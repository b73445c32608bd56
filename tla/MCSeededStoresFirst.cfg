SPECIFICATION Spec
CONSTANTS
  Callers = {c1, c2}
  LastTable = 2
  MaxCalls = 2
  MaxCrashes = 0
INVARIANT
  ConnectionIsSeeded
CHECK_DEADLOCK FALSE
