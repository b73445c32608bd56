SPECIFICATION Spec
CONSTANTS
  Calls = {c1, c2, c3}
  Console = Console
  MaxPrints = 1
INVARIANTS
  TypeOK
  LoneCallsAreExact
  ConsoleIsRestored
CHECK_DEADLOCK FALSE
