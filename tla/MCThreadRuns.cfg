SPECIFICATION FairSpec
CONSTANTS
  Workers = {w1, w2}
  MaxCalls = 3
  MaxCrashes = 1
INVARIANTS
  TypeOK
  NoSaveWithoutApproval
  SerialCallsAreSafe
  EndsAsDecided
PROPERTIES
  SerialCallsKeepToTheGate
  CallsAreAnswered
CHECK_DEADLOCK FALSE
