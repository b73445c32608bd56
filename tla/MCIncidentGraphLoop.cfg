SPECIFICATION FairSpec
CONSTANTS
  MaxReplan = 3
  ScaleMax = 1
  Threshold = 1
  MaxEdits = 0
  Fallible <- RoutersAndTail
PROPERTY
  AlwaysComesToRest
CHECK_DEADLOCK FALSE
