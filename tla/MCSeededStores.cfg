SPECIFICATION FairSpec
CONSTANTS
  Callers = {c1, c2, c3}
  LastTable = 2
  MaxCalls = 4
  MaxCrashes = 1
INVARIANTS
  TypeOK
  SeededAtMostOnce
  SearchFindsTheCorpus
PROPERTY
  SeedingHasAWinner
CHECK_DEADLOCK FALSE
