SPECIFICATION FairSpec
CONSTANTS
  Plans <- MCPlans
  Category = "kubernetes"
  Pod = "oom_killed"
  Limit = 10
  MaxPasses = 2
  MaxCrashes = 1
INVARIANTS
  TypeOK
  EveryTaskIsAccountedFor
  FailedBranchesLeaveNoEvidence
  MergeIsOrderedOnce
  BundleIsUpToDate
PROPERTY
  GatheringEnds
CHECK_DEADLOCK FALSE
