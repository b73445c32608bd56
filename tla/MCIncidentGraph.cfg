SPECIFICATION FairSpec
CONSTANTS
  MaxReplan = 2
  ScaleMax = 1
  Threshold = 1
  MaxEdits = 1
  Fallible <- WrappedNodes
INVARIANTS
  TypeOK
  NothingUnreviewedIsPublished
  RejectionLeavesNoTrace
  StaleAnswersAreReported
  ScoreIsValidatedOrReported
  WeakDraftOnlyWhenGivenUp
PROPERTIES
  ImplementsApprovalGate
  RestsUnlessReflectionKeepsFailing
  DecisionIsCarriedOut
CHECK_DEADLOCK FALSE
