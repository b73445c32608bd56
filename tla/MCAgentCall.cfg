SPECIFICATION FairSpec
CONSTANTS
  Callers = {c1, c2}
  Agents = {planner, approval}
  ApprovalAgent = approval
  Providers <- MCProviders
  Candidates <- MCCandidates
  MaxRetries = 1
  MaxCalls = 2
  MaxOutages = 3
INVARIANTS TypeOK SteadyProviderSuffices PreferenceIsKept
PROPERTY NodesGoOn
CHECK_DEADLOCK FALSE
