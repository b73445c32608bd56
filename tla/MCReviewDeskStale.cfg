SPECIFICATION DeskSpec
CONSTANTS
  Workers = {w1, w2}
  MaxCalls = 3
  MaxCrashes = 0
  Clients = {tab, script}
  Scripts = {script}
  MaxLost = 0
SYMMETRY WorkerSymmetry
INVARIANT ApprovedDraftWasShown
CHECK_DEADLOCK FALSE
