SPECIFICATION DeskSpec
CONSTANTS
  Workers = {w1, w2}
  MaxCalls = 3
  MaxCrashes = 1
  Clients = {tab, script}
  Scripts = {script}
  MaxLost = 1
SYMMETRY WorkerSymmetry
VIEW DeskView
INVARIANT DeskTypeOK
PROPERTIES
  DecisionsFollowTheScreen
  DecisionsTakeEffect
CHECK_DEADLOCK FALSE
