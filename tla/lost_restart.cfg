\* both hosts restart, one after the other
SPECIFICATION Spec
CONSTANTS
  NodeA = NodeA
  NodeB = NodeB
  PreferredMasters = {NodeA}
  MaxCommits = 2
  MaxReconnectors = 2
  MaxCrashes = 2
  MaxDrops = 0
  MaxStops = 0
  MaxTimeouts = 0
  Anytime = {}
INVARIANTS
  NoTransactionLost
CHECK_DEADLOCK FALSE
