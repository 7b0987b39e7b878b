\* the network breaks and heals at any moment
SPECIFICATION Spec
CONSTANTS
  NodeA = NodeA
  NodeB = NodeB
  PreferredMasters = {NodeA}
  MaxCommits = 2
  MaxReconnectors = 2
  MaxCrashes = 0
  MaxDrops = 2
  MaxStops = 0
  MaxTimeouts = 0
  Anytime = {"start", "link"}
INVARIANTS
  NoTransactionLost
CHECK_DEADLOCK FALSE
