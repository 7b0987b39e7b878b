\* the retry loops end
SPECIFICATION FairSpec
CONSTANTS
  NodeA = NodeA
  NodeB = NodeB
  PreferredMasters = {NodeA}
  MaxCommits = 1
  MaxReconnectors = 2
  MaxCrashes = 0
  MaxDrops = 1
  MaxStops = 0
  MaxTimeouts = 1
  Anytime = {"link"}
PROPERTIES
  ReconciliationEnds
CHECK_DEADLOCK FALSE
