\* the host of the master is lost
SPECIFICATION FairSpec
CONSTANTS
  NodeA = NodeA
  NodeB = NodeB
  PreferredMasters = {NodeA}
  MaxCommits = 1
  MaxReconnectors = 2
  MaxCrashes = 1
  MaxDrops = 0
  MaxStops = 0
  MaxTimeouts = 0
  Anytime = {"start", "crash"}
PROPERTIES
  Failover
CHECK_DEADLOCK FALSE
