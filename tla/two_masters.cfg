\* both controllers start at the same time
SPECIFICATION RestartSpec
CONSTANTS
  NodeA = NodeA
  NodeB = NodeB
  PreferredMasters = {NodeA}
  MaxCommits = 0
  MaxReconnectors = 2
  MaxCrashes = 0
  MaxDrops = 0
  MaxStops = 0
  MaxTimeouts = 0
  Anytime = {"start"}
PROPERTIES
  OneMasterOneSlave
CHECK_DEADLOCK FALSE
