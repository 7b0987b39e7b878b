\* the network breaks and heals while the controllers wait
SPECIFICATION FairSpec
CONSTANTS
  NodeA = NodeA
  NodeB = NodeB
  PreferredMasters = {NodeA}
  MaxCommits = 3
  MaxReconnectors = 2
  MaxCrashes = 0
  MaxDrops = 3
  MaxStops = 0
  MaxTimeouts = 0
  Anytime = {}
INVARIANTS
  UnsharedIsNoticed
PROPERTIES
  Reunites
CHECK_DEADLOCK FALSE
