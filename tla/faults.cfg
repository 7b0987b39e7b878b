\* crashes and stops at any moment, late answers
SPECIFICATION Spec
CONSTANTS
  NodeA = NodeA
  NodeB = NodeB
  PreferredMasters = {NodeA}
  MaxCommits = 1
  MaxReconnectors = 1
  MaxCrashes = 1
  MaxDrops = 1
  MaxStops = 1
  MaxTimeouts = 1
  Anytime = {"crash", "stop"}
INVARIANTS
  NodeSafe
CHECK_DEADLOCK FALSE
