SPECIFICATION PartsSpec
CONSTANTS
  NVips = 1
  Caller = {a, b}
  MaxTasks = 2
  MaxCrashes = 1
  Calm = FALSE
  PrClient = {c1, c2}
  PR_FILE = 1
  PrStops = 1
  PrFaults = 1

  
PROPERTIES
   AutoDown
CHECK_DEADLOCK FALSE
