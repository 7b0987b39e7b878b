SPECIFICATION PartsSpec
CONSTANTS
  NVips = 3
  Caller = {a}
  MaxTasks = 7
  MaxCrashes = 2
  Calm = TRUE
  DbProc = {p1, p2}
  DbKey <- MCKey
  DbData <- MCData
  NHASH = 2
  DbCalls = 3
  DtDir = {p1, p2}
  DtName = {n1, n2}
  DT_QMAX = 3
  DtQuiet = TRUE
  DtChanges = 4
  DtCommands = 1
  l1 = l1
  l2 = l2
  A = A
  C = C
  NoClass = NoClass
  App = App
  JcThread = {p1, p2}
  Jcl = {l1, l2}
  JcClass = {A, C}
  JcSuper <- MCSuper
  JcPackage <- MCPackage
  JcJar <- MCJar
  JcCall <- MCCall
  JcParallel = TRUE
  JcCalm = TRUE
  JcCalls = 3
  JcChanges = 1
  FfProc = {p1, p2, p3}
  FfValue = 1
  FF_CAPACITY = 1
  FfMaxFifos = 2
INVARIANTS
    DbNeverStuck VipSafe JcSafe 
SYMMETRY PartsSymmetry
CHECK_DEADLOCK FALSE
