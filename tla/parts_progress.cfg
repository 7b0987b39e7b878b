SPECIFICATION PartsSpec
CONSTANTS
  RwThread = {t1, t2, t3}
  RwCalls = 2
  SmProc = {p1, p2}
  SmValue = 1
  SM_TRIES = 2
  SmMaxFiles = 2
  SmMaxDeaths = 1
  WgFiles = 3
  maxnconn = 2
  nchildren = 2
  PfConns = 4
  PfDeaths = 1
  RTT_RXTMIN = 2
  RTT_RXTMAX = 60
  RTT_MAXNREXMT = 3
  RtRto = {1, 40, 100}
  RtCalls = 3
  QSIZE = 3
  DgDatagrams = 5
  NB_MAXLINE = 2
  NbInput = 3
  DtDir = {d1, d2}
  DtName = {n1, n2}
  DT_QMAX = 2
  DtQuiet = TRUE
  DtChanges = 3
  DtCommands = 0
INVARIANTS
  RwSafe WgSafe PfSafe RtSafe DgSafe NbSafe
PROPERTIES
   SmOpenReturns PfAllServed RtReturns DgAllEchoed 
CHECK_DEADLOCK FALSE
