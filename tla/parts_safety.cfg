SPECIFICATION PartsSpec
CONSTANTS
  SmProc = {p1, p2, p3}
  SmValue = 1
  SM_TRIES = 1
  SmMaxFiles = 2
  SmMaxDeaths = 1
  MqProc = {p1, p2, p3}
  MQ_MAXMSG = 2
  MqListener = {p3}
  MqPrio = {0, 1}
  MaxSends = 3
  MaxMqDeaths = 1
  SvProc = {p1, p2}
  SvValue = 1
  SV_TRIES = 2
  SvMaxIds = 2
  SvFailures = 1
  SpProc = {p1, p2, p3}
  SpOpener = {p3}
  SpInitval = 1
  BIGCOUNT = 9
  SpMaxSets = 2
  SpMaxDeaths = 2
  PsInfos = 1
  RiLength = 4
  RIO_BUFSIZE = 2
  RiMaxlen = {2, 3}
  MAX_HEAP = 28
  CHUNKSIZE = 8
  MmOwner = {1, 2, 3}
  MmRequest = {1, 6}
  CaC = "gregorian"
  CaYear = {1900, 2000}
  CaMonth = {2}
  CaDay = {1, 28, 29}
  CaStr = {s1, s2}
  CaEvents = 3
  DaYears <- MCYears
  DaDays <- MCDays
  DaMonths <- MCMonths
INVARIANTS
  SmSafe MqSafe SvSafe SpSafe  MallocSafe RiSafe CalendarSafe DatesSafe

  
SYMMETRY PartsSymmetry
CHECK_DEADLOCK FALSE
