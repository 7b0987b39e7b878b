\* fewer clients than slots; one client may keep one of the two workers
SPECIFICATION FairSpec
CONSTANTS
  Client = {c1, c2}
  Worker = {w1, w2}
  MAXNCLI = 3
  MaxAborts = 1
  MaxFailures = 1
INVARIANTS
  NoConnectionLost
PROPERTIES
  IsQueue
  EveryoneServed
