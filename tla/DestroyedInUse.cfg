SPECIFICATION Spec
CONSTANTS
  MaxThreads = 0
  MaxClients = 2
  MaxTalkers = 1
  MaxFds = 2
  KInitEventListSize = 1
INVARIANT ActiveIsThere
CHECK_DEADLOCK FALSE
