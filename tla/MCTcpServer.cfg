SPECIFICATION Spec
CONSTANTS
  MaxThreads = 2
  MaxClients = 2
  MaxTalkers = 1
  MaxFds = 2
  KInitEventListSize = 1
INVARIANTS TypeOK NoDanglingActive PollersAgree InOwnThread
PROPERTIES Promise EveryoneAccepted ClosedAreReleased
CHECK_DEADLOCK FALSE
