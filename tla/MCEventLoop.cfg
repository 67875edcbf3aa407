CONSTANTS
  Threads = {owner, other}
  Owner = owner
  Tids <- MCTids
  MaxCalls = 2
  None = None
SPECIFICATION Spec
PROPERTIES Promise QuitStops
INVARIANTS TypeOK NoLostWakeup NoLostQuit
CHECK_DEADLOCK FALSE
