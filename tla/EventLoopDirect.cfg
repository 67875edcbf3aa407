CONSTANTS
  Threads = {owner, other}
  Owner = owner
  Tids <- UsualTids
  MaxCalls = 1
  None = None
SPECIFICATION Spec
INVARIANT RunsInLoopThread
CHECK_DEADLOCK FALSE
