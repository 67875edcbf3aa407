CONSTANTS
  Threads = {owner, other}
  Owner = owner
  Tids <- UsualTids
  MaxCalls = 1
  None = None
SPECIFICATION Spec
PROPERTY QuitIsHeeded
CHECK_DEADLOCK FALSE
