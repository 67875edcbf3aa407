CONSTANTS
  kCheapPrepend = 2
  kInitialSize = 3
  ExtraSize = 3
  MaxBytes = 9
SPECIFICATION Spec
INVARIANT WithinBuffer
CHECK_DEADLOCK FALSE
