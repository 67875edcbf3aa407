CONSTANTS
  highWaterMark_ = 2
  SendSpace = 1
  MaxLen = 2
  MaxBytes = 3
  MaxArrivals = 1
SPECIFICATION Spec
PROPERTY FinAfterAll
CHECK_DEADLOCK FALSE
