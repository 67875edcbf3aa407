CONSTANTS
  highWaterMark_ = 2
  SendSpace = 1
  MaxLen = 2
  MaxBytes = 3
  MaxArrivals = 1
SPECIFICATION Spec
INVARIANT WhatWasGivenIsSent
CHECK_DEADLOCK FALSE
