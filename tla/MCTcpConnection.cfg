CONSTANTS
  highWaterMark_ = 2
  SendSpace = 1
  MaxLen = 2
  MaxBytes = 3
  MaxArrivals = 1
SPECIFICATION Spec
INVARIANTS TypeOK WireInOrder WriteInterest CallbackOrder PausedHasOutput NoDanglingThis
PROPERTIES Promise ShutdownEnds PeerCloseEnds PressureEnds
CHECK_DEADLOCK FALSE
