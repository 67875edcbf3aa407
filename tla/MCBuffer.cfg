CONSTANTS
  kCheapPrepend = 2
  kInitialSize = 3
  ExtraSize = 3
  MaxBytes = 9
SPECIFICATION Spec
INVARIANTS TypeOK OverrunBounded
PROPERTY Promise
CHECK_DEADLOCK FALSE
