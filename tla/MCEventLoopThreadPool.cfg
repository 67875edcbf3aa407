CONSTANTS
  MaxThreads = 3
  MaxNext = 2
SPECIFICATION Spec
INVARIANTS TypeOK LoopsAreComplete RoundRobin DestroyedAfterLoop
PROPERTIES StartReturns DestroyEnds
CHECK_DEADLOCK FALSE
