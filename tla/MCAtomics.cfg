CONSTANTS
  AtomicThreads = {t1, t2}
  Half = 2
  Offset = 3
  NewValue = 2
  Expected = 1
  Functor <- MCFunctor
SPECIFICATION AtomicSpec
PROPERTY OriginalReturned
CHECK_DEADLOCK FALSE
