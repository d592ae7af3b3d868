CONSTANTS
  t1 = t1
  t2 = t2
  b1 = b1
  b2 = b2
  b3 = b3
  b4 = b4
  null = null
  junk = junk
  MaxCalls = 6
  Thread <- MCThread
  Allocator <- MCThread
  Block <- MCBlock
  NBarrels = 2
  CellsPerBlock = 2
  first <- MCFirst
  UserWord <- MCUserWord
  Null = null
SPECIFICATION MCSpec
SYMMETRY Symmetric
INVARIANTS ChainsHoldHeap DestructorFreesHeap
PROPERTIES HeaderWrittenOnce
