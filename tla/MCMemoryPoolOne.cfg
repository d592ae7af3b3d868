CONSTANTS
  a = a
  d1 = d1
  d2 = d2
  b1 = b1
  b2 = b2
  null = null
  Thread <- MCThread
  Allocator <- MCAllocator
  Block <- MCBlock
  NBarrels = 1
  first <- MCFirst
  CellsPerBlock = 2
  UserWord <- MCUserWord
  Null = null
SPECIFICATION FairSpec
INVARIANTS HeadsAreFree FreeListsDisjoint FreeListsComplete
PROPERTIES ImplementsAllocator AllocateTerminates
