CONSTANTS
  t1 = t1
  t2 = t2
  b1 = b1
  b2 = b2
  b3 = b3
  b4 = b4
  null = null
  junk = junk
  MaxCalls = 4
  Thread <- MCThread
  Allocator <- MCThread
  Block <- MCBlock
  NBarrels = 1
  CellsPerBlock = 3
  first <- MCFirstOne
  UserWord <- MCUserWord
  Null = null
SPECIFICATION QuietSpec
SYMMETRY Symmetric
INVARIANT HeadsAreFree

