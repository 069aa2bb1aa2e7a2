CONSTANTS
  p1 = p1
  p2 = p2
  Procs = {p1}
  PAGESZ = 2
  MAX_PGN = 3
  SYMTBL_SZ = 2
  RgIds = {0, 1, 2, 3}
  Sizes = {1, 3}
  NumFrames = 3
  NoLock = NoLock
SPECIFICATION FairSpec
INVARIANTS
  TypeOK
  RegionsDisjoint
  FifoMatches
  FrameExclusive
PROPERTIES
  AllocReturns
CHECK_DEADLOCK FALSE
