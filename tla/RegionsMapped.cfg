CONSTANTS
  p1 = p1
  p2 = p2
  Procs = {p1}
  PAGESZ = 2
  MAX_PGN = 3
  SYMTBL_SZ = 2
  RgIds = {0, 1, 3}
  Sizes = {1, 2, 3}
  NumFrames = 2
  NoLock = NoLock
SPECIFICATION Spec
INVARIANT RegionsMapped
CHECK_DEADLOCK FALSE
