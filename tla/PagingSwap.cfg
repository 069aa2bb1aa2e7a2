CONSTANTS
  p1 = p1
  p2 = p2
  Procs = {p1}
  PAGESZ = 2
  MAX_PGN = 4
  SYMTBL_SZ = 2
  RgIds = {0, 1}
  Sizes = {1, 2}
  NumFrames = 1
  NoLock = NoLock
  NumSwap = 2
  Vals = {0, 1}
  Zero = 0
  Unset = 2
  Offsets = {0, 1}
  StayInside = TRUE
SPECIFICATION PagingSpec
INVARIANTS
  ReadYourWrites
CHECK_DEADLOCK FALSE
