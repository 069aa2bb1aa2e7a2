CONSTANTS
  p1 = p1
  p2 = p2
  Procs = {p1, p2}
  PAGESZ = 2
  MAX_PGN = 2
  SYMTBL_SZ = 1
  RgIds = {0}
  Sizes = {2}
  NumFrames = 2
  NoLock = NoLock
  NumSwap = 2
  Vals = {0, 1}
  Zero = 0
  Unset = 2
  Offsets = {0}
  StayInside = TRUE
SPECIFICATION PagingSpec
INVARIANTS
  PagingTypeOK
  FramesConserved
  SwapFramesDistinct
  ResidentListed
  ReadsBeforePageOut
SYMMETRY ProcSymmetry
CHECK_DEADLOCK FALSE
