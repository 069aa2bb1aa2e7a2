CONSTANTS
  t1 = t1
  t2 = t2
  Threads = {t1, t2}
  NumFrames = 5
  Requests = {1, 2, 3}
  NoLock = NoLock
SPECIFICATION FairSpec
INVARIANTS
  ListTypeOK
  FrameOnce
  NoFreedNode
  NoFrameLeaks
PROPERTIES
  CallReturns
  ImplementsPool
