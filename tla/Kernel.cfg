CONSTANTS
  c1 = c1
  c2 = c2
  CPUs = {c1, c2}
  Loader = Loader
  NULL = NULL
  NumProcs = 3
  MAX_PRIO = 2
  MAX_QUEUE_SIZE = 3
  TimeSlot = 2
  MaxTime = 9
  Configs <- ThreeProcs
SPECIFICATION FairPaceSpec
INVARIANTS
  TypeOK
  SingleHome
  NoProcessLost
  NoOrphan
  NoBudgetLeftOver
  WorkConserving
PROPERTIES
  Pace
  EveryProcessFinishes
