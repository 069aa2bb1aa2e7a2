CONSTANTS
  c1 = c1
  c2 = c2
  CPUs = {c1}
  Loader = Loader
  NULL = NULL
  NumProcs = 3
  MAX_PRIO = 2
  MAX_QUEUE_SIZE = 3
  TimeSlot = 2
  MaxTime = 12
  Configs <- KillTables
  Names <- ProgramNames
  Files <- Programs
  Stored <- Paths
SPECIFICATION KillFairSpec
INVARIANTS
  KillTypeOK
  KillSingleHome
  NoneLostToKill
  TerminatesByName
  OthersRunToEnd
PROPERTIES
  KilledFinish
