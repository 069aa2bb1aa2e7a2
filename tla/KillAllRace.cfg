CONSTANTS
  c1 = c1
  c2 = c2
  CPUs = {c1}
  Loader = Loader
  NULL = NULL
  NumProcs = 3
  MAX_PRIO = 2
  MAX_QUEUE_SIZE = 10
  TimeSlot = 2
  MaxTime = 12
  Configs <- KillTables
  Names <- ProgramNames
  Files <- Programs
  Stored <- Paths
SPECIFICATION KillSpec
INVARIANT QueueProtected
