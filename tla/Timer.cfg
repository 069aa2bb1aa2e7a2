CONSTANTS
  NumDevices = 3
  MaxTime = 3
SPECIFICATION FairSpec
INVARIANTS
  TypeOK
  OneTurnPerSlot
  NoLostWakeup
  ExitOnlyWhenAllGone
PROPERTIES
  TickWaitsForAll
  NextSlotReturns
  MainReturns
  ImplementsClock
