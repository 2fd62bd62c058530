CONSTANTS
  w1 = w1
  Scrapes <- MCScrapes
  MaxCycles = 3
SPECIFICATION FairSpec
INVARIANTS
  TypeOK
  LiveContextIsStoppable
  NoStrandedWaiter
  EmitAfterFirstPoll
PROPERTIES
  ReadyFallsWithItsCycle
  DecidedWaitEnds
CHECK_DEADLOCK FALSE
