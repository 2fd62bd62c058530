CONSTANTS
  w1 = w1
  Scrapes <- MCScrapes
  MaxCycles = 2
SPECIFICATION Spec
INVARIANTS
  ReadyChClosedOnce
CHECK_DEADLOCK FALSE
