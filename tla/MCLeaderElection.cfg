CONSTANTS
  p1 = p1
  p2 = p2
  NoPod = NoPod
  Pods <- MCPods
  Operated = {p1}
  MaxInst = 2
  MaxBoots = 2
  Modes = {TRUE, FALSE}
  LeaseDuration = 3
  RenewDeadline = 1
  RetryPeriod = 1
SPECIFICATION Spec
INVARIANTS
  TypeOK
  LeaderUnique
  OverlapOnlyAfterLostRenewal
  OnlyCurrentInstanceRuns
  NoElectorAbandoned
PROPERTIES
  ImplementsSlot
CHECK_DEADLOCK FALSE
