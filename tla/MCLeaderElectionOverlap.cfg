CONSTANTS
  p1 = p1
  p2 = p2
  NoPod = NoPod
  Pods <- MCPods
  Operated = {p1}
  MaxInst = 1
  MaxBoots = 2
  Modes = {TRUE}
  LeaseDuration = 3
  RenewDeadline = 1
  RetryPeriod = 1
SPECIFICATION Spec
INVARIANTS
  OneInstanceCollects
CHECK_DEADLOCK FALSE
