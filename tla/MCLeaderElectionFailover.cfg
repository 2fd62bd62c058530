CONSTANTS
  p1 = p1
  p2 = p2
  NoPod = NoPod
  Pods <- MCPods
  Operated = {}
  MaxInst = 1
  MaxBoots = 2
  Modes = {TRUE}
  LeaseDuration = 2
  RenewDeadline = 1
  RetryPeriod = 0
SPECIFICATION FairSpec
PROPERTIES
  Failover
CHECK_DEADLOCK FALSE
