CONSTANTS
  m1 = m1
  m2 = m2
  r1 = r1
  mysql = mysql
  redis = redis
  Databases <- MCDatabases
  Types <- MCTypes
  TypeOf <- MCTypeOf
  Limit <- MCLimit
  MaxPolls = 2
SPECIFICATION FairSpec
INVARIANTS
  TypeOK
  PublishedIsComplete
  WithinConcurrency
PROPERTIES
  PollEnds
  LoopEnds
CHECK_DEADLOCK FALSE
