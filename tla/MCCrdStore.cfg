CONSTANTS
  app1 = app1
  app2 = app2
  other = other
  Objects <- MCObjects
  Allowed <- MCAllowed
  Metrics = {phase}
  Values = {Running, Failed}
  NoValue = NoValue
  MaxRevision = 4
  MaxResyncs = 2
SPECIFICATION FairSpec
INVARIANTS
  TypeOK
  CountsAreRecount
  StoreFollowsInformer
PROPERTIES
  ScrapeMirrorsCluster
CHECK_DEADLOCK FALSE
