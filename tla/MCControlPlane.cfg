SPECIFICATION MCSpec
CONSTANTS
  Foci = {"reload", "locks", "fanin"}
  Ports = {1}
  MaxEdits = 3
  Reloads = {g1, g2}
  Scrapes = {s1}
  MaxGens = 2
  Sources = {c1, c2}
  PerSource = 2
  WrapCap = 1
INVARIANTS
  TypeOK
  SettledFollowsFile
  ScrapeOfOneGeneration
  ScrapeIsComplete
PROPERTIES
  ChangeTakesEffect
  EveryWaitEnds
  FailedLeaderIsReplaced
CHECK_DEADLOCK FALSE
