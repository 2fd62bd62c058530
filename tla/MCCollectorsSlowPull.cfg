SPECIFICATION MCSpec
CONSTANTS
  Foci = {"pull"}
  Containers = {k1}
  MaxChanges = 5
  Timers = {t1, t2}
  Nodes = {n1}
  MaxNodeChanges = 4
  MaxLists = 2
  MaxLoops = 2
  MaxSecrets = 2
  Requests = {r1, r2}
  TokenTTL = 1
  AllowTTL = 2
  DenyTTL = 1
  Latency = 1
  Steps = 1
  MaxFlips = 1
  MaxPairs = 3
  MaxIPs = 3
  MaxWorkers = 2
  Hour = 2
  MaxClock = 4
  MaxDocs = 2
  Owners = {"o1", "o2"}
  Users = {"a", "b"}
  MaxCalls = 2
INVARIANT DurationSinceFirstSeen
CHECK_DEADLOCK FALSE
