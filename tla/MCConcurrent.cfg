CONSTANTS
  Calls = {c1, c2, c3}
  Keys = {"db"}
  UserErrors = {"Conflict"}
  DriverErrors = {}
  Options <- ConcurrentModes
  MaxAttempts = 2
  MaxHooks = 0
  MaxWork = 6
  MaxDepth = 2
  MaxRoots = 2
  PoolSize = 2
  Concurrent = TRUE
  None = None
SPECIFICATION FairSpec
INVARIANT NoConnectionLeak
PROPERTY EveryCallSettles
CHECK_DEADLOCK FALSE
