CONSTANTS
  Calls = {c1, c2}
  Keys = {"db"}
  UserErrors = {"Conflict"}
  DriverErrors = {}
  Options <- CommitOnConflict
  MaxAttempts = 2
  MaxHooks = 0
  MaxWork = 4
  MaxDepth = 1
  MaxRoots = 1
  PoolSize = 2
  Concurrent = FALSE
  None = None
SPECIFICATION Spec
INVARIANT CommitsAtMostOnce
