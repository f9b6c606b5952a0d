CONSTANTS
  Calls = {c1, c2, c3}
  Keys = {"a", "b"}
  UserErrors = {"Conflict", "Business"}
  DriverErrors = {"Conflict"}
  Options <- AllModes
  MaxAttempts = 2
  MaxHooks = 2
  MaxWork = 6
  MaxDepth = 2
  MaxRoots = 1
  PoolSize = 3
  Concurrent = FALSE
  None = None
SPECIFICATION Spec
INVARIANT TypeOK
INVARIANT AmbientIsJoinable
INVARIANT LexicalScope
PROPERTY RestoresContext
INVARIANT OutcomeIsTold
INVARIANT CommitsAtMostOnce
INVARIANT HooksMatchOutcome
INVARIANT SuccessRanBeforeCommit
PROPERTY KeepsRunContract
