CONSTANTS
  Events = {"placed", "shipped"}
  External = {"placed"}
  Classes <- NoHandlers
  Rules = {"rollback", "commit"}
  MaxAttempts = 1
  FreshEvents = TRUE
  OuterStore = FALSE
  None = None
SPECIFICATION Spec
INVARIANT EventsCommitWithTransaction
