CONSTANTS
  Events = {"placed", "shipped"}
  External = {"placed"}
  Classes <- NoHandlers
  Rules = {"rollback"}
  MaxAttempts = 1
  FreshEvents = TRUE
  OuterStore = FALSE
  None = None
SPECIFICATION Spec
INVARIANT MessagesFollowBusinessRows
