CONSTANTS
  Events = {"placed", "shipped"}
  External = {"placed", "shipped"}
  Classes <- Reactions
  Rules = {"rollback", "commit"}
  MaxAttempts = 2
  FreshEvents = TRUE
  OuterStore = TRUE
  None = None
SPECIFICATION FairSpec
INVARIANT TypeOK
INVARIANT OutboxMatchesPublications
INVARIANT AwaitsBodyWork
INVARIANT PhaseListenersRun
INVARIANT RelayWoken
PROPERTY TransactionEnds
