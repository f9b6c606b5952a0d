CONSTANTS
  Orders = {o1, o2}
  Skus = {"book"}
  Stock <- Shelf
  Requests <- Carts
  MaxDeliveries = 2
  MaxFaults = 1
SPECIFICATION FairSpec
INVARIANT StockConserved
INVARIANT OutcomeRecorded
INVARIANT ChargedIsNeverFailed
PROPERTY WalksForward
PROPERTY SagaSettles
