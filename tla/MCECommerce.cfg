CONSTANTS
  o1 = o1
  o2 = o2
  Orders = {o1, o2}
  Skus = {"book", "pen"}
  Stock <- Shelf
  Body <- Carts
  MaxDeliveries = 2
  MaxFaults = 1
SPECIFICATION FairSpec
INVARIANT StockConserved
INVARIANT ConfirmedIsWhole
INVARIANT ChargedFailsOnlyIfRedelivered
PROPERTY TerminalStays
PROPERTY DeclinedIsReleased
PROPERTY OrderSettles
