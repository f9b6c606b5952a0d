CONSTANTS
  o1 = o1
  o2 = o2
  Orders = {o1, o2}
  Quantity <- Units
  Stock = 2
  Requests <- Mixed
  MaxOpen = 2
  MaxReplays = 1
SPECIFICATION FairSpec
INVARIANT PlacedTogether
INVARIANT SignalledTogether
INVARIANT OutcomeIsWhole
PROPERTY RequestsSettle
PROPERTY InstancesSettle
