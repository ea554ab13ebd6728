CONSTANTS
  Holding = {h1}
  NoHolding = NoHolding
  Price = {p1}
  NoPrice = NoPrice
  MaxOrders = 2
  MaxQty = 1
  MaxPolls = 0
  MayExpire = {h1}
SPECIFICATION FairSpec
PROPERTIES
  UncertainResolved
  EndedStopNoticed
