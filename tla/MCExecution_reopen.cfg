CONSTANTS
  Holding = {h1}
  NoHolding = NoHolding
  Price = {p1}
  NoPrice = NoPrice
  MaxOrders = 4
  MaxQty = 1
  MaxPolls = 1
  MayExpire = {}
SPECIFICATION Spec
INVARIANTS
  NothingWrittenOff
  CompleteMeansFlat
PROPERTIES
  ImplementsCustody
