SPECIFICATION Spec
CONSTANTS
  MaxMessage = 3
  MaxSession = 2
  MaxQty = 1
  MaxStale = 0
  Mutable = {}
  Meaning <- EntryThenExits
INVARIANTS
  OrdersAreMeant
CHECK_DEADLOCK FALSE
