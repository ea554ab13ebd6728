SPECIFICATION FairSpec
CONSTANTS
  MaxMessage = 2
  MaxSession = 2
  MaxQty = 1
  MaxStale = 2
  Mutable = {}
  Meaning <- EntryThenExits
PROPERTIES
  PendingIsAssessed
CHECK_DEADLOCK FALSE
