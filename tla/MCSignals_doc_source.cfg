SPECIFICATION Spec
CONSTANTS
  MaxMessage = 2
  MaxSession = 2
  MaxQty = 1
  MaxStale = 2
  Mutable = {}
  Meaning <- EntryThenExits
PROPERTIES
  UnavailableSourceKeepsExitPending
CHECK_DEADLOCK FALSE
