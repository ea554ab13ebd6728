SPECIFICATION Spec
CONSTANTS
  MaxMessage = 2
  MaxSession = 2
  MaxQty = 1
  MaxStale = 2
  Mutable = {2}
  Meaning <- EntryThenExits
PROPERTIES
  LiveSentAsShown
CHECK_DEADLOCK FALSE
