SPECIFICATION FairSpec
CONSTANTS
  MaxMessage = 2
  MaxSession = 3
  MaxQty = 1
  MaxStale = 2
  Mutable = {}
  Meaning <- EntryThenExits
PROPERTIES
  ObservedIsJudged
CHECK_DEADLOCK FALSE
INVARIANTS
  TypeOK
  OneOrderPerMessage
