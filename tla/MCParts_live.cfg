SPECIFICATION PartsSpec
CONSTANTS
  Part = {"monitor", "outbox", "rotation", "modes", "expiry", "router", "access"}
  MaxMonitor = 1
  MaxGeneration = 1
  MaxEntry = 1
  MaxContext = 1
  MaxRestart = 1
  Item = {i1}
  Webhook = {w1}
  MaxState = 1
  MaxEdit = 2
  MaxIssue = 0
  MaxCrash = 1
  Caller = {c1, c2}
  Window = 3
  Total = 3
  Background = 2
  Burst = 1
  MaxTime = 4
  MaxCooldown = 1
  MaxCalls = 3
  WatchOption = {o1}
  WatchLimit = 1
  Asks = {"nearest"}
  MaxWatch = 2
  Hot = {1, 2, 3}
  Contract <- RotationContract
  BatchLimit = 1
  AccountContract = {k1}
  WorkingOrder = {a1}
  MaxLot = 1
  Near = 1
  LastDate = 0
  PaperOrder = {p1}
  PaperLot = 2
  PaperCash = 4
  PaperAsk = 2
  PaperBid = 1
  PaperFee = 1
  MaxPaperStart = 1
  MaxWrite = 1
  MaxBreak = 1
  MaxAttempt = 2
  MaxExpiryEntry = 2
  MaxRefusal = 1
  MaxExpiryCrash = 1
  Question = {q1, m1}
  Callback = {m1}
  JevPool = 1
  MaxPause = 1
  MaxOrphan = 1
  Channel = {d1}
  FetchLimit = 1
  MaxPenalty = 1
  MaxChange = 2
  Mounted = 1
  SeenLimit = 1
  SeenKept = 1
  MaxPost = 1
  MaxTouch = 0
  MaxEpoch = 1
PROPERTIES
  MonitorEnds
  QueuedIsTold
  ReadyIsPolled
  ChangeIsLoaded
  ExpiringIsExited
  EvaluationEnds
  ChangeIsTried
CHECK_DEADLOCK FALSE
