INIT PartsInit
NEXT PartsNext
CONSTANTS
  Part = {"monitor", "outbox", "budget", "market", "watch", "snapshot", "listing", "paper", "modes", "codex", "robinhood", "expiry", "router", "access", "browser"}
  MaxMonitor = 2
  MaxGeneration = 0
  MaxEntry = 2
  MaxContext = 0
  MaxRestart = 1
  Item = {i1}
  Webhook = {w1, w2}
  MaxState = 1
  MaxEdit = 2
  MaxIssue = 1
  MaxCrash = 1
  Caller = {c1, c2}
  Window = 3
  Total = 3
  Background = 2
  Burst = 1
  MaxTime = 4
  MaxCooldown = 1
  MaxCalls = 3
  WatchOption = {o1}
  WatchLimit = 1
  Asks = {"nearest"}
  MaxWatch = 2
  Hot = {1, 2, 3}
  Contract <- RotationContract
  BatchLimit = 1
  AccountContract = {k1}
  WorkingOrder = {a1, a2}
  MaxLot = 1
  Near = 2
  LastDate = 2
  PaperOrder = {p1, p2, p3}
  PaperLot = 2
  PaperCash = 4
  PaperAsk = 2
  PaperBid = 1
  PaperFee = 1
  MaxPaperStart = 1
  MaxWrite = 3
  MaxBreak = 1
  MaxAttempt = 2
  MaxExpiryEntry = 2
  MaxRefusal = 2
  MaxExpiryCrash = 1
  Question = {q1, m1}
  Callback = {m1}
  JevPool = 2
  MaxPause = 1
  MaxOrphan = 1
  Channel = {d1, d2}
  FetchLimit = 1
  MaxPenalty = 1
  MaxChange = 3
  Mounted = 2
  SeenLimit = 1
  SeenKept = 1
  MaxPost = 2
  MaxTouch = 1
  MaxEpoch = 2
INVARIANTS
  PartsTypeOK
  OneInstructionWatches
  MonitorSellsItsOwn
  WindowsAreKept
  HandoffFollowsLastCall
  NoDateIsSkipped
  PaperIsSound
  ChosenModeActs
  OneExitPerEntry
  ReadyIsNotGone
PROPERTIES
  TellsWhatIsOwed
  OnlyFollowedIsLive
  PreparedEntryStands
  SnapshotErrsSafely
  SignInOutcomeStands
  RetryAfterIsKept
CHECK_DEADLOCK FALSE
