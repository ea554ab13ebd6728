# Discord option relay: a TLA+ model

The relay (`relay/`) reads option alerts from Discord, has an evaluator turn each
into a decision, and trades the decision in one brokerage account through the
Robinhood client. It keeps its state in SQLite, runs as one asyncio process
that may die at any await, and talks to a broker whose answers can be lost or late.
This directory holds specifications of its trading core and of the parts around it, the TLC
runs that check them, and TLAPS proofs.

## 1. Inventory

| Part | State | Operations | Hard behaviour | What makes it correct | Module |
| --- | --- | --- | --- | --- | --- |
| Order ledger, `core.Store` | tables `orders`, `positions`, `stop_requests` | `reserve`, `apply_result`, `mark_unknown`, `reject_before_submission`, recovery at start | crash between two transactions; repeated cumulative fills | no fill booked twice or never; no order written off while it can trade | `Execution` |
| Order execution, `core.Engine` | `Engine.lock`, the decision at hand | `plan`, `verify_dispatch`, `_execute_decision` | kill switch and broker move between any two awaits; uncertain submissions | one order per holding out at a time; never sells more than is held | `Execution` |
| Protective stops, `stops.StopLoss` | `stop_requests` | `before_exit`, `update`, `after_exit`, `restore`, `_arm`, `maintain` | cancel/fill race, replacement, lost answers, reopened positions | "active" names a real stop for all that is owned; "complete" means nothing is left to protect | `Execution` |
| Reconciliation, `recovery.RecoveryEvaluator` | the pass (rows still to read, requests still to maintain) | `_reconcile_orders_once`, `_reconcile_order` | failing reads, unknown broker ids, expired entries that fill | uncertain orders become certain | `Execution` |
| Message evaluation, `Engine.handle`, `observe` | messages, revisions, generations, attempts | claim, evaluate, recheck, dispatch | edits, deletions and competing instructions during a slow evaluation | no stale decision is dispatched, each message is dispatched once | `Evaluation` |
| Missed exits, `recovery.py` | recovery rows | `enqueue`, `assess`, `exit_guard`, `execute_exit` | replay on changed inventory | only sells, only what is owned, at most once | `Recovery` |
| Gateway reader, `gateway.py` | sessions, cache, cursors | observe, delete, verify, deliver | reconnects, edits racing verification | order of events, only current revisions verified | `Gateway` |
| Gateway access, `gateway.py` | readiness and failure per channel, `provider_retry_at`, session generation | passes of lookups and history reads, rechecks, access events | answers overtaken by events, 429 for all, reconnects | Retry-After is kept, a channel that is gone is not ready, a changed one is tried | `Access` |
| Position monitors, `monitoring.py` | `position_monitors`, one task per monitor | `arm`, `save`, `poll_once`, `observe`, `evaluate`, `guard` | compare-and-swap against the poll loop, cancellation, restart | one instruction watches, one sale per monitor, of its own entry, every monitor ends | `Monitor` |
| Watched entries, `watch.py` | `entries`, the broker's prepared contracts | `note`, `resolve`, `match`, `refresh`, `run` | a watch replaced, evicted or resolved again while an entry goes by it | the alert stands when the entry is sent; every hot watch is polled | `Watch`, `Rotation` |
| Market handoff, `broker.py` | snapshot and quotes kept warm, `_watch_generation`, execution scope | refresh, invalidate, plan, prepare, call | a refresh that began before an order ends after it | an entry goes by what was read after the last call | `Market` |
| Read budget, `broker._BrokerReadBudget` | two rolling windows, tokens, cool-down | admit, wait, cancel, cool down | many callers, cancelled waits | no window holds more than its limit | `ReadBudget` |
| Account snapshot, `RobinhoodBroker.snapshot` | the two reads | read positions and orders, combine | fills and cancellations between the reads | errs on the safe side, for sells and buys | `Snapshot` |
| Contract lookup, `nearest_expiry` | the lookup under way | calendar, bulk query, exact reads | incomplete answers, listings meanwhile | the day asked for is only passed over when it is not listed | `Listing` |
| Paper broker, `PaperBroker`, `cli.paper_broker` | orders, positions, cash | submit, cancel, restore | a restart forgets the orders | books agree, no sell beyond the position, any restart succeeds | `Paper` |
| Notification outbox, `notifications.py` | `meta`, `dedup`, `outbox`, back-off | baseline, scan, flush, fail, give up | crash between send and mark, change of the webhook | the record is true, a new destination gets no old news, all news are told | `Outbox` |
| Worker and modes, `service.py`, `setup.py` | configuration, STOP marker, runtime status, live ledger | pause, resume, `set_mode`, load, watch, fail | two processes that share files only | who acts is who was chosen; nothing live is left behind; changes are loaded | `Modes` |
| Sign-in, `setup.py` | state and job of each provider | start, cancel, paste, install | threads and requests that come late | one outcome, the one shown | `SignIn` |
| Expiry exits, `expiry.py` | the orders of the policy | `check`, guard, exit, retry | refused, uncertain and interrupted attempts | one exit per entry is sent; an expiring position is not left | `Expiry` |
| Evaluation router, `evaluation.py`, `jev.py` | Codex lock, JEV permits, cool-down | route, shadow, fall back, retry, cancel | answers, refusals and cancellations in any order | every evaluation ends | `Router` |
| Sizing, `core.entry_size`, limit prices in `plan` | the order between plan and dispatch | price, size, review, check again | rounding across the tick cutoff, an account and a market that moved since, a stop that fills | what is sent is on a tick, is paid for and within the limits, or sells what is owned | `Sizing` |
| Discord browser reader, `browser.py` (`discord_*.py`: cookies and sign-in, left out) | `SnapshotTracker`, connection epochs, page | poll, reset, observe, hand over, verify | the page is scrolled, left, reloaded or disconnected between polls | only what came while the reader followed the channel is live | `Browser` |
| Episodes, resources, discovery files, runtime status | small tables or files | record | staleness | - | - |
| Interpreter and image text, dashboard, telemetry, static UI, ops scripts | none that trades | - | - | - | - |

How they meet:

- `Engine.lock`: message handling, monitors, missed exits, expiry and reconciliation all
  take it before they touch the account, so account work is sequential and everything
  else interleaves with it. The broker, the kill-switch file and the calendar do not
  take the lock.
- The ledger (SQLite): written by the relay's process, read by the notification worker
  and the dashboard, which are processes of their own.
- Files: the configuration and the STOP marker from dashboard to worker, the runtime
  status from worker to dashboard and notifications.
- The read budget stands between every caller and Robinhood; the watch market and the
  execution scope hand on what one read for another.

`PROJECT.json` lists every part with its status, and the hazards of the code with
the line where each bites and the properties that would catch it.

## 2. Plan

Done, in this order: what can lose money first (`Execution`, then `Gateway` to
`Signals`), then what decides that an order is made (`Monitor`, `Watch`, `Market`,
`Snapshot`, `Listing`, `Expiry`, `Modes`, `Paper`, `Sizing`), then what surrounds it (`ReadBudget`,
`Rotation`, `Outbox`, `SignIn`, `Router`, `Access`, `Browser`). Every safety property that a passing run checks,
action properties and type invariants included, is also a theorem.

Left, as far as it pays:

1. the composition of `Monitor` or `Expiry` with `Execution`: both use a reduced account today;
2. the verification of recoveries by the browser reader, episodes and runtime status;
3. proofs of what liveness rests on: that a batch of `Rotation` takes the watches whose turn is earliest, that who waits in
   the `line` of `Router` only moves forward.

All modules with proofs use functions and folds, no `RECURSIVE` operators.

## 3. Modules

| Module | Models |
| --- | --- |
| `Execution` | The live trading core. |
| `Custody` | What it promises about the account, without any of its mechanism. |
| `MCExecution` | Instances for TLC (symmetry). |
| `Gateway` | The Discord reader of one channel: cache, sessions, history pages, deliveries. |
| `Evaluation` | Stored messages, their evaluation and the decision to send an order; extends `Gateway`. |
| `Recovery` | The assessment and execution of missed exits; extends `Evaluation`. |
| `Signals` | The three composed in one process that stops, dies and starts again; properties. |
| `MCSignals` | Instances for TLC (what the messages say). |
| `Monitor` | Position monitors: rows, poll loop, evaluation tasks, sales. |
| `Watch`, `Rotation` | Watched entries and the contracts prepared for them; the sharing of quotes among them. |
| `Market` | The market data kept warm for an entry, and its handoff. |
| `ReadBudget` | The rolling windows of calls to Robinhood. |
| `Snapshot`, `Listing` | Two reads of the client that put several answers together: the account, and the nearest expiry. |
| `Paper` | The paper broker and its restore. |
| `Outbox` | The notification worker. |
| `Telling` | What it promises to the destination it serves, without its tables, crashes and retries. |
| `Modes` | Dashboard and worker during changes of mode and settings. |
| `SignIn` | The sign-in jobs. |
| `Expiry` | The exit on the last trading day. |
| `Sizing` | The price and the quantity of an order, and their checks before it is sent. |
| `MCSizing` | Quotes and accounts for TLC. |
| `Router` | JEV, Codex and the router in front of them. |
| `Access` | How the gateway reader proves that it may read its channels. |
| `Browser` | The reader that polls Discord's rendered page: what it tells as live, and what is verified before an order. |
| `MCParts` | Those fifteen in one instance for TLC. |
| `Execution_proofs`, `Protection_proofs` | Theorems about `Execution`: money and orders; what requests of protection mean. |
| `Signals_proofs`, `Messages_proofs` | Theorems about `Signals`: one order per message, of what is shown; the order of the messages. |
| `Monitor_proofs`, `Outbox_proofs`, `Sizing_proofs` | Theorems about these; the first one also about `Expiry`. |
| `Parts_proofs` | Theorems about the other parts of `MCParts`, a section for each, and about their composition. |

### `Execution` and the code

*State.* `orders`, `last`, `position`, `request` are the SQLite tables; an order's
number is its rowid, `known` says that its broker id is stored, `timed` that it has
an entry deadline. `pc` and `job` are the control point and the locals of the
coroutine that holds `Engine.lock`; `rows` and `todo` are what the current
reconciliation pass has still to do. `wire` holds orders sent and neither received nor lost,
`broker` and `acct` are the broker's truth. `kill` is the kill-switch file.

*Steps.* A step runs from one await to the next, with all the transactions in
between. Which function each action stands for is in the `map` of `PROJECT.json`; in outline:

- `Decide`: `ReserveEntry`, `StartExit`, `RefuseExit` (`Engine.plan` and the
  holds of `execute_decision`), `UpdateStop` (`StopLoss.update`).
- `Submit`: `verify_dispatch` (`HoldExit`, `ReserveExit`), the preflight of `submit` (`Review`,
  `PreflightHold`), the send (`Dispatch`), and its outcomes (`SubmissionAnswered`,
  `SubmissionUncertain`), shared by entries, exits and stops. `LeaveExit` is the `finally` of
  `execute_decision`.
- `Protect`: `StopLoss.cancel` with its status reads, `before_exit`, and `_arm` with all its exits.
  `Resume` is the return to the caller of `arm`, with the undo of `update`.
- `Reconcile`: one order per step, then one request per step.
- `Crash`: at any control point; the restart does what `Store.__init__` and the first
  pass of `cli.run` do. It also stands for a cancelled task and for a shutdown.
- `World`: a sent order arrives, is refused or is lost at any time, also after the relay gave up
  on it; contracts trade one by one; a cancellation may lose to a fill; the operator
  toggles the kill switch; contracts expire.

*Abstractions.* Prices are dropped, except the level of a stop. The
many checks of a message in front of an order are a guard that may fail at any
time: what passes in the code passes in the model, so safety is checked for
more behaviours than the code has. `acct` counts what came from the relay's own
orders; contracts of the account's owner are left out, which makes the inventory check of `Review`
stricter than in an account that holds more. `Review` reads the inventory and
reviews the order in one step. A broker state the client does not recognise is
`pending`, a cancellation under way reads as `open`. A hold of the read budget
at placement is `PreflightHold` at `dispatch`. Live mode only: paper mode fills at once and
shadow mode sends nothing; observe-only passes, which skip `maintain`, are not modelled.

### `Gateway`, `Evaluation`, `Recovery`, `Signals` and the code

*State.* `source` is what Discord shows. `cache` stands for `latest`, `invalidated` and
`recovery_candidates` of the reader; `ready` for `channel_ready`, which dies with a session;
`page` for the page of history between the server's answer and its observation. `inbox` is the
reader's queue, `queue` the evaluation queue with the tasks created and not begun.
`row`, `kind`, `event`, `generation`, `attempt`, `orders` and `position` are tables. `task` has the control
point and the claim of each `Engine.handle`; `rec`, `deferred`, `retry`, `scanned` and `swept` belong
to the recovery loop. `lock` is `Engine.lock`.

*Steps.* The reader observes, loses and finds sessions, loads history and
becomes ready when that has been delivered. `Deliver` stores an observation. A live message
is taken up (`Take...`), interpreted beside others, admitted under the lock, planned, reserved,
verified and sent; at each of these points it may be held. The recovery loop polls when nothing
else is at work; it walks the tables and picks the first pending row that is due
(`Poll`), has it interpreted and assessed, and executes an exit under the lock, with its guard before
every step. `Crash` loses memory only; `Stop` also runs what the code does on cancellation and
in the `finally` of `run`.

*Abstractions.* One source group, one channel, one contract. A message is its number, its text one
of two revisions, and what an evaluator may find in it a constant (`Meaning`). Age is a watermark
that moves on at any time, in the order the messages were posted. A connected
reader hears of edits and deletions at once; a lost heartbeat ends the session in the same step.
Quotes, account, confidence, market hours and the kill switch may hold anything at any time. How an order
is submitted, filled and reconciled is reduced to its outcomes, since `Execution`
has the detail; no quantity is filled before an order ends. An exit's origin is its own message.
Between a message's delivery and the start of its task a poll may come: the event loop
allows it, and the model has it.

### The parts around the core and the code

Each module begins with a comment that says what it stands for and what it leaves out; what
follows is how its state and steps lie on the code.

- `Monitor`. `monitors` is the table, `tasks` the coroutines of `evaluate` with their copy of the row,
  `polling` the row `poll_once` observes, `holder` is `Engine.lock`. Every write is the
  compare-and-swap of `save` (`Saved`) on the copy its writer has. A firing goes `PollRow`, `Triggered`,
  `BeginTask`, `Assessed`, `BeginSale`, `ReserveSale`, `SendSale`, `FinishSale`; `guard` is asked where the code
  asks it. `CancelTask` is what `run` does when messages come in, `EndProcess` a restart, which takes firings up
  again. Trades and stop fills of others move `entry` and `owned` (`Account`).
- `Watch`. `watch` has every alert that was noted, `kept` the bounded dictionary in its order, `warm` the broker's
  cache of prepared contracts. `BeginPrepare`, `Resolve`, `Prewarm` are the steps of `resolve`; `TakeEntry` to `SendEntry`
  the entry that uses a watch, with the second match of `verify_dispatch` (`StillMatches`).
- `Rotation`. One batch at a time (`BeginQuotes`, `EndQuotes`), of the watches whose last poll is furthest back; times are kept
  as ranks.
- `Market`. `generation` is `_watch_generation`; a snapshot carries the generation it was asked for, and, as a history
  variable, how many calls had been made when it was read.
- `ReadBudget`. Admissions are kept for good and the deque is what has not been dropped of them, so that the
  property can speak of any window of the past. `Mutate` is an order: admitted at once, or refused before it is sent.
- `Snapshot`, `Listing`. The answers come one by one while account or exchange go on; the last action puts them
  together as the code does.
- `Paper`. Broker state in memory (`orderBook`, `holding`, `bankroll`) against the ledger (`booked`), which `RestartPaper` restores from.
- `Outbox`. The tables of the worker, and `reached`, what really arrived where. A poll is two transactions (`BeginPoll`, `Scan`) and a
  flush, row by row, in which a message may arrive and the answer not.
- `Modes`. Two processes and four files. `set_mode` and the worker's start are two steps each, because the
  other process may act between them; a signature of the files is the number of writes so far.
- `SignIn`. What is done under `SetupManager._lock` is one step; `cancel_auth` joins and a pasted callback is forwarded without it.
  `installed` is the attempt whose account is bound or whose Codex login is in place, `stored` the one whose tokens Robinhood's token store has:
  the broker's login, or a refresh during the inspection, writes them there without the lock (`StoreTokens`), also when the attempt has been
  cancelled meanwhile, since the flag is looked at every 50 ms.
- `Expiry`. From check to answer under the lock, with time, market and crash in between. The id of an order is its
  entry and the number of refused attempts, as in the code.
- `Sizing`. `stage` is where `execute_decision` stands with its one `order`: priced and sized by `plan` from the account now or the snapshot kept
  by the watch poll (`known`), reviewed by `submit`, sent after `verify_dispatch`. `checked` is what it goes by: first what `plan` read, then the
  snapshot and the quote of the review, which may be the same ones. The code computes with decimals; here prices are whole cents, and
  a ceiling or a budget is cut to whole units, which changes no comparison with a whole price or cost. `StopFills` is the native stop that sells
  before `before_exit` has cancelled it. A fill is of any part of the order, at any price its limit allows, and the broker lets nobody spend more than
  the account has. How confidence and statistics make a share of the equity is a choice (`Share`); what a sale does to
  the worth of what is left, too.
- `Router`. `line` is `_codex_lock` with its waiters, `orphans` are threads whose caller was cancelled, `backoff` is `cooldown_until`.
- `Browser`. `view` is what `EXTRACT_MESSAGES_JS` would find in the tab (`blank`: no rows and no sign of loading), `epoch` its
  `connection_epoch`; `tracker`, `lastEpoch`, `unavailable` and `stalled` are the state of `SnapshotTracker` and `monitor`. A poll reads the page at one
  instant; `handing` holds its events while `on_message` is awaited one by one and the page goes on changing. `lost` and `doubtful` only observe:
  the reader has failed to read the end of the channel since it last did; messages that came then or during a break of the connection, or
  were there when one happened. `TurnPage` lets a user, or the page, change the tab within one document without limit.
  What an evaluator answers is left open.
- `Access`. `pass` is what holds `session_lock`, `call` its request, which Discord answers before the reader
  hears of it. `imposed` is a history variable: what is left of the longest Retry-After the reader was told. `link` is the websocket, `starting`
  counts the calls of `on_ready` and `on_resumed` that wait for the lock. `LoseConnection` cancels neither them nor a recheck (`recheck`): when the lock is
  free they begin without a connection, read by HTTP and make channels ready. `missed` are the channels deleted while the
  websocket was not up, until Discord repeats it (`ResumeConnection`) or a session begins on a connection.

*Composition.* These parts share no variable: what one needs of another is a choice in its own module (the
lock may be taken, a quote may fail). `MCParts` therefore declares them side by side, picks one in the
initial state (`part`) and leaves the rest at rest (`Rests`); the sign-ins of the two providers, which share
only the lock, are chosen one by one as well. A state of the composition is a state of one part, and an invariant of one part holds in the others' behaviours because it does in the initial state; the run checks the same
as fifteen runs would. A part with several initial states rests in one of them, so that no state is counted twice.

### `Custody`

Contracts held, and orders out. `Send` puts one order of a holding out when no
other is out, a sell only for what is held, an entry only into a flat holding; `Trade` and
`End` are the broker. `Execution` implements it under
`held <- acct`, `out <- Tickets`, where a ticket is an order on its way or
working at the broker - whatever the relay believes about it.

### `Telling`

A destination that is served, what was `old` when it was last taken up, what it is `owed`, what is `settled`, and what has been
`heard` where. `TakeUp` begins a destination (another one forgets what was owed), `Owe` adds what is neither old, owed nor
settled, `Tell` is heard of something owed, `Settle` strikes out what was heard. `Outbox` implements it: `serving` is the hash in
`notification_meta`, `old` what the ledger showed when the baseline of that destination began, `owed` the news of the rows that are
not sent (`Queued`), `settled` those of the sent rows and `heard` what the webhooks received. So a queued row is never lost or written
off without a delivery, whatever dies or is edited meanwhile; a destination is never told what was there before it; and
what is settled is not queued a second time.

## 4. Runs

| Run | Bounds | Checks |
| --- | --- | --- |
| `swap` | 1 holding, 2 stop levels, 3 orders, 2 contracts | `TypeOK`, `BooksBalance`, `OutIsSound`, `ActiveMeansCovered` |
| `reopen` | 1 holding, 4 orders, 1 contract, 1 extra status read | `NothingWrittenOff`, `CompleteMeansFlat`, `ImplementsCustody` |
| `live` | 1 holding, 2 orders, 1 contract, which may expire, `FairSpec` | `UncertainResolved`, `EndedStopNoticed` |
| `doc_resume` | 1 holding, 2 orders | violated: `ProtectionResumed` |
| `orders` | 3 messages (an entry, two exits), 2 sessions, 1 contract, none stale | `OrdersAreMeant` |
| `edits` | 2 messages, the second may be edited or deleted, 2 sessions | `LiveSentAsShown` |
| `judged` | 2 messages, 3 sessions and restarts, `FairSpec` | `TypeOK`, `OneOrderPerMessage`, `ObservedIsJudged` |
| `limits` | 2 orders, 4 quotes, 3 accounts, 2 alerts, 2 shares | `SizingTypeOK`, `OrderIsSound`, `FillsPay` |
| `parts` | fourteen of the parts one by one, see below | `PartsTypeOK`, `OneInstructionWatches`, `MonitorSellsItsOwn`, `TellsWhatIsOwed`, `OnlyFollowedIsLive`, `WindowsAreKept`, `HandoffFollowsLastCall`, `PreparedEntryStands`, `SnapshotErrsSafely`, `NoDateIsSkipped`, `PaperIsSound`, `ChosenModeActs`, `SignInOutcomeStands`, `OneExitPerEntry`, `RetryAfterIsKept`, `ReadyIsNotGone` |
| `parts_live` | the seven parts with something to finish, `PartsSpec` | `MonitorEnds`, `QueuedIsTold`, `ReadyIsPolled`, `ChangeIsLoaded`, `ExpiringIsExited`, `EvaluationEnds`, `ChangeIsTried` |
| `doc_source` | 2 messages, 2 sessions | violated: `UnavailableSourceKeepsExitPending` |
| `doc_pending` | 2 messages, 2 sessions, `FairSpec` | violated: `PendingIsAssessed` |

Four of these are conjunctions of named parts: `OutIsSound` of `OneOutstanding` (one order of a holding at a time) and `NoOversell`;
`OrdersAreMeant` of `OrdersFollowMessages` (in the order of the messages) and `ExitsFollowTheirEntry`; `OrderIsSound` of
`PreparedIsPlaceable`, `SentIsCovered`, `ManyWithinLimits` and `ExitIsOwned`; `FillsPay` of `EntryLeavesReserve` and `ProfitIsReal`.

Three orders are an entry, its stop and an exit or a replacement stop: the
smallest history in which two sells of one holding can compete. Two contracts
give partial fills, trims and a stop for a remainder. The fourth order of `reopen` buys the
contract again after entry, stop and exit, so that a request of the first entry meets the
second. TLC runs with one holding: another one's orders can only hold it back (an unresolved
order blocks every new one), and the proofs cover any number of holdings. The
liveness properties have not been checked with several. Two stop levels tell a replacement from a repetition;
they are symmetric because the code only compares them. `MaxPolls` is 3 in the code:
one further read differs from none, and each more repeats the same step. The code's limit
of 100 rows per pass is beyond `MaxOrders`. The proofs below hold for every value
of these bounds. The model may stop only when it is idle and nothing is left
to happen, which never is the case (`BeginReconcile`), so deadlock is checked in every run of `Execution`.

In `Signals`, an entry and two exits are the smallest history in which an old exit could
act after a newer one, and in which an exit could meet contracts bought after it was posted. With two
sessions a message can be missed, found in the history of the second one and recovered; with three there is a
restart, and a session after it, for messages that were cut off in the first. `MaxSession`
bounds sessions and restarts together, `MaxStale` the messages that may become stale. An exit is missed in two
ways, in the gap between sessions (`orders`) or because it became stale (`edits`, `judged`, with two
messages). These runs do stop when messages and sessions are used up, so deadlock is not checked there.

The two orders of `limits` are an entry and its exit. Its tick schedule (2 cents below 6, 5 from there on) is odd so that rounding an alert's ceiling down
crosses the cutoff: the ceiling 8 rounds to 5, which must be rounded again to 4; Robinhood's ordinary schedules never do this, and the code does not
rely on that. The accounts suffice for several contracts, for one by the fallback and for none, one of them because others have used up
the total exposure; one fee of a review is above the fee reserve. The bid of a quote can lie below the cost of a position, at it and above. The run may
stop when its orders are used up, but market and account go on, so there is no deadlock.

The bounds of `parts` are, part by part, the smallest with which the case the property is about occurs; each property's
mutant is caught under them.

- Two monitors and two entries, one restart: an old instruction and a new one, a position sold and
  bought again. `parts_live` has one of each, a renewal, and a message, which cancels an evaluation.
- Two webhooks and two edits: there and back. One item, one issue, one crash: the worker has one kind of row per table.
- A window of three ticks with three calls, two of them background, over four ticks: a window fills, empties and fills again, with
  two callers at once.
- Three orders for the market handoff (before, during and after a refresh), two alerts for one watched option and room for one:
  the second evicts the first.
- One contract and two working orders for the snapshot, one of each side, with one contract each; three dates, of which two in the bulk query.
- Three paper orders of up to two contracts, cash for a purchase of one and its fees: buy, sell, and an order that rests;
  one restart. A sale must pay its fee (`PaperFee <= PaperBid <= PaperAsk`): otherwise the
  paper broker could sell itself below zero, which real quotes of a tradable option do not allow.
- Three writes of the configuration and one failure: leave live, come back, and a write in between.
- Two attempts of a sign-in, since what comes late must belong to another attempt; two entries and two refusals at expiry.
- A message and a monitor's callback for the router, with both JEV permits (the line for Codex holds one that waits); two channels and one Retry-After for access, with three
  connections or changes: a connection, which is lost while its handler waits, a deletion during the session that begins without it, and
  a resumption that repeats the deletion.
- With room for one watch the run has no second watch of the same alert: that no newer one matches is left to the theorem `PreparedStands`.
- Two messages, an edit or deletion and a break of the page's connection for the browser reader, with room for one revision in its cache: a deletion
  makes a gap, a second message evicts the first, and each of the tracker's resets is needed (without any one of those for a pause, a new connection
  and a return, without the cutoff of an empty page, the high-water mark or the epoch in the verification, the property fails).
- Three hot watches, two of one contract (`RotationContract`), and one quote per batch: the smallest case in which sharing and rotation meet.

These parts stop when their bounds are used up, so deadlock is not checked in them.

The violated runs are disagreements between documents and code:

- `docs/container.md:174` says "Restart reconciliation resumes accepted protection
  requests"; `maintain` (`stops.py:282`) selects pending and active requests
  only, so one that an uncertain stop order left `blocked` waits for a new instruction,
  even after reconciliation has found that the order ended.
- `README.md:53` says a "temporarily unavailable source keeps a viable exit pending with a 30-second
  retry". In live mode the reader is asked only in `before_submit`, when the order is already reserved;
  `RobinhoodBroker.submit` makes a preflight hold of whatever is raised there
  (`broker.py:3034-3038`), so the order is rejected, the event is `held`, and as the message has an order
  it is never assessed again.
- `README.md:51` says that missed and stale alerts "receive a separate recovery assessment". A
  message that got its order while it was being assessed and was then cut off by a stop
  stays `recovery_pending`. `assess` finds the order and records nothing
  (`recovery.py:460-461`), and `consume` picks the same first row at every poll, so the rows behind it
  wait for ever. The counterexample gets there by an entry that is
  evaluated live and assessed at once; a stop during a catch-up's own submission does the same.

### Fairness

`FairSpec` adds to `Spec`:

- weak fairness of the task that holds the lock: each await ends with an answer or
  a time-out, and each exception is caught on the way to the lock's release;
- strong fairness of `BeginReconcile`: `reconcile_loop` asks for the FIFO
  `asyncio.Lock` again and again, so it gets it infinitely often;
- strong fairness of reading each order: a status read of an order the broker knows, tried
  again and again, succeeds in the end;
- the process does not die at work for ever. Restarts of an idle relay are not limited: such a
  restart is the same step as `BeginReconcile`.

Nothing is assumed of the broker, the operator or new decisions. Orders the broker
never received stay `unknown` for ever and block every entry: the code leaves
them to the operator, and `UncertainResolved` says nothing of them.

`FairSpec` of `Signals` assumes weak fairness of what the event loop schedules: the delivery
of observations, the start and the progress of each message's task, the poll of the recovery
loop (a one-second timer) and its assessment. Discord, the author, the broker's later
answers, retries and the clock are not fair. Restarts are bounded by `MaxSession`.

`PartsSpec` has each part's own fairness. At rest a part has nothing to do, except for the worker's loop in `Modes`,
whose fairness is therefore that of the part when it runs.

- `Monitor`: weak fairness of deadlines and of an observation under way; strong fairness where
  `Engine.lock` is needed (`PollRow`, `RunTask`, `CancelTask`, `Evaluated`): the lock is first come, first served, and other account work ends.
- `Outbox`: the worker polls for ever and time passes (weak); a ledger or a webhook that is asked
  again and again answers in the end (strong). The operator is not fair: `QueuedIsTold` ends when the webhook is changed.
- `Rotation`: the loop asks, and a batch ends, with or without its quotes. `Modes`: the worker's loop never waits for
  anyone, and the container restarts it. `Expiry`: the thirty-second task wakes, and an attempt under the lock goes on.
- `Router`: deadlines end JEV and Codex, and a free lock wakes its first waiter. Nothing is assumed of JEV's answers.
- `Access`: the reader's tasks go on, penalties run out, requests have deadlines. Discord's answers may be anything.

Each property of a passing run has a mutant: a variant of a mapped definition
with a plausible bug, named `Mutant of ...` beside it, under which TLC finds the
property violated.

## 5. Proofs

`Execution_proofs` proves, for every set of holdings and stop levels and all bounds (from
`ExecutionAssumption` only: the placeholders are not holdings or levels,
bounds are naturals):

- `TypeCorrect`, `NeverOversells` (`OutIsSound`), `NeverWrittenOff`, `BooksAlwaysBalance`:
  the invariants of the same runs;
- `Implements`: `Spec => ImplementsCustody`.

None of the invariants is inductive alone. That an exit does not oversell depends on the
stop having ended at the broker; that follows from the ledger's word for it only because finished
orders are finished at the broker (`NothingWrittenOff`), and the exit's
quantity fits only because the books balance and the task has read the position since (`Cleared`).
The inductive invariant is

    IInv == Core /\ Work

`Core` relates ledger to broker (`Numbered`, `FillsFollow`, `OneLive`, `Balanced`,
`Backed`, `NothingWrittenOff`); few steps touch what it speaks of, and each kind of change
(a reservation, a booked answer, a send, a trade, an end) has its lemma. `Work`
is what the task has established at each control point: the reserved order has not been
sent before dispatch (`Reserved`), nothing else of the holding is unfinished
when a sell is reserved (`Cleared`). `Invariance` shows `IInv` by `Decide`, `Submit`,
`Protect`, `Reconcile`, `Crash` and `World`, one lemma each with one step per action.

`Protection_proofs` proves of the same specification, with the same assumption,

- `ActiveIsCovered`: `Spec => []ActiveMeansCovered` and `ClosedMeansFlat`: `Spec => []CompleteMeansFlat`.

They need an invariant about requests at every control point, on top of `IInv`: `PInv`. A request names an entry of its
holding and a stop reserved after it, and a closed one cannot be reopened by fills still to come (`Requests`); no order of a
holding comes after one that is unfinished, an unfinished stop sells exactly what the ledger owns, and one that filled left nothing
unless an entry was made since (`Sequel`). Which requests may be called active without being covered for the moment is said by
`Loose`: any while orders are reconciled, those the pass has still to maintain, and the one whose stop is being placed
or replaced (`Sweep`, `Placing`, `Polling`, `Undoing`); `ActiveCovered` is the property for the others.

For `Implements`, all steps but `Dispatch`, `Arrive`, `Fill` and `EndOrder` leave the tickets
alone (`...IsStill`); those four are `Send`, a stutter or `End`, `Trade`, and `End`.

`Signals_proofs` proves, for any number of messages, sessions and contracts, any mutable
messages and any `Meaning` (no assumption on a constant is used):

- `MovesMoneyOnce`: `Spec => []OneOrderPerMessage`. `LedgerInv` adds that the ledger is a sequence
  of rows with an id. A row is only added for a message without one (`ReserveKeepsLedger`); everything
  else, a restart included, changes rows in place (`SameIdsSuffice`).
- `SentOnlyAsShown`: `Spec => LiveSentAsShown`. That a live candidate is what Discord shows
  (`LiveIsShown`) is not inductive: a page of history makes candidates of records, so these must not be
  live ones (`PageIsHistory`); an edit is heard only in a session and only of a known message, so
  nothing may count without either (`SessionHeld`, `CandidatesKnown`). `ReaderInv` is their conjunction,
  with one lemma per step of the reader. The engine's own checks are not needed for it.

`Messages_proofs` proves of the same specification, for any number of messages, sessions and contracts and any `Meaning`:

- `DoesAsMeant`: `Spec => []OrdersAreMeant`, and `SignalsTyped`.

`SInv` has the `ReaderInv` of `Signals_proofs` and four parts more. `Known`: what the relay has heard of was posted, so that the newest
message covers all it knows. `Types`. `Turn`: who is at work on an account step holds `Engine.lock`, alone, and what it is about to send
it has reserved, the only unsettled order. `Books`: the orders are of messages, at most one is open, what is owned was bought by one of
them, and the two properties. Each step is shown to keep each part, and the planning steps to keep `Books`: an exit's guard has
looked at the same books, because nothing else could reserve since.

`Monitor_proofs`, for any number of monitors, renewals, entries, messages and restarts:

- `NewestWatches`: `MonitorSpec => []OneInstructionWatches`. A saved row replaces the copy it was made from or
  nothing, so rows only go on from where they watch (`RowsGoOn`), and monitors are armed in the order of
  their numbers (`ArmedInOrder`); arming ends all the others in the same transaction.
- `SellsItsOwnOnce`: `MonitorSpec => []MonitorSellsItsOwn`. The heart is `SoldIsSettled`: a monitor that has sold has a task
  past its reservation or none, and a row that still watches shows its firing settled, which
  `PickedUp` and `BeginTask` respect. That the entry is the right one follows from the guard's reading at the reservation.
- `MonitorTypes`.

and of `Expiry`, for any number of entries, refusals and restarts:

- `SentOncePerEntry`: `ExpirySpec => []OneExitPerEntry`. All attempts of an entry but one were refused (`OneStands`), a refused one
  was never sent (`ExitRows`, `OnlyAttempt`), and between check and reservation nothing of the entry stands (`PlannedIsFree`).
- `ExpiryTypes`.

`Outbox_proofs`, for any items, webhooks and bounds:

- `RecordsAreTrue`: `OutboxSpec => []DeliveryIsTrue`. All rows are for the webhook the worker took up last, and it sends there
  (`ForTheHash`), because a poll under another webhook begins by dropping what was queued; what is about to
  be marked has arrived (`MarkedHasArrived`), whatever crash follows.
- `BaselineTellsNothing`: `OutboxSpec => BaselineIsSilent`. A baseline that was made knows every state an item had when it began, if the
  item is still in that state (`Baselined`): what is told afterwards is news.
- `Tells`: `OutboxSpec => TellsWhatIsOwed`, the refinement of `Telling`, step by step: a poll under another webhook is `TakeUp`, one that finds
  a new baseline due takes up the same destination again, a scan is `Owe`, a delivery `Tell`, its record `Settle`, and all else stutters. What
  makes it hold is that no two rows bear the same news (`OneRowEach`), so a scan only adds what is neither queued nor sent and a record strikes
  out one matter; that what is marked was heard (`MarkedHasArrived`) where the rows are for (`ForTheHash`); and `Baselined` for `old`.
- `OutboxTypes`. That a generation is within bounds needs `Counted`: it grows with the issues and never past them.

`Sizing_proofs`, for every configuration, every set of quotes and accounts and every fee:

- `CappedPricesArePlaceable`: `SizingSpec => []PreparedIsPlaceable`. If rounding has crossed the cutoff the price is rounded on the other tick and cannot
  cross back (`CappedPriceFacts`); two roundings are enough whatever the two ticks and the cutoff are.
- `EntriesAreCovered`, `ManyAreWithinLimits`: the budget is the least of the four limits (`BudgetIsLeast`), so a size is covered by the spendable
  part of the snapshot it is made from, by the fallback or by the division (`EntrySizeIsCovered`), and what the dispatch lets through is at most the
  size of the review's own snapshot.
- `ExitsAreOwned`: while a sell is out nothing else sells, and its quantity was compared with the position after its stop was cancelled.
- `ReserveIsKept`: `SizingSpec => EntryLeavesReserve`, `ProfitOnlyProfits`: `SizingSpec => ProfitIsReal`. A fill is of no more than the order, at no worse
  than its limit: the bound on the whole order bounds each part of it (`CostsNoMore`, `BringsNoLess`).
- `OrdersAreSound` and `FillsKeepPromises` put these together to the properties `OrderIsSound` and `FillsPay` of the run; `SizingTypes`.

`SizingInv` is the types with `EntryInv` and `ExitInv`: what has been established of an order at its stage. Nothing of it depends on market or
account, which move freely, but only on `checked`, which does not.

`Parts_proofs` has a section for each of the other parts, each with its type theorem:

- `ReadBudget`, for any limits and any callers: `WindowsKept`. What has been dropped had left
  the window by now (`DroppedGone`), so the call that comes `limit` admissions later is a window later.
- `Market`, for any number of orders: `HandoffIsCurrent`. The generation counts the calls, and nothing kept or under way
  that will be accepted is older than the last of them (`MarketInv`).
- `Modes`, for any number of writes and failures: `OnlyChosenModeActs`. Change ids only grow (`IdsInOrder`), a worker behind its
  configuration is paused (`BehindIsPaused`), and once live is left, or about to be, no planned order can pass its last check (`NothingGoesOut`).
- `Listing`, for any calendar: `DayIsNotSkipped`. Until the lookup has passed the day asked for, its contract can only have been
  listed since the lookup began; it passes it, or comes to a later day, only when the contract was absent then (`ListingInv`).
- `SignIn`, for any number of attempts: `OutcomeStands`. A sign-in shown as connected has ended, was not cancelled and is past every phase that a
  pasted callback looks for, so no token of its attempt is stored any more; who waits for the thread of an attempt has cancelled that attempt
  (`SignInInv`). What a cancelled attempt may still do is store Robinhood's tokens, see section 6.
- `Access`, for any channels but none: `NothingGoneIsReady`, `DeadlineIsKept`. A history that says a channel is open and will count is of a channel
  that exists, or whose deletion the reader has not been told because the connection was down (`AnswerStands`): an event that tells makes the request
  outdated, a lost connection the pass stale, and what was asked for without a connection can only miss a deletion that is in `missed`. The relay's
  `penalty` is the history variable `imposed`, always.
- `Watch`, for any number of watches: `PreparedStands`. The step that sends has matched the watch again; what remains for the invariant is that the
  entry asks for the contract it was resolved to from then on (`WatchInv`).
- `Browser`, for any number of messages and connections: `FollowedIsLive`. A reader that has lost the channel knows it at its next poll
  (`LossIsKnown`), and while it follows the channel every message in doubt that still stands is behind its high-water mark or
  its cutoff (`DoubtIsPast`); so nothing told or about to be told as live on this connection is in doubt (`LiveIsFollowed`).
- `Snapshot`, for any contracts and finitely many working orders: `SnapshotIsSafe`. Since the positions were read, and unless an order was placed,
  what is free has only grown, and what is held or to be bought only shrunk (`ReadStandsSafely`).
- `Paper`, for finitely many orders and any prices at which a sale pays its fee: `PaperStaysSound`. At most one fill is not in the ledger yet, and with it or
  without it there is no debt, of cash or of contracts (`PaperInv`); the second half is what a restart needs.
- `Router`, for any questions: `OneAtCodex`. The evaluation that Codex works on is the first of the line (`RouterInv`).
- `Rotation`: no rank exceeds the number of watches (`RanksTyped`), and one request never asks for more than the
  broker answers (`BatchFits`): the candidates are in one line (`TurnsOrder`), and the last watch of a batch has the others
  before it (`BatchIsLimited`).
- The composition: `PartsImplement` shows that `PartsSpec` implements each part's specification, with the part's own fairness (of `Modes` the
  steps only: its fairness in the composition is conditional), because a step of one part leaves every other alone. `PartsTypes` and `PartsAreSafe` follow:
  all safety properties of the run `parts`, for every value of every constant.

`Snapshot` and `Paper` add up orders. What is needed of a sum over a finite set - a member more, a member less, one value changed, no value negative -
is proved in the section "Sums" from the definition of the fold. The induction over the size of the set is made by its least
counterexample: a set of sizes without a least member is empty (`NoLeast`, from the well-foundedness of `<` on the naturals), which needs
no induction theorem with an operator as parameter. That a fold is what its definition says for a set is `SumsExist` and `SumsAgree`: a function with the
recursive equation exists, and two of them agree.

From which assumptions: each uses only the `ASSUME` of its module (bounds are naturals, limits positive,
placeholders are none of the real values, there is a channel and a contract to speak of, orders and watches are finitely many, a sale pays its fee).

Only model-checked: all liveness properties, since TLAPS does not prove liveness under fairness or
`ENABLED`. The inventory check of `Review` in `Execution` is in no proof: the order of the relay's own
steps is enough, and the broker's check is a second line of defence.

## 6. Divergences met without a run

Read in the code while it was modelled. The models have the behaviour of the code, and the properties say what holds all the same.

- `README.md:63` says "`UPDATE_STOP` does not install a protective stop."; `stops.py:164-278`
  reserves and submits one, and `docs/container.md` describes that at length (`UpdateStop`, `ReserveStop`).
- `evaluation.py:82-83` says "One Codex operation at a time"; a monitor's evaluation that is cancelled (`monitoring.py:391-402`) lets go of the lock while its
  process goes on, so two may run (`orphans` in `Router`).
- `docs/container.md:255` says a handoff is invalidated by "account/order changes"; it is invalidated when the relay calls, and a snapshot read after the
  call but before the broker has taken the order counts as current (`Market` counts calls for this reason).
- `gateway.py:392` is about keeping Discord's deadline over reconnects; a 429 to a lookup that a reconnect overtook is dropped
  with its Retry-After (`gateway.py:1070`, `LookupIsStale`). `RetryAfterIsKept` speaks of what the reader was told and kept.
- `jev.py:657`: a second 429 with a shorter Retry-After replaces a longer one (`JevRefuses`).
- `gateway.py:717`: a change of access that Discord announces before its 403 is not noticed; the channel waits for the next one.
- `gateway.py:436-459`: `on_disconnect` cancels nobody who waits for `session_lock`. When the connection is lost while `on_resumed` waits, its session begins
  offline (1271), reads histories by HTTP and makes channels ready (1225), and a deletion meanwhile is not noticed; a recheck looks at the connection only
  before it waits (732). So a channel may be ready without a connection, or be deleted already. `verify` and `observe` ask
  `connection_fresh` before they rely on it (884, 1445), and `ReadyIsNotGone` says what remains: no deletion that Discord told of, or a session after it could see.
- `setup.py:1992` says "Saved credentials were kept." of an attempt that failed; the tokens it got may have replaced Robinhood's before (`broker.py:781`),
  also those of a cancelled attempt (`StoreTokens`). `CancelledInstallsNothing` speaks of account binding and Codex login.
- `gateway.py:733`: a 401 inside a recheck stops the reader, where other passes ask for a new sign-in (`SessionRejected`).
- `broker.py:1976`: a buy that fills between the two reads, of a contract that was not listed, is in neither of them; `ExposureCoversListed`
  speaks of listed contracts.

## 7. Not modelled

Of section 1: sign-in and the saved session of the browser (navigation and cookies), resources, discovery files and runtime status
(records no order depends on), and episodes. Orders do depend on these: `core.handle` asks `resolve_episode` which position an exit is about, and
`guard_position_episode` turns one that it cannot place into a WAIT (`core.py:785`, `1027`, `1055`). In `Evaluation` any decision may end
without an order (`PlanHolds`), which is what such a WAIT comes to; when it must is not modelled.

`SetupManager.close` (`setup.py:785-803`) is not modelled: when the dashboard ends it cancels all jobs and
writes "cancelled" over what those that have ended reported, "connected" included. Of `Access`, not modelled are a health pass that waits because the lock is just being handed
on, and what a resumption repeats besides deletions and the creations after them.

The first four rows of section 1 are complete for live mode, except the session calls of the client; `Execution` leaves the prices out, which `Sizing` has. Messages, missed exits and the gateway are modelled as far as section 3 says: not
modelled are several groups, context from other messages (an exit's origin, the
episode), a monitor armed from a recovered message, cache bounds and the bound of the evaluation queue (one
synchronous step: the kill switch is set and the message stays stored). A missed exit can be sent on a message that
was edited or deleted while the history page that shows it was on its way: the model has
these behaviours, and `PROJECT.json` lists the hazard without a property, because nothing in
the code excludes it.

`Browser` has one channel: what the second adds are resets, when sign-in is pending in its tab. Its verification is that of live messages. A loss of
the page's own gateway connection that shows no banner at the time of a poll, and no offline event, leaves no trace in the browser: what came
meanwhile is told as live, which the code cannot tell and the property does not claim. Time is that of one clock, also where the code
compares Discord's timestamps with its own.

`Monitor` and `Expiry` reduce an order to its outcomes, since `Execution` has the detail; `Modes` has one live order. Trigger
conditions, what notices say, prompts and schemas of the evaluators, and the pages of the dashboard are left out.
