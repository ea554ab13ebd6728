----------------------------- MODULE Execution -----------------------------
(***************************************************************************)
(* Order execution in live mode: the SQLite ledger (core.Store), the       *)
(* execution path of core.Engine, the protective stops (stops.StopLoss),   *)
(* order reconciliation (recovery.RecoveryEvaluator), a crash of the       *)
(* process at any point, and the broker as RobinhoodBroker uses it.        *)
(*                                                                         *)
(* One asyncio lock (Engine.lock) serialises everything that touches the   *)
(* account, so the relay is one process whose control point is "pc".       *)
(* The broker, the kill switch and the calendar move between any two of    *)
(* its steps.  A holding is a (source_group, contract) pair.               *)
(*                                                                         *)
(* Left out here: prices and averages, the message checks in front of an   *)
(* order (they appear as a guard that may fail at any time), paper and     *)
(* shadow mode.                                                            *)
(***************************************************************************)
EXTENDS Integers, FiniteSets, FiniteSetsExt

CONSTANTS
  Holding,      \* (source_group, contract) pairs the relay may trade
  NoHolding,    \* placeholder for "no holding"
  Price,        \* stop levels an instruction can name
  NoPrice,      \* placeholder for "no stop level"
  MaxOrders,    \* bound: orders ever reserved
  MaxQty,       \* bound: contracts in one entry
  MaxPolls,     \* further status reads of a cancellation before the relay gives up
  MayExpire     \* holdings whose contract expires while the model runs

ASSUME ExecutionAssumption ==
  /\ NoHolding \notin Holding
  /\ NoPrice \notin Price
  /\ MaxOrders \in Nat
  /\ MaxQty \in Nat
  /\ MaxPolls \in Nat
  /\ MayExpire \subseteq Holding

VARIABLES
  orders,    \* orders table: order number (rowid) -> row
  last,      \* highest order number in use
  position,  \* positions table: contracts the ledger says each holding owns
  request,   \* stop_requests table: one protection request per holding
  kill,      \* the kill switch file exists
  pc,        \* where the holder of Engine.lock is
  job,       \* what it is working on
  rows,      \* orders this reconciliation pass has still to read
  todo,      \* holdings whose protection this pass has still to maintain
  wire,      \* orders sent to the broker and neither received nor lost yet
  broker,    \* the broker's record of each order
  acct,      \* contracts the broker holds for the relay's own orders
  expired    \* holdings whose contract has expired

ledgerVars == <<orders, last, position, request>>
taskVars   == <<pc, job, rows, todo>>
brokerVars == <<wire, broker, acct>>
worldVars  == <<kill, expired>>
vars == <<ledgerVars, taskVars, brokerVars, worldVars>>

OrderId  == 1 .. MaxOrders
Terminal == {"filled", "canceled", "rejected"}
Resting  == {"open", "partially_filled"}
Status   == Terminal \union Resting \union {"unused", "submitting", "unknown", "pending"}

Order == [action: {"none", "OPEN", "EXIT", "UPDATE_STOP"},
          holding: Holding \union {NoHolding},
          kind: {"limit", "market", "stop_market"},
          qty: Nat, price: Price \union {NoPrice}, status: Status,
          known: BOOLEAN, filled: Nat, timed: BOOLEAN]

NoOrder == [action |-> "none", holding |-> NoHolding, kind |-> "limit", qty |-> 0,
            price |-> NoPrice, status |-> "unused", known |-> FALSE, filled |-> 0,
            timed |-> FALSE]

Request == [status: {"none", "pending", "active", "blocked", "complete"},
            entry: OrderId \union {0}, order: OrderId \union {0},
            price: Price \union {NoPrice}]

NoRequest == [status |-> "none", entry |-> 0, order |-> 0, price |-> NoPrice]

BrokerOrder == [state: {"absent", "working", "canceling"} \union Terminal, filled: Nat]

Job == [task: {"none", "open", "exit", "protect"}, holding: Holding \union {NoHolding},
        qty: Nat, owned: Nat, price: Price \union {NoPrice}, id: OrderId \union {0},
        polls: Nat, next: {"idle", "leave", "maintain", "undo"}, prev: Request]

NoJob == [task |-> "none", holding |-> NoHolding, qty |-> 0, owned |-> 0,
          price |-> NoPrice, id |-> 0, polls |-> 0, next |-> "idle", prev |-> NoRequest]

Control == {"idle", "verify", "review", "dispatch", "await", "cancel", "poll",
            "canceled", "arm", "resume", "leave", "recon", "maintain"}

-----------------------------------------------------------------------------
(* Reading the ledger and the broker. *)

IsLive(r)        == r.status \notin Terminal \union {"unused"}
IsRestingStop(r) == /\ r.action = "UPDATE_STOP"
                    /\ r.kind = "stop_market"
                    /\ r.status \in Resting
IsBuy(r)         == r.action = "OPEN"

LiveOrders == {o \in OrderId : IsLive(orders[o])}

\* Mutant of Unresolved: an order of unknown fate blocks nothing.
UnresolvedForgetsUnknown ==
  {o \in LiveOrders : ~IsRestingStop(orders[o]) /\ orders[o].status # "unknown"}

\* Store.unresolved: a confirmed resting stop does not block other orders.
Unresolved == {o \in LiveOrders : ~IsRestingStop(orders[o])}

\* StopLoss.active_orders.
ActiveStops(h) ==
  {o \in LiveOrders : orders[o].action = "UPDATE_STOP" /\ orders[o].holding = h}

\* StopLoss.entry_id: the newest entry of the holding with a fill, 0 if none.
FilledEntries(h) ==
  {o \in OrderId : orders[o].action = "OPEN" /\ orders[o].holding = h /\ orders[o].filled > 0}
EntryId(h) == IF FilledEntries(h) = {} THEN 0 ELSE Max(FilledEntries(h))

BrokerLive(o) == broker[o].state \in {"working", "canceling"}
Left(o) == orders[o].qty - broker[o].filled

\* Sell orders of a holding the broker may still execute.
PendingSells(h) ==
  {o \in OrderId : /\ orders[o].holding = h
                   /\ orders[o].action \in {"EXIT", "UPDATE_STOP"}
                   /\ BrokerLive(o)}

\* available_quantity of a broker snapshot: held, less what working sells reserve.
Available(h) == acct[h] - MapThenSumSet(Left, PendingSells(h))

\* What order_status may answer.  A state the relay does not recognise is
\* tracked as "pending"; pending_cancelled is reported as "open".
Reports(o) ==
  LET b == broker[o]
      asRead(s) == [status |-> s, filled |-> b.filled]
  IN  CASE b.state = "absent"    -> {}
        [] b.state = "working"   -> {asRead(IF b.filled = 0 THEN "open" ELSE "partially_filled"),
                                     asRead("pending")}
        [] b.state = "canceling" -> {asRead("open"), asRead("pending")}
        [] OTHER                 -> {asRead(b.state)}

-----------------------------------------------------------------------------
(* Ledger transactions. *)

Idle == pc' = "idle" /\ job' = NoJob

\* Mutant of ApplyResult: a sell's cumulative fill is booked with every answer.
ApplyResultTwice(o, v) ==
  LET r == orders[o]
      h == r.holding
  IN  /\ r.filled <= v.filled /\ v.filled <= r.qty
      /\ position' = [position EXCEPT ![h] = IF IsBuy(r) THEN @ + v.filled - r.filled
                                                         ELSE @ - v.filled]
      /\ orders' = [orders EXCEPT ![o].status = v.status, ![o].known = TRUE,
                                  ![o].filled = v.filled]

\* Store.apply_result: cumulative fills are booked once, with the position.
ApplyResult(o, v) ==
  LET r     == orders[o]
      h     == r.holding
      delta == v.filled - r.filled
  IN  /\ r.filled <= v.filled /\ v.filled <= r.qty
      /\ v.status = "filled" => v.filled = r.qty
      /\ r.status \in Terminal => v.status = r.status /\ v.filled = r.filled
      /\ ~IsBuy(r) => delta <= position[h]
      /\ position' = [position EXCEPT ![h] = IF IsBuy(r) THEN @ + delta ELSE @ - delta]
      /\ orders' = [orders EXCEPT ![o].status = v.status, ![o].known = TRUE,
                                  ![o].filled = v.filled]

\* Mutant of MarkUnknown: an order without an answer is taken for refused.
MarkRejected(o, learned) ==
  orders' = [orders EXCEPT ![o].status = IF IsLive(orders[o]) THEN "rejected" ELSE @,
                           ![o].known = @ \/ learned]

\* Store.mark_unknown, after apply_result may have stored the broker's id.
MarkUnknown(o, learned) ==
  orders' = [orders EXCEPT ![o].status = IF IsLive(orders[o]) THEN "unknown" ELSE @,
                           ![o].known = @ \/ learned]

\* Store.reserve.
Reserve(h, action, kind, qty, price) ==
  /\ last < MaxOrders
  /\ last' = last + 1
  /\ orders' = [orders EXCEPT ![last + 1] =
       [action |-> action, holding |-> h, kind |-> kind, qty |-> qty, price |-> price,
        status |-> "submitting", known |-> FALSE, filled |-> 0, timed |-> FALSE]]

\* Store.save_stop_request: the row is replaced, whatever it said before.
SavedRequest(h, entry, price) ==
  [request EXCEPT ![h] = [status |-> "pending", entry |-> entry, order |-> 0,
                          price |-> price]]

\* StopLoss.state, and back to whoever asked for the stop to be armed.
Settle(h, status, order) ==
  /\ request' = [request EXCEPT ![h].status = status,
                                ![h].order = IF order = 0 THEN @ ELSE order]
  /\ pc' = "resume"
  /\ UNCHANGED job

-----------------------------------------------------------------------------
(* Entries and exits: Engine.plan, verify_dispatch and _execute_decision. *)

\* An entry is planned only for a flat holding with nothing unresolved anywhere.
ReserveEntry(h, qty, price) ==
  /\ pc = "idle" /\ ~kill /\ h \notin expired
  /\ Unresolved = {} /\ position[h] = 0
  /\ Reserve(h, "OPEN", "limit", qty, NoPrice)
  /\ request' = IF price = NoPrice THEN request ELSE SavedRequest(h, last + 1, price)
  /\ pc' = "review"
  /\ job' = [NoJob EXCEPT !.task = "open", !.holding = h, !.price = price, !.id = last + 1]
  /\ UNCHANGED <<position, rows, todo, brokerVars, worldVars>>

\* A trim or close is planned, then any native stop is cancelled first.
StartExit(h, qty, price) ==
  /\ pc = "idle" /\ last < MaxOrders /\ h \notin expired
  /\ Unresolved = {} /\ qty \in 1 .. position[h]
  /\ ActiveStops(h) # {} => ~kill
  /\ pc' = IF ActiveStops(h) = {} THEN "verify" ELSE "cancel"
  /\ job' = [NoJob EXCEPT !.task = "exit", !.holding = h, !.qty = qty,
                          !.owned = position[h], !.price = price]
  /\ UNCHANGED <<ledgerVars, rows, todo, brokerVars, worldVars>>

\* The exit is held while it is planned, or because trading is paused; the
\* finally of execute_decision runs all the same.
RefuseExit(h) ==
  /\ pc = "idle"
  /\ pc' = "leave"
  /\ job' = [NoJob EXCEPT !.task = "exit", !.holding = h]
  /\ UNCHANGED <<ledgerVars, rows, todo, brokerVars, worldVars>>

\* verify_dispatch holds the exit before anything is reserved.
HoldExit ==
  /\ pc = "verify"
  /\ pc' = "leave"
  /\ UNCHANGED <<ledgerVars, job, rows, todo, brokerVars, worldVars>>

ReserveExit ==
  LET h == job.holding IN
  /\ pc = "verify" /\ ~kill
  /\ Reserve(h, "EXIT", "limit", job.qty, NoPrice)
  /\ request' = IF job.price = NoPrice THEN request ELSE SavedRequest(h, EntryId(h), job.price)
  /\ pc' = "review"
  /\ job' = [job EXCEPT !.id = last + 1]
  /\ UNCHANGED <<position, rows, todo, brokerVars, worldVars>>

-----------------------------------------------------------------------------
(* Submission, the same for an entry, an exit and a protective stop:       *)
(* RobinhoodBroker.submit and the callers' handling of its outcome.        *)

\* The snapshot and review reads; a sell must fit the broker's inventory.
Review ==
  /\ pc = "review"
  /\ ~IsBuy(orders[job.id]) => orders[job.id].qty <= Available(job.holding)
  /\ pc' = "dispatch"
  /\ UNCHANGED <<ledgerVars, job, rows, todo, brokerVars, worldVars>>

\* before_submit passes and the order leaves; a prepared entry gets its deadline.
Dispatch(timed) ==
  LET r == orders[job.id]
      h == job.holding
  IN  /\ pc = "dispatch" /\ ~kill
      /\ r.status = "submitting"
      /\ timed => IsBuy(r)
      /\ job.task = "protect" => position[h] = r.qty /\ EntryId(h) = request[h].entry
      /\ orders' = [orders EXCEPT ![job.id].timed = timed]
      /\ wire' = wire \union {job.id}
      /\ pc' = "await"
      /\ UNCHANGED <<last, position, request, job, rows, todo, broker, acct, worldVars>>

\* Where the caller goes when its order was not placed or its fate is unknown.
\* A stop's request is left "blocked" by a Hold and "pending" by a RetryHold.
AfterFailure(stopStatus) ==
  CASE job.task = "open"    -> Idle /\ UNCHANGED request
    [] job.task = "exit"    -> pc' = "leave" /\ UNCHANGED <<job, request>>
    [] job.task = "protect" -> Settle(job.holding, stopStatus, 0)

\* Mutant of PreflightHold: a failure after sending also rejects the reservation.
PreflightHoldAlways(stopStatus) ==
  LET r == orders[job.id] IN
  /\ pc \in {"review", "dispatch", "await"}
  /\ r.status = "submitting" /\ ~r.known /\ r.filled = 0
  /\ orders' = [orders EXCEPT ![job.id].status = "rejected"]
  /\ AfterFailure(stopStatus)
  /\ UNCHANGED <<last, position, rows, todo, brokerVars, worldVars>>

\* BrokerPreflightHold: nothing was sent, the reservation is rejected.  Only a
\* stop change whose instruction can no longer be verified stays blocked.
PreflightHold(stopStatus) ==
  LET r == orders[job.id] IN
  /\ pc \in {"review", "dispatch"}
  /\ stopStatus = "blocked" => job.next = "undo" /\ pc = "dispatch"
  /\ r.status = "submitting" /\ ~r.known /\ r.filled = 0
  /\ orders' = [orders EXCEPT ![job.id].status = "rejected"]
  /\ AfterFailure(stopStatus)
  /\ UNCHANGED <<last, position, rows, todo, brokerVars, worldVars>>

\* Any other exception, while reviewing or after sending: the outcome is
\* uncertain, though apply_result may have stored the broker's id already.
SubmissionUncertain(learned) ==
  /\ pc \in {"review", "await"}
  /\ learned => pc = "await" /\ broker[job.id].state # "absent"
  /\ MarkUnknown(job.id, learned)
  /\ AfterFailure("blocked")
  /\ UNCHANGED <<last, position, rows, todo, brokerVars, worldVars>>

\* Mutant of PlacedStopStatus: a refused stop closes the request.
PlacedStopDone(r, status) ==
  CASE status \in Terminal -> "complete"
    [] status \in Resting /\ r.kind = "stop_market" -> "active"
    [] OTHER -> "pending"

\* The stop request after the broker answered a stop submission.
PlacedStopStatus(r, status) ==
  CASE status = "filled" -> "complete"
    [] status \in Resting /\ r.kind = "stop_market" -> "active"
    [] status \in Terminal -> "blocked"
    [] OTHER -> "pending"

\* The broker answers; protection follows an exit or an entry with a stop.
SubmissionAnswered ==
  LET o == job.id
      h == job.holding
  IN  /\ pc = "await"
      /\ \E v \in Reports(o) :
           /\ ApplyResult(o, v)
           /\ CASE job.task = "protect" -> Settle(h, PlacedStopStatus(orders[o], v.status), o)
                [] job.task = "exit" /\ request[h].status # "none" ->
                     /\ pc' = "arm"
                     /\ job' = [NoJob EXCEPT !.task = "protect", !.holding = h, !.next = "leave"]
                     /\ UNCHANGED request
                [] job.task = "open" /\ job.price # NoPrice ->
                     /\ pc' = "arm"
                     /\ job' = [NoJob EXCEPT !.task = "protect", !.holding = h]
                     /\ UNCHANGED request
                [] OTHER -> Idle /\ UNCHANGED request
      /\ UNCHANGED <<last, rows, todo, brokerVars, worldVars>>

\* StopLoss.restore, in the finally of every exit.
LeaveExit ==
  LET h == job.holding IN
  /\ pc = "leave"
  /\ IF request[h].status = "pending"
       THEN /\ pc' = "arm"
            /\ job' = [NoJob EXCEPT !.task = "protect", !.holding = h]
       ELSE Idle
  /\ UNCHANGED <<ledgerVars, rows, todo, brokerVars, worldVars>>

-----------------------------------------------------------------------------
(* Cancelling a native stop: StopLoss.cancel and before_exit. *)

\* RobinhoodBroker.cancel_order: a finished order is only read.
CancelStop(o, accepted) ==
  /\ pc = "cancel" /\ o \in ActiveStops(job.holding) /\ orders[o].known
  /\ broker' = [broker EXCEPT ![o].state =
                  IF accepted /\ @ = "working" THEN "canceling" ELSE @]
  /\ pc' = "poll"
  /\ job' = [job EXCEPT !.id = o, !.polls = 0]
  /\ UNCHANGED <<ledgerVars, rows, todo, wire, acct, worldVars>>

\* The request an interrupted cancellation leaves behind.
CancelGivenUp ==
  IF job.task = "exit" THEN pc' = "leave" /\ UNCHANGED <<job, request>>
                       ELSE Settle(job.holding, "pending", 0)

\* Each answer is booked; only a terminal one confirms the cancellation.
PollCancel ==
  LET o == job.id IN
  /\ pc = "poll"
  /\ \E v \in Reports(o) :
       /\ ApplyResult(o, v)
       /\ CASE v.status \in Terminal ->
                 /\ pc' = IF ActiveStops(job.holding) = {o} THEN "canceled" ELSE "cancel"
                 /\ UNCHANGED <<job, request>>
            [] v.status \notin Terminal /\ job.polls < MaxPolls ->
                 /\ job' = [job EXCEPT !.polls = @ + 1]
                 /\ UNCHANGED <<pc, request>>
            [] OTHER -> CancelGivenUp
  /\ UNCHANGED <<last, rows, todo, brokerVars, worldVars>>

\* An unknown broker id, or any exception while cancelling or reading.
CancelFails ==
  /\ pc \in {"cancel", "poll"}
  /\ CancelGivenUp
  /\ UNCHANGED <<orders, last, position, rows, todo, brokerVars, worldVars>>

\* before_exit after the cancellation: a stop that filled wins over the exit.
ExitMayProceed ==
  LET h == job.holding IN
  /\ pc = "canceled" /\ job.task = "exit"
  /\ request' = IF request[h].status = "none" THEN request
                ELSE [request EXCEPT ![h].status = "pending"]
  /\ pc' = IF position[h] = job.owned THEN "verify" ELSE "leave"
  /\ UNCHANGED <<orders, last, position, job, rows, todo, brokerVars, worldVars>>

-----------------------------------------------------------------------------
(* Arming protection: StopLoss.update, _arm and arm. *)

\* A standalone stop instruction replaces the request and arms it.
UpdateStop(h, price) ==
  /\ pc = "idle" /\ ~kill /\ position[h] > 0
  /\ request' = SavedRequest(h, EntryId(h), price)
  /\ pc' = "arm"
  /\ job' = [NoJob EXCEPT !.task = "protect", !.holding = h, !.next = "undo",
                          !.prev = request[h]]
  /\ UNCHANGED <<orders, last, position, rows, todo, brokerVars, worldVars>>

\* The entry the request belongs to is gone: nothing to protect, or not yet.
ArmWithoutPosition ==
  LET h == job.holding
      q == request[h]
  IN  /\ pc = "arm"
      /\ \/ /\ position[h] = 0
            /\ Settle(h, IF q.entry # 0 /\ IsLive(orders[q.entry]) THEN "pending"
                         ELSE "complete", 0)
         \/ /\ position[h] > 0 /\ EntryId(h) # q.entry
            /\ Settle(h, "complete", 0)
      /\ UNCHANGED <<orders, last, position, rows, todo, brokerVars, worldVars>>

\* The position is owned and the request is for it.
ArmApplies(h) == pc = "arm" /\ position[h] > 0 /\ EntryId(h) = request[h].entry

\* Paused, or the contract has expired.
ArmPausedOrExpired ==
  LET h == job.holding IN
  /\ ArmApplies(h)
  /\ \/ kill /\ Settle(h, "pending", 0)
     \/ ~kill /\ h \in expired /\ Settle(h, "complete", 0)
  /\ UNCHANGED <<orders, last, position, rows, todo, brokerVars, worldVars>>

\* Mutant of Covers: a stop at another level will do.
CoversAtAnyPrice(o, h) ==
  /\ ActiveStops(h) = {o}
  /\ IsRestingStop(orders[o])
  /\ orders[o].qty - orders[o].filled = position[h]

\* The one live stop of the holding already covers exactly what is owned.
Covers(o, h) ==
  /\ ActiveStops(h) = {o}
  /\ IsRestingStop(orders[o])
  /\ orders[o].qty - orders[o].filled = position[h]
  /\ orders[o].price = request[h].price

ArmAlreadyActive ==
  LET h == job.holding IN
  /\ ArmApplies(h) /\ ~kill /\ h \notin expired
  /\ \E o \in ActiveStops(h) : Covers(o, h) /\ Settle(h, "active", o)
  /\ UNCHANGED <<orders, last, position, rows, todo, brokerVars, worldVars>>

\* A stop has to be placed or replaced.
ArmNeeded(h) ==
  /\ ArmApplies(h) /\ ~kill /\ h \notin expired
  /\ \A o \in ActiveStops(h) : ~Covers(o, h)

\* Another order is uncertain, the market is closed or a read is stale (RetryHold:
\* pending); a failed read or an unverifiable instruction (blocked).
ArmDeferred(status) ==
  LET h == job.holding IN
  /\ ArmNeeded(h)
  /\ status = "blocked" => Unresolved = {}
  /\ Settle(h, status, 0)
  /\ UNCHANGED <<orders, last, position, rows, todo, brokerVars, worldVars>>

\* The current stop, if any, is cancelled before its replacement is reserved.
ArmReplace ==
  LET h == job.holding IN
  /\ ArmNeeded(h) /\ Unresolved = {} /\ last < MaxOrders
  /\ pc' = IF ActiveStops(h) = {} THEN "canceled" ELSE "cancel"
  /\ job' = [job EXCEPT !.owned = position[h]]
  /\ UNCHANGED <<ledgerVars, rows, todo, brokerVars, worldVars>>

\* The old stop filled while it was being replaced.
ArmInventoryMoved ==
  LET h == job.holding IN
  /\ pc = "canceled" /\ job.task = "protect" /\ position[h] # job.owned
  /\ Settle(h, IF position[h] = 0 THEN "complete" ELSE "pending", 0)
  /\ UNCHANGED <<orders, last, position, rows, todo, brokerVars, worldVars>>

\* The stop for all that is owned is reserved; a level already reached is sold
\* with a market order instead.
ReserveStop(kind) ==
  LET h == job.holding IN
  /\ pc = "canceled" /\ job.task = "protect" /\ position[h] = job.owned
  /\ Reserve(h, "UPDATE_STOP", kind, position[h], request[h].price)
  /\ request' = [request EXCEPT ![h].status = "pending", ![h].order = last + 1]
  /\ pc' = "review"
  /\ job' = [job EXCEPT !.id = last + 1]
  /\ UNCHANGED <<position, rows, todo, brokerVars, worldVars>>

\* Back in the caller of arm.  A held stop change puts the previous request back.
Resume ==
  LET h    == job.holding
      undo == /\ job.next = "undo" /\ job.prev.status # "none" /\ Unresolved = {}
              /\ request[h].status \notin {"active", "complete"}
  IN  /\ pc = "resume"
      /\ request' = IF undo THEN [request EXCEPT ![h] = [job.prev EXCEPT
                                     !.status = "pending", !.order = request[h].order]]
                            ELSE request
      /\ IF undo
           THEN /\ pc' = "arm"
                /\ job' = [NoJob EXCEPT !.task = "protect", !.holding = h]
           ELSE IF job.next \in {"idle", "undo"} THEN Idle
           ELSE pc' = job.next /\ UNCHANGED job
      /\ UNCHANGED <<orders, last, position, rows, todo, brokerVars, worldVars>>

-----------------------------------------------------------------------------
(* Reconciliation: RecoveryEvaluator._reconcile_orders_once and maintain. *)

\* Mutant of BeginReconcile: only orders whose broker id is known are read.
BeginReconcileKnown ==
  /\ pc = "idle"
  /\ pc' = "recon"
  /\ rows' = {o \in LiveOrders : orders[o].known}
  /\ UNCHANGED <<ledgerVars, job, todo, brokerVars, worldVars>>

BeginReconcile ==
  /\ pc = "idle"
  /\ pc' = "recon"
  /\ rows' = LiveOrders
  /\ UNCHANGED <<ledgerVars, job, todo, brokerVars, worldVars>>

\* A prepared entry past its deadline is cancelled, then read below.
CancelExpiredEntry(o) ==
  /\ pc = "recon" /\ o \in rows
  /\ orders[o].timed /\ orders[o].known
  /\ broker[o].state = "working"
  /\ broker' = [broker EXCEPT ![o].state = "canceling"]
  /\ UNCHANGED <<ledgerVars, taskVars, wire, acct, worldVars>>

ReconcileOrder(o) ==
  /\ pc = "recon" /\ o \in rows
  /\ \E v \in Reports(o) : ApplyResult(o, v)
  /\ rows' = rows \ {o}
  /\ UNCHANGED <<last, request, pc, job, todo, brokerVars, worldVars>>

\* The read fails, the broker does not know the order, or the answer is
\* unusable.  A stop that cannot be confirmed is not called active any more.
ReconcileFails(o, learned) ==
  LET isStop == orders[o].action = "UPDATE_STOP" IN
  /\ pc = "recon" /\ o \in rows
  /\ learned => broker[o].state # "absent"
  /\ IF isStop THEN MarkUnknown(o, learned)
               ELSE orders' = [orders EXCEPT ![o].known = @ \/ learned]
  /\ request' = [h \in Holding |-> IF isStop /\ request[h].order = o
                                     THEN [request[h] EXCEPT !.status = "pending"]
                                     ELSE request[h]]
  /\ rows' = rows \ {o}
  /\ UNCHANGED <<last, position, pc, job, todo, brokerVars, worldVars>>

\* Mutant of BeginMaintain: an active stop is left to itself.
BeginMaintainPending ==
  /\ pc = "recon" /\ rows = {}
  /\ pc' = "maintain"
  /\ todo' = {h \in Holding : request[h].status = "pending"}
  /\ UNCHANGED <<ledgerVars, job, rows, brokerVars, worldVars>>

BeginMaintain ==
  /\ pc = "recon" /\ rows = {}
  /\ pc' = "maintain"
  /\ todo' = {h \in Holding : request[h].status \in {"pending", "active"}}
  /\ UNCHANGED <<ledgerVars, job, rows, brokerVars, worldVars>>

Maintain(h) ==
  /\ pc = "maintain" /\ h \in todo
  /\ todo' = todo \ {h}
  /\ IF request[h].order # 0 /\ orders[request[h].order].status = "filled"
       THEN /\ request' = [request EXCEPT ![h].status = "complete"]
            /\ UNCHANGED <<pc, job>>
       ELSE /\ pc' = "arm"
            /\ job' = [NoJob EXCEPT !.task = "protect", !.holding = h, !.next = "maintain"]
            /\ UNCHANGED request
  /\ UNCHANGED <<orders, last, position, rows, brokerVars, worldVars>>

EndMaintain ==
  /\ pc = "maintain" /\ todo = {}
  /\ Idle
  /\ UNCHANGED <<ledgerVars, rows, todo, brokerVars, worldVars>>

\* The process dies and is started again: Store.__init__ turns a reservation
\* into an unknown order, and cli.run reconciles before anything else.
Crash ==
  /\ orders' = [o \in OrderId |-> IF orders[o].status = "submitting"
                                    THEN [orders[o] EXCEPT !.status = "unknown"]
                                    ELSE orders[o]]
  /\ pc' = "recon"
  /\ job' = NoJob
  /\ rows' = LiveOrders
  /\ todo' = {}
  /\ UNCHANGED <<last, position, request, brokerVars, worldVars>>

-----------------------------------------------------------------------------
(* The broker, the operator and the calendar. *)

\* A request on its way is accepted, refused or lost, also after the relay
\* stopped waiting for it.
Arrive(o, state) ==
  /\ o \in wire
  /\ wire' = wire \ {o}
  /\ broker' = [broker EXCEPT ![o].state = state]
  /\ UNCHANGED <<ledgerVars, taskVars, acct, worldVars>>

\* One contract trades; a fill can win against a cancellation.
Fill(o) ==
  LET h == orders[o].holding IN
  /\ BrokerLive(o) /\ broker[o].filled < orders[o].qty
  /\ broker' = [broker EXCEPT ![o].filled = @ + 1,
                  ![o].state = IF broker[o].filled + 1 = orders[o].qty THEN "filled" ELSE @]
  /\ acct' = [acct EXCEPT ![h] = IF IsBuy(orders[o]) THEN @ + 1 ELSE @ - 1]
  /\ UNCHANGED <<ledgerVars, taskVars, wire, worldVars>>

\* A cancellation takes effect, or the broker ends the order itself.
EndOrder(o, state) ==
  /\ BrokerLive(o)
  /\ broker' = [broker EXCEPT ![o].state = state]
  /\ UNCHANGED <<ledgerVars, taskVars, wire, acct, worldVars>>

ToggleKill ==
  /\ kill' = ~kill
  /\ UNCHANGED <<ledgerVars, taskVars, brokerVars, expired>>

Expire(h) ==
  /\ h \in MayExpire \ expired
  /\ expired' = expired \union {h}
  /\ UNCHANGED <<ledgerVars, taskVars, brokerVars, kill>>

-----------------------------------------------------------------------------
Init ==
  /\ orders = [o \in OrderId |-> NoOrder]
  /\ last = 0
  /\ position = [h \in Holding |-> 0]
  /\ request = [h \in Holding |-> NoRequest]
  /\ kill = FALSE
  /\ pc = "recon"
  /\ job = NoJob
  /\ rows = {}
  /\ todo = {}
  /\ wire = {}
  /\ broker = [o \in OrderId |-> [state |-> "absent", filled |-> 0]]
  /\ acct = [h \in Holding |-> 0]
  /\ expired = {}

Decide ==
  \E h \in Holding :
    \/ \E q \in 1 .. MaxQty, p \in Price \union {NoPrice} :
         ReserveEntry(h, q, p) \/ StartExit(h, q, p)
    \/ RefuseExit(h)
    \/ \E p \in Price : UpdateStop(h, p)

Submit ==
  \/ HoldExit \/ ReserveExit \/ Review \/ SubmissionAnswered \/ LeaveExit
  \/ \E b \in BOOLEAN : Dispatch(b) \/ SubmissionUncertain(b)
  \/ \E s \in {"pending", "blocked"} : PreflightHold(s)

Protect ==
  \/ \E o \in OrderId, b \in BOOLEAN : CancelStop(o, b)
  \/ PollCancel \/ CancelFails \/ ExitMayProceed
  \/ ArmWithoutPosition \/ ArmPausedOrExpired \/ ArmAlreadyActive
  \/ \E s \in {"pending", "blocked"} : ArmDeferred(s)
  \/ ArmReplace \/ ArmInventoryMoved
  \/ \E k \in {"market", "stop_market"} : ReserveStop(k)
  \/ Resume

Reconcile ==
  \/ BeginReconcile \/ BeginMaintain \/ EndMaintain
  \/ \E o \in OrderId : CancelExpiredEntry(o) \/ ReconcileOrder(o)
  \/ \E o \in OrderId, b \in BOOLEAN : ReconcileFails(o, b)
  \/ \E h \in Holding : Maintain(h)

World ==
  \/ \E o \in OrderId :
       \/ \E s \in {"working", "rejected", "absent"} : Arrive(o, s)
       \/ Fill(o)
       \/ \E s \in {"canceled", "rejected"} : EndOrder(o, s)
  \/ ToggleKill
  \/ \E h \in Holding : Expire(h)

Next == Decide \/ Submit \/ Protect \/ Reconcile \/ Crash \/ World

Spec == Init /\ [][Next]_vars

\* The task that holds the lock goes on, since each of its awaits ends with an
\* answer or a time-out; the lock is FIFO and reconcile_loop asks for it again
\* and again; a status read of an order the broker knows succeeds in the end;
\* and the process does not die at work for ever.  (A restart of an idle relay is
\* the same step as BeginReconcile, so it is not counted.)
Fairness ==
  /\ WF_vars(Submit \/ Protect \/ Reconcile)
  /\ SF_vars(BeginReconcile)
  /\ \A o \in OrderId : SF_vars(ReconcileOrder(o))
  /\ <>[][pc # "idle" => ~Crash]_vars

FairSpec == Spec /\ Fairness

-----------------------------------------------------------------------------
(* What must hold. *)

\* Every variable keeps its type; in particular neither the ledger nor the
\* broker ever counts below zero contracts.
TypeOK ==
  /\ orders \in [OrderId -> Order]
  /\ last \in 0 .. MaxOrders
  /\ position \in [Holding -> Nat]
  /\ request \in [Holding -> Request]
  /\ pc \in Control
  /\ job \in Job
  /\ rows \subseteq OrderId
  /\ todo \subseteq Holding
  /\ wire \subseteq OrderId
  /\ broker \in [OrderId -> BrokerOrder]
  /\ acct \in [Holding -> Nat]
  /\ kill \in BOOLEAN
  /\ expired \subseteq Holding

\* Orders that may still trade: on their way, or working at the broker.
Outstanding == wire \union {o \in OrderId : BrokerLive(o)}

\* Whatever is lost, late, repeated or interrupted by a crash, an order that can
\* still sell never sells more contracts than the broker holds for the relay.
NoOversell ==
  \A o \in Outstanding : ~IsBuy(orders[o]) => Left(o) <= acct[orders[o].holding]

\* An entry, an exit and a protective stop of one holding never compete: at most
\* one of its orders can still trade, even one the relay has stopped waiting for.
OneOutstanding ==
  \A o, p \in Outstanding : orders[o].holding = orders[p].holding => o = p

\* What is out at the broker: one order of a holding, and a sell that the account covers.
OutIsSound == OneOutstanding /\ NoOversell

\* The ledger never writes an order off while it can still trade, and a
\* finished order has all its fills in the ledger.
NothingWrittenOff ==
  \A o \in OrderId : ~IsLive(orders[o]) =>
    o \notin Outstanding /\ orders[o].filled = broker[o].filled

\* The books balance: what the ledger owns of a holding differs from what the
\* broker holds only by the unbooked fills of its one live order.
BooksBalance ==
  \A h \in Holding :
    LET live == {o \in LiveOrders : orders[o].holding = h}
    IN  /\ live = {} => acct[h] = position[h]
        /\ \A o \in live :
             LET unbooked == broker[o].filled - orders[o].filled
             IN  acct[h] = IF IsBuy(orders[o]) THEN position[h] + unbooked
                                               ELSE position[h] - unbooked

\* A protection request is closed only when there is nothing left to protect:
\* the entry it belongs to is sold, or its contract has expired.
CompleteMeansFlat ==
  \A h \in Holding :
    request[h].status = "complete" /\ request[h].entry = EntryId(h)
      => position[h] = 0 \/ h \in expired

\* Whenever the lock is free, a request called active names a native stop order
\* that has not ended and is for exactly the contracts still owned, at the asked
\* price.  (Its cancellation may be under way: before_exit gives up on a slow
\* cancellation without touching the request.)
ActiveMeansCovered ==
  pc = "idle" =>
    \A h \in Holding : request[h].status = "active" =>
      LET r == orders[request[h].order]
      IN  /\ request[h].order \in ActiveStops(h) /\ r.kind = "stop_market"
          /\ r.qty - r.filled = position[h]
          /\ r.price = request[h].price

\* The account as Custody sees it: an order is out from its dispatch until it
\* is lost or ends at the broker, whatever the relay believes meanwhile.
Ticket(o) == [id |-> o, holding |-> orders[o].holding, buy |-> IsBuy(orders[o]),
              left |-> Left(o)]
Tickets == {Ticket(o) : o \in Outstanding}

C == INSTANCE Custody WITH held <- acct, out <- Tickets

\* Execution implements Custody: in every interleaving, crashes and lost answers
\* included, a sell leaves only with the contracts it needs in the account and
\* an entry only into a flat holding, one order of a holding at a time.
ImplementsCustody == C!Spec

\* An uncertain order the broker knows of does not stay uncertain: whatever
\* failed or crashed, reconciliation learns its state.
UncertainResolved ==
  \A o \in OrderId :
    orders[o].status = "unknown" /\ broker[o].state # "absent"
      ~> orders[o].status # "unknown"

\* A native stop that ended at the broker is not called active for ever.
EndedStopNoticed ==
  \A h \in Holding :
    request[h].status = "active" /\ broker[request[h].order].state \in Terminal
      ~> request[h].status # "active"

\* docs/container.md: "Restart reconciliation resumes accepted protection
\* requests": a pass maintains every request still open for an owned position.
ProtectionResumed ==
  [][ (pc = "recon" /\ pc' = "maintain") =>
        \A h \in Holding :
          /\ position[h] > 0 /\ request[h].entry = EntryId(h)
          /\ request[h].status \notin {"none", "complete"}
          => h \in todo' ]_vars
=============================================================================
