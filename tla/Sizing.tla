------------------------------- MODULE Sizing -------------------------------
(***************************************************************************)
(* What an order costs: the limit price and the quantity of an entry       *)
(* (core.entry_size, Engine.plan), the quantity of a trim, and the checks  *)
(* they meet again after the broker's review (Engine.verify_dispatch,      *)
(* RobinhoodBroker.submit), while the market and the account move.         *)
(*                                                                         *)
(* One contract is traded.  Prices are whole cents and money is in cents   *)
(* of a dollar times Lot / 100; shares are in parts of Whole.  The code    *)
(* computes in decimals: a budget or a ceiling is cut to whole units here, *)
(* which changes no comparison with a whole price or cost.                 *)
(***************************************************************************)
EXTENDS Integers

CONSTANTS
  Whole,         \* the parts a fraction of the configuration is expressed in
  Lot,           \* the multiplier of a contract
  FeeReserve,    \* fee_reserve_per_contract
  MaxPosition,   \* max_position_fraction
  MaxTotal,      \* max_total_exposure_fraction
  Reserve,       \* buying_power_reserve_fraction
  MaxChase,      \* max_chase_fraction
  MaxSpread,     \* max_spread_fraction
  Cutoff, BelowTick, AboveTick,  \* min_ticks of the contract
  Share,         \* shares of the equity that confidence or Kelly statistics may allot
  Alert,         \* alert prices
  Quotes,        \* quotes of the market
  Accounts,      \* what others may make of the account
  Fee,           \* fees a review may report
  Prices,        \* prices a fill may have
  MaxOrder       \* bound: orders

Quote == [bid: Nat \ {0}, ask: Nat \ {0}]

\* A snapshot: equity, buying power, exposure of this symbol and of all others, and the
\* contracts available to sell.
Account == [equity: Nat \ {0}, power: Nat, exposure: Nat, elsewhere: Nat, available: Nat]

ASSUME SizingAssumption ==
  /\ {Whole, Lot, BelowTick, AboveTick} \subseteq Nat \ {0}
  /\ {FeeReserve, MaxPosition, MaxTotal, Reserve, MaxChase, MaxSpread, Cutoff, MaxOrder} \subseteq Nat
  /\ Share \subseteq 1 .. Whole /\ Alert \subseteq Nat \ {0} /\ Fee \subseteq Nat
  /\ Prices \subseteq Nat \ {0}
  /\ Quotes \subseteq Quote /\ Accounts \subseteq Account

VARIABLES
  market,        \* the quote of the contract now
  account,       \* the account now
  known,         \* the snapshot of the last poll for watched entries
  owned,         \* the relay's position: contracts and their average price
  order,         \* the order that is prepared or out
  checked,       \* the snapshot and the quote the order goes by, and the fee of its review
  stage,         \* how far the order has come
  orders         \* orders so far

sizingVars == <<market, account, known, owned, order, checked, stage, orders>>

\* An entry is priced against an alert and takes a share of the equity; an exit may be for
\* profit only, or forced by the expiry of the contract.
Entry == [side: {"buy"}, quantity: Nat \ {0}, limit: Nat \ {0}, prepared: BOOLEAN,
          alert: Alert, share: Share]
Exit == [side: {"sell"}, quantity: Nat \ {0}, limit: Nat \ {0}, prepared: {FALSE},
         profitOnly: BOOLEAN, forced: BOOLEAN]
NoOrder == [side |-> "none"]

Checked == [account: Account, quote: Quote, fee: Nat]

-----------------------------------------------------------------------------
(* Arithmetic. *)

\* to_integral_value with ROUND_FLOOR and with ROUND_CEILING.
CeilDiv(a, b) == (a + b - 1) \div b
FloorTo(price, tick) == (price \div tick) * tick
CeilTo(price, tick) == CeilDiv(price, tick) * tick

TickAt(price) == IF price >= Cutoff THEN AboveTick ELSE BelowTick

\* quote: the coarser tick of bid and ask.
QuoteTick(q) == IF TickAt(q.bid) > TickAt(q.ask) THEN TickAt(q.bid) ELSE TickAt(q.ask)

\* _order_args and _prepared_order_args.
OnTick(price) == price % TickAt(price) = 0

SpreadOK(q) == q.bid <= q.ask /\ (q.ask - q.bid) * Whole <= MaxSpread * q.ask

\* The most an alert lets an entry pay.
Ceiling(alert) == (alert * (Whole + MaxChase)) \div Whole

-----------------------------------------------------------------------------
(* entry_size. *)

PerContract(price) == price * Lot + FeeReserve

ReserveOf(a) == CeilDiv(a.equity * Reserve, Whole)

Spendable(a) == a.power - ReserveOf(a)

Limits(share, a) ==
  {(a.equity * share) \div Whole,
   (a.equity * MaxPosition) \div Whole - a.exposure,
   (a.equity * MaxTotal) \div Whole - (a.exposure + a.elsewhere),
   Spendable(a)}

Budget(share, a) == CHOOSE m \in Limits(share, a) : \A l \in Limits(share, a) : m <= l

CanEnter(a, price) == Spendable(a) >= PerContract(price)

\* Mutant of EntrySize: no contract where the budget is too small.
EntrySizeNone(share, a, price) == Budget(share, a) \div PerContract(price)

\* One affordable contract even if the budget is smaller.
EntrySize(share, a, price) ==
  IF Budget(share, a) < PerContract(price) THEN 1 ELSE Budget(share, a) \div PerContract(price)

-----------------------------------------------------------------------------
(* Engine.plan. *)

Planned(o, a) ==
  /\ order' = o /\ stage' = "planned" /\ orders' = orders + 1
  /\ checked' = [account |-> a, quote |-> market, fee |-> 0]
  /\ UNCHANGED <<market, account, known, owned>>

CanPlan == stage = "none" /\ orders < MaxOrder

Buy(a, alert, share, price, prepared) ==
  /\ CanEnter(a, price)
  /\ Planned([side |-> "buy", quantity |-> EntrySize(share, a, price), limit |-> price,
              prepared |-> prepared, alert |-> alert, share |-> share], a)

\* A watched entry is priced without a quote: at the ceiling, rounded down, and again when
\* rounding has crossed the cutoff.  Rounded to nothing it takes the other way.
CappedPrice(alert) ==
  LET once == FloorTo(Ceiling(alert), TickAt(Ceiling(alert)))
  IN  FloorTo(once, TickAt(once))

PlanPrepared(alert, share) ==
  /\ CanPlan /\ owned.quantity = 0
  /\ Ceiling(alert) > 0 /\ CappedPrice(alert) > 0
  /\ \E a \in {account, known} : Buy(a, alert, share, CappedPrice(alert), TRUE)

\* Any other entry pays the ask, rounded up.
PlanFresh(alert, share) ==
  /\ CanPlan /\ owned.quantity = 0
  /\ QuoteTick(market) <= market.ask /\ SpreadOK(market)
  /\ LET price == CeilTo(market.ask, QuoteTick(market)) IN
     /\ market.ask <= Ceiling(alert) /\ price <= Ceiling(alert)
     /\ \E a \in {account, known} : Buy(a, alert, share, price, FALSE)

\* How much of n contracts an exit sells: all, a count, a fraction rounded up, or half.
Trims(n) ==
  {n} \union (1 .. n) \union {CeilDiv(n * f, Whole) : f \in 1 .. Whole} \union {CeilDiv(n, 2)}

\* Mutant of ProfitOK: the fee of the entry is forgotten.
ProfitOKOneWay(o, price) ==
  /\ o.quantity <= owned.quantity
  /\ o.profitOnly => (o.limit - owned.cost) * Lot > FeeReserve

\* check_exit_profit: an exit sells what is owned; one for profit only sells above the cost and
\* the fees of both orders.
ProfitOK(o, price) ==
  /\ o.quantity <= owned.quantity
  /\ o.profitOnly => LET sold == IF price < o.limit THEN price ELSE o.limit
                     IN  (sold - owned.cost) * Lot > 2 * FeeReserve

SellPrice(q) == FloorTo(q.bid, QuoteTick(q))

PlanExit ==
  /\ CanPlan /\ owned.quantity > 0
  /\ QuoteTick(market) <= market.ask /\ market.bid <= market.ask
  /\ SellPrice(market) > 0
  /\ \E n \in Trims(owned.quantity), profitOnly \in BOOLEAN, forced \in BOOLEAN :
       LET o == [side |-> "sell", quantity |-> n, limit |-> SellPrice(market), prepared |-> FALSE,
                 profitOnly |-> profitOnly, forced |-> forced]
       IN  /\ forced => n = owned.quantity /\ ~profitOnly
           /\ forced \/ SpreadOK(market)
           /\ ProfitOK(o, o.limit)
           /\ Planned(o, account)

-----------------------------------------------------------------------------
(* RobinhoodBroker.submit and Engine.verify_dispatch. *)

\* The client reads the account and a review, unless what the plan read is young enough to be
\* used again; what is wrong then ends the order before it is sent, at once or at the dispatch.
Review(fee) ==
  /\ stage = "planned"
  /\ \E a \in {account, checked.account}, q \in {market, checked.quote} :
       /\ order.prepared => q = market
       /\ checked' = [account |-> a, quote |-> q, fee |-> fee]
       /\ IF /\ OnTick(order.limit)
             /\ order.side = "sell" => order.quantity <= a.available
             /\ order.side = "buy" => order.limit * Lot * order.quantity + fee <= a.power
          THEN stage' = "reviewed" /\ UNCHANGED order
          ELSE stage' = "none" /\ order' = NoOrder
  /\ UNCHANGED <<market, account, known, owned, orders>>

\* Mutant of Fits: the capacity of the account is not looked at again.
FitsCeiling(o, c) ==
  /\ o.limit <= Ceiling(o.alert)
  /\ o.prepared \/ c.quote.ask <= Ceiling(o.alert)

\* entry_chase and entry_capacity, with what the review was made of.
Fits(o, c) ==
  /\ o.limit <= Ceiling(o.alert)
  /\ o.prepared \/ c.quote.ask <= Ceiling(o.alert)
  /\ CanEnter(c.account, o.limit)
  /\ o.quantity <= EntrySize(o.share, c.account, o.limit)

Sells(o, c) == SellPrice(c.quote) > 0 /\ ProfitOK(o, SellPrice(c.quote))

Dispatch ==
  /\ stage = "reviewed"
  /\ IF /\ SpreadOK(checked.quote) \/ (order.side = "sell" /\ order.forced /\ checked.quote.bid <= checked.quote.ask)
        /\ order.side = "buy" => Fits(order, checked)
        /\ order.side = "sell" => Sells(order, checked)
     THEN stage' = "sent" /\ UNCHANGED order
     ELSE stage' = "none" /\ order' = NoOrder
  /\ UNCHANGED <<market, account, known, owned, checked, orders>>

\* The broker fills n contracts at a price no worse than the limit, and the order ends.
Bought(n, price) ==
  /\ order.side = "buy" /\ price <= order.limit
  /\ n * price * Lot + checked.fee <= account.power
  /\ owned' = [quantity |-> n, cost |-> price]
  /\ account' = [account EXCEPT !.power = @ - (n * price * Lot + checked.fee),
                                !.exposure = @ + n * price * Lot, !.available = @ + n]

Sold(n, price) ==
  /\ order.side = "sell" /\ price >= order.limit
  /\ n <= account.available /\ checked.fee <= account.power + n * price * Lot
  /\ owned' = [owned EXCEPT !.quantity = @ - n]
  /\ \E worth \in 0 .. account.exposure :
       account' = [account EXCEPT !.power = @ + n * price * Lot - checked.fee, !.exposure = worth,
                                  !.available = @ - n]

Ends(price) ==
  /\ stage = "sent"
  /\ \/ UNCHANGED <<owned, account>>
     \/ \E n \in 1 .. order.quantity : Bought(n, price) \/ Sold(n, price)
  /\ stage' = "none" /\ order' = NoOrder
  /\ UNCHANGED <<market, known, checked, orders>>

-----------------------------------------------------------------------------
(* The market, other users of the account, the native stop, and the poll of watched entries. *)

MarketMoves ==
  /\ market' \in Quotes
  /\ UNCHANGED <<account, known, owned, order, checked, stage, orders>>

AccountMoves ==
  /\ account' \in Accounts
  /\ UNCHANGED <<market, known, owned, order, checked, stage, orders>>

\* The stop of the position fills before an exit has it cancelled.
StopFills ==
  /\ stage \in {"none", "planned"}
  /\ \E n \in 1 .. owned.quantity : owned' = [owned EXCEPT !.quantity = @ - n]
  /\ UNCHANGED <<market, account, known, order, checked, stage, orders>>

Poll ==
  /\ known' = account
  /\ UNCHANGED <<market, account, owned, order, checked, stage, orders>>

SizingInit ==
  /\ market \in Quotes /\ account \in Accounts /\ known = account
  /\ owned = [quantity |-> 0, cost |-> 0]
  /\ order = NoOrder /\ stage = "none" /\ orders = 0
  /\ checked = [account |-> account, quote |-> market, fee |-> 0]

SizingNext ==
  \/ \E alert \in Alert, share \in Share : PlanPrepared(alert, share) \/ PlanFresh(alert, share)
  \/ PlanExit
  \/ \E fee \in Fee : Review(fee)
  \/ Dispatch
  \/ \E price \in Prices : Ends(price)
  \/ MarketMoves \/ AccountMoves \/ StopFills \/ Poll

SizingSpec == SizingInit /\ [][SizingNext]_sizingVars

-----------------------------------------------------------------------------

SizingTypeOK ==
  /\ market \in Quote /\ account \in Account /\ known \in Account
  /\ owned \in [quantity: Nat, cost: Nat]
  /\ order \in Entry \union Exit \union {NoOrder}
  /\ checked \in Checked
  /\ stage \in {"none", "planned", "reviewed", "sent"}
  /\ orders \in 0 .. MaxOrder

\* plan: an entry priced from the cached tick schedule, without a quote, passes the tick rule
\* the client applies later, on whichever side of the cutoff rounding left it, and pays no
\* more than the alert allows.
PreparedIsPlaceable ==
  stage # "none" /\ order.side = "buy" /\ order.prepared
    => OnTick(order.limit) /\ order.limit <= Ceiling(order.alert)

\* entry_size and verify_dispatch: the buying power of the snapshot an order is reviewed with pays
\* for it, with the fees of the review and with the reserve left alone, though it was sized on
\* another one.
SentIsCovered ==
  stage = "sent" /\ order.side = "buy"
    => LET power == checked.account.power IN
       /\ order.quantity * PerContract(order.limit) + ReserveOf(checked.account) <= power
       /\ order.limit * Lot * order.quantity + checked.fee <= power

\* entry_size: more than the one contract of the fallback is sent only within every limit.
ManyWithinLimits ==
  stage = "sent" /\ order.side = "buy" /\ order.quantity > 1
    => \A l \in Limits(order.share, checked.account) :
         order.quantity * PerContract(order.limit) <= l

\* verify_dispatch: an exit that is sent sells what is still owned, though contracts may have gone
\* to the stop since it was planned.
ExitIsOwned ==
  stage = "sent" /\ order.side = "sell" => order.quantity <= owned.quantity

\* plan, entry_size and verify_dispatch: an order that is sent can be placed, is paid for and within
\* the limits, or sells what is owned, though market and account have moved since it was planned.
OrderIsSound == PreparedIsPlaceable /\ SentIsCovered /\ ManyWithinLimits /\ ExitIsOwned

\* submit: an entry leaves the reserve in the account, when the account is still the one of its
\* review and the broker takes no more than the fees set aside.
EntryLeavesReserve ==
  [][(/\ stage = "sent" /\ order.side = "buy" /\ owned' # owned
      /\ account = checked.account /\ checked.fee <= order.quantity * FeeReserve)
       => account'.power >= ReserveOf(account)]_sizingVars

\* check_exit_profit: what an exit for profit only brings in is more than the contracts cost
\* and the fees set aside for buying and selling them.
ProfitIsReal ==
  [][stage = "sent" /\ order.side = "sell" /\ order.profitOnly /\ owned' # owned
       => LET sold == owned.quantity - owned'.quantity IN
          account'.power + checked.fee - account.power > sold * (owned.cost * Lot + 2 * FeeReserve)]_sizingVars

\* Fills keep what the checks in front of the order have promised.
FillsPay == EntryLeavesReserve /\ ProfitIsReal
=============================================================================
