-------------------------------- MODULE Paper --------------------------------
(***************************************************************************)
(* PaperBroker (broker.py), the broker of paper mode, and paper_broker     *)
(* (cli.py), which restores it from the ledger at every start: it keeps    *)
(* its orders in memory only.  One contract, quoted at PaperAsk and        *)
(* PaperBid.  The ledger takes an answer some time after it was given, and *)
(* never when the process ends in between.                                 *)
(***************************************************************************)
EXTENDS Integers, FiniteSets, Functions

CONSTANTS
  PaperOrder,        \* client order ids
  PaperLot,          \* bound: contracts in an order
  PaperCash,         \* the configured bankroll, in contracts at a price of one
  PaperAsk, PaperBid,
  PaperFee,          \* fee_reserve_per_contract
  MaxPaperStart      \* bound: restarts

ASSUME PaperAssumption ==
  /\ {PaperLot, PaperAsk} \subseteq Nat \ {0}
  /\ {PaperCash, PaperBid, PaperFee, MaxPaperStart} \subseteq Nat
  /\ PaperFee <= PaperBid /\ PaperBid <= PaperAsk   \* a sale pays at least its fee
  /\ IsFiniteSet(PaperOrder)

VARIABLES
  holding,    \* positions
  bankroll,   \* buying_power
  orderBook,  \* orders and order_bodies, forgotten by a restart
  booked,     \* Store: what the ledger has of each order it reserved
  starts      \* restarts so far

paperVars == <<holding, bankroll, orderBook, booked, starts>>

\* "cross": a market sell, or a limit that the quote meets; the other limits and the stops rest.
PaperBody == [side: {"buy", "sell"}, cross: BOOLEAN, quantity: 1 .. PaperLot]

Unplaced == "none"
PaperStatus == {Unplaced, "reserved", "open", "filled", "canceled", "unknown"}
PaperPrice(body) == IF body.side = "buy" THEN PaperAsk ELSE PaperBid

\* Contracts and cash that filled orders brought in.
Bought(os, bodies) ==
  FoldFunctionOnSet(+, 0, [o \in PaperOrder |-> (IF bodies[o].side = "buy" THEN 1 ELSE -1)
                                                  * bodies[o].quantity], os)
Earned(os, bodies) ==
  FoldFunctionOnSet(+, 0, [o \in PaperOrder |-> (IF bodies[o].side = "buy" THEN -1 ELSE 1)
                                                  * PaperPrice(bodies[o]) * bodies[o].quantity
                                                - PaperFee * bodies[o].quantity], os)

\* A placed or booked order: [status, body].
FilledOrders(orders) == {o \in PaperOrder : orders[o].status = "filled"}
Bodies(orders) == [o \in PaperOrder |-> orders[o].body]
Unbooked == {o \in PaperOrder : orderBook[o].status \notin {Unplaced, booked[o].status}}
Reserved == {o \in PaperOrder : orderBook[o].status = "open" /\ orderBook[o].body.side = "sell"}
ReservedQuantity == FoldFunctionOnSet(+, 0, [o \in PaperOrder |-> orderBook[o].body.quantity], Reserved)

-----------------------------------------------------------------------------

\* The relay reserves an order, then submits it once.
Reserve(o, body) ==
  /\ booked[o].status = Unplaced
  /\ booked' = [booked EXCEPT ![o] = [status |-> "reserved", body |-> body]]
  /\ UNCHANGED <<holding, bankroll, orderBook, starts>>

\* A sell is within the position, less what resting sells may take.
Covered(body) ==
  body.side = "sell" => body.quantity + ReservedQuantity <= holding

Affordable(body) ==
  body.side = "buy" /\ body.cross => (PaperAsk + PaperFee) * body.quantity <= bankroll

\* submit, under Engine.lock, which the caller keeps until the ledger has the answer: an
\* order that crosses fills at once and in full, the others rest for ever.  A refused order
\* leaves no trace.
SubmitPaper(o) ==
  LET body == booked[o].body
      got == [orderBook EXCEPT ![o] = [status |-> IF body.cross THEN "filled" ELSE "open",
                                    body |-> body]]
  IN  /\ booked[o].status = "reserved" /\ orderBook[o].status = Unplaced
      /\ Unbooked = {}
      /\ Covered(body) /\ Affordable(body)
      /\ orderBook' = got
      /\ IF body.cross
         THEN /\ holding' = holding + Bought({o}, Bodies(got))
              /\ bankroll' = bankroll + Earned({o}, Bodies(got))
         ELSE UNCHANGED <<holding, bankroll>>
      /\ UNCHANGED <<booked, starts>>

\* cancel_order, of an order that rests.
CancelPaper(o) ==
  /\ orderBook[o].status = "open"
  /\ orderBook' = [orderBook EXCEPT ![o].status = "canceled"]
  /\ UNCHANGED <<holding, bankroll, booked, starts>>

\* An answer, or a later order_status, reaches the ledger.
Book(o) ==
  /\ o \in Unbooked
  /\ booked' = [booked EXCEPT ![o].status = orderBook[o].status]
  /\ UNCHANGED <<holding, bankroll, orderBook, starts>>

\* Mutant of RestoredCash: the bankroll of the configuration.
RestoredCashAnew == PaperCash

\* paper_broker: positions and cash by the ledger.
RestoredCash == PaperCash + Earned(FilledOrders(booked), Bodies(booked))

RestartPaper ==
  /\ starts < MaxPaperStart
  /\ starts' = starts + 1
  /\ RestoredCash >= 0
  /\ holding' = Bought(FilledOrders(booked), Bodies(booked))
  /\ bankroll' = RestoredCash
  /\ orderBook' = [o \in PaperOrder |-> [orderBook[o] EXCEPT !.status = Unplaced]]
  /\ booked' = [o \in PaperOrder |->
                 IF booked[o].status = "reserved" THEN [booked[o] EXCEPT !.status = "unknown"]
                 ELSE booked[o]]

PaperInit ==
  LET nothing == CHOOSE body \in PaperBody : TRUE
      none == [o \in PaperOrder |-> [status |-> Unplaced, body |-> nothing]]
  IN  /\ holding = 0 /\ bankroll = PaperCash /\ starts = 0
      /\ orderBook = none /\ booked = none

PaperNext ==
  \/ \E o \in PaperOrder :
       \/ \E body \in PaperBody : Reserve(o, body)
       \/ SubmitPaper(o)
       \/ CancelPaper(o)
       \/ Book(o)
  \/ RestartPaper

PaperSpec == PaperInit /\ [][PaperNext]_paperVars

-----------------------------------------------------------------------------

PaperTypeOK ==
  /\ holding \in Int /\ bankroll \in Int /\ starts \in 0 .. MaxPaperStart
  /\ {orderBook, booked} \subseteq [PaperOrder -> [status: PaperStatus, body: PaperBody]]

\* cli.py:46: "restarting cannot reset the bankroll".  Position and cash are those of the
\* ledger and of the fill it has not taken yet, over every restart.
PaperKeepsAccounts ==
  LET fills == FilledOrders(orderBook) \union FilledOrders(booked)
  IN  /\ holding = Bought(fills, Bodies(booked))
      /\ bankroll = PaperCash + Earned(fills, Bodies(booked))

\* Resting stops and limits never promise more contracts than are held, so a fill of any
\* of them is possible.
PaperSellsAreCovered == ReservedQuantity <= holding

\* Whenever the process ends, the next one can start: the ledger, with or without the last
\* fill, never shows more spent than the bankroll of the configuration.
PaperCanRestart == RestoredCash >= 0

\* The paper account is sound: the books agree, what it has promised to sell it has, and it
\* survives a restart at any moment.
PaperIsSound == PaperKeepsAccounts /\ PaperSellsAreCovered /\ PaperCanRestart
=============================================================================
