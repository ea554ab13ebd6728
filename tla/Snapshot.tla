------------------------------ MODULE Snapshot ------------------------------
(***************************************************************************)
(* RobinhoodBroker.snapshot (broker.py): the positions and the orders of   *)
(* the account are read at the same time, by calls that come back in any   *)
(* order, while the account owner and the exchange go on; what is free to  *)
(* sell and how much is at risk are put together from both.                *)
(*                                                                         *)
(* Prices are left out: a contract held or to be bought counts one.        *)
(***************************************************************************)
EXTENDS Integers, FiniteSets, Functions

CONSTANTS
  AccountContract,   \* contracts of the account
  WorkingOrder,      \* orders that may work at the broker
  MaxLot             \* bound: contracts an order is for, and contracts held at first

ASSUME SnapshotAssumption ==
  MaxLot \in Nat \ {0} /\ AccountContract # {} /\ IsFiniteSet(WorkingOrder)

VARIABLES
  contracts,  \* Robinhood's account: contracts held
  working,    \* and its orders
  ordered,    \* an order was placed since the snapshot began
  got,        \* the reads that have come back
  positions,  \* get_option_positions, as read
  orders,     \* get_option_orders, as read
  snapshot    \* snapshot(): under way, or what it returned

snapshotVars == <<contracts, working, ordered, got, positions, orders, snapshot>>

Result(state, available, exposure) ==
  [state |-> state, available |-> available, exposure |-> exposure]
NoContracts == [c \in AccountContract |-> 0]
RefusedSnapshot == Result("error", NoContracts, NoContracts)
ReadingSnapshot == Result("reading", NoContracts, NoContracts)

Sides == {"buy", "sell"}
NotPlaced == [contract |-> CHOOSE c \in AccountContract : TRUE, side |-> "buy", left |-> 0]

\* What is left of the orders of one side on a contract.
Promised(book, side, c) ==
  FoldFunctionOnSet(+, 0, [o \in WorkingOrder |-> book[o].left],
                    {o \in WorkingOrder : book[o].side = side /\ book[o].contract = c})

FreeContracts(c) == contracts[c] - Promised(working, "sell", c)

\* A position as Robinhood lists it; contracts that are not held are not listed.
Position(c) == [quantity |-> contracts[c],
                pendingBuy |-> Promised(working, "buy", c),
                pendingSell |-> Promised(working, "sell", c)]

Listed == {c \in AccountContract : positions[c].quantity > 0}

-----------------------------------------------------------------------------
(* The account: an order of the owner, a fill, a cancellation. *)

\* The broker takes no sell of contracts that are not held and free.
Place(o) ==
  /\ working[o].left = 0
  /\ \E c \in AccountContract, side \in Sides, n \in 1 .. MaxLot :
       /\ side = "sell" => n <= FreeContracts(c)
       /\ side = "buy" => contracts[c] + Promised(working, "buy", c) + n <= MaxLot + 1
       /\ working' = [working EXCEPT ![o] = [contract |-> c, side |-> side, left |-> n]]
  /\ ordered' = TRUE
  /\ UNCHANGED <<contracts, got, positions, orders, snapshot>>

FillOne(o) ==
  /\ working[o].left > 0
  /\ working' = [working EXCEPT ![o].left = @ - 1]
  /\ contracts' = [contracts EXCEPT ![working[o].contract] =
                 IF working[o].side = "buy" THEN @ + 1 ELSE @ - 1]
  /\ UNCHANGED <<ordered, got, positions, orders, snapshot>>

CancelRest(o) ==
  /\ working[o].left > 0
  /\ working' = [working EXCEPT ![o].left = 0]
  /\ UNCHANGED <<contracts, ordered, got, positions, orders, snapshot>>

-----------------------------------------------------------------------------
(* snapshot *)

BeginSnapshot ==
  /\ snapshot # ReadingSnapshot
  /\ snapshot' = ReadingSnapshot
  /\ got' = {} /\ ordered' = FALSE
  /\ UNCHANGED <<contracts, working, positions, orders>>

ReadPositions ==
  /\ snapshot = ReadingSnapshot /\ "positions" \notin got
  /\ positions' = [c \in AccountContract |-> Position(c)]
  /\ got' = got \union {"positions"}
  /\ UNCHANGED <<contracts, working, ordered, orders, snapshot>>

ReadOrders ==
  /\ snapshot = ReadingSnapshot /\ "orders" \notin got
  /\ orders' = working
  /\ got' = got \union {"orders"}
  /\ UNCHANGED <<contracts, working, ordered, positions, snapshot>>

\* A read fails, the others are cancelled.
FailSnapshot ==
  /\ snapshot = ReadingSnapshot /\ got # {"positions", "orders"}
  /\ snapshot' = RefusedSnapshot
  /\ UNCHANGED <<contracts, working, ordered, got, positions, orders>>

\* Mutant of Unavailable: the order list is believed.
UnavailableWorking(c) == Promised(orders, "sell", c)

\* What a sell may not use: the larger of the two reports.
Unavailable(c) ==
  IF positions[c].pendingSell > Promised(orders, "sell", c) THEN positions[c].pendingSell
  ELSE Promised(orders, "sell", c)

\* The buys the position read tells of are among the orders.
Represented(c) == positions[c].pendingBuy <= Promised(orders, "buy", c)

Consistent ==
  /\ \A c \in Listed : Represented(c) /\ Unavailable(c) <= positions[c].quantity
  /\ \A c \in AccountContract \ Listed : Promised(orders, "sell", c) = 0

EndSnapshot ==
  /\ snapshot = ReadingSnapshot /\ got = {"positions", "orders"}
  /\ snapshot' =
       IF ~Consistent THEN RefusedSnapshot
       ELSE Result("read",
              [c \in AccountContract |->
                 IF c \in Listed THEN positions[c].quantity - Unavailable(c) ELSE 0],
              [c \in AccountContract |-> positions[c].quantity + Promised(orders, "buy", c)])
  /\ UNCHANGED <<contracts, working, ordered, got, positions, orders>>

SnapshotInit ==
  /\ contracts \in [AccountContract -> 0 .. MaxLot]
  /\ working = [o \in WorkingOrder |-> NotPlaced]
  /\ ordered = FALSE
  /\ got = {} /\ snapshot = RefusedSnapshot
  /\ positions = [c \in AccountContract |-> Position(c)] /\ orders = working

SnapshotNext ==
  \/ \E o \in WorkingOrder :
       \/ Place(o)
       \/ FillOne(o)
       \/ CancelRest(o)
  \/ BeginSnapshot
  \/ ReadPositions
  \/ ReadOrders
  \/ FailSnapshot
  \/ EndSnapshot

SnapshotSpec == SnapshotInit /\ [][SnapshotNext]_snapshotVars

-----------------------------------------------------------------------------

SnapshotTypeOK ==
  /\ \A c \in AccountContract : contracts[c] \in Nat /\ FreeContracts(c) >= 0
  /\ \A o \in WorkingOrder : working[o].side \in Sides /\ working[o].left \in 0 .. MaxLot
  /\ ordered \in BOOLEAN
  /\ got \subseteq {"positions", "orders"}
  /\ snapshot.state \in {"reading", "error", "read"}

\* broker.py:1970: whatever fills or is cancelled between the two reads, a snapshot that no order
\* overtook never calls free what is already promised to a working sell.
AvailableIsFree ==
  EndSnapshot /\ snapshot'.state = "read" /\ ~ordered =>
    \A c \in AccountContract : snapshot'.available[c] <= FreeContracts(c)

\* broker.py:1973: nor does it leave out a buy, filled or working, of a contract it lists.
ExposureCoversListed ==
  EndSnapshot /\ snapshot'.state = "read" /\ ~ordered =>
    \A c \in Listed : contracts[c] + Promised(working, "buy", c) <= snapshot'.exposure[c]

\* A snapshot that is accepted errs on the safe side, for sells and for buys.
SnapshotErrsSafely == [][AvailableIsFree /\ ExposureCoversListed]_snapshotVars
=============================================================================
