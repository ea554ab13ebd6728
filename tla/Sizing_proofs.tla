---------------------------- MODULE Sizing_proofs ----------------------------
(***************************************************************************)
(* Proofs about Sizing.                                                    *)
(***************************************************************************)
EXTENDS Sizing, TLAPS

LEMMA DivBounds ==
  ASSUME NEW a \in Int, NEW b \in Nat \ {0}
  PROVE  /\ a \div b \in Int
         /\ (a \div b) * b <= a /\ a < (a \div b) * b + b
         /\ a >= 0 => a \div b >= 0
         /\ a >= b => a \div b >= 1
  BY SMT

LEMMA MulMono ==
  ASSUME NEW a \in Int, NEW b \in Int, NEW c \in Nat, a <= b
  PROVE  a * c <= b * c
  BY SMT

LEMMA MulPositive ==
  ASSUME NEW a \in Nat \ {0}, NEW b \in Nat \ {0}
  PROVE  a * b \in Nat \ {0} /\ a <= a * b
  BY SMT

LEMMA MultipleMod ==
  ASSUME NEW k \in Nat, NEW b \in Nat \ {0}
  PROVE  (k * b) % b = 0
  BY SMT

LEMMA FloorToFacts ==
  ASSUME NEW price \in Nat, NEW tick \in Nat \ {0}
  PROVE  /\ FloorTo(price, tick) \in Nat
         /\ FloorTo(price, tick) <= price
         /\ FloorTo(price, tick) % tick = 0
  <1>1. price \div tick \in Nat /\ (price \div tick) * tick <= price
    BY DivBounds
  <1>2. (price \div tick) * tick \in Nat
    BY <1>1, SMT
  <1>3. ((price \div tick) * tick) % tick = 0
    BY <1>1, MultipleMod
  <1>. QED
    BY <1>1, <1>2, <1>3 DEF FloorTo

LEMMA MultipleKept ==
  ASSUME NEW price \in Nat, NEW tick \in Nat \ {0}, price % tick = 0
  PROVE  FloorTo(price, tick) = price
  <1>1. price = tick * (price \div tick) + (price % tick)
    BY SMT
  <1>. QED
    BY <1>1, DivBounds DEF FloorTo

LEMMA CeilDivPositive ==
  ASSUME NEW a \in Nat \ {0}, NEW b \in Nat \ {0}
  PROVE  CeilDiv(a, b) \in Nat \ {0}
  <1>1. a + b - 1 \in Int /\ a + b - 1 >= b
    OBVIOUS
  <1>2. (a + b - 1) \div b \in Int /\ (a + b - 1) \div b >= 1
    BY <1>1, DivBounds
  <1>. QED
    BY <1>2 DEF CeilDiv

LEMMA MinOfTwo ==
  ASSUME NEW a \in Int, NEW b \in Int
  PROVE  \E m \in {a, b} : m <= a /\ m <= b
  <1>1. CASE a <= b
    BY <1>1
  <1>2. CASE ~(a <= b)
    BY <1>2
  <1>. QED
    BY <1>1, <1>2

LEMMA MinOfFour ==
  ASSUME NEW a \in Int, NEW b \in Int, NEW c \in Int, NEW d \in Int
  PROVE  \E m \in {a, b, c, d} : \A l \in {a, b, c, d} : m <= l
  <1>1. PICK m \in {a, b} : m <= a /\ m <= b
    BY MinOfTwo
  <1>2. PICK n \in {c, d} : n <= c /\ n <= d
    BY MinOfTwo
  <1>3. m \in Int /\ n \in Int
    BY <1>1, <1>2
  <1>4. PICK k \in {m, n} : k <= m /\ k <= n
    BY <1>3, MinOfTwo
  <1>5. k \in {a, b, c, d} /\ k \in Int
    BY <1>1, <1>2, <1>3, <1>4
  <1>6. k <= a /\ k <= b
    BY <1>1, <1>3, <1>4, <1>5
  <1>7. k <= c /\ k <= d
    BY <1>2, <1>3, <1>4, <1>5
  <1>. QED
    BY <1>5, <1>6, <1>7

-----------------------------------------------------------------------------
(* entry_size. *)

LEMMA PerContractType ==
  ASSUME NEW price \in Nat \ {0}
  PROVE  PerContract(price) \in Nat \ {0} /\ price * Lot <= PerContract(price)
  <1>1. Lot \in Nat \ {0} /\ FeeReserve \in Nat
    BY SizingAssumption
  <1>2. price * Lot \in Nat \ {0}
    BY <1>1, MulPositive
  <1>. QED
    BY <1>1, <1>2 DEF PerContract

LEMMA ReserveType ==
  ASSUME NEW a \in Account
  PROVE  ReserveOf(a) \in Int /\ Spendable(a) \in Int
  <1>1. Whole \in Nat \ {0} /\ Reserve \in Nat /\ a.equity \in Nat /\ a.power \in Nat
    BY SizingAssumption DEF Account
  <1>2. a.equity * Reserve \in Nat
    BY <1>1, SMT
  <1>3. a.equity * Reserve + Whole - 1 \in Int
    BY <1>1, <1>2
  <1>4. ReserveOf(a) \in Int
    BY <1>1, <1>3, DivBounds DEF ReserveOf, CeilDiv
  <1>. QED
    BY <1>1, <1>4 DEF Spendable

LEMMA LimitsType ==
  ASSUME NEW a \in Account, NEW share \in Share
  PROVE  Limits(share, a) \subseteq Int
  <1>1. /\ Whole \in Nat \ {0} /\ MaxPosition \in Nat /\ MaxTotal \in Nat /\ share \in Nat
        /\ a.equity \in Nat /\ a.exposure \in Nat /\ a.elsewhere \in Nat
    BY SizingAssumption DEF Account
  <1>2. a.equity * share \in Int /\ a.equity * MaxPosition \in Int /\ a.equity * MaxTotal \in Int
    BY <1>1, SMT
  <1>3. /\ (a.equity * share) \div Whole \in Int
        /\ (a.equity * MaxPosition) \div Whole \in Int
        /\ (a.equity * MaxTotal) \div Whole \in Int
    BY <1>1, <1>2, DivBounds
  <1>4. (a.equity * MaxPosition) \div Whole - a.exposure \in Int
    BY <1>1, <1>3
  <1>5. (a.equity * MaxTotal) \div Whole - (a.exposure + a.elsewhere) \in Int
    BY <1>1, <1>3
  <1>. QED
    BY <1>3, <1>4, <1>5, ReserveType DEF Limits

\* The budget is the smallest of the limits.
LEMMA BudgetIsLeast ==
  ASSUME NEW a \in Account, NEW share \in Share
  PROVE  Budget(share, a) \in Int /\ \A l \in Limits(share, a) : Budget(share, a) <= l
  <1>. DEFINE L == Limits(share, a)
  <1>1. L \subseteq Int
    BY LimitsType
  <1>2. \E m \in L : \A l \in L : m <= l
    <2>. DEFINE p == (a.equity * share) \div Whole
                q == (a.equity * MaxPosition) \div Whole - a.exposure
                r == (a.equity * MaxTotal) \div Whole - (a.exposure + a.elsewhere)
                s == Spendable(a)
    <2>1. L = {p, q, r, s}
      BY DEF Limits
    <2>2. p \in Int /\ q \in Int /\ r \in Int /\ s \in Int
      BY <1>1, <2>1
    <2>. HIDE DEF p, q, r, s, L
    <2>. QED
      BY <2>1, <2>2, MinOfFour
  <1>3. Budget(share, a) \in L /\ \A l \in L : Budget(share, a) <= l
    <2>. HIDE DEF L
    <2>1. Budget(share, a) = CHOOSE m \in L : \A l \in L : m <= l
      BY DEF Budget, L
    <2>. QED
      BY <1>2, <2>1
  <1>. QED
    BY <1>1, <1>3

LEMMA EntrySizeType ==
  ASSUME NEW a \in Account, NEW share \in Share, NEW price \in Nat \ {0}
  PROVE  EntrySize(share, a, price) \in Nat \ {0}
  <1>1. PerContract(price) \in Nat \ {0} /\ Budget(share, a) \in Int
    BY PerContractType, BudgetIsLeast
  <1>2. CASE Budget(share, a) < PerContract(price)
    BY <1>2 DEF EntrySize
  <1>3. CASE ~(Budget(share, a) < PerContract(price))
    <2>1. Budget(share, a) >= PerContract(price)
      BY <1>1, <1>3
    <2>2. Budget(share, a) \div PerContract(price) \in Int /\ Budget(share, a) \div PerContract(price) >= 1
      BY <1>1, <2>1, DivBounds
    <2>. QED
      BY <1>3, <2>2 DEF EntrySize
  <1>. QED
    BY <1>2, <1>3

\* More than one contract never costs more than the budget.
LEMMA EntrySizeInBudget ==
  ASSUME NEW a \in Account, NEW share \in Share, NEW price \in Nat \ {0},
         NEW n \in Nat \ {0}, n <= EntrySize(share, a, price), n > 1
  PROVE  n * PerContract(price) <= Budget(share, a)
  <1>. DEFINE b == Budget(share, a)
              c == PerContract(price)
  <1>1. c \in Nat \ {0} /\ b \in Int
    BY PerContractType, BudgetIsLeast
  <1>2. EntrySize(share, a, price) = b \div c
    BY DEF EntrySize
  <1>. HIDE DEF b, c
  <1>3. b \div c \in Int /\ (b \div c) * c <= b
    BY <1>1, DivBounds
  <1>4. n <= b \div c
    BY <1>2
  <1>5. n * c <= (b \div c) * c
    BY <1>1, <1>3, <1>4, MulMono
  <1>6. n * c \in Int /\ (b \div c) * c \in Int
    BY <1>1, <1>3, SMT
  <1>7. n * c <= b
    BY <1>1, <1>3, <1>5, <1>6
  <1>. QED
    BY <1>7 DEF b, c

\* What entry_size grants is paid for by the buying power above the reserve.
LEMMA EntrySizeIsCovered ==
  ASSUME NEW a \in Account, NEW share \in Share, NEW price \in Nat \ {0},
         NEW n \in Nat \ {0}, n <= EntrySize(share, a, price), CanEnter(a, price)
  PROVE  n * PerContract(price) <= Spendable(a)
  <1>1. PerContract(price) \in Nat \ {0} /\ Spendable(a) \in Int /\ Budget(share, a) \in Int
    BY PerContractType, ReserveType, BudgetIsLeast
  <1>2. CASE n = 1
    BY <1>1, <1>2 DEF CanEnter
  <1>3. CASE n > 1
    <2>1. n * PerContract(price) <= Budget(share, a)
      BY <1>3, EntrySizeInBudget
    <2>2. Budget(share, a) <= Spendable(a)
      BY BudgetIsLeast DEF Limits
    <2>3. n * PerContract(price) \in Int
      BY <1>1, SMT
    <2>. QED
      BY <1>1, <2>1, <2>2, <2>3
  <1>. QED
    BY <1>2, <1>3

-----------------------------------------------------------------------------
(* Prices and quantities. *)

LEMMA TickType ==
  /\ \A price : TickAt(price) \in Nat \ {0}
  /\ \A q : QuoteTick(q) \in Nat \ {0}
  <1>1. \A price : TickAt(price) \in Nat \ {0}
    BY SizingAssumption DEF TickAt
  <1>. QED
    BY <1>1 DEF QuoteTick

LEMMA CeilingType ==
  ASSUME NEW alert \in Alert
  PROVE  Ceiling(alert) \in Nat
  <1>1. alert \in Nat /\ Whole \in Nat \ {0} /\ MaxChase \in Nat
    BY SizingAssumption
  <1>2. alert * (Whole + MaxChase) \in Nat
    BY <1>1, SMT
  <1>. QED
    BY <1>1, <1>2, DivBounds DEF Ceiling

\* Rounded twice, a capped price is on the tick of the side of the cutoff it ends on.
LEMMA CappedPriceFacts ==
  ASSUME NEW alert \in Alert
  PROVE  /\ CappedPrice(alert) \in Nat
         /\ CappedPrice(alert) <= Ceiling(alert)
         /\ OnTick(CappedPrice(alert))
  <1>. DEFINE c == Ceiling(alert)
              once == FloorTo(c, TickAt(c))
              twice == FloorTo(once, TickAt(once))
  <1>1. c \in Nat
    BY CeilingType
  <1>2. TickAt(c) \in Nat \ {0} /\ TickAt(once) \in Nat \ {0}
    BY TickType
  <1>. HIDE DEF c
  <1>3. once \in Nat /\ once <= c /\ once % TickAt(c) = 0
    BY <1>1, <1>2, FloorToFacts
  <1>. HIDE DEF once
  <1>4. twice \in Nat /\ twice <= once /\ twice % TickAt(once) = 0
    BY <1>2, <1>3, FloorToFacts
  <1>5. TickAt(twice) = TickAt(once)
    <2>1. CASE once < Cutoff
      <3>1. twice < Cutoff
        BY <1>3, <1>4, <2>1, SizingAssumption
      <3>. QED
        BY <1>3, <1>4, <2>1, <3>1, SizingAssumption DEF TickAt
    <2>2. CASE once >= Cutoff
      <3>1. c >= Cutoff
        BY <1>1, <1>3, <2>2, SizingAssumption
      <3>2. TickAt(c) = AboveTick /\ TickAt(once) = AboveTick
        BY <2>2, <3>1 DEF TickAt
      <3>3. twice = once
        BY <1>2, <1>3, <3>2, MultipleKept
      <3>. QED
        BY <3>3
    <2>. QED
      BY <1>3, <2>1, <2>2, SizingAssumption
  <1>6. CappedPrice(alert) = twice
    BY DEF CappedPrice, twice, once, c
  <1>. HIDE DEF twice
  <1>. QED
    BY <1>1, <1>3, <1>4, <1>5, <1>6 DEF OnTick, c

LEMMA TrimsType ==
  ASSUME NEW n \in Nat \ {0}
  PROVE  Trims(n) \subseteq Nat \ {0}
  <1>1. ASSUME NEW f \in 1 .. Whole
        PROVE  CeilDiv(n * f, Whole) \in Nat \ {0}
    <2>1. Whole \in Nat \ {0} /\ f \in Nat \ {0}
      BY SizingAssumption
    <2>2. n * f \in Nat \ {0}
      BY <2>1, MulPositive
    <2>. QED
      BY <2>1, <2>2, CeilDivPositive
  <1>2. CeilDiv(n, 2) \in Nat \ {0}
    BY CeilDivPositive
  <1>. QED
    BY <1>1, <1>2 DEF Trims

LEMMA SellPriceType ==
  ASSUME NEW q \in Quote
  PROVE  SellPrice(q) \in Nat
  <1>1. q.bid \in Nat /\ QuoteTick(q) \in Nat \ {0}
    BY TickType DEF Quote
  <1>. QED
    BY <1>1, FloorToFacts DEF SellPrice

LEMMA CeilToType ==
  ASSUME NEW price \in Nat \ {0}, NEW tick \in Nat \ {0}
  PROVE  CeilTo(price, tick) \in Nat \ {0}
  <1>1. CeilDiv(price, tick) \in Nat \ {0}
    BY CeilDivPositive
  <1>. QED
    BY <1>1, MulPositive DEF CeilTo

-----------------------------------------------------------------------------
(* The inductive invariant. *)

\* An entry keeps to its ceiling; once reviewed it is paid for, once sent it fits the account.
EntryInv ==
  order \in Entry =>
    /\ order.limit <= Ceiling(order.alert)
    /\ order.prepared => OnTick(order.limit)
    /\ stage \in {"reviewed", "sent"} =>
         order.limit * Lot * order.quantity + checked.fee <= checked.account.power
    /\ stage = "sent" => Fits(order, checked)

\* The cost of the position does not change under an exit; its contracts no more once it is sent.
ExitInv ==
  order \in Exit =>
    /\ order.profitOnly => (order.limit - owned.cost) * Lot > 2 * FeeReserve
    /\ stage = "sent" => order.quantity <= owned.quantity

SizingInv ==
  /\ SizingTypeOK
  /\ stage = "none" <=> order = NoOrder
  /\ EntryInv
  /\ ExitInv

LEMMA Sides ==
  ASSUME SizingTypeOK
  PROVE  /\ order \in Entry <=> order.side = "buy"
         /\ order \in Exit <=> order.side = "sell"
         /\ NoOrder \notin Entry /\ NoOrder \notin Exit
  <1>1. \A o \in Entry : o.side = "buy"
    BY DEF Entry
  <1>2. \A o \in Exit : o.side = "sell"
    BY DEF Exit
  <1>3. NoOrder.side = "none"
    BY DEF NoOrder
  <1>. QED
    BY <1>1, <1>2, <1>3 DEF SizingTypeOK

LEMMA SizingInitInv == SizingInit => SizingInv
  <1>. SUFFICES ASSUME SizingInit PROVE SizingInv
    OBVIOUS
  <1>1. market \in Quote /\ account \in Account
    BY SizingAssumption DEF SizingInit
  <1>2. SizingTypeOK
    BY <1>1, SizingAssumption DEF SizingInit, SizingTypeOK, Checked
  <1>3. order \notin Entry /\ order \notin Exit
    BY DEF SizingInit, NoOrder, Entry, Exit
  <1>. QED
    BY <1>2, <1>3 DEF SizingInit, SizingInv, EntryInv, ExitInv

\* An order planned within its ceiling or its profit starts within the invariant.
LEMMA PlannedInv ==
  ASSUME SizingInv, CanPlan, NEW o, NEW a \in Account, Planned(o, a),
         o \in Entry => o.limit <= Ceiling(o.alert) /\ (o.prepared => OnTick(o.limit)),
         o \in Exit => ProfitOK(o, o.limit),
         o \in Entry \union Exit
  PROVE  SizingInv'
  <1>1. SizingTypeOK'
    <2>1. orders + 1 \in 0 .. MaxOrder
      BY SizingAssumption DEF SizingInv, SizingTypeOK, CanPlan
    <2>2. order' \in Entry \union Exit \union {NoOrder}
      BY DEF Planned
    <2>3. checked' \in Checked
      BY DEF SizingInv, SizingTypeOK, Planned, Checked
    <2>. QED
      BY <2>1, <2>2, <2>3 DEF SizingInv, SizingTypeOK, Planned
  <1>2. o # NoOrder
    BY Sides DEF SizingInv
  <1>3. EntryInv'
    BY DEF EntryInv, Planned
  <1>4. ExitInv'
    BY DEF ExitInv, Planned, ProfitOK, CanPlan
  <1>. QED
    BY <1>1, <1>2, <1>3, <1>4 DEF SizingInv, Planned

LEMMA BuyInv ==
  ASSUME SizingInv, CanPlan, NEW a \in {account, known}, NEW alert \in Alert, NEW share \in Share,
         NEW price \in Nat \ {0}, NEW prepared \in BOOLEAN, Buy(a, alert, share, price, prepared),
         price <= Ceiling(alert), prepared => OnTick(price)
  PROVE  SizingInv'
  <1>. DEFINE o == [side |-> "buy", quantity |-> EntrySize(share, a, price), limit |-> price,
                    prepared |-> prepared, alert |-> alert, share |-> share]
  <1>1. a \in Account
    BY DEF SizingInv, SizingTypeOK
  <1>2. EntrySize(share, a, price) \in Nat \ {0}
    BY <1>1, EntrySizeType
  <1>3. o \in Entry /\ o \notin Exit
    BY <1>2 DEF Entry, Exit
  <1>4. Planned(o, a)
    BY DEF Buy
  <1>5. o.limit = price /\ o.alert = alert /\ o.prepared = prepared
    OBVIOUS
  <1>. HIDE DEF o
  <1>. QED
    BY <1>1, <1>3, <1>4, <1>5, PlannedInv

LEMMA PlanPreparedInv ==
  ASSUME SizingInv, NEW alert \in Alert, NEW share \in Share, PlanPrepared(alert, share)
  PROVE  SizingInv'
  <1>1. PICK a \in {account, known} : Buy(a, alert, share, CappedPrice(alert), TRUE)
    BY DEF PlanPrepared
  <1>2. CappedPrice(alert) \in Nat \ {0} /\ CappedPrice(alert) <= Ceiling(alert)
        /\ OnTick(CappedPrice(alert))
    BY CappedPriceFacts DEF PlanPrepared
  <1>3. CanPlan
    BY DEF PlanPrepared
  <1>. QED
    BY <1>1, <1>2, <1>3, BuyInv

LEMMA PlanFreshInv ==
  ASSUME SizingInv, NEW alert \in Alert, NEW share \in Share, PlanFresh(alert, share)
  PROVE  SizingInv'
  <1>. DEFINE price == CeilTo(market.ask, QuoteTick(market))
  <1>1. PICK a \in {account, known} : Buy(a, alert, share, price, FALSE)
    BY DEF PlanFresh
  <1>2. market.ask \in Nat \ {0} /\ QuoteTick(market) \in Nat \ {0}
    BY TickType DEF SizingInv, SizingTypeOK, Quote
  <1>3. price \in Nat \ {0}
    BY <1>2, CeilToType
  <1>4. price <= Ceiling(alert) /\ CanPlan
    BY DEF PlanFresh
  <1>. HIDE DEF price
  <1>. QED
    BY <1>1, <1>3, <1>4, BuyInv

LEMMA PlanExitInv ==
  ASSUME SizingInv, PlanExit
  PROVE  SizingInv'
  <1>. DEFINE Ordered(n, profitOnly, forced) ==
                [side |-> "sell", quantity |-> n, limit |-> SellPrice(market), prepared |-> FALSE,
                 profitOnly |-> profitOnly, forced |-> forced]
  <1>1. PICK n \in Trims(owned.quantity), profitOnly \in BOOLEAN, forced \in BOOLEAN :
          /\ ProfitOK(Ordered(n, profitOnly, forced), Ordered(n, profitOnly, forced).limit)
          /\ Planned(Ordered(n, profitOnly, forced), account)
    BY DEF PlanExit
  <1>2. owned.quantity \in Nat \ {0} /\ market \in Quote /\ CanPlan /\ SellPrice(market) > 0
    BY DEF SizingInv, SizingTypeOK, PlanExit
  <1>3. n \in Nat \ {0} /\ SellPrice(market) \in Nat \ {0}
    BY <1>1, <1>2, TrimsType, SellPriceType
  <1>4. Ordered(n, profitOnly, forced) \in Exit /\ Ordered(n, profitOnly, forced) \notin Entry
    BY <1>3 DEF Entry, Exit
  <1>5. account \in Account
    BY DEF SizingInv, SizingTypeOK
  <1>. HIDE DEF Ordered
  <1>. QED
    BY <1>1, <1>2, <1>4, <1>5, PlannedInv

\* An order that is given up.
LEMMA GivenUp ==
  ASSUME SizingInv, SizingTypeOK', order' = NoOrder, stage' = "none"
  PROVE  SizingInv'
  <1>1. NoOrder \notin Entry /\ NoOrder \notin Exit
    BY Sides DEF SizingInv
  <1>. QED
    BY <1>1 DEF SizingInv, EntryInv, ExitInv

LEMMA ReviewInv ==
  ASSUME SizingInv, NEW fee \in Fee, Review(fee)
  PROVE  SizingInv'
  <1>1. PICK a \in {account, checked.account}, q \in {market, checked.quote} :
          /\ checked' = [account |-> a, quote |-> q, fee |-> fee]
          /\ \/ /\ order.side = "buy" => order.limit * Lot * order.quantity + fee <= a.power
                /\ stage' = "reviewed" /\ UNCHANGED order
             \/ stage' = "none" /\ order' = NoOrder
    BY DEF Review
  <1>2. a \in Account /\ q \in Quote /\ fee \in Nat
    BY <1>1, SizingAssumption DEF SizingInv, SizingTypeOK, Checked
  <1>3. checked' \in Checked /\ checked'.account = a /\ checked'.fee = fee
    BY <1>1, <1>2 DEF Checked
  <1>4. SizingTypeOK'
    BY <1>1, <1>3 DEF SizingInv, SizingTypeOK, Review
  <1>5. CASE stage' = "none" /\ order' = NoOrder
    BY <1>4, <1>5, GivenUp
  <1>6. CASE /\ stage' = "reviewed" /\ UNCHANGED order
             /\ order.side = "buy" => order.limit * Lot * order.quantity + fee <= a.power
    <2>1. stage = "planned" /\ order # NoOrder /\ UNCHANGED owned
      BY DEF SizingInv, Review
    <2>2. EntryInv'
      BY <1>3, <1>6, Sides DEF SizingInv, EntryInv
    <2>3. ExitInv'
      BY <1>6, <2>1 DEF SizingInv, ExitInv
    <2>. QED
      BY <1>4, <1>6, <2>1, <2>2, <2>3 DEF SizingInv
  <1>. QED
    BY <1>1, <1>5, <1>6

LEMMA DispatchInv ==
  ASSUME SizingInv, Dispatch
  PROVE  SizingInv'
  <1>1. SizingTypeOK'
    BY DEF SizingInv, SizingTypeOK, Dispatch
  <1>2. CASE stage' = "none" /\ order' = NoOrder
    BY <1>1, <1>2, GivenUp
  <1>3. CASE /\ stage' = "sent" /\ UNCHANGED order
             /\ order.side = "buy" => Fits(order, checked)
             /\ order.side = "sell" => Sells(order, checked)
    <2>1. stage = "reviewed" /\ order # NoOrder /\ UNCHANGED <<owned, checked>>
      BY DEF SizingInv, Dispatch
    <2>2. order \in Entry => Fits(order, checked)
      BY <1>3, Sides DEF SizingInv
    <2>3. EntryInv'
      BY <1>3, <2>1, <2>2 DEF SizingInv, EntryInv
    <2>4. ExitInv'
      BY <1>3, <2>1, Sides DEF SizingInv, ExitInv, Sells, ProfitOK
    <2>. QED
      BY <1>1, <1>3, <2>1, <2>3, <2>4 DEF SizingInv
  <1>. QED
    BY <1>2, <1>3 DEF Dispatch

\* What n contracts come to is a whole amount.
LEMMA Worth ==
  ASSUME NEW n \in Nat, NEW price \in Nat
  PROVE  n * price * Lot \in Nat
  <1>1. Lot \in Nat
    BY SizingAssumption
  <1>2. n * price \in Nat
    BY SMT
  <1>. QED
    BY <1>1, <1>2, SMT

LEMMA BoughtType ==
  ASSUME SizingInv, NEW n \in Nat \ {0}, NEW price \in Nat \ {0}, Bought(n, price)
  PROVE  account' \in Account /\ owned' \in [quantity: Nat, cost: Nat]
  <1>. DEFINE worth == n * price * Lot
  <1>1. worth \in Nat /\ checked.fee \in Nat /\ account \in Account
    BY Worth DEF SizingInv, SizingTypeOK, Checked
  <1>2. /\ worth + checked.fee <= account.power
        /\ account' = [account EXCEPT !.power = @ - (worth + checked.fee), !.exposure = @ + worth,
                                      !.available = @ + n]
    BY DEF Bought
  <1>. HIDE DEF worth
  <1>3. /\ account.power - (worth + checked.fee) \in Nat
        /\ account.exposure + worth \in Nat /\ account.available + n \in Nat
    BY <1>1, <1>2 DEF Account
  <1>4. account' \in Account
    BY <1>1, <1>2, <1>3 DEF Account
  <1>5. owned' \in [quantity: Nat, cost: Nat]
    BY DEF Bought
  <1>. QED
    BY <1>4, <1>5

LEMMA SoldType ==
  ASSUME SizingInv, NEW n \in 1 .. order.quantity, NEW price \in Nat \ {0}, order \in Exit,
         stage = "sent", Sold(n, price)
  PROVE  account' \in Account /\ owned' \in [quantity: Nat, cost: Nat]
  <1>. DEFINE brought == n * price * Lot
  <1>0. n \in Nat /\ order.quantity \in Nat /\ n <= order.quantity
    BY DEF Exit
  <1>1. brought \in Nat /\ checked.fee \in Nat /\ account \in Account
    BY <1>0, Worth DEF SizingInv, SizingTypeOK, Checked
  <1>2. PICK worth \in 0 .. account.exposure :
          account' = [account EXCEPT !.power = @ + brought - checked.fee, !.exposure = worth,
                                     !.available = @ - n]
    BY DEF Sold
  <1>3. n <= account.available /\ checked.fee <= account.power + brought
    BY DEF Sold
  <1>. HIDE DEF brought
  <1>4. /\ account.power + brought - checked.fee \in Nat
        /\ worth \in Nat /\ account.available - n \in Nat
    BY <1>0, <1>1, <1>2, <1>3 DEF Account
  <1>5. account' \in Account
    BY <1>1, <1>2, <1>4 DEF Account
  <1>6. owned.quantity \in Nat /\ order.quantity <= owned.quantity
    BY DEF SizingInv, SizingTypeOK, ExitInv
  <1>7. owned.quantity - n \in Nat
    BY <1>0, <1>6
  <1>8. owned' \in [quantity: Nat, cost: Nat]
    BY <1>7 DEF SizingInv, SizingTypeOK, Sold
  <1>. QED
    BY <1>5, <1>8

LEMMA EndsInv ==
  ASSUME SizingInv, NEW price \in Prices, Ends(price)
  PROVE  SizingInv'
  <1>1. price \in Nat \ {0}
    BY SizingAssumption
  <1>2. account' \in Account /\ owned' \in [quantity: Nat, cost: Nat]
    <2>1. CASE UNCHANGED <<owned, account>>
      BY <2>1 DEF SizingInv, SizingTypeOK
    <2>2. ASSUME NEW n \in 1 .. order.quantity, Bought(n, price)
          PROVE  account' \in Account /\ owned' \in [quantity: Nat, cost: Nat]
      <3>1. order \in Entry
        BY <2>2, Sides DEF SizingInv, Bought
      <3>2. n \in Nat \ {0}
        BY <3>1 DEF Entry
      <3>. QED
        BY <1>1, <2>2, <3>2, BoughtType
    <2>3. ASSUME NEW n \in 1 .. order.quantity, Sold(n, price)
          PROVE  account' \in Account /\ owned' \in [quantity: Nat, cost: Nat]
      <3>1. order \in Exit
        BY <2>3, Sides DEF SizingInv, Sold
      <3>. QED
        BY <1>1, <2>3, <3>1, SoldType DEF Ends
    <2>. QED
      BY <2>1, <2>2, <2>3 DEF Ends
  <1>3. SizingTypeOK'
    BY <1>2 DEF SizingInv, SizingTypeOK, Ends
  <1>. QED
    BY <1>3, GivenUp DEF Ends

\* The rest leaves the order, what it was checked against and the position alone.
LEMMA OthersInv ==
  ASSUME SizingInv, MarketMoves \/ AccountMoves \/ Poll \/ UNCHANGED sizingVars
  PROVE  SizingInv'
  <1>1. UNCHANGED <<owned, order, checked, stage, orders>>
    BY DEF MarketMoves, AccountMoves, Poll, sizingVars
  <1>2. market' \in Quote /\ account' \in Account /\ known' \in Account
    BY SizingAssumption DEF SizingInv, SizingTypeOK, MarketMoves, AccountMoves, Poll, sizingVars
  <1>3. SizingTypeOK'
    BY <1>1, <1>2 DEF SizingInv, SizingTypeOK
  <1>4. EntryInv'
    BY <1>1 DEF SizingInv, EntryInv
  <1>5. ExitInv'
    BY <1>1 DEF SizingInv, ExitInv
  <1>. QED
    BY <1>1, <1>3, <1>4, <1>5 DEF SizingInv

LEMMA StopFillsInv ==
  ASSUME SizingInv, StopFills
  PROVE  SizingInv'
  <1>1. stage # "sent" /\ UNCHANGED <<market, account, known, order, checked, stage, orders>>
    BY DEF StopFills
  <1>2. PICK n \in 1 .. owned.quantity : owned' = [owned EXCEPT !.quantity = @ - n]
    BY DEF StopFills
  <1>3. owned \in [quantity: Nat, cost: Nat]
    BY DEF SizingInv, SizingTypeOK
  <1>4. owned' \in [quantity: Nat, cost: Nat] /\ owned'.cost = owned.cost
    BY <1>2, <1>3
  <1>5. SizingTypeOK'
    BY <1>1, <1>4 DEF SizingInv, SizingTypeOK
  <1>6. EntryInv'
    BY <1>1 DEF SizingInv, EntryInv
  <1>7. ExitInv'
    BY <1>1, <1>4 DEF SizingInv, ExitInv
  <1>. QED
    BY <1>1, <1>5, <1>6, <1>7 DEF SizingInv

LEMMA SizingStep == SizingInv /\ [SizingNext]_sizingVars => SizingInv'
  <1>. SUFFICES ASSUME SizingInv, [SizingNext]_sizingVars PROVE SizingInv'
    OBVIOUS
  <1>1. ASSUME NEW alert \in Alert, NEW share \in Share,
               PlanPrepared(alert, share) \/ PlanFresh(alert, share)
        PROVE  SizingInv'
    BY <1>1, PlanPreparedInv, PlanFreshInv
  <1>2. CASE PlanExit
    BY <1>2, PlanExitInv
  <1>3. ASSUME NEW fee \in Fee, Review(fee) PROVE SizingInv'
    BY <1>3, ReviewInv
  <1>4. CASE Dispatch
    BY <1>4, DispatchInv
  <1>5. ASSUME NEW price \in Prices, Ends(price) PROVE SizingInv'
    BY <1>5, EndsInv
  <1>6. CASE MarketMoves \/ AccountMoves \/ Poll \/ UNCHANGED sizingVars
    BY <1>6, OthersInv
  <1>7. CASE StopFills
    BY <1>7, StopFillsInv
  <1>. QED
    BY <1>1, <1>2, <1>3, <1>4, <1>5, <1>6, <1>7 DEF SizingNext

LEMMA SizingInvariant == SizingSpec => []SizingInv
  BY SizingInitInv, SizingStep, PTL DEF SizingSpec

-----------------------------------------------------------------------------

\* An order is of its kind, and its numbers are whole and, where they must be, positive.
THEOREM SizingTypes == SizingSpec => []SizingTypeOK
  <1>1. SizingInv => SizingTypeOK
    BY DEF SizingInv
  <1>. QED
    BY <1>1, SizingInvariant, PTL

\* For every tick schedule, a price capped without a quote is one the client accepts.
THEOREM CappedPricesArePlaceable == SizingSpec => []PreparedIsPlaceable
  <1>1. SizingInv => PreparedIsPlaceable
    BY Sides DEF SizingInv, EntryInv, PreparedIsPlaceable
  <1>. QED
    BY <1>1, SizingInvariant, PTL

\* What is sent is paid for by the buying power of the review, above the reserve.
LEMMA SentFits ==
  ASSUME SizingInv, stage = "sent", order.side = "buy"
  PROVE  /\ order \in Entry /\ checked \in Checked /\ Fits(order, checked)
         /\ order.limit * Lot * order.quantity + checked.fee <= checked.account.power
         /\ order.quantity * PerContract(order.limit) <= Spendable(checked.account)
  <1>1. order \in Entry /\ checked \in Checked
    BY Sides DEF SizingInv, SizingTypeOK
  <1>2. /\ Fits(order, checked)
        /\ order.limit * Lot * order.quantity + checked.fee <= checked.account.power
    BY <1>1 DEF SizingInv, EntryInv
  <1>3. /\ order.quantity \in Nat \ {0} /\ order.limit \in Nat \ {0} /\ order.share \in Share
        /\ checked.account \in Account
    BY <1>1 DEF Entry, Checked
  <1>4. order.quantity * PerContract(order.limit) <= Spendable(checked.account)
    BY <1>2, <1>3, EntrySizeIsCovered DEF Fits
  <1>. QED
    BY <1>1, <1>2, <1>4

THEOREM EntriesAreCovered == SizingSpec => []SentIsCovered
  <1>1. SizingInv => SentIsCovered
    <2>. SUFFICES ASSUME SizingInv, stage = "sent", order.side = "buy" PROVE SentIsCovered
      BY DEF SentIsCovered
    <2>1. checked.account \in Account /\ order.quantity \in Nat /\ order.limit \in Nat \ {0}
      BY SentFits DEF Checked, Entry
    <2>2. /\ ReserveOf(checked.account) \in Int /\ checked.account.power \in Int
          /\ PerContract(order.limit) \in Nat
      BY <2>1, ReserveType, PerContractType DEF Account
    <2>3. order.quantity * PerContract(order.limit) \in Int
      BY <2>1, <2>2, SMT
    <2>4. order.quantity * PerContract(order.limit) + ReserveOf(checked.account)
            <= checked.account.power
      BY <2>2, <2>3, SentFits DEF Spendable
    <2>. QED
      BY <2>4, SentFits DEF SentIsCovered
  <1>. QED
    BY <1>1, SizingInvariant, PTL

THEOREM ManyAreWithinLimits == SizingSpec => []ManyWithinLimits
  <1>1. SizingInv => ManyWithinLimits
    <2>. SUFFICES ASSUME SizingInv, stage = "sent", order.side = "buy", order.quantity > 1,
                         NEW l \in Limits(order.share, checked.account)
                  PROVE  order.quantity * PerContract(order.limit) <= l
      BY DEF ManyWithinLimits
    <2>1. /\ order.quantity \in Nat \ {0} /\ order.limit \in Nat \ {0} /\ order.share \in Share
          /\ checked.account \in Account
      BY SentFits DEF Entry, Checked
    <2>2. order.quantity * PerContract(order.limit) <= Budget(order.share, checked.account)
      BY <2>1, SentFits, EntrySizeInBudget DEF Fits
    <2>3. /\ Budget(order.share, checked.account) \in Int /\ l \in Int
          /\ Budget(order.share, checked.account) <= l
      BY <2>1, BudgetIsLeast, LimitsType
    <2>4. PerContract(order.limit) \in Nat
      BY <2>1, PerContractType
    <2>5. order.quantity * PerContract(order.limit) \in Int
      BY <2>1, <2>4, SMT
    <2>. QED
      BY <2>2, <2>3, <2>5
  <1>. QED
    BY <1>1, SizingInvariant, PTL

\* Once an order is sent, only its end changes the position.
LEMMA PositionMovesAtTheEnd ==
  ASSUME SizingInv, [SizingNext]_sizingVars, stage = "sent", owned' # owned
  PROVE  \E price \in Prices : Ends(price)
  <1>1. ~(MarketMoves \/ AccountMoves \/ Poll \/ UNCHANGED sizingVars \/ Dispatch)
    BY DEF MarketMoves, AccountMoves, Poll, Dispatch, sizingVars
  <1>2. \A fee : ~Review(fee)
    BY DEF Review
  <1>3. \A o, a : ~Planned(o, a)
    BY DEF Planned
  <1>4. ~PlanExit
    BY <1>3, Zenon DEF PlanExit
  <1>5. \A alert, share : ~PlanPrepared(alert, share) /\ ~PlanFresh(alert, share)
    BY <1>3, Zenon DEF PlanPrepared, PlanFresh, Buy
  <1>6. ~StopFills
    BY DEF StopFills
  <1>. QED
    BY <1>1, <1>2, <1>4, <1>5, <1>6 DEF SizingNext

\* n of at most q contracts at no more than the limit cost no more than q at the limit.
LEMMA CostsNoMore ==
  ASSUME NEW n \in Nat, NEW q \in Nat, NEW price \in Nat, NEW limit \in Nat, n <= q, price <= limit
  PROVE  /\ n * price * Lot \in Nat /\ q * (limit * Lot) \in Nat
         /\ n * price * Lot <= q * (limit * Lot)
  <1>1. Lot \in Nat
    BY SizingAssumption
  <1>2. n * price \in Nat /\ q * limit \in Nat /\ n * limit \in Nat
    BY SMT
  <1>3. n * price <= n * limit /\ n * limit <= q * limit
    BY MulMono, SMT
  <1>4. n * price <= q * limit
    BY <1>2, <1>3
  <1>5. (n * price) * Lot <= (q * limit) * Lot
    BY <1>1, <1>2, <1>4, MulMono
  <1>6. (q * limit) * Lot = q * (limit * Lot) /\ q * (limit * Lot) \in Nat
    BY <1>1, SMT
  <1>. QED
    BY <1>5, <1>6, Worth

LEMMA BringsNoLess ==
  ASSUME NEW n \in Nat, NEW price \in Nat, NEW limit \in Nat, limit <= price
  PROVE  /\ n * price * Lot \in Nat /\ n * (limit * Lot) \in Nat
         /\ n * (limit * Lot) <= n * price * Lot
  <1>1. Lot \in Nat
    BY SizingAssumption
  <1>2. limit * Lot \in Nat /\ price * Lot \in Nat /\ limit * Lot <= price * Lot
    BY <1>1, MulMono, SMT
  <1>3. (limit * Lot) * n <= (price * Lot) * n
    BY <1>2, MulMono
  <1>4. (limit * Lot) * n = n * (limit * Lot) /\ (price * Lot) * n = n * price * Lot
        /\ n * (limit * Lot) \in Nat
    BY <1>1, SMT
  <1>. QED
    BY <1>3, <1>4, Worth

\* No exit is sent for more than is owned, whatever the stop took meanwhile.
THEOREM ExitsAreOwned == SizingSpec => []ExitIsOwned
  <1>1. SizingInv => ExitIsOwned
    BY Sides DEF SizingInv, ExitInv, ExitIsOwned
  <1>. QED
    BY <1>1, SizingInvariant, PTL

\* A sent order can be placed, is paid for and within the limits, or sells what is owned: for every
\* configuration, and however market and account have moved since it was planned.
THEOREM OrdersAreSound == SizingSpec => []OrderIsSound
BY CappedPricesArePlaceable, EntriesAreCovered, ManyAreWithinLimits, ExitsAreOwned, PTL
   DEF OrderIsSound

\* Whatever part of an entry is filled leaves the reserve, if nobody else moved the account.
LEMMA ReserveIsLeft ==
  ASSUME SizingInv, stage = "sent", order.side = "buy", owned' # owned, NEW price \in Prices,
         Ends(price), account = checked.account, checked.fee <= order.quantity * FeeReserve
  PROVE  account'.power >= ReserveOf(account)
  <1>1. /\ order.quantity \in Nat /\ order.limit \in Nat \ {0}
        /\ checked.fee \in Nat /\ account \in Account
    BY SentFits DEF SizingInv, SizingTypeOK, Entry, Checked
  <1>2. order.quantity * PerContract(order.limit) <= Spendable(account)
    BY SentFits
  <1>3. PICK n \in 1 .. order.quantity : Bought(n, price) \/ Sold(n, price)
    BY DEF Ends
  <1>4. Bought(n, price)
    BY <1>3 DEF Sold
  <1>. DEFINE worth == n * price * Lot
              cost == order.limit * Lot
  <1>5. n \in Nat /\ n <= order.quantity /\ price \in Nat /\ price <= order.limit
    BY <1>1, <1>3, <1>4, SizingAssumption DEF Bought
  <1>6. worth \in Nat /\ worth <= order.quantity * cost /\ order.quantity * cost \in Nat
    BY <1>1, <1>5, CostsNoMore
  <1>7. FeeReserve \in Nat /\ cost \in Nat /\ PerContract(order.limit) = cost + FeeReserve
    <2>1. FeeReserve \in Nat /\ Lot \in Nat
      BY SizingAssumption
    <2>2. cost \in Nat
      BY <1>1, <2>1, SMT
    <2>. QED
      BY <2>1, <2>2 DEF PerContract
  <1>8. account'.power = account.power - (worth + checked.fee)
    BY <1>1, <1>4 DEF Bought, Account
  <1>9. Spendable(account) = account.power - ReserveOf(account)
        /\ ReserveOf(account) \in Int /\ account.power \in Nat
    BY <1>1, ReserveType DEF Spendable, Account
  <1>. HIDE DEF worth, cost
  <1>10. order.quantity * (cost + FeeReserve) = order.quantity * cost + order.quantity * FeeReserve
         /\ order.quantity * FeeReserve \in Nat
    BY <1>1, <1>7, SMT
  <1>11. worth + checked.fee <= account.power - ReserveOf(account)
    BY <1>1, <1>2, <1>6, <1>7, <1>9, <1>10
  <1>. QED
    BY <1>1, <1>6, <1>8, <1>9, <1>11

\* The reserve stays in the account for every schedule of fills and fees within the reserved ones.
THEOREM ReserveIsKept == SizingSpec => EntryLeavesReserve
  <1>1. ASSUME SizingInv, [SizingNext]_sizingVars, stage = "sent", order.side = "buy", owned' # owned,
               account = checked.account, checked.fee <= order.quantity * FeeReserve
        PROVE  account'.power >= ReserveOf(account)
    BY <1>1, PositionMovesAtTheEnd, ReserveIsLeft
  <1>. QED
    BY <1>1, SizingInvariant, PTL DEF SizingSpec, EntryLeavesReserve

LEMMA ProfitIsMade ==
  ASSUME SizingInv, stage = "sent", order.side = "sell", order.profitOnly, owned' # owned,
         NEW price \in Prices, Ends(price)
  PROVE  LET sold == owned.quantity - owned'.quantity IN
         account'.power + checked.fee - account.power > sold * (owned.cost * Lot + 2 * FeeReserve)
  <1>1. /\ order \in Exit /\ order.quantity \in Nat /\ order.limit \in Nat
        /\ checked.fee \in Nat /\ account \in Account /\ owned \in [quantity: Nat, cost: Nat]
    BY Sides DEF SizingInv, SizingTypeOK, Exit, Checked
  <1>2. (order.limit - owned.cost) * Lot > 2 * FeeReserve
    BY <1>1 DEF SizingInv, ExitInv
  <1>3. PICK n \in 1 .. order.quantity : Bought(n, price) \/ Sold(n, price)
    BY DEF Ends
  <1>4. Sold(n, price)
    BY <1>3 DEF Bought
  <1>5. n \in Nat \ {0} /\ price \in Nat /\ price >= order.limit /\ Lot \in Nat /\ FeeReserve \in Nat
    <2>1. n \in Nat \ {0}
      BY <1>1, <1>3
    <2>2. price \in Nat /\ Lot \in Nat /\ FeeReserve \in Nat
      BY SizingAssumption
    <2>3. price >= order.limit
      BY <1>4 DEF Sold
    <2>. QED
      BY <2>1, <2>2, <2>3
  <1>. DEFINE cost == owned.cost * Lot
              brings == order.limit * Lot
              worth == n * price * Lot
  <1>6. /\ brings \in Nat /\ cost \in Nat
        /\ (order.limit - owned.cost) * Lot = brings - cost
    BY <1>1, <1>5, SMT
  <1>7. worth \in Nat /\ n * brings <= worth /\ n * brings \in Nat
    BY <1>1, <1>5, BringsNoLess
  <1>8. account'.power = account.power + worth - checked.fee
    BY <1>1, <1>4 DEF Sold, Account
  <1>9. owned.quantity - owned'.quantity = n
    BY <1>1, <1>4, <1>5 DEF Sold
  <1>. HIDE DEF cost, brings, worth
  <1>10. n * brings > n * (cost + 2 * FeeReserve) /\ n * (cost + 2 * FeeReserve) \in Nat
    <2>1. cost + 2 * FeeReserve \in Nat /\ cost + 2 * FeeReserve + 1 <= brings
      BY <1>2, <1>5, <1>6
    <2>2. (cost + 2 * FeeReserve + 1) * n <= brings * n
      BY <1>5, <1>6, <2>1, MulMono
    <2>. QED
      BY <1>5, <1>6, <2>1, <2>2, SMT
  <1>11. account'.power + checked.fee - account.power = worth
    BY <1>1, <1>7, <1>8 DEF Account
  <1>12. worth > n * (cost + 2 * FeeReserve)
    BY <1>7, <1>10
  <1>. QED
    BY <1>9, <1>11, <1>12 DEF cost

\* An exit for profit only makes one, after the fees that were set aside.
THEOREM ProfitOnlyProfits == SizingSpec => ProfitIsReal
  <1>1. ASSUME SizingInv, [SizingNext]_sizingVars, stage = "sent", order.side = "sell",
               order.profitOnly, owned' # owned
        PROVE  account'.power + checked.fee - account.power
                 > (owned.quantity - owned'.quantity) * (owned.cost * Lot + 2 * FeeReserve)
    BY <1>1, PositionMovesAtTheEnd, ProfitIsMade
  <1>. QED
    BY <1>1, SizingInvariant, PTL DEF SizingSpec, ProfitIsReal

\* Whatever part of an order fills, at whatever price its limit allows: the reserve of the account
\* is still there after an entry, and an exit for profit only has made one.
THEOREM FillsKeepPromises == SizingSpec => FillsPay
BY ReserveIsKept, ProfitOnlyProfits DEF FillsPay
=============================================================================
