-------------------------- MODULE Execution_proofs --------------------------
(***************************************************************************)
(* Proofs about Execution, for every set of holdings and every bound.      *)
(*                                                                         *)
(* The inductive invariant has two parts.  Core relates the ledger to the  *)
(* broker; only the few steps that change one of them can disturb it, and  *)
(* each has a lemma.  Work says what the task that holds the lock has      *)
(* already made sure of at each of its control points; it is what lets an  *)
(* order be reserved and sent.                                             *)
(***************************************************************************)
EXTENDS Execution, WellFoundedInduction, TLAPS

CoreType ==
  /\ orders \in [OrderId -> Order]
  /\ last \in 0 .. MaxOrders
  /\ position \in [Holding -> Nat]
  /\ wire \subseteq OrderId
  /\ broker \in [OrderId -> BrokerOrder]
  /\ acct \in [Holding -> Nat]

\* Order numbers are handed out in sequence, each to a real order.
Numbered ==
  \A o \in OrderId :
    IF o <= last
      THEN /\ orders[o].holding \in Holding /\ orders[o].action # "none"
           /\ orders[o].status # "unused" /\ orders[o].qty > 0
           /\ IsBuy(orders[o]) => orders[o].qty <= MaxQty
      ELSE /\ orders[o].status = "unused" /\ orders[o].filled = 0
           /\ o \notin wire /\ broker[o].state = "absent"

\* The ledger never runs ahead of the broker's fills.
FillsFollow ==
  \A o \in OrderId :
    /\ orders[o].filled <= broker[o].filled
    /\ broker[o].filled <= orders[o].qty
    /\ o \in wire => broker[o].state = "absent"
    /\ broker[o].state = "absent" => broker[o].filled = 0
    /\ broker[o].state = "filled" => broker[o].filled = orders[o].qty
    /\ BrokerLive(o) => broker[o].filled < orders[o].qty

\* At most one order of a holding is unfinished in the ledger.
OneLive ==
  \A o, p \in OrderId :
    /\ IsLive(orders[o]) /\ IsLive(orders[p])
    /\ orders[o].holding = orders[p].holding
    => o = p

\* BooksBalance, told order by order.
Balanced ==
  /\ \A h \in Holding :
       (\A o \in OrderId : IsLive(orders[o]) => orders[o].holding # h)
         => acct[h] = position[h]
  /\ \A o \in OrderId : IsLive(orders[o]) =>
       LET h == orders[o].holding
           unbooked == broker[o].filled - orders[o].filled
       IN  acct[h] = IF IsBuy(orders[o]) THEN position[h] + unbooked
                                         ELSE position[h] - unbooked

\* What the ledger owns is what the entry filled, and covers a sell; an
\* unfinished order has contracts left.
Backed ==
  \A o \in OrderId : IsLive(orders[o]) =>
    LET r == orders[o]
    IN  /\ r.filled < r.qty
        /\ IF IsBuy(r) THEN position[r.holding] = r.filled
                        ELSE r.qty - r.filled <= position[r.holding]

Core == /\ CoreType /\ Numbered /\ FillsFollow /\ NothingWrittenOff
        /\ OneLive /\ Balanced /\ Backed

WorkType ==
  /\ request \in [Holding -> Request]
  /\ pc \in Control
  /\ job \in Job
  /\ rows \subseteq OrderId
  /\ todo \subseteq Holding
  /\ kill \in BOOLEAN
  /\ expired \subseteq Holding

\* Nothing of h is unfinished, or only protective stops.
Quiet(h)     == \A o \in OrderId : IsLive(orders[o]) => orders[o].holding # h
OnlyStops(h) == \A o \in OrderId :
  IsLive(orders[o]) /\ orders[o].holding = h => orders[o].action = "UPDATE_STOP"

Busy == pc \notin {"idle", "recon", "maintain"} =>
          job.task # "none" /\ job.holding \in Holding

\* The reserved order has not been sent before its dispatch.
Reserved ==
  pc \in {"review", "dispatch", "await"} =>
    /\ job.id \in 1 .. last
    /\ orders[job.id].status = "submitting"
    /\ orders[job.id].holding = job.holding
    /\ orders[job.id].filled = 0
    /\ pc # "await" => job.id \notin wire /\ broker[job.id].state = "absent"

\* No sell is reserved while another order of the holding may trade.
Cleared ==
  /\ pc \in {"cancel", "poll"} => OnlyStops(job.holding)
  /\ pc = "poll" => job.id \in 1 .. last /\ orders[job.id].holding = job.holding
  /\ pc \in {"verify", "canceled"} => Quiet(job.holding)
  /\ pc \in {"verify", "cancel", "poll", "canceled"} =>
       /\ job.owned > 0
       /\ job.task = "exit" => job.qty \in 1 .. job.owned
  /\ pc = "verify" => job.task = "exit" /\ position[job.holding] = job.owned

\* Only the protection task arms.
Arming == pc = "arm" => job.task = "protect"

Work == WorkType /\ Busy /\ Arming /\ Reserved /\ Cleared

IInv == Core /\ Work

-----------------------------------------------------------------------------
(* Core under each kind of change to the ledger or the broker. *)

\* Core speaks of six variables only.
LEMMA CoreUnchanged ==
  ASSUME Core, UNCHANGED <<orders, last, position, wire, broker, acct>>
  PROVE  Core'
BY DEF Core, CoreType, Numbered, FillsFollow, NothingWrittenOff, Outstanding,
       BrokerLive, OneLive, Balanced, Backed

\* A change that keeps every order's amounts and whether it is finished.
LEMMA CoreRelabelled ==
  ASSUME Core,
         orders' \in [OrderId -> Order],
         \A o \in OrderId : /\ orders'[o].action = orders[o].action
                            /\ orders'[o].holding = orders[o].holding
                            /\ orders'[o].qty = orders[o].qty
                            /\ orders'[o].filled = orders[o].filled
                            /\ IsLive(orders'[o]) <=> IsLive(orders[o])
                            /\ orders'[o].status = "unused" <=> orders[o].status = "unused",
         UNCHANGED <<last, position, wire, broker, acct>>
  PROVE  Core'
<1>1. CoreType'
  BY DEF Core, CoreType
<1>2. Numbered'
  BY DEF Core, Numbered, IsBuy
<1>3. FillsFollow'
  BY DEF Core, FillsFollow, BrokerLive
<1>4. NothingWrittenOff'
  BY DEF Core, NothingWrittenOff, Outstanding, BrokerLive
<1>5. OneLive'
  BY DEF Core, OneLive
<1>6. Balanced'
  BY DEF Core, Balanced, IsBuy
<1>7. Backed'
  BY DEF Core, Backed, IsBuy
<1> QED
  BY <1>1, <1>2, <1>3, <1>4, <1>5, <1>6, <1>7 DEF Core

\* An order that never left is rejected.
LEMMA CoreRejected ==
  ASSUME Core, NEW o \in 1 .. last,
         IsLive(orders[o]), orders[o].filled = 0, o \notin wire, broker[o].state = "absent",
         orders' = [orders EXCEPT ![o].status = "rejected"],
         UNCHANGED <<last, position, wire, broker, acct>>
  PROVE  Core'
<1>0. /\ o \in OrderId /\ orders[o] \in Order
      /\ \A p \in OrderId : p # o => orders'[p] = orders[p]
      /\ broker[o].filled = 0
  BY ExecutionAssumption DEF Core, CoreType, OrderId, FillsFollow, Order
<1>b. orders' \in [OrderId -> Order]
  BY <1>0 DEF Core, CoreType, Order, Status, Terminal
<1>a. /\ orders'[o].action = orders[o].action /\ orders'[o].holding = orders[o].holding
      /\ orders'[o].qty = orders[o].qty /\ orders'[o].filled = 0
      /\ orders'[o].status = "rejected" /\ ~IsLive(orders'[o])
  BY <1>0 DEF Core, CoreType, Order, IsLive, Terminal
<1>1. CoreType'
  BY <1>b DEF Core, CoreType
<1>2. Numbered'
  BY <1>0, <1>a DEF Core, Numbered, IsBuy
<1>3. FillsFollow'
  BY <1>0, <1>a DEF Core, FillsFollow, BrokerLive
<1>4. NothingWrittenOff'
  BY <1>0, <1>a DEF Core, NothingWrittenOff, Outstanding, BrokerLive
<1>5. OneLive'
  BY <1>0, <1>a DEF Core, OneLive
<1>6. Balanced'
  <2>1. acct[orders[o].holding] = position[orders[o].holding]
    BY <1>0, IsLive(orders[o]) DEF Core, CoreType, Balanced, Numbered
  <2>2. ASSUME NEW h \in Holding,
               \A p \in OrderId : IsLive(orders'[p]) => orders'[p].holding # h
        PROVE  acct[h] = position[h]
    BY <2>1, <2>2, <1>0, <1>a DEF Core, Balanced
  <2>3. \A p \in OrderId : IsLive(orders'[p]) => p # o /\ orders'[p] = orders[p]
    BY <1>0, <1>a
  <2> QED
    BY <2>2, <2>3 DEF Core, Balanced, IsBuy
<1>7. Backed'
  BY <1>0, <1>a DEF Core, Backed, IsBuy
<1> QED
  BY <1>1, <1>2, <1>3, <1>4, <1>5, <1>6, <1>7 DEF Core

\* A new reservation, of a holding with nothing unfinished.
LEMMA CoreReserved ==
  ASSUME Core, NEW h \in Holding, NEW action \in {"OPEN", "EXIT", "UPDATE_STOP"},
         NEW kind \in {"limit", "market", "stop_market"}, NEW qty \in Nat \ {0},
         NEW price \in Price \union {NoPrice},
         Reserve(h, action, kind, qty, price), Quiet(h),
         IF action = "OPEN" THEN position[h] = 0 /\ qty <= MaxQty ELSE qty <= position[h],
         UNCHANGED <<position, wire, broker, acct>>
  PROVE  /\ Core'
         /\ last' = last + 1 /\ last' \in OrderId
         /\ orders'[last'].status = "submitting" /\ orders'[last'].holding = h
         /\ orders'[last'].filled = 0
         /\ last' \notin wire' /\ broker'[last'].state = "absent"
<1> DEFINE o == last + 1
<1>1. /\ o \in OrderId /\ last' = o /\ last \in Nat
      /\ o \notin wire /\ broker[o].state = "absent" /\ broker[o].filled = 0
      /\ \A p \in OrderId : p # o => orders'[p] = orders[p]
      /\ \A p \in OrderId : p <= last' <=> p <= last \/ p = o
  BY ExecutionAssumption DEF Core, CoreType, OrderId, FillsFollow, Numbered, Reserve
<1>2. /\ orders'[o].action = action /\ orders'[o].holding = h
      /\ orders'[o].qty = qty /\ orders'[o].filled = 0
      /\ orders'[o].status = "submitting" /\ IsLive(orders'[o])
  BY <1>1 DEF Core, CoreType, Reserve, IsLive, Terminal
<1>3. orders' \in [OrderId -> Order]
  BY <1>1 DEF Core, CoreType, Reserve, Order, Status
<1>4. CoreType'
  BY <1>1, <1>3 DEF Core, CoreType, OrderId
<1>5. Numbered'
  BY <1>1, <1>2 DEF Core, Numbered, IsBuy
<1>6. FillsFollow'
  BY <1>1, <1>2 DEF Core, FillsFollow, BrokerLive
<1>7. NothingWrittenOff'
  BY <1>1, <1>2 DEF Core, NothingWrittenOff, Outstanding, BrokerLive
<1>8. OneLive'
  BY <1>1, <1>2 DEF Core, OneLive, Quiet
<1>9. Balanced'
  <2>1. acct[h] = position[h] /\ acct[h] \in Nat
    BY DEF Core, CoreType, Balanced, Quiet
  <2>2. \A p \in OrderId : p # o /\ IsLive(orders'[p]) => orders'[p] = orders[p] /\ orders[p].holding # h
    BY <1>1 DEF Quiet
  <2>3. ASSUME NEW g \in Holding,
               \A p \in OrderId : IsLive(orders'[p]) => orders'[p].holding # g
        PROVE  acct[g] = position[g]
    <3>1. \A p \in OrderId : IsLive(orders[p]) => orders[p].holding # g
      <4> TAKE p \in OrderId
      <4>1. CASE p = o
        BY <4>1, <1>1 DEF Core, Numbered, CoreType, IsLive
      <4>2. CASE p # o
        BY <4>2, <1>1, <2>3
      <4> QED
        BY <4>1, <4>2
    <3> QED
      BY <3>1 DEF Core, Balanced
  <2>4. ASSUME NEW p \in OrderId, IsLive(orders'[p])
        PROVE  acct[orders'[p].holding] =
                 IF IsBuy(orders'[p])
                   THEN position[orders'[p].holding] + (broker[p].filled - orders'[p].filled)
                   ELSE position[orders'[p].holding] - (broker[p].filled - orders'[p].filled)
    <3>1. CASE p = o
      BY <3>1, <1>1, <1>2, <2>1 DEF Core, CoreType
    <3>2. CASE p # o
      BY <3>2, <2>2, <2>4 DEF Core, Balanced, IsBuy
    <3> QED
      BY <3>1, <3>2
  <2> QED
    BY <2>3, <2>4 DEF Balanced
<1>10. Backed'
  BY <1>1, <1>2 DEF Core, CoreType, Backed, IsBuy
<1> QED
  BY <1>1, <1>2, <1>4, <1>5, <1>6, <1>7, <1>8, <1>9, <1>10 DEF Core

\* What a status read can say.
LEMMA ReportedResult ==
  ASSUME NEW o \in OrderId, broker[o] \in BrokerOrder, NEW v \in Reports(o)
  PROVE  /\ v.filled = broker[o].filled
         /\ v.status \in Terminal \union Resting \union {"pending"}
         /\ broker[o].state # "absent"
         /\ v.status \in Terminal => broker[o].state = v.status
         /\ v.status \notin Terminal => BrokerLive(o)
BY DEF Reports, BrokerOrder, Terminal, Resting, BrokerLive

\* A result is booked: the order's fills and the position move together.
LEMMA CoreApplied ==
  ASSUME Core, NEW o \in OrderId, NEW v \in Reports(o), ApplyResult(o, v),
         UNCHANGED <<last, wire, broker, acct>>
  PROVE  /\ Core'
         /\ \A p \in OrderId : /\ orders'[p].action = orders[p].action
                               /\ orders'[p].holding = orders[p].holding
                               /\ orders'[p].qty = orders[p].qty
                               /\ IsLive(orders'[p]) => IsLive(orders[p])
                               /\ p # o => orders'[p] = orders[p]
         /\ v.status \in Terminal => ~IsLive(orders'[o])
<1> DEFINE r == orders[o]
           h == r.holding
<1>1. /\ v.filled = broker[o].filled
      /\ v.status \in Terminal \union Resting \union {"pending"}
      /\ broker[o].state # "absent"
      /\ v.status \in Terminal => broker[o].state = v.status
      /\ v.status \notin Terminal => broker[o].filled < r.qty
  BY ReportedResult DEF Core, CoreType, FillsFollow
<1>2. /\ o <= last /\ h \in Holding /\ r \in Order /\ r.qty > 0 /\ r.status # "unused"
      /\ o \notin wire /\ position[h] \in Nat /\ acct[h] \in Nat
      /\ broker[o].filled \in Nat /\ r.filled \in Nat /\ r.qty \in Nat
  BY <1>1 DEF Core, CoreType, Numbered, FillsFollow, Order, BrokerOrder
<1>3. /\ orders'[o].action = r.action /\ orders'[o].holding = h /\ orders'[o].qty = r.qty
      /\ orders'[o].filled = broker[o].filled /\ orders'[o].status = v.status
      /\ \A p \in OrderId : p # o => orders'[p] = orders[p]
      /\ position' = [position EXCEPT ![h] =
            IF IsBuy(r) THEN @ + (broker[o].filled - r.filled)
                        ELSE @ - (broker[o].filled - r.filled)]
      /\ ~IsBuy(r) => broker[o].filled - r.filled <= position[h]
      /\ r.filled <= broker[o].filled
      /\ r.status \in Terminal => v.status = r.status /\ broker[o].filled = r.filled
  BY <1>1, <1>2 DEF Core, CoreType, Order, ApplyResult
<1>4. orders' \in [OrderId -> Order]
  BY <1>1, <1>2 DEF Core, CoreType, Order, ApplyResult, Status
<1>5. IsLive(r) \/ r.status \in Terminal
  BY <1>2 DEF IsLive
<1>6. /\ IsLive(orders'[o]) <=> v.status \notin Terminal
      /\ IsLive(orders'[o]) => IsLive(r)
  BY <1>1, <1>3, <1>5 DEF IsLive, Resting, Terminal
<1>7. CoreType'
  BY <1>2, <1>3, <1>4 DEF Core, CoreType
<1>8. Numbered'
  BY <1>1, <1>2, <1>3 DEF Core, Numbered, IsBuy, Terminal, Resting
<1>9. FillsFollow'
  BY <1>2, <1>3 DEF Core, FillsFollow, BrokerLive
<1>10. NothingWrittenOff'
  BY <1>1, <1>2, <1>3, <1>6 DEF Core, NothingWrittenOff, Outstanding, BrokerLive, Terminal
<1>11. OneLive'
  BY <1>3, <1>6 DEF Core, OneLive
<1>12. Balanced' /\ Backed'
  <2>1. CASE r.status \in Terminal
    <3>1. position' = position /\ \A p \in OrderId : orders'[p].filled = orders[p].filled
      BY <2>1, <1>2, <1>3 DEF Core, CoreType
    <3>2. \A p \in OrderId : IsLive(orders'[p]) <=> IsLive(orders[p])
      BY <2>1, <1>3, <1>6 DEF IsLive
    <3> QED
      BY <3>1, <3>2, <1>3 DEF Core, Balanced, Backed, IsBuy
  <2>2. CASE IsLive(r)
    <3>1. \A p \in OrderId : p # o /\ IsLive(orders'[p]) => orders[p].holding # h
      BY <2>2, <1>3 DEF Core, OneLive
    <3>2. \A g \in Holding : g # h => position'[g] = position[g]
      BY <1>3 DEF Core, CoreType
    <3>3. acct[h] = position'[h] /\ position'[h] \in Nat
      BY <2>2, <1>2, <1>3, <1>7 DEF Core, CoreType, Balanced
    <3>4. \A p \in OrderId : p # o /\ IsLive(orders'[p]) => orders[p].holding \in Holding
      BY <1>3 DEF Core, Numbered, IsLive
    <3>5. Balanced'
      <4>1. ASSUME NEW g \in Holding,
                   \A p \in OrderId : IsLive(orders'[p]) => orders'[p].holding # g
            PROVE  acct[g] = position'[g]
        BY <4>1, <3>2, <3>3, <1>3 DEF Core, Balanced
      <4>2. ASSUME NEW p \in OrderId, IsLive(orders'[p])
            PROVE  acct[orders'[p].holding] =
                     IF IsBuy(orders'[p])
                       THEN position'[orders'[p].holding] + (broker[p].filled - orders'[p].filled)
                       ELSE position'[orders'[p].holding] - (broker[p].filled - orders'[p].filled)
        <5>1. CASE p = o
          BY <5>1, <1>2, <1>3, <3>3
        <5>2. CASE p # o
          BY <5>2, <4>2, <3>1, <3>2, <3>4, <1>3 DEF Core, Balanced, IsBuy
        <5> QED
          BY <5>1, <5>2
      <4> QED
        BY <4>1, <4>2 DEF Balanced
    <3>6. Backed'
      <4>1. ASSUME NEW p \in OrderId, IsLive(orders'[p])
            PROVE  /\ orders'[p].filled < orders'[p].qty
                   /\ IF IsBuy(orders'[p])
                        THEN position'[orders'[p].holding] = orders'[p].filled
                        ELSE orders'[p].qty - orders'[p].filled <= position'[orders'[p].holding]
        <5>1. CASE p = o
          BY <5>1, <2>2, <4>1, <1>1, <1>2, <1>3, <1>6 DEF Core, CoreType, Backed, IsBuy
        <5>2. CASE p # o
          BY <5>2, <4>1, <3>1, <3>2, <3>4, <1>3 DEF Core, Backed, IsBuy
        <5> QED
          BY <5>1, <5>2
      <4> QED
        BY <4>1 DEF Backed
    <3> QED
      BY <3>5, <3>6
  <2> QED
    BY <2>1, <2>2, <1>5
<1> QED
  BY <1>3, <1>6, <1>7, <1>8, <1>9, <1>10, <1>11, <1>12 DEF Core

\* The broker's record of orders changes, but nothing trades.
LEMMA CoreBrokerMoved ==
  ASSUME Core,
         wire' \subseteq wire, broker' \in [OrderId -> BrokerOrder],
         \A o \in OrderId :
           /\ broker'[o].filled = broker[o].filled
           /\ o \in wire' => broker'[o].state = "absent"
           /\ broker'[o].state \in {"working", "canceling"} => o \in wire \/ BrokerLive(o)
           /\ broker'[o].state = "absent" => broker[o].state = "absent"
           /\ broker'[o].state = "filled" => broker[o].state = "filled"
           /\ broker'[o].state # broker[o].state => o \in wire \/ BrokerLive(o),
         UNCHANGED <<orders, last, position, acct>>
  PROVE  Core'
<1>1. CoreType'
  BY DEF Core, CoreType
<1>2. Numbered'
  BY DEF Core, Numbered, BrokerLive
<1>3. FillsFollow'
  BY DEF Core, CoreType, FillsFollow, Numbered, BrokerLive, BrokerOrder
<1>4. NothingWrittenOff'
  BY DEF Core, NothingWrittenOff, Outstanding, BrokerLive
<1>5. OneLive' /\ Balanced' /\ Backed'
  BY DEF Core, OneLive, Balanced, Backed
<1> QED
  BY <1>1, <1>2, <1>3, <1>4, <1>5 DEF Core

\* A reserved order leaves the relay.
LEMMA CoreSent ==
  ASSUME Core, NEW o \in 1 .. last, NEW timed \in BOOLEAN,
         orders[o].status = "submitting", broker[o].state = "absent",
         orders' = [orders EXCEPT ![o].timed = timed],
         wire' = wire \union {o},
         UNCHANGED <<last, position, broker, acct>>
  PROVE  Core'
<1>1. o \in OrderId /\ orders' \in [OrderId -> Order]
  <2>1. o \in OrderId
    BY ExecutionAssumption DEF Core, CoreType, OrderId
  <2>2. orders[o] \in Order
    BY <2>1 DEF Core, CoreType
  <2>3. [orders[o] EXCEPT !.timed = timed] \in Order
    BY <2>2 DEF Order
  <2> QED
    BY <2>1, <2>3 DEF Core, CoreType
<1>2. \A p \in OrderId : /\ orders'[p].action = orders[p].action
                         /\ orders'[p].holding = orders[p].holding
                         /\ orders'[p].qty = orders[p].qty
                         /\ orders'[p].filled = orders[p].filled
                         /\ orders'[p].status = orders[p].status
  BY <1>1 DEF Core, CoreType, Order
<1>3. CoreType'
  BY <1>1 DEF Core, CoreType
<1>4. Numbered' /\ FillsFollow'
  BY <1>2 DEF Core, CoreType, Numbered, FillsFollow, IsBuy, BrokerLive
<1>5. NothingWrittenOff'
  BY <1>1, <1>2 DEF Core, NothingWrittenOff, Outstanding, BrokerLive, IsLive, Terminal
<1>6. OneLive' /\ Balanced' /\ Backed'
  BY <1>2 DEF Core, OneLive, Balanced, Backed, IsBuy, IsLive
<1> QED
  BY <1>3, <1>4, <1>5, <1>6 DEF Core

\* One contract trades: the account moves, the ledger will follow.
LEMMA CoreTraded ==
  ASSUME Core, NEW o \in OrderId, Fill(o)
  PROVE  Core'
<1> DEFINE r == orders[o]
           h == r.holding
<1>1. /\ IsLive(r) /\ h \in Holding /\ o <= last /\ o \notin wire
      /\ r.filled \in Nat /\ r.qty \in Nat /\ broker[o].filled \in Nat
      /\ position[h] \in Nat /\ acct[h] \in Nat
      /\ r.filled <= broker[o].filled
      /\ broker[o].filled < r.qty /\ broker[o].state # "absent"
  BY DEF Core, CoreType, Numbered, FillsFollow, NothingWrittenOff, Outstanding,
         BrokerLive, Order, BrokerOrder, Fill
<1>2. ~IsBuy(r) => acct[h] > 0
  BY <1>1 DEF Core, Balanced, Backed
<1>3. /\ UNCHANGED <<orders, last, position, wire>>
      /\ broker'[o].filled = broker[o].filled + 1
      /\ broker'[o].state \in {broker[o].state, "filled"}
      /\ broker'[o].state = "filled" <=> broker[o].filled + 1 = r.qty
      /\ \A p \in OrderId : p # o => broker'[p] = broker[p]
      /\ acct' = [acct EXCEPT ![h] = IF IsBuy(r) THEN @ + 1 ELSE @ - 1]
  <2>1. /\ UNCHANGED <<orders, last, position, wire>>
        /\ acct' = [acct EXCEPT ![h] = IF IsBuy(r) THEN @ + 1 ELSE @ - 1]
    BY DEF Fill, ledgerVars
  <2>2. /\ broker'[o].filled = broker[o].filled + 1
        /\ broker'[o].state = IF broker[o].filled + 1 = r.qty THEN "filled" ELSE broker[o].state
        /\ \A p \in OrderId : p # o => broker'[p] = broker[p]
    BY DEF Core, CoreType, BrokerOrder, Fill
  <2>3. broker[o].state # "filled"
    BY DEF Fill, BrokerLive
  <2> QED
    BY <2>1, <2>2, <2>3
<1>4. broker' \in [OrderId -> BrokerOrder]
  <2> DEFINE n == broker[o].filled + 1
             s == IF broker[o].filled + 1 = r.qty THEN "filled" ELSE broker[o].state
             b == [broker[o] EXCEPT !.filled = n, !.state = s]
  <2>1. broker' = [broker EXCEPT ![o] = b]
    BY DEF Fill
  <2>2. broker[o] \in BrokerOrder
    BY DEF Core, CoreType
  <2>3. n \in Nat /\ s \in {"absent", "working", "canceling"} \union Terminal
    BY <1>1, <2>2 DEF BrokerOrder, Terminal
  <2> HIDE DEF n, s
  <2>4. b \in BrokerOrder
    BY <2>2, <2>3 DEF BrokerOrder
  <2> HIDE DEF b
  <2> QED
    BY <2>1, <2>4 DEF Core, CoreType
<1>5. CoreType'
  BY <1>1, <1>2, <1>3, <1>4 DEF Core, CoreType
<1>6. Numbered'
  BY <1>1, <1>3 DEF Core, Numbered
<1>7. FillsFollow'
  BY <1>1, <1>3 DEF Core, CoreType, BrokerOrder, Order, FillsFollow, BrokerLive
<1>8. NothingWrittenOff'
  BY <1>1, <1>3 DEF Core, NothingWrittenOff, Outstanding, BrokerLive
<1>9. OneLive' /\ Backed'
  BY <1>3 DEF Core, OneLive, Backed
<1>10. Balanced'
  <2>1. \A g \in Holding : g # h => acct'[g] = acct[g]
    BY <1>3 DEF Core, CoreType
  <2>2. acct'[h] = IF IsBuy(r) THEN acct[h] + 1 ELSE acct[h] - 1
    BY <1>1, <1>3 DEF Core, CoreType
  <2>3. \A p \in OrderId : p # o /\ IsLive(orders[p]) =>
          orders[p].holding # h /\ orders[p].holding \in Holding
    BY <1>1 DEF Core, OneLive, Numbered, IsLive
  <2>4. ASSUME NEW p \in OrderId, IsLive(orders[p])
        PROVE  acct'[orders[p].holding] =
                 IF IsBuy(orders[p])
                   THEN position[orders[p].holding] + (broker'[p].filled - orders[p].filled)
                   ELSE position[orders[p].holding] - (broker'[p].filled - orders[p].filled)
    <3>1. CASE p = o
      BY <3>1, <2>2, <1>1, <1>3 DEF Core, Balanced
    <3>2. CASE p # o
      BY <3>2, <2>1, <2>3, <2>4, <1>3 DEF Core, Balanced
    <3> QED
      BY <3>1, <3>2
  <2>5. ASSUME NEW g \in Holding, \A p \in OrderId : IsLive(orders[p]) => orders[p].holding # g
        PROVE  acct'[g] = position[g]
    BY <2>5, <2>1, <1>1 DEF Core, Balanced
  <2> QED
    BY <2>4, <2>5, <1>3 DEF Balanced
<1> QED
  BY <1>5, <1>6, <1>7, <1>8, <1>9, <1>10 DEF Core

\* An order is on its way no more: received, refused or lost.
LEMMA CoreArrived ==
  ASSUME Core, NEW o \in OrderId, NEW s \in {"working", "rejected", "absent"}, Arrive(o, s)
  PROVE  Core'
<1>1. /\ broker' \in [OrderId -> BrokerOrder]
      /\ \A p \in OrderId : p # o => broker'[p] = broker[p]
      /\ broker'[o].state = s /\ broker'[o].filled = broker[o].filled
  BY DEF Core, CoreType, BrokerOrder, Terminal, Arrive
<1> QED
  BY <1>1, CoreBrokerMoved DEF Core, FillsFollow, Arrive, BrokerLive, ledgerVars

\* The broker ends an order.
LEMMA CoreEnded ==
  ASSUME Core, NEW o \in OrderId, NEW s \in {"canceled", "rejected"}, EndOrder(o, s)
  PROVE  Core'
<1>1. /\ broker' \in [OrderId -> BrokerOrder]
      /\ \A p \in OrderId : p # o => broker'[p] = broker[p]
      /\ broker'[o].state = s /\ broker'[o].filled = broker[o].filled
  BY DEF Core, CoreType, BrokerOrder, Terminal, EndOrder
<1> QED
  BY <1>1, CoreBrokerMoved DEF Core, FillsFollow, EndOrder, BrokerLive, ledgerVars

\* A cancellation is accepted, or not.
LEMMA CoreCanceling ==
  ASSUME Core, NEW o \in OrderId, NEW s \in {broker[o].state, "canceling"},
         s = "canceling" => BrokerLive(o),
         broker' = [broker EXCEPT ![o].state = s],
         UNCHANGED <<orders, last, position, wire, acct>>
  PROVE  Core'
<1>1. /\ broker' \in [OrderId -> BrokerOrder]
      /\ \A p \in OrderId : p # o => broker'[p] = broker[p]
      /\ broker'[o].state = s /\ broker'[o].filled = broker[o].filled
  BY DEF Core, CoreType, BrokerOrder
<1> QED
  BY <1>1, CoreBrokerMoved DEF Core, FillsFollow, BrokerLive

-----------------------------------------------------------------------------
(* The newest filled entry. *)

\* Every nonempty set of naturals has a smallest element.
LEMMA SmallestOf ==
  ASSUME NEW T, T \subseteq Nat, T # {}
  PROVE  \E x \in T : \A y \in T : x <= y
<1>1. IsWellFoundedOn(OpToRel(<, Nat), Nat)
  BY NatLessThanWellFounded
<1>2. PICK x \in T : \A y \in T : ~(<<y, x>> \in OpToRel(<, Nat))
  BY <1>1, WFMin
<1>3. \A y \in T : ~(y < x)
  BY <1>2 DEF OpToRel
<1> QED
  BY <1>3

\* Max picks the largest of a nonempty set of numbers up to n.
LEMMA LargestOf ==
  ASSUME NEW n \in Nat, NEW S, S \subseteq 1 .. n, S # {}
  PROVE  Max(S) \in S /\ \A y \in S : y <= Max(S)
<1> DEFINE T == {n - y : y \in S}
<1>1. T \subseteq Nat /\ T # {}
  OBVIOUS
<1>2. PICK t \in T : \A u \in T : t <= u
  BY <1>1, SmallestOf
<1>3. PICK x \in S : t = n - x
  OBVIOUS
<1>4. \A y \in S : n - x <= n - y
  BY <1>2, <1>3
<1>5. \E z \in S : \A y \in S : z >= y
  BY <1>4
<1> QED
  BY <1>5 DEF Max

\* EntryId names the newest entry of the holding with a fill, or is 0.
LEMMA EntryIdNames ==
  ASSUME NEW h
  PROVE  /\ EntryId(h) \in OrderId \union {0}
         /\ FilledEntries(h) # {} => /\ EntryId(h) \in FilledEntries(h)
                                     /\ \A o \in FilledEntries(h) : o <= EntryId(h)
BY LargestOf, ExecutionAssumption DEF EntryId, FilledEntries, OrderId

-----------------------------------------------------------------------------
(* The invariant is inductive. *)

\* A new ledger, with nothing at the broker, satisfies the invariant.
LEMMA InitIInv == Init => IInv
<1> SUFFICES ASSUME Init PROVE IInv
  OBVIOUS
<1>1. \A o \in OrderId : ~IsLive(orders[o])
  BY DEF Init, NoOrder, IsLive, Terminal
<1>2. CoreType
  BY ExecutionAssumption DEF Init, CoreType, Order, NoOrder, BrokerOrder, Status
<1>3. Numbered /\ FillsFollow
  BY DEF Init, Numbered, FillsFollow, NoOrder, OrderId, BrokerLive
<1>4. NothingWrittenOff /\ OneLive /\ Balanced /\ Backed
  BY <1>1 DEF Init, NothingWrittenOff, OneLive, Balanced, Backed, NoOrder,
              Outstanding, BrokerLive
<1>5. NoRequest \in Request
  BY DEF NoRequest, Request
<1>6. WorkType
  BY <1>5 DEF Init, WorkType, Control, NoJob, Job
<1>7. Busy /\ Arming /\ Reserved /\ Cleared
  BY DEF Init, Busy, Arming, Reserved, Cleared
<1> QED
  BY <1>2, <1>3, <1>4, <1>6, <1>7 DEF IInv, Core, Work

\* With nothing unresolved, only resting stops are unfinished; a flat holding
\* has none, for a stop that is not done still sells something.
LEMMA NothingUnresolved ==
  ASSUME Core, Unresolved = {}, NEW h \in Holding
  PROVE  /\ OnlyStops(h)
         /\ ActiveStops(h) = {} => Quiet(h)
         /\ position[h] = 0 => Quiet(h)
<1>1. \A o \in OrderId : IsLive(orders[o]) => orders[o].action = "UPDATE_STOP"
  BY DEF Unresolved, LiveOrders, IsRestingStop
<1>2. ActiveStops(h) = {} => Quiet(h)
  BY <1>1 DEF ActiveStops, LiveOrders, Quiet
<1>3. ASSUME position[h] = 0, NEW o \in OrderId, IsLive(orders[o])
      PROVE  orders[o].holding # h
  BY <1>1, <1>3 DEF Core, CoreType, Order, Backed, IsBuy
<1> QED
  BY <1>1, <1>2, <1>3 DEF OnlyStops, Quiet

\* save_stop_request writes a well-formed row.
LEMMA SavedRequestType ==
  ASSUME WorkType, NEW h \in Holding, NEW e \in OrderId \union {0},
         NEW p \in Price \union {NoPrice}
  PROVE  SavedRequest(h, e, p) \in [Holding -> Request]
BY DEF WorkType, SavedRequest, Request

\* The idle task is a task.
LEMMA NoJobType == NoJob \in Job
BY DEF Job, NoJob, NoRequest, Request

\* So is the protection of a holding.
LEMMA ProtectJobType ==
  ASSUME NEW h \in Holding
  PROVE  LET armed == [NoJob EXCEPT !.task = "protect", !.holding = h]
         IN  armed \in Job /\ armed.task = "protect" /\ armed.holding = h
<1>1. [NoJob EXCEPT !.task = "protect", !.holding = h] \in Job
  BY NoJobType DEF Job
<1> QED
  BY <1>1 DEF NoJob

\* A row stays well-formed when its status, or its status and its order, are written.
LEMMA StatusWritten ==
  ASSUME request \in [Holding -> Request], NEW h \in Holding,
         NEW s \in {"none", "pending", "active", "blocked", "complete"}
  PROVE  [request EXCEPT ![h].status = s] \in [Holding -> Request]
<1> DEFINE q == [request[h] EXCEPT !.status = s]
<1>1. request[h] \in Request
  OBVIOUS
<1>2. q \in Request
  BY <1>1 DEF Request
<1>3. [request EXCEPT ![h].status = s] = [request EXCEPT ![h] = q]
  OBVIOUS
<1> QED
  BY <1>2, <1>3

LEMMA RequestWritten ==
  ASSUME request \in [Holding -> Request], NEW h \in Holding, NEW o \in OrderId \union {0},
         NEW s \in {"none", "pending", "active", "blocked", "complete"}
  PROVE  [request EXCEPT ![h].status = s, ![h].order = o] \in [Holding -> Request]
<1> DEFINE q == [request[h] EXCEPT !.status = s, !.order = o]
<1>1. request[h] \in Request
  OBVIOUS
<1>2. q \in Request
  BY <1>1 DEF Request
<1>3. [request EXCEPT ![h].status = s, ![h].order = o] = [request EXCEPT ![h] = q]
  OBVIOUS
<1> QED
  BY <1>2, <1>3

\* Entries, exits and stop changes are decided from an idle relay: what plan
\* checked there is what the task relies on later.
LEMMA DecideStep == IInv /\ Decide => IInv'
<1> SUFFICES ASSUME IInv, Decide PROVE IInv'
  OBVIOUS
<1> USE DEF IInv
<1>1. PICK h \in Holding :
        \/ \E q \in 1 .. MaxQty, p \in Price \union {NoPrice} :
             ReserveEntry(h, q, p) \/ StartExit(h, q, p)
        \/ RefuseExit(h)
        \/ \E p \in Price : UpdateStop(h, p)
  BY DEF Decide
<1>2. ASSUME NEW q \in 1 .. MaxQty, NEW p \in Price \union {NoPrice}, ReserveEntry(h, q, p)
      PROVE  IInv'
  <2>1. Quiet(h) /\ position[h] = 0
    BY <1>2, NothingUnresolved DEF ReserveEntry
  <2>2. Reserve(h, "OPEN", "limit", q, NoPrice) /\ UNCHANGED <<position, wire, broker, acct>>
    BY <1>2 DEF ReserveEntry, brokerVars
  <2>3. q \in Nat \ {0} /\ q <= MaxQty
    BY ExecutionAssumption
  <2>4. /\ Core' /\ last' = last + 1 /\ last' \in OrderId
        /\ orders'[last'].status = "submitting" /\ orders'[last'].holding = h
        /\ orders'[last'].filled = 0
        /\ last' \notin wire' /\ broker'[last'].state = "absent"
    BY <2>1, <2>2, <2>3, CoreReserved
  <2>5. /\ pc' = "review" /\ job' \in Job /\ job'.task = "open" /\ job'.holding = h
        /\ job'.id = last' /\ UNCHANGED <<rows, todo, kill, expired>>
    <3>1. [NoJob EXCEPT !.task = "open", !.holding = h, !.price = p, !.id = last'] \in Job
      BY <2>4, NoJobType DEF Job
    <3>2. /\ pc' = "review" /\ UNCHANGED <<rows, todo, kill, expired>>
          /\ job' = [NoJob EXCEPT !.task = "open", !.holding = h, !.price = p, !.id = last']
      BY <1>2, <2>4 DEF ReserveEntry, worldVars
    <3> QED
      BY <3>1, <3>2 DEF NoJob
  <2>6. request' \in [Holding -> Request]
    BY <1>2, <2>4, SavedRequestType DEF ReserveEntry, Work, WorkType
  <2>7. Work'
    BY <2>4, <2>5, <2>6 DEF Work, WorkType, Busy, Arming, Reserved, Cleared, Control, Core, CoreType
  <2> QED
    BY <2>4, <2>7
<1>3. ASSUME NEW q \in 1 .. MaxQty, NEW p \in Price \union {NoPrice}, StartExit(h, q, p)
      PROVE  IInv'
  <2>1. /\ Core' /\ q \in 1 .. position[h] /\ position[h] \in Nat
        /\ UNCHANGED <<orders, last, position, request, rows, todo, kill, expired>>
    BY <1>3, CoreUnchanged DEF StartExit, ledgerVars, brokerVars, worldVars, Core, CoreType
  <2>2. OnlyStops(h) /\ (ActiveStops(h) = {} => Quiet(h))
    BY <1>3, NothingUnresolved DEF StartExit
  <2>3. /\ pc' \in {"verify", "cancel"} /\ job' \in Job /\ job'.task = "exit"
        /\ job'.holding = h /\ job'.qty = q /\ job'.owned = position[h]
        /\ pc' = "verify" => ActiveStops(h) = {}
    <3>1. q \in Nat
      BY ExecutionAssumption
    <3>2. job' = [NoJob EXCEPT !.task = "exit", !.holding = h, !.qty = q,
                               !.owned = position[h], !.price = p]
      BY <1>3 DEF StartExit
    <3>3. NoJob \in Job
      BY DEF Job, NoJob, NoRequest, Request
    <3>4. job' \in Job
      BY <2>1, <3>1, <3>2, <3>3 DEF Job
    <3>5. /\ job'.task = "exit" /\ job'.holding = h /\ job'.qty = q
          /\ job'.owned = position[h]
      BY <3>2 DEF NoJob
    <3> QED
      BY <1>3, <3>4, <3>5 DEF StartExit
  <2>4. Work'
    BY <2>1, <2>2, <2>3 DEF Work, WorkType, Busy, Arming, Reserved, Cleared, Control, OnlyStops, Quiet
  <2> QED
    BY <2>1, <2>4
<1>4. ASSUME RefuseExit(h)
      PROVE  IInv'
  <2>1. /\ Core' /\ UNCHANGED <<orders, last, position, request, rows, todo, kill, expired>>
    BY <1>4, CoreUnchanged DEF RefuseExit, ledgerVars, brokerVars, worldVars
  <2>2. pc' = "leave" /\ job' \in Job /\ job'.task = "exit" /\ job'.holding = h
    BY <1>4 DEF RefuseExit, Job, NoJob, NoRequest, Request
  <2> QED
    BY <2>1, <2>2 DEF Work, WorkType, Busy, Arming, Reserved, Cleared, Control
<1>5. ASSUME NEW p \in Price, UpdateStop(h, p)
      PROVE  IInv'
  <2>1. /\ Core' /\ UNCHANGED <<orders, last, position, rows, todo, kill, expired>>
    BY <1>5, CoreUnchanged DEF UpdateStop, brokerVars, worldVars
  <2>2. request' \in [Holding -> Request] /\ request[h] \in Request
    BY <1>5, EntryIdNames, SavedRequestType DEF UpdateStop, Work, WorkType
  <2>3. pc' = "arm" /\ job' \in Job /\ job'.task = "protect" /\ job'.holding = h
    BY <1>5, <2>2 DEF UpdateStop, Job, NoJob, NoRequest, Request
  <2> QED
    BY <2>1, <2>2, <2>3 DEF Work, WorkType, Busy, Arming, Reserved, Cleared, Control
<1> QED
  BY <1>1, <1>2, <1>3, <1>4, <1>5

\* At these control points nothing is promised about orders.
LEMMA WorkRelaxed ==
  ASSUME WorkType', pc' \notin {"review", "dispatch", "await", "cancel", "poll", "canceled", "verify"},
         pc' \in {"idle", "recon", "maintain"} \/ (job'.task # "none" /\ job'.holding \in Holding),
         pc' = "arm" => job'.task = "protect"
  PROVE  Work'
BY DEF Work, Busy, Arming, Reserved, Cleared

\* StopLoss.state writes a well-formed row and resumes the caller.
LEMMA SettledType ==
  ASSUME WorkType, NEW h \in Holding, NEW o \in OrderId \union {0},
         NEW s \in {"pending", "active", "blocked", "complete"}, Settle(h, s, o)
  PROVE  request' \in [Holding -> Request] /\ pc' = "resume" /\ job' = job
<1>1. \A x \in OrderId \union {0} :
        [request EXCEPT ![h].status = s, ![h].order = x] \in [Holding -> Request]
  BY RequestWritten DEF WorkType
<1>2. request[h].order \in OrderId \union {0}
  BY DEF WorkType, Request
<1>3. request' = [request EXCEPT ![h].status = s,
                                 ![h].order = IF o = 0 THEN request[h].order ELSE o]
  BY DEF Settle
<1> QED
  BY <1>1, <1>2, <1>3 DEF Settle

\* A submission that was not placed, or may have been, leaves the path of orders.
LEMMA AfterFailureType ==
  ASSUME WorkType, Busy, pc \in {"review", "dispatch", "await"},
         NEW s \in {"pending", "blocked"}, AfterFailure(s)
  PROVE  /\ request' \in [Holding -> Request] /\ job' \in Job
         /\ pc' = "idle" \/ (pc' \in {"leave", "resume"} /\ job' = job)
<1>1. job.task \in {"open", "exit", "protect"} /\ job.holding \in Holding
  BY DEF WorkType, Busy, Job
<1>2. CASE job.task = "open"
  BY <1>2, NoJobType DEF AfterFailure, Idle, WorkType
<1>3. CASE job.task = "exit"
  BY <1>3 DEF AfterFailure, WorkType
<1>4. CASE job.task = "protect"
  BY <1>1, <1>4, SettledType DEF AfterFailure, WorkType
<1> QED
  BY <1>1, <1>2, <1>3, <1>4

\* An unfinished order whose outcome is uncertain stays unfinished.
LEMMA CoreUncertain ==
  ASSUME Core, NEW o \in OrderId, NEW learned \in BOOLEAN, MarkUnknown(o, learned),
         UNCHANGED <<last, position, wire, broker, acct>>
  PROVE  Core'
<1>1. orders[o] \in Order
  BY DEF Core, CoreType
<1> DEFINE s == IF IsLive(orders[o]) THEN "unknown" ELSE orders[o].status
           k == orders[o].known \/ learned
<1>2. orders' = [orders EXCEPT ![o].status = s, ![o].known = k]
  BY DEF MarkUnknown
<1>3. s \in Status /\ k \in BOOLEAN
  BY <1>1 DEF Status, Order
<1>4. s \in Terminal \union {"unused"} <=> orders[o].status \in Terminal \union {"unused"}
  BY DEF IsLive, Terminal
<1>5. s = "unused" <=> orders[o].status = "unused"
  BY DEF IsLive, Terminal
<1>o. [orders[o] EXCEPT !.status = s, !.known = k] \in Order
  BY <1>1, <1>3 DEF Order
<1> HIDE DEF s, k
<1>6. /\ orders' \in [OrderId -> Order]
      /\ \A p \in OrderId : /\ orders'[p].action = orders[p].action
                            /\ orders'[p].holding = orders[p].holding
                            /\ orders'[p].qty = orders[p].qty
                            /\ orders'[p].filled = orders[p].filled
                            /\ p # o => orders'[p] = orders[p]
      /\ orders'[o].status = s
  <2> DEFINE r == [orders[o] EXCEPT !.status = s, !.known = k]
  <2>1. orders \in [OrderId -> Order]
    BY DEF Core, CoreType
  <2>2. orders' = [orders EXCEPT ![o] = r]
    BY <1>2, <2>1
  <2>3. /\ r \in Order /\ r.action = orders[o].action /\ r.holding = orders[o].holding
        /\ r.qty = orders[o].qty /\ r.filled = orders[o].filled /\ r.status = s
    BY <1>1, <1>o DEF Order
  <2> HIDE DEF r
  <2> QED
    BY <2>1, <2>2, <2>3
<1>7. \A p \in OrderId : /\ IsLive(orders'[p]) <=> IsLive(orders[p])
                         /\ orders'[p].status = "unused" <=> orders[p].status = "unused"
  BY <1>4, <1>5, <1>6 DEF IsLive
<1> QED
  BY <1>6, <1>7, CoreRelabelled

\* Every step of a submission keeps the invariant.
LEMMA SubmitStep == IInv /\ Submit => IInv'
<1> SUFFICES ASSUME IInv, Submit PROVE IInv'
  OBVIOUS
<1> USE DEF IInv
<1>0. /\ WorkType /\ Busy /\ Arming /\ Reserved /\ Cleared /\ CoreType
      /\ \A o \in 1 .. last : o \in OrderId
  BY ExecutionAssumption DEF Work, Core, CoreType, OrderId
<1>1. CASE HoldExit
  <2>1. Core' /\ UNCHANGED <<request, job, rows, todo, kill, expired>> /\ pc' = "leave"
    BY <1>1, CoreUnchanged DEF HoldExit, ledgerVars, brokerVars, worldVars
  <2> QED
    BY <1>0, <1>1, <2>1, WorkRelaxed DEF HoldExit, WorkType, Busy, Control
<1>2. CASE ReserveExit
  <2> DEFINE h == job.holding
  <2>1. /\ h \in Holding /\ Quiet(h) /\ job.qty \in Nat \ {0} /\ job.qty <= position[h]
        /\ job.task = "exit" /\ job.price \in Price \union {NoPrice} /\ job \in Job
        /\ Reserve(h, "EXIT", "limit", job.qty, NoPrice)
        /\ UNCHANGED <<position, wire, broker, acct>>
    BY <1>0, <1>2 DEF ReserveExit, Busy, Cleared, WorkType, Job, CoreType, brokerVars
  <2>2. /\ Core' /\ last' = last + 1 /\ last' \in OrderId
        /\ orders'[last'].status = "submitting" /\ orders'[last'].holding = h
        /\ orders'[last'].filled = 0
        /\ last' \notin wire' /\ broker'[last'].state = "absent"
    BY <2>1, CoreReserved
  <2>3. /\ pc' = "review" /\ job' = [job EXCEPT !.id = last']
        /\ UNCHANGED <<rows, todo, kill, expired>>
    BY <1>2, <2>2 DEF ReserveExit, worldVars
  <2>4. job' \in Job /\ job'.id = last' /\ job'.holding = h /\ job'.task = "exit"
    BY <2>1, <2>2, <2>3 DEF Job
  <2>5. request' \in [Holding -> Request]
    BY <1>0, <1>2, <2>1, EntryIdNames, SavedRequestType DEF ReserveExit, WorkType
  <2> QED
    BY <1>0, <2>1, <2>2, <2>3, <2>4, <2>5
       DEF Work, WorkType, Busy, Arming, Reserved, Cleared, Control, Core, CoreType
<1>3. CASE Review
  <2>1. Core' /\ UNCHANGED <<orders, last, wire, broker, request, job, rows, todo, kill, expired>>
        /\ pc = "review" /\ pc' = "dispatch"
    BY <1>3, CoreUnchanged DEF Review, ledgerVars, brokerVars, worldVars
  <2> QED
    BY <1>0, <2>1 DEF Work, WorkType, Busy, Arming, Reserved, Cleared, Control
<1>4. ASSUME NEW b \in BOOLEAN, Dispatch(b)
      PROVE  IInv'
  <2> DEFINE o == job.id
  <2>1. /\ o \in 1 .. last /\ orders[o].status = "submitting" /\ broker[o].state = "absent"
        /\ orders[o].filled = 0 /\ orders[o].holding = job.holding
        /\ orders' = [orders EXCEPT ![o].timed = b] /\ wire' = wire \union {o}
        /\ pc' = "await"
        /\ UNCHANGED <<last, position, broker, acct, request, job, rows, todo, kill, expired>>
    BY <1>0, <1>4 DEF Dispatch, Reserved, worldVars
  <2>2. Core'
    BY <2>1, CoreSent
  <2>3. /\ orders'[o].status = "submitting" /\ orders'[o].filled = 0
        /\ orders'[o].holding = job.holding
    BY <1>0, <2>1 DEF CoreType, Order
  <2> QED
    BY <1>0, <1>4, <2>1, <2>2, <2>3 DEF Dispatch, Work, WorkType, Busy, Arming, Reserved, Cleared, Control
<1>5. ASSUME NEW s \in {"pending", "blocked"}, PreflightHold(s)
      PROVE  IInv'
  <2> DEFINE o == job.id
  <2>1. /\ o \in 1 .. last /\ orders[o].status = "submitting" /\ orders[o].filled = 0
        /\ o \notin wire /\ broker[o].state = "absent"
        /\ orders' = [orders EXCEPT ![o].status = "rejected"]
        /\ pc \in {"review", "dispatch"} /\ AfterFailure(s)
        /\ UNCHANGED <<last, position, wire, broker, acct, rows, todo, kill, expired>>
    BY <1>0, <1>5 DEF PreflightHold, Reserved, brokerVars, worldVars
  <2>2. Core'
    BY <2>1, CoreRejected DEF IsLive, Terminal
  <2>3. /\ request' \in [Holding -> Request] /\ job' \in Job
        /\ pc' = "idle" \/ (pc' \in {"leave", "resume"} /\ job' = job)
    BY <1>0, <2>1, AfterFailureType
  <2>4. WorkType' /\ Busy'
    BY <1>0, <2>1, <2>3 DEF WorkType, Busy, Control
  <2> QED
    BY <2>2, <2>3, <2>4, WorkRelaxed DEF Busy
<1>6. ASSUME NEW b \in BOOLEAN, SubmissionUncertain(b)
      PROVE  IInv'
  <2> DEFINE o == job.id
  <2>1. /\ o \in 1 .. last /\ MarkUnknown(o, b)
        /\ pc \in {"review", "await"} /\ AfterFailure("blocked")
        /\ UNCHANGED <<last, position, wire, broker, acct, rows, todo, kill, expired>>
    BY <1>0, <1>6 DEF SubmissionUncertain, Reserved, brokerVars, worldVars
  <2>2. Core'
    BY <1>0, <2>1, CoreUncertain
  <2>3. /\ request' \in [Holding -> Request] /\ job' \in Job
        /\ pc' = "idle" \/ (pc' \in {"leave", "resume"} /\ job' = job)
    BY <1>0, <2>1, AfterFailureType
  <2>4. WorkType' /\ Busy'
    BY <1>0, <2>1, <2>3 DEF WorkType, Busy, Control
  <2> QED
    BY <2>2, <2>3, <2>4, WorkRelaxed DEF Busy
<1>7. CASE SubmissionAnswered
  <2> DEFINE o == job.id
             h == job.holding
             armed == [NoJob EXCEPT !.task = "protect", !.holding = h]
  <2>1. /\ o \in 1 .. last /\ o \in OrderId /\ h \in Holding
        /\ UNCHANGED <<last, wire, broker, acct, rows, todo, kill, expired>>
    BY <1>0, <1>7 DEF SubmissionAnswered, Reserved, Busy, brokerVars, worldVars
  <2>2. PICK v \in Reports(o) :
          /\ ApplyResult(o, v)
          /\ \/ Settle(h, PlacedStopStatus(orders[o], v.status), o)
             \/ pc' = "arm" /\ job' = [armed EXCEPT !.next = "leave"] /\ UNCHANGED request
             \/ pc' = "arm" /\ job' = armed /\ UNCHANGED request
             \/ Idle /\ UNCHANGED request
    BY <1>7 DEF SubmissionAnswered
  <2>3. Core'
    BY <2>1, <2>2, CoreApplied
  <2>4. PlacedStopStatus(orders[o], v.status) \in {"complete", "active", "blocked", "pending"}
    BY DEF PlacedStopStatus
  <2>5. armed \in Job /\ [armed EXCEPT !.next = "leave"] \in Job
    BY <2>1, NoJobType DEF Job
  <2>6. /\ request' \in [Holding -> Request] /\ job' \in Job
        /\ pc' = "idle" \/ (pc' = "resume" /\ job' = job)
           \/ (pc' = "arm" /\ job'.task = "protect" /\ job'.holding = h)
    <3>1. /\ armed.task = "protect" /\ armed.holding = h
          /\ [armed EXCEPT !.next = "leave"].task = "protect"
          /\ [armed EXCEPT !.next = "leave"].holding = h
      BY DEF NoJob
    <3>2. CASE Settle(h, PlacedStopStatus(orders[o], v.status), o)
      <4>1. request' \in [Holding -> Request] /\ pc' = "resume" /\ job' = job
        BY <1>0, <2>1, <2>4, <3>2, SettledType
      <4> QED
        BY <1>0, <4>1 DEF WorkType
    <3>3. CASE Idle /\ UNCHANGED request
      BY <1>0, <3>3, NoJobType DEF Idle, WorkType
    <3>4. CASE pc' = "arm" /\ job' \in {armed, [armed EXCEPT !.next = "leave"]} /\ UNCHANGED request
      <4> HIDE DEF armed
      <4> QED
        BY <1>0, <2>5, <3>1, <3>4 DEF WorkType
    <3> QED
      BY <2>2, <3>2, <3>3, <3>4
  <2>7. WorkType' /\ Busy'
    BY <1>0, <1>7, <2>1, <2>6 DEF SubmissionAnswered, WorkType, Busy, Control
  <2> QED
    BY <2>3, <2>6, <2>7, WorkRelaxed DEF Busy
<1>8. CASE LeaveExit
  <2>1. Core' /\ UNCHANGED <<request, rows, todo, kill, expired>>
        /\ pc' \in {"arm", "idle"} /\ job.holding \in Holding
    BY <1>0, <1>8, CoreUnchanged DEF LeaveExit, Idle, ledgerVars, brokerVars, worldVars, Busy
  <2>2. job' \in Job /\ (pc' = "arm" => job'.task = "protect" /\ job'.holding = job.holding)
    BY <1>8, <2>1, NoJobType, ProtectJobType DEF LeaveExit, Idle
  <2>3. WorkType'
    BY <1>0, <2>1, <2>2 DEF WorkType, Control
  <2> QED
    BY <2>1, <2>2, <2>3, WorkRelaxed
<1> QED
  BY <1>1, <1>2, <1>3, <1>4, <1>5, <1>6, <1>7, <1>8 DEF Submit

\* The task only writes down what became of a protection request.
LEMMA SettleStep ==
  ASSUME IInv, pc \notin {"idle", "recon", "maintain"},
         NEW o \in OrderId \union {0}, NEW s \in {"pending", "active", "blocked", "complete"},
         Settle(job.holding, s, o),
         UNCHANGED <<orders, last, position, rows, todo, brokerVars, worldVars>>
  PROVE  IInv'
<1>1. WorkType /\ job.task # "none" /\ job.holding \in Holding
  BY DEF IInv, Work, Busy
<1>2. Core'
  BY CoreUnchanged DEF IInv, brokerVars
<1>3. request' \in [Holding -> Request] /\ pc' = "resume" /\ job' = job
  BY <1>1, SettledType
<1>4. WorkType'
  BY <1>1, <1>3 DEF WorkType, Control, worldVars
<1> QED
  BY <1>1, <1>2, <1>3, <1>4, WorkRelaxed DEF IInv

\* A cancellation the relay gives up on leaves the path of orders.
LEMMA GivenUpType ==
  ASSUME WorkType, Busy, pc \in {"cancel", "poll"}, CancelGivenUp
  PROVE  request' \in [Holding -> Request] /\ pc' \in {"leave", "resume"} /\ job' = job
BY SettledType DEF CancelGivenUp, WorkType, Busy

\* Cancelling, arming and replacing a stop keep the invariant.
LEMMA ProtectStep == IInv /\ Protect => IInv'
<1> SUFFICES ASSUME IInv, Protect PROVE IInv'
  OBVIOUS
<1> USE DEF IInv
<1>0. /\ WorkType /\ Busy /\ Arming /\ Reserved /\ Cleared /\ CoreType /\ Core
      /\ \A o \in 1 .. last : o \in OrderId
  BY ExecutionAssumption DEF Work, Core, CoreType, OrderId
<1>1. ASSUME NEW o \in OrderId, NEW b \in BOOLEAN, CancelStop(o, b)
      PROVE  IInv'
  <2> DEFINE h == job.holding
             s == IF b /\ broker[o].state = "working" THEN "canceling" ELSE broker[o].state
  <2>1. /\ broker' = [broker EXCEPT ![o].state = s]
        /\ UNCHANGED <<orders, last, position, wire, acct, request, rows, todo, kill, expired>>
        /\ pc = "cancel" /\ pc' = "poll" /\ job' = [job EXCEPT !.id = o, !.polls = 0]
        /\ IsLive(orders[o]) /\ orders[o].holding = h
    BY <1>1 DEF CancelStop, ledgerVars, worldVars, ActiveStops, LiveOrders
  <2>2. Core'
    <3>1. s \in {broker[o].state, "canceling"} /\ (s = "canceling" => BrokerLive(o))
      BY DEF BrokerLive
    <3> HIDE DEF s
    <3> QED
      BY <1>0, <2>1, <3>1, CoreCanceling
  <2>3. o \in 1 .. last
    BY <1>0, <2>1 DEF Core, Numbered, OrderId, IsLive
  <2>4. job' \in Job /\ job'.id = o /\ job'.holding = h /\ job'.task = job.task
        /\ job'.owned = job.owned /\ job'.qty = job.qty
    BY <1>0, <2>1 DEF WorkType, Job
  <2>5. /\ h \in Holding /\ job.task # "none" /\ OnlyStops(h) /\ job.owned > 0
        /\ job.task = "exit" => job.qty \in 1 .. job.owned
    BY <1>0, <2>1 DEF Busy, Cleared
  <2>6. OnlyStops(job.holding)'
    BY <2>1, <2>4, <2>5 DEF OnlyStops
  <2> QED
    BY <1>0, <2>1, <2>2, <2>3, <2>4, <2>5, <2>6 DEF Work, WorkType, Busy, Arming, Reserved, Cleared, Control
<1>2. CASE PollCancel
  <2> DEFINE o == job.id
             h == job.holding
  <2>1. /\ pc = "poll" /\ o \in OrderId /\ o \in 1 .. last /\ orders[o].holding = h
        /\ h \in Holding /\ job.task # "none" /\ OnlyStops(h) /\ job.owned > 0
        /\ job.task = "exit" => job.qty \in 1 .. job.owned
        /\ UNCHANGED <<last, wire, broker, acct, rows, todo, kill, expired>>
    BY <1>0, <1>2 DEF PollCancel, Cleared, Busy, brokerVars, worldVars
  <2>2. PICK v \in Reports(o) :
          /\ ApplyResult(o, v)
          /\ \/ /\ v.status \in Terminal
                /\ pc' = IF ActiveStops(h) = {o} THEN "canceled" ELSE "cancel"
                /\ UNCHANGED <<job, request>>
             \/ /\ job' = [job EXCEPT !.polls = @ + 1]
                /\ UNCHANGED <<pc, request>>
             \/ CancelGivenUp
    BY <1>2 DEF PollCancel
  <2>3. /\ Core'
        /\ \A p \in OrderId : /\ orders'[p].action = orders[p].action
                              /\ orders'[p].holding = orders[p].holding
                              /\ IsLive(orders'[p]) => IsLive(orders[p])
        /\ v.status \in Terminal => ~IsLive(orders'[o])
    BY <1>0, <2>1, <2>2, CoreApplied
  <2>4. CASE CancelGivenUp
    <3>1. request' \in [Holding -> Request] /\ pc' \in {"leave", "resume"} /\ job' = job
      BY <1>0, <2>1, <2>4, GivenUpType
    <3>2. WorkType'
      BY <1>0, <2>1, <3>1 DEF WorkType, Control
    <3> QED
      BY <2>1, <2>3, <3>1, <3>2, WorkRelaxed
  <2>5. CASE job' = [job EXCEPT !.polls = @ + 1] /\ UNCHANGED <<pc, request>>
    <3>1. job' \in Job /\ job'.id = o /\ job'.holding = h /\ job'.task = job.task
          /\ job'.owned = job.owned /\ job'.qty = job.qty
      BY <1>0, <2>5 DEF WorkType, Job
    <3>2. OnlyStops(job.holding)'
      BY <2>1, <2>3, <3>1 DEF OnlyStops
    <3> QED
      BY <1>0, <2>1, <2>3, <2>5, <3>1, <3>2
         DEF Work, WorkType, Busy, Arming, Reserved, Cleared, Control
  <2>6. CASE /\ v.status \in Terminal
             /\ pc' = IF ActiveStops(h) = {o} THEN "canceled" ELSE "cancel"
             /\ UNCHANGED <<job, request>>
    <3>1. OnlyStops(job.holding)'
      BY <2>1, <2>3, <2>6 DEF OnlyStops
    <3>2. pc' = "canceled" => Quiet(job.holding)'
      BY <2>1, <2>3, <2>6 DEF OnlyStops, Quiet, ActiveStops, LiveOrders
    <3>3. WorkType'
      BY <1>0, <2>1, <2>6 DEF WorkType, Control
    <3> QED
      BY <1>0, <2>1, <2>3, <2>6, <3>1, <3>2, <3>3
         DEF Work, Busy, Arming, Reserved, Cleared
  <2> QED
    BY <2>2, <2>4, <2>5, <2>6
<1>3. CASE CancelFails
  <2>1. Core' /\ UNCHANGED <<rows, todo, kill, expired>>
    BY <1>0, <1>3, CoreUnchanged DEF CancelFails, brokerVars, worldVars
  <2>2. request' \in [Holding -> Request] /\ pc' \in {"leave", "resume"} /\ job' = job
        /\ job.task # "none" /\ job.holding \in Holding
    BY <1>0, <1>3, GivenUpType DEF CancelFails, Busy
  <2>3. WorkType'
    BY <1>0, <2>1, <2>2 DEF WorkType, Control
  <2> QED
    BY <2>1, <2>2, <2>3, WorkRelaxed
<1>4. CASE ExitMayProceed
  <2>1. /\ Core' /\ UNCHANGED <<orders, last, position, wire, broker, job, rows, todo, kill, expired>>
        /\ pc = "canceled" /\ job.task = "exit"
        /\ pc' \in {"verify", "leave"} /\ (pc' = "verify" => position[job.holding] = job.owned)
    BY <1>0, <1>4, CoreUnchanged DEF ExitMayProceed, brokerVars, worldVars
  <2>2. request' \in [Holding -> Request]
    <3>1. job.holding \in Holding /\ request \in [Holding -> Request]
      BY <1>0, <2>1 DEF Busy, WorkType
    <3>2. request' = request \/ request' = [request EXCEPT ![job.holding].status = "pending"]
      BY <1>4 DEF ExitMayProceed
    <3>3. [request EXCEPT ![job.holding].status = "pending"] \in [Holding -> Request]
      BY <3>1, StatusWritten, Zenon
    <3> QED
      BY <3>1, <3>2, <3>3, Zenon
  <2>3. WorkType'
    BY <1>0, <2>1, <2>2 DEF WorkType, Control
  <2>4. Quiet(job.holding) /\ job.owned > 0 /\ job.qty \in 1 .. job.owned /\ Busy
    BY <1>0, <2>1 DEF Cleared
  <2>5. Quiet(job.holding)'
    BY <2>1, <2>4 DEF Quiet, LiveOrders
  <2>6. Cleared' /\ Busy' /\ Arming' /\ Reserved'
    BY <2>1, <2>4, <2>5 DEF Cleared, Busy, Arming, Reserved
  <2> QED
    BY <2>1, <2>3, <2>6 DEF Work
<1>5. CASE ArmWithoutPosition
  BY <1>5, SettleStep DEF ArmWithoutPosition
<1>6. CASE ArmPausedOrExpired
  BY <1>6, SettleStep DEF ArmPausedOrExpired, ArmApplies
<1>7. CASE ArmAlreadyActive
  <2>1. PICK o \in OrderId : Settle(job.holding, "active", o)
    BY <1>7 DEF ArmAlreadyActive, ActiveStops, LiveOrders
  <2> QED
    BY <1>7, <2>1, SettleStep DEF ArmAlreadyActive, ArmApplies
<1>8. ASSUME NEW s \in {"pending", "blocked"}, ArmDeferred(s)
      PROVE  IInv'
  BY <1>8, SettleStep DEF ArmDeferred, ArmNeeded, ArmApplies
<1>9. CASE ArmReplace
  <2> DEFINE h == job.holding
  <2>1. /\ Core' /\ UNCHANGED <<orders, last, position, wire, broker, request, rows, todo, kill, expired>>
        /\ h \in Holding /\ job.task # "none" /\ pc = "arm"
        /\ position[h] > 0 /\ position[h] \in Nat
        /\ pc' = IF ActiveStops(h) = {} THEN "canceled" ELSE "cancel"
        /\ job' = [job EXCEPT !.owned = position[h]]
    BY <1>0, <1>9, CoreUnchanged
       DEF ArmReplace, ArmNeeded, ArmApplies, ledgerVars, brokerVars, worldVars, Busy, CoreType
  <2>2. OnlyStops(h) /\ (ActiveStops(h) = {} => Quiet(h))
    BY <1>0, <1>9, <2>1, NothingUnresolved DEF ArmReplace
  <2>3. job.task = "protect"
    BY <1>0, <1>9, <2>1 DEF Arming
  <2>4. job' \in Job /\ job'.holding = h /\ job'.task = "protect" /\ job'.owned = position[h]
    BY <1>0, <2>1, <2>3 DEF WorkType, Job
  <2>5. OnlyStops(job.holding)' /\ (pc' = "canceled" => Quiet(job.holding)')
    BY <2>1, <2>2, <2>4 DEF OnlyStops, Quiet
  <2> QED
    BY <1>0, <2>1, <2>4, <2>5 DEF Work, WorkType, Busy, Reserved, Cleared, Arming, Control
<1>10. CASE ArmInventoryMoved
  BY <1>10, SettleStep DEF ArmInventoryMoved
<1>11. ASSUME NEW k \in {"market", "stop_market"}, ReserveStop(k)
       PROVE  IInv'
  <2> DEFINE h == job.holding
  <2>1. /\ h \in Holding /\ Quiet(h) /\ position[h] \in Nat \ {0}
        /\ request[h].price \in Price \union {NoPrice}
        /\ Reserve(h, "UPDATE_STOP", k, position[h], request[h].price)
        /\ UNCHANGED <<position, wire, broker, acct, rows, todo, kill, expired>>
        /\ job.task = "protect" /\ job \in Job
    BY <1>0, <1>11 DEF ReserveStop, Busy, Cleared, CoreType, WorkType, Request,
                       brokerVars, worldVars
  <2>2. /\ Core' /\ last' = last + 1 /\ last' \in OrderId
        /\ orders'[last'].status = "submitting" /\ orders'[last'].holding = h
        /\ orders'[last'].filled = 0
        /\ last' \notin wire' /\ broker'[last'].state = "absent"
    BY <1>0, <2>1, CoreReserved
  <2>3. /\ pc' = "review" /\ job' = [job EXCEPT !.id = last']
        /\ request' = [request EXCEPT ![h].status = "pending", ![h].order = last']
    BY <1>11, <2>2 DEF ReserveStop
  <2>4. job' \in Job /\ job'.id = last' /\ job'.holding = h /\ job'.task = "protect"
    BY <2>1, <2>2, <2>3 DEF Job
  <2>5. request' \in [Holding -> Request]
    BY <1>0, <2>1, <2>2, <2>3, RequestWritten DEF WorkType
  <2>6. WorkType'
    BY <1>0, <2>1, <2>3, <2>4, <2>5 DEF WorkType, Control, Core, CoreType
  <2>7. Reserved' /\ Busy'
    BY <2>1, <2>2, <2>3, <2>4 DEF Reserved, Busy, Core, CoreType, OrderId
  <2>8. Arming' /\ Cleared'
    BY <2>3 DEF Arming, Cleared
  <2> QED
    BY <2>2, <2>6, <2>7, <2>8 DEF Work
<1>12. CASE Resume
  <2> DEFINE h == job.holding
             back == [job.prev EXCEPT !.status = "pending", !.order = request[h].order]
  <2>1. /\ Core' /\ UNCHANGED <<rows, todo, kill, expired>>
        /\ h \in Holding /\ job.task # "none" /\ job \in Job
    BY <1>0, <1>12, CoreUnchanged DEF Resume, brokerVars, worldVars, Busy, WorkType
  <2>2. back \in Request
    BY <1>0, <2>1 DEF WorkType, Job, Request
  <2> HIDE DEF back
  <2>3. request' \in [Holding -> Request]
    BY <1>0, <1>12, <2>1, <2>2 DEF Resume, WorkType, back
  <2>4. /\ job' \in Job
        /\ \/ pc' = "idle"
           \/ pc' = "arm" /\ job'.task = "protect" /\ job'.holding = h
           \/ pc' \in {"leave", "maintain"} /\ job' = job
    <3>1. \/ pc' = "idle" /\ job' = NoJob
          \/ pc' = "arm" /\ job' = [NoJob EXCEPT !.task = "protect", !.holding = h]
          \/ pc' \in {"leave", "maintain"} /\ job' = job
      BY <1>12, <2>1 DEF Resume, Idle, Job
    <3> QED BY <2>1, <3>1, NoJobType, ProtectJobType
  <2>5. WorkType'
    BY <1>0, <2>1, <2>3, <2>4 DEF WorkType, Control
  <2> QED
    BY <2>1, <2>4, <2>5, WorkRelaxed
<1> QED
  BY <1>1, <1>2, <1>3, <1>4, <1>5, <1>6, <1>7, <1>8, <1>9, <1>10, <1>11, <1>12 DEF Protect

\* Reconciliation and the maintenance of protection keep the invariant.
LEMMA ReconcileStep == IInv /\ Reconcile => IInv'
<1> SUFFICES ASSUME IInv, Reconcile PROVE IInv'
  OBVIOUS
<1> USE DEF IInv
<1>0. WorkType /\ Core /\ CoreType
  BY DEF Work, Core
<1>1. CASE BeginReconcile
  <2>1. Core' /\ UNCHANGED <<request, job, todo, kill, expired>> /\ pc' = "recon"
        /\ rows' \subseteq OrderId
    BY <1>0, <1>1, CoreUnchanged
       DEF BeginReconcile, ledgerVars, brokerVars, worldVars, LiveOrders
  <2> QED
    BY <1>0, <2>1, WorkRelaxed DEF WorkType, Control
<1>2. CASE BeginMaintain
  <2>1. Core' /\ UNCHANGED <<request, job, rows, kill, expired>> /\ pc' = "maintain"
        /\ todo' \subseteq Holding
    BY <1>0, <1>2, CoreUnchanged DEF BeginMaintain, ledgerVars, brokerVars, worldVars
  <2> QED
    BY <1>0, <2>1, WorkRelaxed DEF WorkType, Control
<1>3. CASE EndMaintain
  <2>1. Core' /\ UNCHANGED <<request, rows, todo, kill, expired>> /\ pc' = "idle" /\ job' = NoJob
    BY <1>0, <1>3, CoreUnchanged DEF EndMaintain, Idle, ledgerVars, brokerVars, worldVars
  <2> QED
    BY <1>0, <2>1, WorkRelaxed, NoJobType DEF WorkType, Control
<1>4. ASSUME NEW o \in OrderId, CancelExpiredEntry(o)
      PROVE  IInv'
  <2>1. Core'
    BY <1>0, <1>4, CoreCanceling DEF CancelExpiredEntry, ledgerVars, BrokerLive
  <2>2. UNCHANGED <<request, pc, job, rows, todo, kill, expired>> /\ pc = "recon"
    BY <1>4 DEF CancelExpiredEntry, ledgerVars, taskVars, worldVars
  <2> QED
    BY <1>0, <2>1, <2>2, WorkRelaxed DEF WorkType
<1>5. ASSUME NEW o \in OrderId, ReconcileOrder(o)
      PROVE  IInv'
  <2>1. PICK v \in Reports(o) : ApplyResult(o, v)
    BY <1>5 DEF ReconcileOrder
  <2>2. /\ UNCHANGED <<last, wire, broker, acct, request, pc, job, todo, kill, expired>>
        /\ rows' \subseteq OrderId /\ pc = "recon"
    BY <1>0, <1>5 DEF ReconcileOrder, brokerVars, worldVars, WorkType
  <2>3. Core'
    BY <1>0, <2>1, <2>2, CoreApplied
  <2> QED
    BY <1>0, <2>2, <2>3, WorkRelaxed DEF WorkType
<1>6. ASSUME NEW o \in OrderId, NEW b \in BOOLEAN, ReconcileFails(o, b)
      PROVE  IInv'
  <2>1. /\ UNCHANGED <<last, position, wire, broker, acct, pc, job, todo, kill, expired>>
        /\ rows' \subseteq OrderId /\ pc = "recon"
    BY <1>0, <1>6 DEF ReconcileFails, brokerVars, worldVars, WorkType
  <2>2. request' \in [Holding -> Request]
    <3>1. \A h \in Holding : [request[h] EXCEPT !.status = "pending"] \in Request
      BY <1>0 DEF WorkType, Request
    <3> QED
      BY <1>0, <1>6, <3>1 DEF ReconcileFails, WorkType
  <2>3. Core'
    <3>1. CASE orders[o].action = "UPDATE_STOP"
      BY <1>0, <1>6, <2>1, <3>1, CoreUncertain DEF ReconcileFails
    <3>2. CASE orders[o].action # "UPDATE_STOP"
      <4> DEFINE k == orders[o].known \/ b
      <4>1. orders' = [orders EXCEPT ![o].known = k]
        BY <1>6, <3>2 DEF ReconcileFails
      <4>2. k \in BOOLEAN
        BY <1>0 DEF CoreType, Order
      <4> HIDE DEF k
      <4>3. /\ orders' \in [OrderId -> Order]
            /\ \A p \in OrderId : /\ orders'[p].action = orders[p].action
                                  /\ orders'[p].holding = orders[p].holding
                                  /\ orders'[p].qty = orders[p].qty
                                  /\ orders'[p].filled = orders[p].filled
                                  /\ orders'[p].status = orders[p].status
        BY <1>0, <4>1, <4>2 DEF CoreType, Order
      <4> QED
        BY <1>0, <2>1, <4>3, CoreRelabelled DEF IsLive
    <3> QED
      BY <3>1, <3>2
  <2> QED
    BY <1>0, <2>1, <2>2, <2>3, WorkRelaxed DEF WorkType
<1>7. ASSUME NEW h \in Holding, Maintain(h)
      PROVE  IInv'
  <2>1. /\ Core' /\ UNCHANGED <<rows, kill, expired>> /\ todo' \subseteq Holding
    BY <1>0, <1>7, CoreUnchanged DEF Maintain, brokerVars, worldVars, WorkType
  <2>2. request' \in [Holding -> Request]
    BY <1>0, <1>7 DEF Maintain, WorkType, Request
  <2>3. [NoJob EXCEPT !.task = "protect", !.holding = h, !.next = "maintain"] \in Job
    BY NoJobType DEF Job
  <2>4. /\ job' \in Job
        /\ pc' = "maintain" \/ (pc' = "arm" /\ job'.task = "protect" /\ job'.holding = h)
    BY <1>0, <1>7, <2>3 DEF Maintain, WorkType, NoJob
  <2>5. WorkType'
    BY <1>0, <2>1, <2>2, <2>4 DEF WorkType, Control
  <2> QED
    BY <2>1, <2>4, <2>5, WorkRelaxed
<1> QED
  BY <1>1, <1>2, <1>3, <1>4, <1>5, <1>6, <1>7 DEF Reconcile

\* A crash keeps Core, and whatever the task had made sure of is gone with it.
LEMMA CrashStep == IInv /\ Crash => IInv'
<1> SUFFICES ASSUME IInv, Crash PROVE IInv'
  OBVIOUS
<1>0. WorkType /\ Core /\ CoreType
  BY DEF IInv, Work, Core
<1>1. \A o \in OrderId :
        orders'[o] = IF orders[o].status = "submitting"
                       THEN [orders[o] EXCEPT !.status = "unknown"] ELSE orders[o]
  BY DEF Crash
<1>2. /\ orders' \in [OrderId -> Order]
      /\ \A p \in OrderId : /\ orders'[p].action = orders[p].action
                            /\ orders'[p].holding = orders[p].holding
                            /\ orders'[p].qty = orders[p].qty
                            /\ orders'[p].filled = orders[p].filled
                            /\ orders'[p].status = IF orders[p].status = "submitting"
                                                     THEN "unknown" ELSE orders[p].status
  <2>1. \A o \in OrderId : [orders[o] EXCEPT !.status = "unknown"] \in Order
    BY <1>0 DEF CoreType, Order, Status
  <2>2. orders' \in [OrderId -> Order]
    BY <1>0, <2>1 DEF CoreType, Crash
  <2> QED
    BY <1>0, <1>1, <2>2 DEF CoreType, Order
<1>3. Core'
  BY <1>0, <1>2, CoreRelabelled DEF Crash, IsLive, Terminal, brokerVars
<1>4. /\ pc' = "recon" /\ job' = NoJob /\ rows' \subseteq OrderId /\ todo' \subseteq Holding
      /\ UNCHANGED <<request, kill, expired>>
  BY DEF Crash, LiveOrders, worldVars
<1> QED
  BY <1>0, <1>3, <1>4, NoJobType, WorkRelaxed DEF IInv, WorkType, Control

\* Work speaks of the task, the ledger and what has not been sent.
LEMMA WorkKept ==
  ASSUME Work, UNCHANGED <<ledgerVars, taskVars>>, WorkType',
         wire' \subseteq wire,
         \A o \in OrderId : broker[o].state = "absent" /\ o \notin wire
                              => broker'[o].state = "absent"
  PROVE  Work'
<1>1. Busy' /\ Cleared'
  BY DEF Work, Busy, Cleared, OnlyStops, Quiet, ledgerVars, taskVars
<1>2. Reserved'
  BY ExecutionAssumption DEF Work, WorkType, Job, Reserved, ledgerVars, taskVars, OrderId
<1> QED
  BY <1>1, <1>2 DEF Work, Arming, taskVars

\* The broker, the operator and the calendar keep the invariant.
LEMMA WorldStep == IInv /\ World => IInv'
<1> SUFFICES ASSUME IInv, World PROVE IInv'
  OBVIOUS
<1> USE DEF IInv
<1>0. WorkType /\ Work /\ Core /\ CoreType
  BY DEF Work, Core
<1>1. ASSUME NEW o \in OrderId, NEW s \in {"working", "rejected", "absent"}, Arrive(o, s)
      PROVE  IInv'
  <2>1. WorkType' /\ wire' \subseteq wire /\ \A p \in OrderId : p # o => broker'[p] = broker[p]
    BY <1>0, <1>1 DEF Arrive, WorkType, CoreType, ledgerVars, taskVars, worldVars
  <2> QED
    BY <1>0, <1>1, <2>1, CoreArrived, WorkKept DEF Arrive
<1>2. ASSUME NEW o \in OrderId, Fill(o)
      PROVE  IInv'
  <2>1. WorkType' /\ wire' \subseteq wire /\ \A p \in OrderId : p # o => broker'[p] = broker[p]
    BY <1>0, <1>2 DEF Fill, WorkType, CoreType, ledgerVars, taskVars, worldVars
  <2>2. broker[o].state # "absent"
    BY <1>2 DEF Fill, BrokerLive
  <2> QED
    BY <1>0, <1>2, <2>1, <2>2, CoreTraded, WorkKept DEF Fill
<1>3. ASSUME NEW o \in OrderId, NEW s \in {"canceled", "rejected"}, EndOrder(o, s)
      PROVE  IInv'
  <2>1. WorkType' /\ wire' \subseteq wire /\ \A p \in OrderId : p # o => broker'[p] = broker[p]
    BY <1>0, <1>3 DEF EndOrder, WorkType, CoreType, ledgerVars, taskVars, worldVars
  <2>2. broker[o].state # "absent"
    BY <1>3 DEF EndOrder, BrokerLive
  <2> QED
    BY <1>0, <1>3, <2>1, <2>2, CoreEnded, WorkKept DEF EndOrder
<1>4. ASSUME ToggleKill \/ \E h \in Holding : Expire(h)
      PROVE  IInv'
  <2>1. UNCHANGED <<ledgerVars, taskVars, wire, broker, acct>>
    BY <1>4 DEF ToggleKill, Expire, brokerVars
  <2>2. WorkType'
    BY <1>0, <1>4, <2>1 DEF ToggleKill, Expire, WorkType, ledgerVars, taskVars
  <2>3. Core'
    BY <1>0, <2>1, CoreUnchanged DEF ledgerVars
  <2> QED
    BY <1>0, <2>1, <2>2, <2>3, WorkKept
<1> QED
  BY <1>1, <1>2, <1>3, <1>4 DEF World

\* The invariant is inductive.
LEMMA StepIInv == IInv /\ [Next]_vars => IInv'
<1> SUFFICES ASSUME IInv, [Next]_vars PROVE IInv'
  OBVIOUS
<1>1. CASE UNCHANGED vars
  BY <1>1, CoreUnchanged
     DEF IInv, Work, WorkType, Busy, Reserved, Cleared, Arming, OnlyStops, Quiet,
         vars, ledgerVars, taskVars, brokerVars, worldVars
<1> QED
  BY <1>1, DecideStep, SubmitStep, ProtectStep, ReconcileStep, CrashStep, WorldStep DEF Next

\* What the ledger, the broker and the task agree on holds in every reachable
\* state of Execution, crashes and lost answers included.
THEOREM Invariance == Spec => []IInv
BY InitIInv, StepIInv, PTL DEF Spec

-----------------------------------------------------------------------------
(* Safety. *)

\* What the invariant says of orders that can still trade.
LEMMA IInvImplies == IInv => /\ TypeOK /\ NoOversell /\ OneOutstanding
                             /\ NothingWrittenOff /\ BooksBalance
<1> SUFFICES ASSUME IInv PROVE /\ TypeOK /\ NoOversell /\ OneOutstanding
                               /\ NothingWrittenOff /\ BooksBalance
  OBVIOUS
<1>0. Core /\ CoreType /\ Work /\ WorkType
  BY DEF IInv, Core, Work
<1>1. TypeOK
  BY <1>0 DEF TypeOK, CoreType, WorkType
<1>2. NothingWrittenOff
  BY <1>0 DEF Core
<1>3. \A o \in Outstanding : o \in OrderId /\ IsLive(orders[o])
  BY <1>0, <1>2 DEF NothingWrittenOff, Outstanding, CoreType
<1>4. OneOutstanding
  BY <1>0, <1>3 DEF OneOutstanding, Core, OneLive
<1>5. NoOversell
  <2> SUFFICES ASSUME NEW o \in Outstanding, ~IsBuy(orders[o])
               PROVE  Left(o) <= acct[orders[o].holding]
    BY DEF NoOversell
  <2>1. o \in OrderId /\ IsLive(orders[o]) /\ orders[o].holding \in Holding
    BY <1>0, <1>3 DEF Core, Numbered, IsLive
  <2> QED
    BY <1>0, <2>1 DEF Core, CoreType, Order, BrokerOrder, Balanced, Backed, Left
<1>6. BooksBalance
  BY <1>0 DEF Core, Balanced, BooksBalance, LiveOrders
<1> QED
  BY <1>1, <1>2, <1>4, <1>5, <1>6

\* Types are kept, and no account or position ever goes below zero.
THEOREM TypeCorrect == Spec => []TypeOK
BY Invariance, IInvImplies, PTL

\* At most one order of a holding can trade at any time, and one that can still sell never
\* sells more than the account holds.
THEOREM NeverOversells == Spec => []OutIsSound
BY Invariance, IInvImplies, PTL DEF OutIsSound

\* No order the ledger calls finished can still trade or has unbooked fills.
THEOREM NeverWrittenOff == Spec => []NothingWrittenOff
BY Invariance, IInvImplies, PTL

\* Ledger and account differ by the unbooked fills of one live order only.
THEOREM BooksAlwaysBalance == Spec => []BooksBalance
BY Invariance, IInvImplies, PTL

-----------------------------------------------------------------------------
(* Execution implements Custody. *)

\* The steps of the relay that leave what a ticket shows of the orders alone.
Kept == \A o \in 1 .. last : /\ orders'[o].action = orders[o].action
                             /\ orders'[o].holding = orders[o].holding
                             /\ orders'[o].qty = orders[o].qty

\* A reservation takes a new number and leaves the orders before it alone.
LEMMA KeptByReserve ==
  ASSUME CoreType, NEW h, NEW action, NEW kind, NEW qty, NEW price,
         Reserve(h, action, kind, qty, price)
  PROVE  Kept
BY DEF Reserve, Kept, CoreType

\* A booked result changes an order's status and fills only.
LEMMA KeptByResult ==
  ASSUME CoreType, NEW o \in OrderId, NEW v, ApplyResult(o, v)
  PROVE  Kept
BY ExecutionAssumption DEF ApplyResult, Kept, CoreType, Order, OrderId

\* Marking an order unknown changes its status only.
LEMMA KeptByUncertainty ==
  ASSUME CoreType, NEW o \in OrderId, NEW b, MarkUnknown(o, b)
  PROVE  Kept
BY ExecutionAssumption DEF MarkUnknown, Kept, CoreType, Order, OrderId

\* Nothing is sent, arrives, trades or ends: Custody stutters.
LEMMA Stutter ==
  ASSUME IInv, Kept, UNCHANGED <<wire, acct>>,
         \A o \in OrderId : /\ broker'[o].filled = broker[o].filled
                            /\ BrokerLive(o)' <=> BrokerLive(o)
  PROVE  UNCHANGED <<acct, Tickets>>
<1>1. Outstanding' = Outstanding
  BY DEF Outstanding
<1>2. \A o \in Outstanding : o \in 1 .. last
  BY DEF IInv, Core, CoreType, Numbered, Outstanding, BrokerLive, OrderId
<1>3. \A o \in Outstanding : Ticket(o)' = Ticket(o)
  BY <1>2, ExecutionAssumption DEF IInv, Core, CoreType, OrderId, Kept, Ticket, Left, IsBuy
<1> QED
  BY <1>1, <1>3 DEF Tickets

\* No order is sent, arrives, trades or ends.
Still == /\ Kept /\ UNCHANGED <<wire, acct>>
         /\ \A o \in OrderId : /\ broker'[o].filled = broker[o].filled
                               /\ BrokerLive(o)' <=> BrokerLive(o)

\* Most steps leave the orders alone, or the broker.
LEMMA StillWhenUnchanged ==
  ASSUME Kept \/ UNCHANGED orders, UNCHANGED brokerVars
  PROVE  Still
BY DEF Still, Kept, brokerVars, BrokerLive

\* Deciding sends nothing.
LEMMA DecideIsStill == IInv /\ Decide => Still
<1> SUFFICES ASSUME IInv, Decide PROVE Still
  OBVIOUS
<1>1. CoreType
  BY DEF IInv, Core
<1>2. ASSUME NEW h \in Holding, NEW q \in 1 .. MaxQty, NEW p \in Price \union {NoPrice},
             ReserveEntry(h, q, p) \/ StartExit(h, q, p)
      PROVE  Still
  BY <1>1, <1>2, KeptByReserve, StillWhenUnchanged DEF ReserveEntry, StartExit, ledgerVars
<1>3. ASSUME NEW h \in Holding, NEW p \in Price, RefuseExit(h) \/ UpdateStop(h, p)
      PROVE  Still
  BY <1>3, StillWhenUnchanged DEF RefuseExit, UpdateStop, ledgerVars
<1>4. ASSUME NEW h \in Holding, RefuseExit(h)
      PROVE  Still
  BY <1>4, StillWhenUnchanged DEF RefuseExit, ledgerVars
<1> QED
  BY <1>2, <1>3, <1>4 DEF Decide

\* Of the steps of a submission, only the dispatch sends.
LEMMA SubmitIsStill == IInv /\ Submit => Still \/ \E b \in BOOLEAN : Dispatch(b)
<1> SUFFICES ASSUME IInv, Submit PROVE Still \/ \E b \in BOOLEAN : Dispatch(b)
  OBVIOUS
<1>1. CoreType /\ Reserved /\ \A o \in 1 .. last : o \in OrderId
  BY ExecutionAssumption DEF IInv, Core, Work, CoreType, OrderId
<1>2. CASE HoldExit \/ Review \/ LeaveExit
  BY <1>2, StillWhenUnchanged DEF HoldExit, Review, LeaveExit, ledgerVars
<1>3. CASE ReserveExit
  BY <1>1, <1>3, KeptByReserve, StillWhenUnchanged DEF ReserveExit
<1>4. CASE SubmissionAnswered
  <2>1. job.id \in OrderId /\ \E v \in Reports(job.id) : ApplyResult(job.id, v)
    BY <1>1, <1>4 DEF SubmissionAnswered, Reserved
  <2> QED
    BY <1>1, <1>4, <2>1, KeptByResult, StillWhenUnchanged DEF SubmissionAnswered
<1>5. ASSUME NEW b \in BOOLEAN, SubmissionUncertain(b)
      PROVE  Still
  <2>1. job.id \in OrderId
    BY <1>1, <1>5 DEF SubmissionUncertain, Reserved
  <2> QED
    BY <1>1, <1>5, <2>1, KeptByUncertainty, StillWhenUnchanged DEF SubmissionUncertain
<1>6. ASSUME NEW s \in {"pending", "blocked"}, PreflightHold(s)
      PROVE  Still
  <2>1. job.id \in OrderId /\ orders' = [orders EXCEPT ![job.id].status = "rejected"]
    BY <1>1, <1>6 DEF PreflightHold, Reserved
  <2>2. Kept
    BY <1>1, <2>1 DEF Kept, CoreType, Order
  <2> QED
    BY <1>6, <2>2, StillWhenUnchanged DEF PreflightHold
<1> QED
  BY <1>2, <1>3, <1>4, <1>5, <1>6 DEF Submit

\* A protection sends nothing by itself: a cancellation keeps the order working.
LEMMA ProtectIsStill == IInv /\ Protect => Still
<1> SUFFICES ASSUME IInv, Protect PROVE Still
  OBVIOUS
<1>1. CoreType /\ Cleared /\ \A o \in 1 .. last : o \in OrderId
  BY ExecutionAssumption DEF IInv, Core, Work, CoreType, OrderId
<1>2. ASSUME NEW o \in OrderId, NEW b \in BOOLEAN, CancelStop(o, b)
      PROVE  Still
  <2>1. UNCHANGED <<orders, wire, acct>>
    BY <1>2 DEF CancelStop, ledgerVars
  <2>2. \A p \in OrderId : /\ broker'[p].filled = broker[p].filled
                           /\ broker'[p].state = broker[p].state
                              \/ (broker[p].state = "working" /\ broker'[p].state = "canceling")
    BY <1>1, <1>2 DEF CancelStop, CoreType, BrokerOrder
  <2> QED
    BY <2>1, <2>2 DEF Still, Kept, BrokerLive
<1>3. CASE PollCancel
  <2>1. job.id \in OrderId /\ \E v \in Reports(job.id) : ApplyResult(job.id, v)
    BY <1>1, <1>3 DEF PollCancel, Cleared
  <2> QED
    BY <1>1, <1>3, <2>1, KeptByResult, StillWhenUnchanged DEF PollCancel
<1>4. CASE \/ CancelFails \/ ExitMayProceed \/ ArmWithoutPosition \/ ArmPausedOrExpired
           \/ ArmAlreadyActive \/ ArmReplace \/ ArmInventoryMoved \/ Resume
  BY <1>4, StillWhenUnchanged
     DEF CancelFails, ExitMayProceed, ArmWithoutPosition, ArmPausedOrExpired,
         ArmAlreadyActive, ArmReplace, ArmInventoryMoved, Resume, ledgerVars
<1>5. ASSUME NEW s \in {"pending", "blocked"}, ArmDeferred(s)
      PROVE  Still
  BY <1>5, StillWhenUnchanged DEF ArmDeferred
<1>6. ASSUME NEW k \in {"market", "stop_market"}, ReserveStop(k)
      PROVE  Still
  BY <1>1, <1>6, KeptByReserve, StillWhenUnchanged DEF ReserveStop
<1> QED
  BY <1>2, <1>3, <1>4, <1>5, <1>6 DEF Protect

\* Reconciliation reads, and cancels expired entries, which keep working.
LEMMA ReconcileIsStill == IInv /\ Reconcile => Still
<1> SUFFICES ASSUME IInv, Reconcile PROVE Still
  OBVIOUS
<1>1. CoreType
  BY DEF IInv, Core
<1>2. CASE BeginReconcile \/ BeginMaintain \/ EndMaintain \/ \E h \in Holding : Maintain(h)
  BY <1>2, StillWhenUnchanged
     DEF BeginReconcile, BeginMaintain, EndMaintain, Maintain, ledgerVars
<1>3. ASSUME NEW o \in OrderId, CancelExpiredEntry(o)
      PROVE  Still
  <2>1. UNCHANGED <<orders, wire, acct>>
    BY <1>3 DEF CancelExpiredEntry, ledgerVars
  <2>2. \A p \in OrderId : /\ broker'[p].filled = broker[p].filled
                           /\ broker'[p].state = broker[p].state
                              \/ (broker[p].state = "working" /\ broker'[p].state = "canceling")
    BY <1>1, <1>3 DEF CancelExpiredEntry, CoreType, BrokerOrder
  <2> QED
    BY <2>1, <2>2 DEF Still, Kept, BrokerLive
<1>4. ASSUME NEW o \in OrderId, ReconcileOrder(o)
      PROVE  Still
  BY <1>1, <1>4, KeptByResult, StillWhenUnchanged DEF ReconcileOrder
<1>5. ASSUME NEW o \in OrderId, NEW b \in BOOLEAN, ReconcileFails(o, b)
      PROVE  Still
  <2>1. CASE orders[o].action = "UPDATE_STOP"
    BY <1>1, <1>5, <2>1, KeptByUncertainty, StillWhenUnchanged DEF ReconcileFails
  <2>2. CASE orders[o].action # "UPDATE_STOP"
    <3>1. orders' = [orders EXCEPT ![o].known = @ \/ b]
      BY <1>5, <2>2 DEF ReconcileFails
    <3>2. Kept
      BY <1>1, <3>1, ExecutionAssumption DEF Kept, CoreType, Order, OrderId
    <3> QED
      BY <1>5, <3>2, StillWhenUnchanged DEF ReconcileFails
  <2> QED
    BY <2>1, <2>2
<1> QED
  BY <1>2, <1>3, <1>4, <1>5 DEF Reconcile

\* A crash changes statuses only.
LEMMA CrashIsStill == IInv /\ Crash => Still
<1> SUFFICES ASSUME IInv, Crash PROVE Still
  OBVIOUS
<1>1. CoreType
  BY DEF IInv, Core
<1>2. Kept
  BY <1>1, ExecutionAssumption DEF Crash, Kept, CoreType, Order, OrderId
<1> QED
  BY <1>2, StillWhenUnchanged DEF Crash

\* Outstanding orders are live in the ledger, with contracts left to trade.
LEMMA OutstandingIsLive ==
  ASSUME IInv, NEW o \in Outstanding
  PROVE  /\ o \in 1 .. last /\ o \in OrderId /\ IsLive(orders[o])
         /\ orders[o].holding \in Holding
         /\ broker[o].filled \in Nat /\ orders[o].qty \in Nat
<1>1. Core /\ CoreType /\ o \in OrderId
  BY DEF IInv, Core, CoreType, Outstanding
<1>2. IsLive(orders[o]) /\ o \in 1 .. last
  BY <1>1 DEF Core, CoreType, NothingWrittenOff, Numbered, Outstanding, BrokerLive, OrderId
<1>3. orders[o].holding \in Holding
  BY <1>1, <1>2 DEF Core, CoreType, Numbered
<1>4. orders[o] \in Order /\ broker[o] \in BrokerOrder
  BY <1>1 DEF CoreType
<1> QED
  BY <1>1, <1>2, <1>3, <1>4 DEF Order, BrokerOrder

\* Two outstanding orders never share a holding, so tickets tell orders apart.
LEMMA OneTicket ==
  ASSUME IInv, NEW o \in Outstanding, NEW p \in Outstanding,
         Ticket(o) = Ticket(p) \/ orders[o].holding = orders[p].holding
  PROVE  o = p
<1>1. orders[o].holding = orders[p].holding
  BY DEF Ticket
<1> QED
  BY <1>1, OutstandingIsLive DEF IInv, Core, OneLive

\* A dispatch is Custody's Send.
LEMMA DispatchSends ==
  ASSUME IInv, NEW b \in BOOLEAN, Dispatch(b)
  PROVE  C!Next
<1> DEFINE o == job.id
           r == orders[o]
           h == r.holding
<1>1. /\ o \in 1 .. last /\ o \in OrderId /\ r.status = "submitting" /\ r.filled = 0
      /\ o \notin wire /\ broker[o].state = "absent"
      /\ orders' = [orders EXCEPT ![o].timed = b] /\ wire' = wire \union {o}
      /\ UNCHANGED <<broker, acct>>
  BY ExecutionAssumption
     DEF Dispatch, IInv, Work, Reserved, Core, CoreType, OrderId, worldVars
<1>2. /\ IsLive(r) /\ h \in Holding /\ r.qty \in Nat \ {0} /\ broker[o].filled = 0
      /\ acct[h] = position[h] /\ position[h] \in Nat
      /\ IsBuy(r) => position[h] = 0 /\ r.qty <= MaxQty
      /\ ~IsBuy(r) => r.qty <= position[h]
  <2>1. IsLive(r) /\ r \in Order /\ Core /\ CoreType
    BY <1>1 DEF IsLive, Terminal, IInv, Core, CoreType
  <2>2. h \in Holding /\ r.qty \in Nat \ {0} /\ (IsBuy(r) => r.qty <= MaxQty)
    BY <1>1, <2>1 DEF Core, Numbered, Order
  <2>3. broker[o].filled = 0 /\ position[h] \in Nat
    BY <1>1, <2>1, <2>2 DEF Core, FillsFollow, CoreType
  <2>4. acct[h] = position[h]
    BY <1>1, <2>1, <2>2, <2>3 DEF Core, Balanced
  <2> QED
    BY <1>1, <2>1, <2>2, <2>3, <2>4 DEF Core, Backed
<1>3. o \notin Outstanding /\ Outstanding' = Outstanding \union {o}
  BY <1>1 DEF Outstanding, BrokerLive
<1>4. \A p \in OrderId : Ticket(p)' = Ticket(p)
  <2>1. \A p \in OrderId : /\ orders'[p].action = orders[p].action
                           /\ orders'[p].holding = orders[p].holding
                           /\ orders'[p].qty = orders[p].qty
    BY <1>1 DEF IInv, Core, CoreType, Order
  <2> QED
    BY <1>1, <2>1 DEF Ticket, Left, IsBuy
<1>5. Ticket(o) = [id |-> o, holding |-> h, buy |-> IsBuy(r), left |-> r.qty]
  BY <1>2 DEF Ticket, Left
<1>6. Tickets' = Tickets \union {Ticket(o)}
  BY <1>1, <1>3, <1>4, OutstandingIsLive DEF Tickets
<1>7. \A p \in Outstanding : orders[p].holding # h /\ p # o
  BY <1>1, <1>2, <1>3, OutstandingIsLive DEF IInv, Core, OneLive
<1>8. \A u \in Tickets : u.holding # h /\ u.id # o
  BY <1>7 DEF Tickets, Ticket
<1>9. r.qty \in 1 .. (IF IsBuy(r) THEN MaxQty ELSE acct[h]) /\ (IsBuy(r) => acct[h] = 0)
  BY <1>2, ExecutionAssumption
<1>10. C!Send([id |-> o, holding |-> h, buy |-> IsBuy(r), left |-> r.qty])
  BY <1>1, <1>5, <1>6, <1>8, <1>9 DEF C!Send
<1>11. IsBuy(r) \in BOOLEAN
  BY DEF IsBuy
<1> QED
  BY <1>1, <1>2, <1>9, <1>10, <1>11 DEF C!Next

\* What a step of the broker does to the ticket of the order it moves, o, and
\* leaves to the others.
LEMMA OthersKeepTickets ==
  ASSUME IInv, NEW o \in OrderId, UNCHANGED orders,
         broker' \in [OrderId -> BrokerOrder], wire' \subseteq wire,
         \A p \in OrderId : p # o => broker'[p] = broker[p] /\ (p \in wire' <=> p \in wire)
  PROVE  /\ \A p \in Outstanding : p # o => p \in Outstanding' /\ Ticket(p)' = Ticket(p)
         /\ \A p \in Outstanding' : p # o => p \in Outstanding
<1>1. \A p \in OrderId : p # o => Ticket(p)' = Ticket(p) /\ (BrokerLive(p)' <=> BrokerLive(p))
  BY DEF Ticket, Left, IsBuy, BrokerLive
<1>2. wire \subseteq OrderId
  BY DEF IInv, Core, CoreType
<1>3. \A p \in Outstanding : p # o => p \in OrderId /\ p \in Outstanding'
  BY <1>1, <1>2 DEF Outstanding
<1>4. \A p \in Outstanding' : p # o => p \in Outstanding
  BY <1>1, <1>2 DEF Outstanding
<1> QED
  BY <1>1, <1>3, <1>4

\* An order that stops being outstanding is Custody's End.
LEMMA Ending ==
  ASSUME IInv, NEW o \in Outstanding, UNCHANGED <<orders, acct>>,
         broker' \in [OrderId -> BrokerOrder], wire' \subseteq wire,
         o \notin Outstanding',
         \A p \in OrderId : p # o => broker'[p] = broker[p] /\ (p \in wire' <=> p \in wire)
  PROVE  C!Next
<1>1. o \in OrderId
  BY OutstandingIsLive
<1>2. /\ \A p \in Outstanding : p # o => p \in Outstanding' /\ Ticket(p)' = Ticket(p)
      /\ \A p \in Outstanding' : p # o => p \in Outstanding
  BY <1>1, OthersKeepTickets
<1>3. \A p \in Outstanding : p # o => Ticket(p) # Ticket(o)
  BY OneTicket
<1>4. Tickets' = Tickets \ {Ticket(o)}
  BY <1>2, <1>3 DEF Tickets
<1>5. Ticket(o) \in Tickets
  BY DEF Tickets
<1>6. C!End(Ticket(o))
  BY <1>4, <1>5 DEF C!End
<1> QED
  BY <1>5, <1>6 DEF C!Next

\* A fill is Custody's Trade.
LEMMA Trading ==
  ASSUME IInv, NEW o \in OrderId, Fill(o)
  PROVE  C!Next
<1> DEFINE r == orders[o]
           h == r.holding
           n == broker[o].filled
<1>1. /\ UNCHANGED <<orders, wire>> /\ BrokerLive(o) /\ n < r.qty /\ o \in Outstanding
      /\ broker' = [broker EXCEPT ![o].filled = n + 1,
                       ![o].state = IF n + 1 = r.qty THEN "filled" ELSE @]
      /\ acct' = [acct EXCEPT ![h] = IF IsBuy(r) THEN @ + 1 ELSE @ - 1]
  BY DEF Fill, Outstanding, ledgerVars
<1>2. /\ r.qty \in Nat /\ n \in Nat /\ broker \in [OrderId -> BrokerOrder]
  BY <1>1, OutstandingIsLive DEF IInv, Core, CoreType
<1>3. /\ broker'[o].filled = n + 1
      /\ broker'[o].state = IF n + 1 = r.qty THEN "filled" ELSE broker[o].state
      /\ \A p \in OrderId : p # o => broker'[p] = broker[p]
      /\ broker' \in [OrderId -> BrokerOrder]
  <2> DEFINE s == IF n + 1 = r.qty THEN "filled" ELSE broker[o].state
  <2>1. broker'[o] = [state |-> s, filled |-> n + 1]
    BY <1>1, <1>2 DEF BrokerOrder
  <2>2. s \in {"absent", "working", "canceling"} \union Terminal
    BY <1>2 DEF BrokerOrder, Terminal
  <2> HIDE DEF s
  <2>3. broker'[o] \in BrokerOrder
    BY <1>2, <2>1, <2>2 DEF BrokerOrder
  <2> USE DEF s
  <2> QED
    BY <1>1, <1>2, <2>1, <2>2, <2>3 DEF BrokerOrder
<1>4. /\ \A p \in Outstanding : p # o => p \in Outstanding' /\ Ticket(p)' = Ticket(p)
      /\ \A p \in Outstanding' : p # o => p \in Outstanding
  BY <1>1, <1>3, OthersKeepTickets
<1>5. \A p \in Outstanding : p # o => Ticket(p) # Ticket(o)
  BY <1>1, OneTicket
<1>6. /\ Ticket(o) \in Tickets
      /\ Ticket(o).left = r.qty - n /\ Ticket(o).buy = IsBuy(r) /\ Ticket(o).holding = h
      /\ Ticket(o)' = [Ticket(o) EXCEPT !.left = r.qty - n - 1]
  <2>1. Ticket(o)' = [id |-> o, holding |-> h, buy |-> IsBuy(r), left |-> r.qty - (n + 1)]
    BY <1>1, <1>3 DEF Ticket, Left, IsBuy
  <2>2. r.qty - (n + 1) = r.qty - n - 1
    BY <1>2
  <2> QED
    BY <1>1, <2>1, <2>2 DEF Ticket, Left, Tickets
<1>7. o \notin wire
  BY <1>1 DEF IInv, Core, FillsFollow, BrokerLive
<1>8. o \in Outstanding' <=> r.qty - n > 1
  BY <1>1, <1>2, <1>3, <1>7 DEF Outstanding, BrokerLive
<1>9. Tickets' = (Tickets \ {Ticket(o)}) \union
                 (IF r.qty - n > 1 THEN {Ticket(o)'} ELSE {})
  <2>1. CASE r.qty - n > 1
    BY <1>4, <1>5, <1>8, <2>1, <1>1 DEF Tickets
  <2>2. CASE ~(r.qty - n > 1)
    BY <1>4, <1>5, <1>8, <2>2, <1>1 DEF Tickets
  <2> QED
    BY <2>1, <2>2
<1>10. C!Trade(Ticket(o))
  BY <1>1, <1>6, <1>9 DEF C!Trade
<1> QED
  BY <1>6, <1>10 DEF C!Next

\* The broker and the operator take the steps of Custody, or none.
LEMMA WorldImplements == IInv /\ World => C!Next \/ UNCHANGED <<acct, Tickets>>
<1> SUFFICES ASSUME IInv, World PROVE C!Next \/ UNCHANGED <<acct, Tickets>>
  OBVIOUS
<1>0. /\ wire \subseteq OrderId /\ broker \in [OrderId -> BrokerOrder]
      /\ \A o \in wire : broker[o].state = "absent"
  BY DEF IInv, Core, CoreType, FillsFollow
<1>1. ASSUME NEW o \in OrderId, NEW s \in {"working", "rejected", "absent"}, Arrive(o, s)
      PROVE  C!Next \/ UNCHANGED <<acct, Tickets>>
  <2>1. /\ o \in Outstanding /\ UNCHANGED <<orders, acct>> /\ wire' = wire \ {o}
        /\ o \in wire /\ broker' = [broker EXCEPT ![o].state = s]
    BY <1>1 DEF Arrive, Outstanding, ledgerVars
  <2>2. /\ broker' \in [OrderId -> BrokerOrder] /\ broker'[o].state = s
        /\ broker'[o].filled = broker[o].filled
        /\ \A p \in OrderId : p # o => broker'[p] = broker[p] /\ (p \in wire' <=> p \in wire)
    BY <1>0, <2>1 DEF BrokerOrder, Terminal
  <2>3. CASE s = "working"
    <3>1. o \in Outstanding' /\ Ticket(o)' = Ticket(o)
      BY <2>1, <2>2, <2>3 DEF Outstanding, BrokerLive, Ticket, Left, IsBuy
    <3>2. /\ \A p \in Outstanding : p # o => p \in Outstanding' /\ Ticket(p)' = Ticket(p)
          /\ \A p \in Outstanding' : p # o => p \in Outstanding
      BY <2>1, <2>2, OthersKeepTickets
    <3> QED
      BY <2>1, <3>1, <3>2 DEF Tickets
  <2>4. CASE s # "working"
    <3>1. o \notin Outstanding'
      BY <2>1, <2>2, <2>4 DEF Outstanding, BrokerLive
    <3> QED
      BY <2>1, <2>2, <3>1, Ending
  <2> QED
    BY <2>3, <2>4
<1>2. ASSUME NEW o \in OrderId, NEW s \in {"canceled", "rejected"}, EndOrder(o, s)
      PROVE  C!Next
  <2>1. /\ o \in Outstanding /\ UNCHANGED <<orders, acct, wire>>
        /\ o \notin wire /\ broker' = [broker EXCEPT ![o].state = s]
    BY <1>0, <1>2 DEF EndOrder, Outstanding, BrokerLive, ledgerVars
  <2>2. /\ broker' \in [OrderId -> BrokerOrder] /\ broker'[o].state = s
        /\ \A p \in OrderId : p # o => broker'[p] = broker[p]
    BY <1>0, <2>1 DEF BrokerOrder, Terminal
  <2>3. o \notin Outstanding'
    BY <2>1, <2>2 DEF Outstanding, BrokerLive
  <2> QED
    BY <2>1, <2>2, <2>3, Ending
<1>3. ASSUME ToggleKill \/ \E h \in Holding : Expire(h)
      PROVE  UNCHANGED <<acct, Tickets>>
  <2>1. Still
    BY <1>3, StillWhenUnchanged DEF ToggleKill, Expire, ledgerVars
  <2> QED
    BY <2>1, Stutter DEF Still
<1> QED
  BY <1>1, <1>2, <1>3, Trading DEF World

\* The relay starts with nothing held and nothing out.
LEMMA InitImplements == Init => C!Init
BY DEF Init, C!Init, Tickets, Outstanding, BrokerLive

\* Every step is a step of Custody or leaves the account alone.
LEMMA StepImplements == IInv /\ [Next]_vars => [C!Next]_<<acct, Tickets>>
<1> SUFFICES ASSUME IInv, [Next]_vars PROVE C!Next \/ UNCHANGED <<acct, Tickets>>
  OBVIOUS
<1>1. ASSUME Still PROVE UNCHANGED <<acct, Tickets>>
  BY <1>1, Stutter DEF Still
<1>2. CASE UNCHANGED vars
  BY <1>1, <1>2, StillWhenUnchanged DEF vars, ledgerVars
<1> QED
  BY <1>1, <1>2, DecideIsStill, SubmitIsStill, ProtectIsStill, ReconcileIsStill,
     CrashIsStill, DispatchSends, WorldImplements DEF Next

\* Execution implements Custody, for every set of holdings and every bound: an
\* entry leaves only into a flat holding and a sell only with the contracts it
\* needs in the account, whatever crashed, was lost or was answered late.
THEOREM Implements == Spec => ImplementsCustody
BY Invariance, InitImplements, StepImplements, PTL DEF Spec, ImplementsCustody, C!Spec
=============================================================================
