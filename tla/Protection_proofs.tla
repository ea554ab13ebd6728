--------------------------- MODULE Protection_proofs ---------------------------
(***************************************************************************)
(* Proofs about protection requests in Execution, for every set of         *)
(* holdings and every bound: a request that is closed leaves nothing to    *)
(* protect, and one that is called active is covered.                      *)
(*                                                                         *)
(* IInv of Execution_proofs is known to hold.  The second invariant says   *)
(* which order of a holding is the newest, what a request and the order it *)
(* names have to do with each other, and at which control points a request *)
(* may be called active without being covered.                             *)
(***************************************************************************)
EXTENDS Execution_proofs

\* Orders of a holding are finished one after the other: a live one is its last.
Newest ==
  \A o, p \in OrderId :
    IsLive(orders[o]) /\ p <= last /\ orders[p].holding = orders[o].holding => p <= o

\* An unfinished protective stop sells exactly what the ledger still owns.
StopsCover ==
  \A o \in OrderId : IsLive(orders[o]) /\ orders[o].action = "UPDATE_STOP" =>
    orders[o].qty - orders[o].filled = position[orders[o].holding]

\* A stop that filled left nothing, unless an entry was made since.
FilledStops ==
  \A o \in OrderId : orders[o].action = "UPDATE_STOP" /\ orders[o].status = "filled" =>
    position[orders[o].holding] = 0 \/ EntryId(orders[o].holding) > o

Sequel == Newest /\ StopsCover /\ FilledStops

\* The entry of a request row q of h is an entry of h.
NamesEntry(h, q) ==
  q.entry # 0 => /\ q.entry <= last
                 /\ orders[q.entry].action = "OPEN" /\ orders[q.entry].holding = h

\* The order of the request is a stop of h reserved after the entry.
NamesStop(h) ==
  LET o == request[h].order IN
  o # 0 => /\ o <= last
           /\ orders[o].action = "UPDATE_STOP" /\ orders[o].holding = h
           /\ request[h].entry < o

\* A closed request is not reopened by fills of its entry still to come.
Closed(h) ==
  LET e == request[h].entry IN
  request[h].status = "complete" =>
    /\ e # 0 /\ IsLive(orders[e]) => h \in expired
    /\ e = EntryId(h) => position[h] = 0 \/ h \in expired

RequestOk(h) == NamesEntry(h, request[h]) /\ NamesStop(h) /\ Closed(h)

Requests == \A h \in Holding : RequestOk(h)

\* The request that a held stop change would put back fits the order the
\* change has reached.
Undoing ==
  job.next = "undo" =>
    /\ job.holding \in Holding /\ NamesEntry(job.holding, job.prev)
    /\ request[job.holding].order # 0 => job.prev.entry < request[job.holding].order

\* Holdings are left to maintain only while a pass maintains them.
Sweep ==
  todo # {} =>
    \/ pc = "maintain"
    \/ /\ pc \notin {"idle", "recon", "leave", "verify"}
       /\ job.task = "protect" /\ job.next = "maintain"

\* What the reserved order is; a stop is the one its request asks for.
Placing ==
  pc \in {"review", "dispatch", "await"} =>
    /\ job.task = "exit" => orders[job.id].action = "EXIT"
    /\ job.task = "open" => orders[job.id].action = "OPEN"
    /\ job.task = "protect" =>
         /\ orders[job.id].action = "UPDATE_STOP"
         /\ request[job.holding].status = "pending"
         /\ request[job.holding].order = job.id
         /\ orders[job.id].price = request[job.holding].price

\* The cancelled stop has not ended as far as the ledger knows.
Polling == pc = "poll" => job.id \in ActiveStops(job.holding)

\* ActiveMeansCovered for one holding.
Covered(h) ==
  LET r == orders[request[h].order]
  IN  /\ request[h].order \in ActiveStops(h) /\ r.kind = "stop_market"
      /\ r.qty - r.filled = position[h]
      /\ r.price = request[h].price

\* Whose request may be called active without being covered: anybody's while
\* orders are reconciled, then until the pass comes to it; and that of a holding
\* whose stop is being placed or replaced.
Reconciling == pc = "recon"
Replacing(h) ==
  /\ h = job.holding
  /\ pc \in {"arm", "canceled"} \/ (pc \in {"cancel", "poll"} /\ job.task = "protect")
Loose(h) == Reconciling \/ h \in todo \/ Replacing(h)

ActiveCovered ==
  \A h \in Holding : request[h].status = "active" /\ ~Loose(h) => Covered(h)

PInv == /\ Sequel /\ Requests /\ Undoing /\ Sweep /\ Placing /\ Polling
        /\ ActiveCovered

-----------------------------------------------------------------------------
(* The newest filled entry, from one state to the next. *)

\* Max of a set of order numbers that has a largest element.
LEMMA LargestIs ==
  ASSUME NEW S, S \subseteq OrderId, NEW n \in S, \A y \in S : y <= n
  PROVE  Max(S) = n
<1>1. S \subseteq 1 .. MaxOrders /\ S # {} /\ MaxOrders \in Nat
  BY ExecutionAssumption DEF OrderId
<1>2. Max(S) \in S /\ \A y \in S : y <= Max(S)
  BY <1>1, LargestOf
<1> DEFINE m == Max(S)
<1> HIDE DEF m
<1>3. m \in S /\ n <= m
  BY <1>2 DEF m
<1>4. m <= n /\ m \in Int /\ n \in Int
  BY <1>1, <1>3
<1> QED
  BY <1>3, <1>4 DEF m

\* EntryId speaks of which orders are entries with a fill.
LEMMA EntryKept ==
  ASSUME NEW h, FilledEntries(h)' = FilledEntries(h)
  PROVE  EntryId(h)' = EntryId(h)
BY DEF EntryId

\* More filled entries, no older newest one.
LEMMA EntryGrows ==
  ASSUME NEW h, FilledEntries(h) \subseteq FilledEntries(h)'
  PROVE  EntryId(h)' >= EntryId(h)
<1>1. FilledEntries(h)' \subseteq OrderId /\ FilledEntries(h) \subseteq OrderId
  BY DEF FilledEntries
<1>2. CASE FilledEntries(h) = {}
  <2>1. EntryId(h) = 0
    BY <1>2 DEF EntryId
  <2>2. EntryId(h)' = 0 \/ EntryId(h)' \in FilledEntries(h)'
    BY <1>1, LargestOf, ExecutionAssumption DEF EntryId, OrderId
  <2> QED
    BY <1>1, <2>1, <2>2, ExecutionAssumption DEF OrderId
<1>3. CASE FilledEntries(h) # {}
  BY <1>1, <1>3, LargestOf, ExecutionAssumption DEF EntryId, OrderId
<1> QED
  BY <1>2, <1>3

-----------------------------------------------------------------------------
(* The ledger, under each kind of change. *)

\* Nothing about an order changes but its status, and no order is revived.
Fades ==
  /\ UNCHANGED <<last, position>>
  /\ \A o \in OrderId : /\ orders'[o].action = orders[o].action
                        /\ orders'[o].holding = orders[o].holding
                        /\ orders'[o].kind = orders[o].kind
                        /\ orders'[o].qty = orders[o].qty
                        /\ orders'[o].price = orders[o].price
                        /\ orders'[o].filled = orders[o].filled
                        /\ orders'[o].status = "filled" => orders[o].status = "filled"
                        /\ IsLive(orders'[o]) => IsLive(orders[o])

\* An untouched ledger fades.
LEMMA FadesUnchanged ==
  ASSUME UNCHANGED <<orders, last, position>>
  PROVE  Fades
BY DEF Fades

LEMMA EntryFades ==
  ASSUME Fades, NEW h
  PROVE  EntryId(h)' = EntryId(h)
<1>1. FilledEntries(h)' = FilledEntries(h)
  BY DEF Fades, FilledEntries
<1> QED
  BY <1>1, EntryKept

LEMMA SequelFades ==
  ASSUME Core, Sequel, Fades
  PROVE  Sequel'
<1>0. \A o \in 1 .. last : o \in OrderId
  BY ExecutionAssumption DEF Core, CoreType, OrderId
<1>1. Newest'
  BY <1>0 DEF Sequel, Newest, Fades
<1>2. StopsCover'
  BY DEF Sequel, StopsCover, Fades
<1>3. FilledStops'
  BY EntryFades DEF Sequel, FilledStops, Fades
<1> QED
  BY <1>1, <1>2, <1>3 DEF Sequel

\* What booking a result does, field by field.
LEMMA Applied ==
  ASSUME Core, NEW o \in OrderId, NEW v \in Reports(o), ApplyResult(o, v),
         UNCHANGED <<last, wire, broker, acct>>
  PROVE  /\ o \in 1 .. last /\ orders[o].holding \in Holding
         /\ orders'[o] = [orders[o] EXCEPT !.status = v.status, !.known = TRUE,
                                           !.filled = v.filled]
         /\ orders'[o].action = orders[o].action
         /\ orders'[o].holding = orders[o].holding
         /\ orders'[o].kind = orders[o].kind
         /\ orders'[o].qty = orders[o].qty
         /\ orders'[o].price = orders[o].price
         /\ orders'[o].filled = v.filled /\ orders'[o].status = v.status
         /\ \A p \in OrderId : p # o => orders'[p] = orders[p]
         /\ orders[o].filled \in Nat /\ v.filled \in Nat /\ orders[o].qty \in Nat
         /\ orders[o].filled <= v.filled /\ v.filled <= orders[o].qty
         /\ v.status = "filled" => v.filled = orders[o].qty
         /\ position[orders[o].holding] \in Nat /\ position'[orders[o].holding] \in Nat
         /\ position'[orders[o].holding] =
              IF IsBuy(orders[o]) THEN position[orders[o].holding] + (v.filled - orders[o].filled)
                                  ELSE position[orders[o].holding] - (v.filled - orders[o].filled)
         /\ \A g \in Holding : g # orders[o].holding => position'[g] = position[g]
         /\ ~IsLive(orders[o]) => /\ v.filled = orders[o].filled /\ v.status = orders[o].status
                                  /\ position' = position
         /\ IsLive(orders'[o]) <=> v.status \notin Terminal
         /\ v.status \notin Terminal => IsLive(orders[o])
<1> DEFINE r == orders[o]
           h == r.holding
<1>1. /\ v.filled = broker[o].filled
      /\ v.status \in Terminal \union Resting \union {"pending"}
      /\ broker[o].state # "absent"
      /\ v.status \in Terminal => broker[o].state = v.status
  BY ReportedResult DEF Core, CoreType
<1>2. /\ o <= last /\ h \in Holding /\ r \in Order /\ r.status # "unused"
      /\ position[h] \in Nat
      /\ broker[o].filled \in Nat /\ r.filled \in Nat /\ r.qty \in Nat
  BY <1>1 DEF Core, CoreType, Numbered, Order, BrokerOrder
<1>3. /\ orders'[o] = [r EXCEPT !.status = v.status, !.known = TRUE, !.filled = v.filled]
      /\ \A p \in OrderId : p # o => orders'[p] = orders[p]
      /\ position' = [position EXCEPT ![h] = IF IsBuy(r) THEN @ + (v.filled - r.filled)
                                                         ELSE @ - (v.filled - r.filled)]
      /\ r.filled <= v.filled /\ v.filled <= r.qty
      /\ v.status = "filled" => v.filled = r.qty
      /\ r.status \in Terminal => v.status = r.status /\ v.filled = r.filled
      /\ ~IsBuy(r) => v.filled - r.filled <= position[h]
  BY <1>1, <1>2 DEF Core, CoreType, Order, ApplyResult
<1>4. /\ orders'[o].action = r.action /\ orders'[o].holding = h
      /\ orders'[o].kind = r.kind /\ orders'[o].qty = r.qty
      /\ orders'[o].price = r.price
      /\ orders'[o].filled = v.filled /\ orders'[o].status = v.status
  BY <1>2, <1>3 DEF Order
<1>5. /\ position'[h] = IF IsBuy(r) THEN position[h] + (v.filled - r.filled)
                                    ELSE position[h] - (v.filled - r.filled)
      /\ \A g \in Holding : g # h => position'[g] = position[g]
      /\ position'[h] \in Nat
  BY <1>1, <1>2, <1>3 DEF Core, CoreType
<1>6. IsLive(r) \/ r.status \in Terminal
  BY <1>2 DEF IsLive
<1>7. r.status \in Terminal => position' = position
  BY <1>2, <1>3, <1>5 DEF Core, CoreType
<1>8. IsLive(orders'[o]) <=> v.status \notin Terminal
  BY <1>1, <1>4 DEF IsLive, Resting, Terminal
<1>9. o \in 1 .. last
  BY <1>2 DEF OrderId, Core, CoreType
<1> QED
  BY <1>1, <1>2, <1>3, <1>4, <1>5, <1>6, <1>7, <1>8, <1>9

\* Booking a result, for the newest filled entry.
LEMMA EntryApplied ==
  ASSUME Core, Sequel, NEW o \in OrderId, NEW v \in Reports(o), ApplyResult(o, v),
         UNCHANGED <<last, wire, broker, acct>>, NEW h \in Holding
  PROVE  /\ EntryId(h)' >= EntryId(h)
         /\ \/ EntryId(h)' = EntryId(h) /\ (position[h] = 0 => position'[h] = 0)
            \/ /\ h = orders[o].holding /\ orders[o].action = "OPEN" /\ IsLive(orders[o])
               /\ EntryId(h)' = o
<1> DEFINE r == orders[o]
<1>1. /\ o \in 1 .. last /\ orders'[o].action = r.action /\ orders'[o].holding = r.holding
      /\ orders'[o].filled = v.filled /\ v.filled \in Nat /\ r.filled \in Nat
      /\ r.filled <= v.filled
      /\ \A p \in OrderId : p # o => orders'[p] = orders[p]
      /\ position[r.holding] \in Nat /\ position'[r.holding] \in Nat
      /\ position'[r.holding] = IF IsBuy(r) THEN position[r.holding] + (v.filled - r.filled)
                                            ELSE position[r.holding] - (v.filled - r.filled)
      /\ \A g \in Holding : g # r.holding => position'[g] = position[g]
      /\ ~IsLive(r) => v.filled = r.filled /\ position' = position
  BY Applied
<1>2. FilledEntries(h) \subseteq FilledEntries(h)'
  <2> SUFFICES ASSUME NEW p \in OrderId, orders[p].action = "OPEN", orders[p].holding = h,
                      orders[p].filled > 0
               PROVE  /\ orders'[p].action = "OPEN" /\ orders'[p].holding = h
                      /\ orders'[p].filled > 0
    BY DEF FilledEntries
  <2>1. CASE p = o
    BY <1>1, <2>1
  <2>2. CASE p # o
    BY <1>1, <2>2
  <2> QED
    BY <2>1, <2>2
<1>3. EntryId(h)' >= EntryId(h)
  BY <1>2, EntryGrows
<1>4. CASE h = r.holding /\ r.action = "OPEN" /\ IsLive(r) /\ v.filled > 0
  <2>1. o \in FilledEntries(h)'
    BY <1>1, <1>4 DEF FilledEntries
  <2>2. \A p \in FilledEntries(h)' : p \in OrderId /\ (p # o => p \in 1 .. last)
    BY <1>1 DEF FilledEntries, Core, CoreType, Numbered, OrderId
  <2>3. \A p \in FilledEntries(h)' : p <= o
    BY <1>1, <1>4, <2>2 DEF FilledEntries, Sequel, Newest, OrderId
  <2>4. EntryId(h)' = o
    BY <2>1, <2>2, <2>3, LargestIs DEF EntryId
  <2> QED
    BY <1>3, <1>4, <2>4
<1>5. CASE ~(h = r.holding /\ r.action = "OPEN" /\ IsLive(r) /\ v.filled > 0)
  <2>1. r.action = "OPEN" /\ r.holding = h => v.filled = r.filled
    BY <1>1, <1>5
  <2>2. FilledEntries(h)' = FilledEntries(h)
    BY <1>1, <2>1 DEF FilledEntries
  <2>3. EntryId(h)' = EntryId(h)
    BY <2>2, EntryKept
  <2>4. ASSUME position[h] = 0, h = r.holding PROVE position'[h] = 0
    <3>1. CASE r.action = "OPEN"
      <4>1. v.filled = r.filled
        BY <2>1, <2>4, <3>1
      <4>2. position'[h] = position[h] + (v.filled - r.filled)
        BY <1>1, <2>4, <3>1 DEF IsBuy
      <4> QED
        BY <1>1, <2>4, <4>1, <4>2
    <3>2. CASE r.action # "OPEN"
      <4>1. position'[h] = position[h] - (v.filled - r.filled)
        BY <1>1, <2>4, <3>2 DEF IsBuy
      <4>2. position'[h] \in Nat /\ r.filled <= v.filled /\ v.filled \in Nat /\ r.filled \in Nat
        BY <1>1, <2>4
      <4> HIDE DEF r
      <4> QED
        BY <2>4, <4>1, <4>2
    <3> QED
      BY <3>1, <3>2
  <2>5. h # r.holding => position'[h] = position[h]
    BY <1>1
  <2> QED
    BY <1>3, <2>3, <2>4, <2>5
<1> QED
  BY <1>4, <1>5

LEMMA SequelApplied ==
  ASSUME Core, Sequel, NEW o \in OrderId, NEW v \in Reports(o), ApplyResult(o, v),
         UNCHANGED <<last, wire, broker, acct>>
  PROVE  Sequel'
<1> DEFINE r == orders[o]
           h == r.holding
<1>1. /\ o \in 1 .. last /\ h \in Holding
      /\ orders'[o].action = r.action /\ orders'[o].holding = h /\ orders'[o].qty = r.qty
      /\ orders'[o].filled = v.filled /\ orders'[o].status = v.status
      /\ v.filled \in Nat /\ r.filled \in Nat /\ r.qty \in Nat
      /\ v.status = "filled" => v.filled = r.qty
      /\ \A p \in OrderId : p # o => orders'[p] = orders[p]
      /\ position[h] \in Nat
      /\ position'[h] = IF IsBuy(r) THEN position[h] + (v.filled - r.filled)
                                    ELSE position[h] - (v.filled - r.filled)
      /\ \A g \in Holding : g # h => position'[g] = position[g]
      /\ ~IsLive(r) => v.filled = r.filled /\ v.status = r.status /\ position' = position
      /\ IsLive(orders'[o]) => IsLive(r)
  BY Applied
<1>2. /\ \A p \in 1 .. last : p \in OrderId
      /\ \A p \in OrderId : orders[p].status # "unused"
           => p \in 1 .. last /\ orders[p].holding \in Holding
      /\ last' = last
  BY ExecutionAssumption DEF Core, CoreType, Numbered, OrderId
<1>3. Newest'
  BY <1>1, <1>2 DEF Sequel, Newest
<1>4. StopsCover'
  <2> SUFFICES ASSUME NEW p \in OrderId, IsLive(orders'[p]), orders'[p].action = "UPDATE_STOP"
               PROVE  orders'[p].qty - orders'[p].filled = position'[orders'[p].holding]
    BY DEF StopsCover
  <2>1. CASE p = o
    BY <1>1, <2>1 DEF Sequel, StopsCover, IsBuy
  <2>2. CASE p # o
    <3>1. orders'[p] = orders[p] /\ orders[p].holding \in Holding
      BY <1>1, <1>2, <2>2 DEF IsLive
    <3>2. position'[orders[p].holding] = position[orders[p].holding]
      BY <1>1, <2>2, <3>1 DEF Core, OneLive
    <3> QED
      BY <3>1, <3>2 DEF Sequel, StopsCover
  <2> QED
    BY <2>1, <2>2
<1>5. FilledStops'
  <2> SUFFICES ASSUME NEW p \in OrderId, orders'[p].action = "UPDATE_STOP",
                      orders'[p].status = "filled"
               PROVE  position'[orders'[p].holding] = 0 \/ EntryId(orders[p].holding)' > p
    BY <1>1, <1>2 DEF FilledStops
  <2>0. p \in 1 .. last /\ orders[p].action = "UPDATE_STOP" /\ orders[p].holding \in Holding
        /\ orders'[p].holding = orders[p].holding
    <3>1. orders[p].status # "unused"
      BY <1>1 DEF Core, Numbered, OrderId
    <3> QED
      BY <1>1, <1>2, <3>1
  <2>1. CASE p = o /\ IsLive(r)
    <3>1. position'[h] = 0
      BY <1>1, <2>0, <2>1 DEF Sequel, StopsCover, IsBuy
    <3> QED
      BY <2>0, <2>1, <3>1
  <2>2. CASE ~(p = o /\ IsLive(r))
    <3>1. position[orders[p].holding] = 0 \/ EntryId(orders[p].holding) > p
      BY <1>1, <2>0, <2>2 DEF Sequel, FilledStops
    <3>2. /\ EntryId(orders[p].holding)' >= EntryId(orders[p].holding)
          /\ \/ position[orders[p].holding] = 0 => position'[orders[p].holding] = 0
             \/ /\ orders[p].holding = h /\ r.action = "OPEN" /\ IsLive(r)
                /\ EntryId(orders[p].holding)' = o
      BY <2>0, EntryApplied
    <3>3. orders[p].holding = h /\ r.action = "OPEN" /\ IsLive(r) => o > p
      BY <1>1, <2>0 DEF Sequel, Newest
    <3>4. EntryId(orders[p].holding) \in Int /\ EntryId(orders[p].holding)' \in Int
      <4>1. EntryId(orders[p].holding) \in OrderId \union {0}
        BY EntryIdNames
      <4>2. FilledEntries(orders[p].holding)' \subseteq OrderId
        BY DEF FilledEntries
      <4>3. EntryId(orders[p].holding)' \in OrderId \union {0}
        BY <4>2, LargestOf, ExecutionAssumption DEF EntryId, OrderId
      <4> QED
        BY <4>1, <4>3, ExecutionAssumption DEF OrderId
    <3> QED
      BY <2>0, <3>1, <3>2, <3>3, <3>4
  <2> QED
    BY <2>1, <2>2
<1> QED
  BY <1>3, <1>4, <1>5 DEF Sequel

\* A new order of a holding with nothing unfinished; a stop is for all it owns.
LEMMA Appended ==
  ASSUME Core, Sequel, NEW h \in Holding, NEW action, NEW kind, NEW qty, NEW price,
         Reserve(h, action, kind, qty, price), Quiet(h),
         action = "UPDATE_STOP" => qty \in Nat /\ qty = position[h],
         UNCHANGED position
  PROVE  /\ Sequel'
         /\ last' = last + 1 /\ last' \in OrderId /\ last \in Nat
         /\ \A p \in 1 .. last : p \in OrderId /\ orders'[p] = orders[p]
         /\ orders'[last'].action = action /\ orders'[last'].holding = h
         /\ orders'[last'].price = price
         /\ \A g \in Holding : EntryId(g)' = EntryId(g)
<1> DEFINE n == last + 1
           r == [action |-> action, holding |-> h, kind |-> kind, qty |-> qty,
                 price |-> price, status |-> "submitting", known |-> FALSE,
                 filled |-> 0, timed |-> FALSE]
<1>1. /\ last \in Nat /\ n \in OrderId /\ last' = n
      /\ \A p \in 1 .. last : p \in OrderId /\ p # n
      /\ \A p \in OrderId : p # n => orders'[p] = orders[p]
      /\ \A p \in OrderId : p <= last \/ p = n \/ p > n
      /\ orders'[n] = r
  BY ExecutionAssumption DEF Core, CoreType, OrderId, Reserve
<1>2. /\ orders[n].status = "unused" /\ orders[n].filled = 0 /\ ~IsLive(orders[n])
      /\ \A p \in OrderId : IsLive(orders[p]) => p \in 1 .. last
  BY <1>1 DEF Core, Numbered, IsLive, OrderId
<1>3. \A p \in OrderId : orders'[p].status = "filled" => p # n
  BY <1>1
<1>4. /\ r.holding = h /\ r.action = action /\ r.qty = qty /\ r.filled = 0
      /\ r.status = "submitting" /\ r.price = price
  OBVIOUS
<1> HIDE DEF r
<1>5. \A g \in Holding : EntryId(g)' = EntryId(g)
  <2> TAKE g \in Holding
  <2>1. \A p \in OrderId : (orders'[p].filled > 0 <=> orders[p].filled > 0)
                            /\ (orders[p].filled > 0 => orders'[p] = orders[p])
    BY <1>1, <1>2, <1>4
  <2>2. FilledEntries(g)' = FilledEntries(g)
    BY <2>1 DEF FilledEntries
  <2> QED
    BY <2>2, EntryKept
<1>6. Newest'
  <2> SUFFICES ASSUME NEW o \in OrderId, NEW p \in OrderId, IsLive(orders'[o]), p <= n,
                      orders'[p].holding = orders'[o].holding
               PROVE  p <= o
    BY <1>1 DEF Newest
  <2>1. CASE o = n
    BY <1>1, <2>1
  <2>2. CASE o # n
    <3>1. orders'[o] = orders[o] /\ orders[o].holding # h
      BY <1>1, <2>2 DEF Quiet
    <3>2. p # n
      BY <1>1, <1>4, <3>1
    <3>3. p <= last /\ orders'[p] = orders[p]
      BY <1>1, <3>2, ExecutionAssumption DEF OrderId
    <3> QED
      BY <3>1, <3>3 DEF Sequel, Newest
  <2> QED
    BY <2>1, <2>2
<1>7. StopsCover'
  BY <1>1, <1>4 DEF Sequel, StopsCover
<1>8. FilledStops'
  BY <1>1, <1>3, <1>5, <1>2, <1>4 DEF Sequel, FilledStops, Core, Numbered
<1> QED
  BY <1>1, <1>4, <1>5, <1>6, <1>7, <1>8 DEF Sequel

-----------------------------------------------------------------------------
(* A request that is not written, under each kind of change of the ledger. *)

\* Orders stay what they are; none comes back to life.
Stays ==
  /\ last \in Nat /\ last' \in Nat /\ last <= last'
  /\ \A p \in OrderId : p <= last =>
       /\ orders'[p].action = orders[p].action
       /\ orders'[p].holding = orders[p].holding
       /\ IsLive(orders'[p]) => IsLive(orders[p])

LEMMA StaysFades == ASSUME Core, Fades PROVE Stays
BY ExecutionAssumption DEF Core, CoreType, Fades, Stays

LEMMA StaysApplied ==
  ASSUME Core, NEW o \in OrderId, NEW v \in Reports(o), ApplyResult(o, v),
         UNCHANGED <<last, wire, broker, acct>>
  PROVE  Stays
<1>1. \A p \in OrderId : /\ orders'[p].action = orders[p].action
                         /\ orders'[p].holding = orders[p].holding
                         /\ IsLive(orders'[p]) => IsLive(orders[p])
  BY CoreApplied
<1> QED
  BY <1>1, ExecutionAssumption DEF Core, CoreType, Stays

LEMMA StaysAppended ==
  ASSUME last' = last + 1, last \in Nat, \A p \in 1 .. last : orders'[p] = orders[p]
  PROVE  Stays
BY DEF Stays, OrderId

\* The entry and the stop a request names.
LEMMA NamesKept ==
  ASSUME Stays, NEW h \in Holding, request \in [Holding -> Request],
         NamesEntry(h, request[h]), NamesStop(h),
         request'[h].entry = request[h].entry, request'[h].order \in {0, request[h].order}
  PROVE  NamesEntry(h, request[h])' /\ NamesStop(h)'
<1>1. request[h].entry \in OrderId \union {0} /\ request[h].order \in OrderId \union {0}
  BY DEF Request
<1>2. \A o \in OrderId : o <= last => o <= last'
  BY ExecutionAssumption DEF Stays, OrderId
<1>3. NamesEntry(h, request[h])'
  BY <1>1, <1>2 DEF NamesEntry, Stays
<1>4. NamesStop(h)'
  BY <1>1, <1>2 DEF NamesStop, Stays
<1> QED
  BY <1>3, <1>4

\* Only a closed request has to stay closed.
LEMMA OpenRequestOk ==
  ASSUME Stays, NEW h \in Holding, request \in [Holding -> Request], RequestOk(h),
         request'[h].entry = request[h].entry, request'[h].order \in {0, request[h].order},
         request'[h].status # "complete"
  PROVE  RequestOk(h)'
BY NamesKept DEF RequestOk, Closed

\* A closed request stays closed: the newest entry only changes to one that
\* was live, and nothing is owned again without it.
LEMMA StillClosed ==
  ASSUME Stays, expired \subseteq expired', NEW h \in Holding,
         request \in [Holding -> Request], RequestOk(h),
         request'[h] = request[h],
         \/ EntryId(h)' = EntryId(h) /\ (position[h] = 0 => position'[h] = 0)
         \/ \E o \in OrderId : IsLive(orders[o]) /\ EntryId(h)' = o
  PROVE  RequestOk(h)'
<1> DEFINE e == request[h].entry
<1>1. NamesEntry(h, request[h])' /\ NamesStop(h)'
  BY NamesKept DEF RequestOk
<1> SUFFICES ASSUME request[h].status = "complete"
             PROVE  /\ e # 0 /\ IsLive(orders'[e]) => h \in expired'
                    /\ e = EntryId(h)' => position'[h] = 0 \/ h \in expired'
  BY <1>1 DEF RequestOk, Closed
<1>2. e # 0 /\ IsLive(orders[e]) => h \in expired'
  BY DEF RequestOk, Closed
<1>3. e # 0 => e \in OrderId /\ e <= last
  BY DEF RequestOk, NamesEntry, Request
<1>4. e # 0 /\ IsLive(orders'[e]) => h \in expired'
  BY <1>2, <1>3 DEF Stays
<1>5. \A o \in OrderId : o # 0
  BY ExecutionAssumption DEF OrderId
<1>6. e = EntryId(h)' => position'[h] = 0 \/ h \in expired'
  BY <1>2, <1>5 DEF RequestOk, Closed
<1> QED
  BY <1>4, <1>6

LEMMA RequestFades ==
  ASSUME Core, Fades, expired \subseteq expired',
         NEW h \in Holding, request \in [Holding -> Request], RequestOk(h),
         request'[h] = request[h]
  PROVE  RequestOk(h)'
BY StaysFades, EntryFades, StillClosed DEF Fades

LEMMA RequestApplied ==
  ASSUME Core, Sequel, NEW o \in OrderId, NEW v \in Reports(o), ApplyResult(o, v),
         UNCHANGED <<last, wire, broker, acct>>, expired \subseteq expired',
         NEW h \in Holding, request \in [Holding -> Request], RequestOk(h),
         request'[h] = request[h]
  PROVE  RequestOk(h)'
BY StaysApplied, EntryApplied, StillClosed

LEMMA RequestAppended ==
  ASSUME last' = last + 1, last \in Nat, \A p \in 1 .. last : orders'[p] = orders[p],
         \A g \in Holding : EntryId(g)' = EntryId(g),
         UNCHANGED <<position, expired>>,
         NEW h \in Holding, request \in [Holding -> Request], RequestOk(h),
         request'[h] = request[h]
  PROVE  RequestOk(h)'
BY StaysAppended, StillClosed

-----------------------------------------------------------------------------
(* The invariant is inductive. *)

\* Nothing is asked of a new ledger.
LEMMA InitPInv == Init => PInv
<1> SUFFICES ASSUME Init PROVE PInv
  OBVIOUS
<1>1. \A o \in OrderId : ~IsLive(orders[o]) /\ orders[o].action = "none"
  BY DEF Init, NoOrder, IsLive, Terminal
<1>2. Sequel
  BY <1>1 DEF Sequel, Newest, StopsCover, FilledStops
<1>3. \A h \in Holding : request[h].status = "none" /\ request[h].entry = 0 /\ request[h].order = 0
  BY DEF Init, NoRequest
<1>4. Requests
  BY <1>3 DEF Requests, RequestOk, NamesEntry, NamesStop, Closed
<1>5. Undoing /\ Sweep /\ Placing /\ Polling
  BY DEF Init, Undoing, Sweep, Placing, Polling, NoJob
<1>6. ActiveCovered
  BY <1>3 DEF ActiveCovered
<1> QED
  BY <1>2, <1>4, <1>5, <1>6 DEF PInv

\* What both invariants say of the order that covers a holding.
LEMMA CoveringOrder ==
  ASSUME NEW h, Covered(h)
  PROVE  LET o == request[h].order IN
         /\ o \in OrderId /\ IsLive(orders[o]) /\ orders[o].holding = h
         /\ orders[o].action = "UPDATE_STOP"
BY DEF Covered, ActiveStops, LiveOrders

\* A live stop is newer than any entry of its holding.
LEMMA StopAfterEntry ==
  ASSUME Core, Sequel, NEW h, NEW o \in ActiveStops(h), NEW q \in Request, NamesEntry(h, q)
  PROVE  q.entry < o /\ o <= last /\ o \in OrderId
<1>1. o \in OrderId /\ IsLive(orders[o]) /\ orders[o].holding = h
      /\ orders[o].action = "UPDATE_STOP"
  BY DEF ActiveStops, LiveOrders
<1>2. o <= last
  BY <1>1 DEF Core, Numbered, IsLive
<1>3. q.entry \in OrderId \union {0}
  BY DEF Request
<1>4. q.entry # 0 => q.entry <= o /\ q.entry # o
  BY <1>1, <1>3 DEF NamesEntry, Sequel, Newest
<1> QED
  BY <1>1, <1>2, <1>3, <1>4, ExecutionAssumption DEF OrderId

\* While an order of a holding is on its way no stop of it is active, nor when
\* nothing of it is unfinished.
LEMMA QuietNotActive ==
  ASSUME PInv, NEW h \in Holding, Quiet(h), ~Loose(h)
  PROVE  request[h].status # "active"
BY CoveringOrder DEF PInv, ActiveCovered, Quiet

LEMMA PlacingNotActive ==
  ASSUME IInv, PInv, pc \in {"review", "dispatch", "await"}
  PROVE  /\ request[job.holding].status # "active" /\ job.holding \in Holding
         /\ job.id \in OrderId /\ job.id <= last /\ IsLive(orders[job.id])
         /\ orders[job.id].holding = job.holding
         /\ job.task \in {"open", "exit", "protect"}
<1> DEFINE h == job.holding
           o == job.id
<1>1. /\ h \in Holding /\ o \in 1 .. last /\ orders[o].holding = h
      /\ orders[o].status = "submitting" /\ job.task \in {"open", "exit", "protect"}
      /\ Core /\ CoreType
  BY DEF IInv, Core, Work, WorkType, Busy, Reserved, Job
<1>2. o \in OrderId /\ o <= last /\ IsLive(orders[o])
  BY <1>1, ExecutionAssumption DEF CoreType, OrderId, IsLive, Terminal
<1>3. CASE job.task = "protect"
  BY <1>1, <1>2, <1>3 DEF PInv, Placing
<1>4. CASE job.task # "protect"
  <2>1. ~Loose(h)
    BY <1>4 DEF PInv, Sweep, Loose, Reconciling, Replacing
  <2>2. orders[o].action # "UPDATE_STOP"
    BY <1>1, <1>4 DEF PInv, Placing
  <2>3. ~Covered(h)
    BY <1>1, <1>2, <2>2, CoveringOrder DEF Core, OneLive
  <2> QED
    BY <1>1, <1>2, <2>1, <2>3 DEF PInv, ActiveCovered
<1> QED
  BY <1>3, <1>4

\* A holding is as covered as it was when nothing of it has moved.
LEMMA CoveredKept ==
  ASSUME NEW h, Covered(h), request'[h] = request[h], position'[h] = position[h],
         orders'[request[h].order] = orders[request[h].order]
  PROVE  Covered(h)'
BY DEF Covered, ActiveStops, LiveOrders

\* When nothing moves, active requests are covered as long as none has become due.
LEMMA ActiveUntouched ==
  ASSUME PInv, UNCHANGED <<orders, position, request>>,
         \A h \in Holding : request[h].status = "active" /\ Loose(h) => Loose(h)'
  PROVE  ActiveCovered'
<1>1. \A h \in Holding : Covered(h) => Covered(h)'
  BY DEF Covered, ActiveStops, LiveOrders
<1> QED
  BY <1>1 DEF PInv, ActiveCovered

\* A step of the task touches one holding; the others are as covered as before.
LEMMA LocalStep ==
  ASSUME IInv, PInv, NEW h \in Holding, pc # "recon", todo' = todo,
         h = job.holding \/ pc = "idle",
         \A g \in Holding : g # h => /\ request'[g] = request[g]
                                     /\ position'[g] = position[g]
                                     /\ RequestOk(g)',
         \A p \in OrderId : p <= last /\ orders[p].holding # h => orders'[p] = orders[p],
         RequestOk(h)', Sequel', Undoing', Sweep', Placing', Polling',
         request'[h].status = "active" /\ ~Loose(h)' => Covered(h)'
  PROVE  PInv'
<1>1. ASSUME NEW g \in Holding, g # h, request'[g].status = "active", ~Loose(g)'
      PROVE  Covered(g)'
  <2>1. ~Loose(g) /\ request[g].status = "active"
    BY <1>1 DEF Loose, Reconciling, Replacing
  <2>2. Covered(g)
    BY <2>1 DEF PInv, ActiveCovered
  <2>3. request[g].order \in OrderId /\ request[g].order <= last
        /\ orders[request[g].order].holding # h
    BY <1>1, <2>2, CoveringOrder DEF IInv, Core, Numbered, IsLive
  <2> QED
    BY <1>1, <2>2, <2>3, CoveredKept
<1>2. ActiveCovered'
  BY <1>1 DEF ActiveCovered
<1>3. Requests'
  BY DEF Requests
<1> QED
  BY <1>2, <1>3 DEF PInv

\* NoJob asks for nothing to be put back.
LEMMA FreshUndoing == ASSUME job'.next # "undo" PROVE Undoing'
BY DEF Undoing

\* A change that goes on keeps what it would put back.
LEMMA UndoingKept ==
  ASSUME Stays, WorkType, Undoing,
         job'.next = job.next, job'.prev = job.prev, job'.holding = job.holding,
         request'[job.holding].order \in {0, request[job.holding].order}
  PROVE  Undoing'
<1>1. job.prev.entry \in OrderId \union {0}
  BY DEF WorkType, Job, Request
<1>2. \A o \in OrderId : o <= last => o <= last'
  BY ExecutionAssumption DEF Stays, OrderId
<1> QED
  BY <1>1, <1>2 DEF Undoing, NamesEntry, Stays

\* A saved request is for an entry of the ledger, and has no order yet.
LEMMA SavedRequestOk ==
  ASSUME WorkType, NEW h \in Holding, NEW e, NEW p, request' = SavedRequest(h, e, p),
         e # 0 => /\ e <= last' /\ orders'[e].action = "OPEN" /\ orders'[e].holding = h
  PROVE  /\ RequestOk(h)' /\ request'[h].status = "pending" /\ request'[h].order = 0
         /\ \A g \in Holding : g # h => request'[g] = request[g]
<1>1. /\ request'[h] = [status |-> "pending", entry |-> e, order |-> 0, price |-> p]
      /\ \A g \in Holding : g # h => request'[g] = request[g]
  BY DEF WorkType, SavedRequest
<1> QED
  BY <1>1 DEF RequestOk, NamesEntry, NamesStop, Closed

\* The newest filled entry is an entry of the ledger.
LEMMA EntryIdIsEntry ==
  ASSUME Core, NEW h
  PROVE  EntryId(h) # 0 => /\ EntryId(h) \in OrderId /\ EntryId(h) <= last
                           /\ orders[EntryId(h)].action = "OPEN"
                           /\ orders[EntryId(h)].holding = h
<1> SUFFICES ASSUME EntryId(h) # 0
             PROVE  /\ EntryId(h) \in OrderId /\ EntryId(h) <= last
                    /\ orders[EntryId(h)].action = "OPEN"
                    /\ orders[EntryId(h)].holding = h
  OBVIOUS
<1>1. EntryId(h) \in FilledEntries(h)
  BY EntryIdNames DEF EntryId
<1>2. EntryId(h) \in OrderId /\ orders[EntryId(h)].action = "OPEN"
      /\ orders[EntryId(h)].holding = h /\ orders[EntryId(h)].filled > 0
  BY <1>1 DEF FilledEntries
<1>3. EntryId(h) <= last
  BY <1>2 DEF Core, Numbered
<1> QED
  BY <1>2, <1>3

LEMMA DecideKeeps == IInv /\ PInv /\ Decide => PInv'
<1> SUFFICES ASSUME IInv, PInv, Decide PROVE PInv'
  OBVIOUS
<1>0. /\ Core /\ CoreType /\ WorkType /\ Sequel /\ Requests /\ pc = "idle" /\ todo = {}
      /\ request \in [Holding -> Request]
  BY DEF IInv, Core, Work, WorkType, PInv, Sweep, Decide, ReserveEntry, StartExit, RefuseExit,
         UpdateStop
<1>1. PICK h \in Holding :
        \/ \E q \in 1 .. MaxQty, p \in Price \union {NoPrice} :
             ReserveEntry(h, q, p) \/ StartExit(h, q, p)
        \/ RefuseExit(h)
        \/ \E p \in Price : UpdateStop(h, p)
  BY DEF Decide
<1>2. ASSUME NEW q \in 1 .. MaxQty, NEW p \in Price \union {NoPrice}, ReserveEntry(h, q, p)
      PROVE  PInv'
  <2>1. Quiet(h) /\ ~Loose(h)
    BY <1>0, <1>2, NothingUnresolved DEF ReserveEntry, Loose, Reconciling, Replacing
  <2>2. /\ Reserve(h, "OPEN", "limit", q, NoPrice)
        /\ UNCHANGED <<position, todo, expired>>
        /\ pc' = "review" /\ job'.task = "open" /\ job'.next = "idle" /\ job'.id = last + 1
        /\ request' = request \/ request' = SavedRequest(h, last + 1, p)
    BY <1>2 DEF ReserveEntry, worldVars, NoJob
  <2>3. /\ Sequel' /\ last' = last + 1 /\ last' \in OrderId /\ last \in Nat
        /\ \A o \in 1 .. last : o \in OrderId /\ orders'[o] = orders[o]
        /\ orders'[last'].action = "OPEN" /\ orders'[last'].holding = h
        /\ \A g \in Holding : EntryId(g)' = EntryId(g)
    BY <1>0, <2>1, <2>2, Appended
  <2>4. \A g \in Holding : request'[g] = request[g] => RequestOk(g)'
    BY <1>0, <2>2, <2>3, RequestAppended DEF Requests
  <2>5. /\ RequestOk(h)' /\ request'[h].status # "active"
        /\ \A g \in Holding : g # h => request'[g] = request[g]
    <3>1. CASE request' = request
      BY <2>1, <2>4, <3>1, QuietNotActive
    <3>2. CASE request' = SavedRequest(h, last + 1, p)
      BY <1>0, <2>3, <3>2, SavedRequestOk
    <3> QED
      BY <2>2, <3>1, <3>2
  <2>6. Undoing' /\ Sweep' /\ Placing' /\ Polling'
    BY <1>0, <2>2, <2>3, FreshUndoing DEF Sweep, Placing, Polling
  <2>7. \A o \in OrderId : o <= last => orders'[o] = orders[o]
    BY <2>3, ExecutionAssumption DEF OrderId
  <2> QED
    BY <1>0, <2>2, <2>3, <2>4, <2>5, <2>6, <2>7, LocalStep
<1>3. ASSUME \/ \E q \in 1 .. MaxQty, p \in Price \union {NoPrice} : StartExit(h, q, p)
             \/ RefuseExit(h)
      PROVE  PInv'
  <2>1. /\ UNCHANGED <<orders, last, position, request, todo, expired>>
        /\ pc' \in {"verify", "cancel", "leave"} /\ job'.task = "exit" /\ job'.next = "idle"
    BY <1>3 DEF StartExit, RefuseExit, ledgerVars, worldVars, NoJob
  <2>2. Sequel' /\ Fades
    BY <1>0, <2>1, FadesUnchanged, SequelFades
  <2>3. Requests'
    BY <1>0, <2>1, <2>2, RequestFades DEF Requests
  <2>4. Undoing' /\ Sweep' /\ Placing' /\ Polling'
    BY <1>0, <2>1, FreshUndoing DEF Sweep, Placing, Polling
  <2>5. ActiveCovered'
    BY <1>0, <2>1, ActiveUntouched DEF Loose, Reconciling, Replacing
  <2> QED
    BY <2>2, <2>3, <2>4, <2>5 DEF PInv
<1>4. ASSUME NEW p \in Price, UpdateStop(h, p)
      PROVE  PInv'
  <2>1. /\ UNCHANGED <<orders, last, position, todo, expired>>
        /\ pc' = "arm" /\ job'.task = "protect" /\ job'.holding = h
        /\ job'.prev = request[h] /\ request' = SavedRequest(h, EntryId(h), p)
    BY <1>4 DEF UpdateStop, worldVars, NoJob
  <2>2. Sequel' /\ Fades
    BY <1>0, <2>1, FadesUnchanged, SequelFades
  <2>3. /\ RequestOk(h)' /\ request'[h].status = "pending" /\ request'[h].order = 0
        /\ \A g \in Holding : g # h => request'[g] = request[g]
    BY <1>0, <2>1, EntryIdIsEntry, SavedRequestOk
  <2>4. \A g \in Holding : g # h => RequestOk(g)'
    BY <1>0, <2>1, <2>2, <2>3, RequestFades DEF Requests
  <2>5. Undoing'
    BY <1>0, <2>1, <2>3 DEF Undoing, Requests, RequestOk, NamesEntry
  <2>6. Sweep' /\ Placing' /\ Polling'
    BY <1>0, <2>1 DEF Sweep, Placing, Polling
  <2> QED
    BY <1>0, <2>1, <2>2, <2>3, <2>4, <2>5, <2>6, LocalStep
<1> QED
  BY <1>1, <1>2, <1>3, <1>4

\* A submission that was not placed or whose outcome is uncertain: the request of
\* a stop is open again, and no other request is written.
LEMMA FailureKeeps ==
  ASSUME IInv, PInv, pc \in {"review", "dispatch", "await"},
         NEW s \in {"pending", "blocked"}, AfterFailure(s), Fades,
         \A p \in OrderId : p # job.id => orders'[p] = orders[p],
         UNCHANGED <<todo, expired>>
  PROVE  PInv'
<1> DEFINE h == job.holding
<1>0. /\ Core /\ WorkType /\ Sequel /\ Requests /\ Undoing /\ Sweep
      /\ request \in [Holding -> Request]
  BY DEF IInv, Work, WorkType, PInv
<1>1. /\ request[h].status # "active" /\ h \in Holding /\ orders[job.id].holding = h
      /\ job.task \in {"open", "exit", "protect"}
  BY PlacingNotActive
<1>2. /\ \A g \in Holding : g # h => request'[g] = request[g]
      /\ request'[h].status # "active"
      /\ request'[h] = request[h] \/ request'[h].status \in {"pending", "blocked"}
      /\ request'[h].entry = request[h].entry /\ request'[h].order = request[h].order
      /\ \/ pc' = "idle" /\ job' = NoJob /\ job.task = "open"
         \/ pc' = "leave" /\ job' = job /\ job.task = "exit"
         \/ pc' = "resume" /\ job' = job /\ job.task = "protect"
  <2>1. CASE job.task = "open"
    BY <1>1, <2>1 DEF AfterFailure, Idle
  <2>2. CASE job.task = "exit"
    BY <1>1, <2>2 DEF AfterFailure
  <2>3. CASE job.task = "protect"
    <3>1. Settle(h, s, 0)
      BY <2>3 DEF AfterFailure
    <3>2. request[h] \in Request
      BY <1>0, <1>1
    <3>3. /\ request' = [request EXCEPT ![h].status = s, ![h].order = request[h].order]
          /\ pc' = "resume" /\ job' = job
      BY <3>1 DEF Settle
    <3>4. request'[h] = [request[h] EXCEPT !.status = s, !.order = request[h].order]
      BY <1>0, <1>1, <3>3
    <3>5. /\ request'[h].status = s /\ request'[h].entry = request[h].entry
          /\ request'[h].order = request[h].order
      BY <3>2, <3>4 DEF Request
    <3> QED
      BY <1>0, <1>1, <2>3, <3>3, <3>5
  <2> QED
    BY <1>1, <2>1, <2>2, <2>3
<1>3. Stays /\ Sequel'
  BY <1>0, StaysFades, SequelFades
<1>4. \A g \in Holding : RequestOk(g)'
  <2> TAKE g \in Holding
  <2>1. CASE request'[g] = request[g]
    BY <1>0, <2>1, RequestFades DEF Requests
  <2>2. CASE g = h /\ request'[h].status \in {"pending", "blocked"}
    BY <1>0, <1>2, <1>3, <2>2, OpenRequestOk DEF Requests
  <2> QED
    BY <1>2, <2>1, <2>2
<1>5. Undoing'
  <2>1. CASE job' = NoJob
    BY <2>1, FreshUndoing DEF NoJob
  <2>2. CASE job' = job
    BY <1>0, <1>2, <1>3, <2>2, UndoingKept
  <2> QED
    BY <1>2, <2>1, <2>2
<1>6. Sweep' /\ Placing' /\ Polling'
  BY <1>0, <1>2 DEF Sweep, Placing, Polling
<1>7. \A p \in OrderId : p <= last /\ orders[p].holding # h => orders'[p] = orders[p]
  BY <1>1
<1>8. UNCHANGED position
  BY DEF Fades
<1> QED
  BY <1>1, <1>2, <1>3, <1>4, <1>5, <1>6, <1>7, <1>8, LocalStep

\* Orders whose outcome is uncertain or that never left lose their status only.
LEMMA FadesUncertain ==
  ASSUME CoreType, NEW o \in OrderId, NEW b \in BOOLEAN, MarkUnknown(o, b),
         UNCHANGED <<last, position>>
  PROVE  Fades /\ \A p \in OrderId : p # o => orders'[p] = orders[p]
<1>1. orders[o] \in Order
  BY DEF CoreType
<1> DEFINE s == IF IsLive(orders[o]) THEN "unknown" ELSE orders[o].status
           k == orders[o].known \/ b
<1>2. orders'[o] = [orders[o] EXCEPT !.status = s, !.known = k]
  BY DEF MarkUnknown, CoreType
<1>3. s = "filled" => orders[o].status = "filled"
  OBVIOUS
<1>4. s \notin Terminal \union {"unused"} => IsLive(orders[o])
  BY DEF IsLive
<1> HIDE DEF s, k
<1>5. /\ orders'[o].action = orders[o].action /\ orders'[o].holding = orders[o].holding
      /\ orders'[o].kind = orders[o].kind /\ orders'[o].qty = orders[o].qty
      /\ orders'[o].price = orders[o].price /\ orders'[o].filled = orders[o].filled
      /\ orders'[o].status = s
  BY <1>1, <1>2 DEF Order
<1>6. \A p \in OrderId : p # o => orders'[p] = orders[p]
  BY DEF MarkUnknown, CoreType
<1> QED
  BY <1>3, <1>4, <1>5, <1>6 DEF Fades, IsLive

LEMMA FadesRejected ==
  ASSUME CoreType, NEW o \in OrderId, orders' = [orders EXCEPT ![o].status = "rejected"],
         UNCHANGED <<last, position>>
  PROVE  Fades /\ \A p \in OrderId : p # o => orders'[p] = orders[p]
<1>1. orders[o] \in Order /\ orders'[o] = [orders[o] EXCEPT !.status = "rejected"]
  BY DEF CoreType
<1>2. /\ orders'[o].action = orders[o].action /\ orders'[o].holding = orders[o].holding
      /\ orders'[o].kind = orders[o].kind /\ orders'[o].qty = orders[o].qty
      /\ orders'[o].price = orders[o].price /\ orders'[o].filled = orders[o].filled
      /\ orders'[o].status = "rejected"
  BY <1>1 DEF Order
<1>3. \A p \in OrderId : p # o => orders'[p] = orders[p]
  BY DEF CoreType
<1> QED
  BY <1>2, <1>3 DEF Fades, IsLive, Terminal

LEMMA FadesTimed ==
  ASSUME CoreType, NEW o \in OrderId, NEW b, orders' = [orders EXCEPT ![o].timed = b],
         UNCHANGED <<last, position>>
  PROVE  /\ Fades /\ \A p \in OrderId : p # o => orders'[p] = orders[p]
         /\ orders'[o].price = orders[o].price /\ orders'[o].action = orders[o].action
<1>1. orders[o] \in Order /\ orders'[o] = [orders[o] EXCEPT !.timed = b]
  BY DEF CoreType
<1>2. /\ orders'[o].action = orders[o].action /\ orders'[o].holding = orders[o].holding
      /\ orders'[o].kind = orders[o].kind /\ orders'[o].qty = orders[o].qty
      /\ orders'[o].price = orders[o].price /\ orders'[o].filled = orders[o].filled
      /\ orders'[o].status = orders[o].status
  BY <1>1 DEF Order
<1>3. \A p \in OrderId : p # o => orders'[p] = orders[p]
  BY DEF CoreType
<1> QED
  BY <1>2, <1>3 DEF Fades, IsLive

\* What StopLoss.state makes of a row.
LEMMA SettledRow ==
  ASSUME WorkType, NEW h \in Holding, NEW s, NEW o, Settle(h, s, o)
  PROVE  /\ request'[h].status = s /\ request'[h].entry = request[h].entry
         /\ request'[h].order = IF o = 0 THEN request[h].order ELSE o
         /\ request'[h].price = request[h].price
         /\ \A g \in Holding : g # h => request'[g] = request[g]
         /\ pc' = "resume" /\ job' = job
<1> DEFINE x == IF o = 0 THEN request[h].order ELSE o
<1>1. request' = [request EXCEPT ![h].status = s, ![h].order = x] /\ pc' = "resume" /\ job' = job
  BY DEF Settle
<1>2. request[h] \in Request /\ request \in [Holding -> Request]
  BY DEF WorkType
<1> HIDE DEF x
<1>3. request'[h] = [request[h] EXCEPT !.status = s, !.order = x]
  BY <1>1, <1>2
<1>4. \A g \in Holding : g # h => request'[g] = request[g]
  BY <1>1, <1>2
<1> QED
  BY <1>1, <1>2, <1>3, <1>4 DEF Request, x

\* The broker answered for a protective stop.
LEMMA StopAnswered ==
  ASSUME IInv, PInv, pc = "await", job.task = "protect",
         NEW v \in Reports(job.id), ApplyResult(job.id, v),
         Settle(job.holding, PlacedStopStatus(orders[job.id], v.status), job.id),
         UNCHANGED <<last, wire, broker, acct, todo, expired>>
  PROVE  PInv'
<1> DEFINE h == job.holding
           o == job.id
           s == PlacedStopStatus(orders[o], v.status)
<1>0. /\ Core /\ WorkType /\ Sequel /\ Requests /\ Undoing /\ Sweep
      /\ request \in [Holding -> Request] /\ job.prev \in Request
  BY DEF IInv, Work, WorkType, Job, PInv
<1>1. /\ h \in Holding /\ o \in OrderId /\ o <= last /\ o # 0 /\ IsLive(orders[o])
      /\ orders[o].holding = h /\ orders[o].action = "UPDATE_STOP"
      /\ request[h].order = o /\ orders[o].price = request[h].price
  BY PlacingNotActive, ExecutionAssumption DEF PInv, Placing, OrderId
<1>2. /\ request'[h].status = s /\ request'[h].entry = request[h].entry
      /\ request'[h].order = o /\ request'[h].price = request[h].price
      /\ \A g \in Holding : g # h => request'[g] = request[g]
      /\ pc' = "resume" /\ job' = job
  BY <1>0, <1>1, SettledRow
<1>3. /\ orders'[o].action = "UPDATE_STOP" /\ orders'[o].holding = h
      /\ orders'[o].kind = orders[o].kind /\ orders'[o].price = orders[o].price
      /\ orders'[o].status = v.status
      /\ \A p \in OrderId : p # o => orders'[p] = orders[p]
      /\ \A g \in Holding : g # h => position'[g] = position[g]
      /\ IsLive(orders'[o]) <=> v.status \notin Terminal
      /\ v.status = "filled" => position'[h] = 0
  <2>1. /\ orders'[o].action = "UPDATE_STOP" /\ orders'[o].holding = h
        /\ orders'[o].kind = orders[o].kind /\ orders'[o].price = orders[o].price
        /\ orders'[o].status = v.status
        /\ \A p \in OrderId : p # o => orders'[p] = orders[p]
        /\ \A g \in Holding : g # h => position'[g] = position[g]
        /\ IsLive(orders'[o]) <=> v.status \notin Terminal
    BY <1>0, <1>1, Applied
  <2>2. /\ position'[h] = position[h] - (v.filled - orders[o].filled)
        /\ position[h] \in Nat /\ orders[o].filled \in Nat /\ orders[o].qty \in Nat
        /\ v.status = "filled" => v.filled = orders[o].qty
    <3>1. ~IsBuy(orders[o])
      BY <1>1 DEF IsBuy
    <3>2. /\ position'[orders[o].holding] =
               IF IsBuy(orders[o])
                 THEN position[orders[o].holding] + (v.filled - orders[o].filled)
                 ELSE position[orders[o].holding] - (v.filled - orders[o].filled)
          /\ position[orders[o].holding] \in Nat /\ orders[o].filled \in Nat
          /\ orders[o].qty \in Nat /\ (v.status = "filled" => v.filled = orders[o].qty)
      BY <1>0, <1>1, Applied
    <3> QED
      BY <1>1, <3>1, <3>2
  <2>3. orders[o].qty - orders[o].filled = position[h]
    BY <1>0, <1>1 DEF Sequel, StopsCover
  <2>4. v.status = "filled" => position'[h] = 0
    BY <2>2, <2>3
  <2> QED
    BY <2>1, <2>4
<1>4. Stays /\ Sequel'
  BY <1>0, <1>1, StaysApplied, SequelApplied
<1>5. \A g \in Holding : g # h => RequestOk(g)'
  BY <1>0, <1>1, <1>2, RequestApplied DEF Requests
<1>6. RequestOk(h)'
  <2>1. NamesEntry(h, request[h])' /\ NamesStop(h)'
    BY <1>0, <1>1, <1>2, <1>4, NamesKept DEF Requests, RequestOk
  <2>2. s = "complete" => v.status = "filled"
    BY DEF PlacedStopStatus
  <2>3. request[h].entry # 0 =>
          /\ request[h].entry \in OrderId /\ request[h].entry <= last
          /\ orders[request[h].entry].action = "OPEN" /\ orders[request[h].entry].holding = h
    BY <1>0, <1>1 DEF Requests, RequestOk, NamesEntry, Request
  <2>4. request[h].entry # 0 => ~IsLive(orders[request[h].entry])
    BY <1>0, <1>1, <2>3 DEF Core, OneLive
  <2>5. request[h].entry # 0 => ~IsLive(orders'[request[h].entry])
    BY <1>4, <2>3, <2>4 DEF Stays
  <2> QED
    BY <1>2, <1>3, <2>1, <2>2, <2>5 DEF RequestOk, Closed
<1>7. s = "active" => Covered(h)'
  <2> SUFFICES ASSUME s = "active" PROVE Covered(h)'
    OBVIOUS
  <2>1. v.status \in Resting /\ orders[o].kind = "stop_market"
    BY DEF PlacedStopStatus, Terminal
  <2>2. IsLive(orders'[o])
    BY <1>3, <2>1 DEF Resting, Terminal
  <2>3. orders'[o].qty - orders'[o].filled = position'[h]
    BY <1>1, <1>3, <1>4, <2>2 DEF Sequel, StopsCover
  <2> QED
    BY <1>1, <1>2, <1>3, <2>1, <2>2, <2>3 DEF Covered, ActiveStops, LiveOrders
<1>8. Undoing' /\ Sweep' /\ Placing' /\ Polling'
  BY <1>0, <1>1, <1>2, <1>4, UndoingKept DEF Sweep, Placing, Polling
<1>9. \A p \in OrderId : p <= last /\ orders[p].holding # h => orders'[p] = orders[p]
  BY <1>1, <1>3
<1> HIDE DEF s
<1> QED
  BY <1>1, <1>2, <1>3, <1>4, <1>5, <1>6, <1>7, <1>8, <1>9, LocalStep

LEMMA SubmitKeeps == IInv /\ PInv /\ Submit => PInv'
<1> SUFFICES ASSUME IInv, PInv, Submit PROVE PInv'
  OBVIOUS
<1>0. /\ Core /\ CoreType /\ WorkType /\ Sequel /\ Requests /\ Undoing /\ Sweep /\ Placing
      /\ request \in [Holding -> Request] /\ Busy /\ Reserved /\ Cleared
      /\ pc \in {"verify", "review", "dispatch", "await", "leave"}
  BY DEF IInv, Core, Work, WorkType, PInv, Submit, HoldExit, ReserveExit, Review, Dispatch,
         SubmissionAnswered, LeaveExit, SubmissionUncertain, PreflightHold
<1>h. PICK h \in Holding : h = job.holding
  BY <1>0 DEF Busy
<1> USE <1>h
<1>1. CASE HoldExit \/ Review \/ LeaveExit
  <2>1. /\ UNCHANGED <<orders, last, position, request, todo, expired>>
        /\ \/ pc = "verify" /\ pc' = "leave" /\ job' = job
           \/ pc = "review" /\ pc' = "dispatch" /\ job' = job
           \/ /\ pc = "leave" /\ pc' \in {"arm", "idle"}
              /\ job'.next = "idle" /\ (pc' = "arm" => job'.holding = h)
    <3>1. CASE HoldExit \/ Review
      BY <3>1 DEF HoldExit, Review, ledgerVars, worldVars
    <3>2. CASE LeaveExit
      <4> DEFINE armed == [NoJob EXCEPT !.task = "protect", !.holding = h]
      <4>1. armed.next = "idle" /\ armed.holding = h /\ NoJob.next = "idle"
        BY DEF NoJob
      <4> HIDE DEF armed
      <4>2. /\ UNCHANGED <<orders, last, position, request, todo, expired>> /\ pc = "leave"
            /\ \/ pc' = "arm" /\ job' = armed
               \/ pc' = "idle" /\ job' = NoJob
        BY <3>2 DEF LeaveExit, Idle, ledgerVars, worldVars, armed
      <4> QED
        BY <4>1, <4>2
    <3> QED
      BY <1>1, <3>1, <3>2
  <2>2. Sequel' /\ Fades /\ Stays
    BY <1>0, <2>1, FadesUnchanged, SequelFades, StaysFades
  <2>3. Requests'
    BY <1>0, <2>1, <2>2, RequestFades DEF Requests
  <2>4. Undoing'
    BY <1>0, <2>1, <2>2, FreshUndoing, UndoingKept
  <2>5. Sweep' /\ Placing' /\ Polling'
    BY <1>0, <2>1 DEF Sweep, Placing, Polling
  <2>6. ActiveCovered'
    BY <2>1, ActiveUntouched DEF Loose, Reconciling, Replacing
  <2> QED
    BY <2>2, <2>3, <2>4, <2>5, <2>6 DEF PInv
<1>2. CASE ReserveExit
  <2>1. /\ h \in Holding /\ Quiet(h) /\ ~Loose(h) /\ todo = {} /\ pc = "verify"
        /\ job.task = "exit"
    BY <1>0, <1>2 DEF ReserveExit, Busy, Cleared, Sweep, Loose, Reconciling, Replacing
  <2>2. /\ Reserve(h, "EXIT", "limit", job.qty, NoPrice)
        /\ UNCHANGED <<position, todo, expired>>
        /\ pc' = "review" /\ job' = [job EXCEPT !.id = last + 1]
        /\ request' = request \/ request' = SavedRequest(h, EntryId(h), job.price)
    BY <1>2 DEF ReserveExit, worldVars
  <2>3. /\ Sequel' /\ last' = last + 1 /\ last' \in OrderId /\ last \in Nat
        /\ \A o \in 1 .. last : o \in OrderId /\ orders'[o] = orders[o]
        /\ orders'[last'].action = "EXIT" /\ orders'[last'].holding = h
        /\ \A g \in Holding : EntryId(g)' = EntryId(g)
    BY <1>0, <2>1, <2>2, Appended
  <2>4. \A g \in Holding : request'[g] = request[g] => RequestOk(g)'
    BY <1>0, <2>2, <2>3, RequestAppended DEF Requests
  <2>5. Stays
    BY <2>3, StaysAppended
  <2>6. /\ RequestOk(h)' /\ request'[h].status # "active"
        /\ request'[h].order \in {0, request[h].order}
        /\ \A g \in Holding : g # h => request'[g] = request[g]
    <3>1. CASE request' = request
      BY <2>1, <2>4, <3>1, QuietNotActive
    <3>2. CASE request' = SavedRequest(h, EntryId(h), job.price)
      <4>1. EntryId(h) # 0 => /\ EntryId(h) <= last' /\ orders'[EntryId(h)].action = "OPEN"
                              /\ orders'[EntryId(h)].holding = h
        BY <1>0, <2>3, <2>5, EntryIdIsEntry, ExecutionAssumption DEF Stays, OrderId
      <4> QED
        BY <1>0, <2>1, <3>2, <4>1, SavedRequestOk
    <3> QED
      BY <2>2, <3>1, <3>2
  <2>7. /\ job'.id = last' /\ job'.task = "exit" /\ job'.next = job.next
        /\ job'.prev = job.prev /\ job'.holding = h
    BY <1>0, <2>1, <2>2, <2>3 DEF WorkType, Job
  <2>8. Undoing'
    BY <1>0, <2>5, <2>6, <2>7, UndoingKept
  <2>9. Sweep' /\ Placing' /\ Polling'
    BY <1>0, <2>1, <2>2, <2>3, <2>7 DEF Sweep, Placing, Polling
  <2>10. \A o \in OrderId : o <= last => orders'[o] = orders[o]
    BY <2>3, ExecutionAssumption DEF OrderId
  <2> QED
    BY <1>0, <2>1, <2>2, <2>3, <2>4, <2>6, <2>8, <2>9, <2>10, LocalStep
<1>3. ASSUME NEW b \in BOOLEAN, Dispatch(b)
      PROVE  PInv'
  <2>1. /\ request[h].status # "active" /\ h \in Holding /\ job.id \in OrderId
        /\ orders[job.id].holding = h
    BY <1>3, PlacingNotActive DEF Dispatch
  <2>2. /\ orders' = [orders EXCEPT ![job.id].timed = b]
        /\ UNCHANGED <<last, position, request, job, todo, expired>>
        /\ pc = "dispatch" /\ pc' = "await"
    BY <1>3 DEF Dispatch, worldVars
  <2>3. /\ Fades /\ \A p \in OrderId : p # job.id => orders'[p] = orders[p]
        /\ orders'[job.id].price = orders[job.id].price
        /\ orders'[job.id].action = orders[job.id].action
    BY <1>0, <2>1, <2>2, FadesTimed
  <2>4. Sequel' /\ Stays
    BY <1>0, <2>3, SequelFades, StaysFades
  <2>5. \A g \in Holding : RequestOk(g)'
    BY <1>0, <2>2, <2>3, RequestFades DEF Requests
  <2>6. Undoing'
    BY <1>0, <2>2, <2>4, UndoingKept
  <2>7. Sweep' /\ Placing' /\ Polling'
    BY <1>0, <2>2, <2>3 DEF Sweep, Placing, Polling
  <2> QED
    BY <2>1, <2>2, <2>3, <2>4, <2>5, <2>6, <2>7, LocalStep
<1>4. ASSUME NEW s \in {"pending", "blocked"}, PreflightHold(s)
      PROVE  PInv'
  <2>1. /\ orders' = [orders EXCEPT ![job.id].status = "rejected"] /\ AfterFailure(s)
        /\ UNCHANGED <<last, position, todo, expired>> /\ pc \in {"review", "dispatch"}
    BY <1>4 DEF PreflightHold, worldVars
  <2>2. job.id \in OrderId
    BY <2>1, PlacingNotActive
  <2> QED
    BY <1>0, <2>1, <2>2, FadesRejected, FailureKeeps
<1>5. ASSUME NEW b \in BOOLEAN, SubmissionUncertain(b)
      PROVE  PInv'
  <2>1. /\ MarkUnknown(job.id, b) /\ AfterFailure("blocked")
        /\ UNCHANGED <<last, position, todo, expired>> /\ pc \in {"review", "await"}
    BY <1>5 DEF SubmissionUncertain, worldVars
  <2>2. job.id \in OrderId
    BY <2>1, PlacingNotActive
  <2> QED
    BY <1>0, <2>1, <2>2, FadesUncertain, FailureKeeps
<1>6. CASE SubmissionAnswered
  <2> DEFINE o == job.id
             armed == [NoJob EXCEPT !.task = "protect", !.holding = h]
  <2>1. /\ request[h].status # "active" /\ h \in Holding /\ o \in OrderId
        /\ orders[o].holding = h /\ pc = "await"
        /\ UNCHANGED <<last, wire, broker, acct, todo, expired>>
    BY <1>6, PlacingNotActive DEF SubmissionAnswered, brokerVars, worldVars
  <2>2. PICK v \in Reports(o) :
          /\ ApplyResult(o, v)
          /\ \/ /\ job.task = "protect"
                /\ Settle(h, PlacedStopStatus(orders[o], v.status), o)
             \/ /\ job.task # "protect" /\ UNCHANGED request
                /\ \/ pc' = "arm" /\ job' = [armed EXCEPT !.next = "leave"]
                   \/ pc' = "arm" /\ job' = armed
                   \/ pc' = "idle" /\ job' = NoJob
    BY <1>6 DEF SubmissionAnswered, Idle
  <2>3. CASE job.task = "protect" /\ Settle(h, PlacedStopStatus(orders[o], v.status), o)
    BY <2>1, <2>2, <2>3, StopAnswered
  <2>4. CASE /\ job.task # "protect" /\ UNCHANGED request
             /\ \/ pc' = "arm" /\ job' = [armed EXCEPT !.next = "leave"]
                \/ pc' = "arm" /\ job' = armed
                \/ pc' = "idle" /\ job' = NoJob
    <3>1. job'.next # "undo" /\ todo = {}
      <4>1. todo = {}
        BY <1>0, <2>1, <2>4 DEF Sweep
      <4>2. /\ NoJob.next = "idle" /\ armed.next = "idle"
            /\ [armed EXCEPT !.next = "leave"].next = "leave"
        BY DEF NoJob
      <4> HIDE DEF armed
      <4> QED
        BY <2>4, <4>1, <4>2
    <3>2. /\ \A p \in OrderId : p # o => orders'[p] = orders[p]
          /\ \A g \in Holding : g # h => position'[g] = position[g]
      BY <1>0, <2>1, <2>2, Applied
    <3>3. Sequel' /\ \A g \in Holding : RequestOk(g)'
      BY <1>0, <2>1, <2>2, <2>4, SequelApplied, RequestApplied DEF Requests
    <3>4. Undoing' /\ Sweep' /\ Placing' /\ Polling'
      BY <2>1, <2>4, <3>1, FreshUndoing DEF Sweep, Placing, Polling
    <3> QED
      BY <2>1, <2>4, <3>2, <3>3, <3>4, LocalStep
  <2> QED
    BY <2>2, <2>3, <2>4
<1> QED
  BY <1>1, <1>2, <1>3, <1>4, <1>5, <1>6 DEF Submit

\* The protection task writes the outcome of its request.
LEMMA SettleKeeps ==
  ASSUME IInv, PInv, pc \in {"arm", "cancel", "poll", "canceled"},
         NEW h \in Holding, h = job.holding, NEW s, NEW o \in OrderId \union {0},
         Settle(h, s, o), Stays, Sequel', UNCHANGED todo,
         \A g \in Holding : g # h => RequestOk(g)' /\ position'[g] = position[g],
         \A p \in OrderId : p <= last /\ orders[p].holding # h => orders'[p] = orders[p],
         o # 0 => o \in ActiveStops(h), Closed(h)', s = "active" => Covered(h)'
  PROVE  PInv'
<1>1. /\ Core /\ WorkType /\ Sequel /\ Requests /\ Undoing /\ Sweep
      /\ request \in [Holding -> Request] /\ job.prev \in Request /\ RequestOk(h)
  BY DEF IInv, Work, WorkType, Job, PInv, Requests
<1>2. /\ request'[h].status = s /\ request'[h].entry = request[h].entry
      /\ request'[h].order = IF o = 0 THEN request[h].order ELSE o
      /\ \A g \in Holding : g # h => request'[g] = request[g]
      /\ pc' = "resume" /\ job' = job
  BY <1>1, SettledRow
<1>3. ASSUME NEW q \in Request, NamesEntry(h, q), o # 0
      PROVE  q.entry < o /\ o <= last
  BY <1>1, <1>3, StopAfterEntry
<1>4. NamesEntry(h, request[h])' /\ NamesStop(h)'
  <2>1. CASE o = 0
    BY <1>1, <1>2, <2>1, NamesKept DEF RequestOk
  <2>2. CASE o # 0
    <3>1. /\ request[h].entry \in OrderId \union {0} /\ last <= last' /\ o <= last
          /\ request[h].entry < o /\ orders[o].action = "UPDATE_STOP"
          /\ orders[o].holding = h
      BY <1>1, <1>3, <2>2 DEF Request, RequestOk, Stays, ActiveStops
    <3>2. NamesStop(h)'
      BY <1>2, <2>2, <3>1, ExecutionAssumption DEF NamesStop, Stays, OrderId
    <3>3. request[h].entry # 0 => /\ request[h].entry <= last
                                  /\ orders[request[h].entry].action = "OPEN"
                                  /\ orders[request[h].entry].holding = h
      BY <1>1 DEF RequestOk, NamesEntry
    <3>4. NamesEntry(h, request[h])'
      BY <1>2, <3>1, <3>3, ExecutionAssumption DEF NamesEntry, Stays, OrderId
    <3> QED
      BY <3>2, <3>4
  <2> QED
    BY <2>1, <2>2
<1>5. RequestOk(h)'
  BY <1>4 DEF RequestOk
<1>6. Undoing'
  <2>1. CASE o = 0
    BY <1>1, <1>2, <2>1, UndoingKept
  <2>2. CASE o # 0
    <3>1. SUFFICES ASSUME job.next = "undo"
                   PROVE  NamesEntry(h, job.prev)' /\ job.prev.entry < o
      BY <1>2, <2>2 DEF Undoing
    <3>2. NamesEntry(h, job.prev) /\ job.prev.entry \in OrderId \union {0}
      BY <1>1, <3>1 DEF Undoing, Request
    <3>3. job.prev.entry # 0 => /\ job.prev.entry <= last
                                /\ orders[job.prev.entry].action = "OPEN"
                                /\ orders[job.prev.entry].holding = h
      BY <3>2 DEF NamesEntry
    <3>4. NamesEntry(h, job.prev)'
      BY <1>2, <3>2, <3>3, ExecutionAssumption DEF NamesEntry, Stays, OrderId
    <3> QED
      BY <1>1, <1>3, <2>2, <3>2, <3>4
  <2> QED
    BY <2>1, <2>2
<1>7. Sweep' /\ Placing' /\ Polling'
  BY <1>1, <1>2 DEF Sweep, Placing, Polling
<1> QED
  BY <1>2, <1>5, <1>6, <1>7, LocalStep

\* The same when the ledger does not move.
LEMMA SettleStill ==
  ASSUME IInv, PInv, pc \in {"arm", "cancel", "poll", "canceled"},
         NEW h \in Holding, h = job.holding, NEW s, NEW o \in OrderId \union {0},
         Settle(h, s, o), UNCHANGED <<orders, last, position, todo, expired>>,
         o # 0 => Covers(o, h), s = "active" => o # 0,
         s = "complete" =>
           LET e == request[h].entry
           IN  /\ e # 0 /\ IsLive(orders[e]) => h \in expired
               /\ e = EntryId(h) => position[h] = 0 \/ h \in expired
  PROVE  PInv'
<1>1. Core /\ WorkType /\ Sequel /\ Requests /\ request \in [Holding -> Request]
  BY DEF IInv, Work, WorkType, PInv
<1>2. /\ request'[h].status = s /\ request'[h].entry = request[h].entry
      /\ request'[h].order = IF o = 0 THEN request[h].order ELSE o
      /\ request'[h].price = request[h].price
      /\ \A g \in Holding : g # h => request'[g] = request[g]
  BY <1>1, SettledRow
<1>3. Fades /\ Stays /\ Sequel'
  BY <1>1, FadesUnchanged, StaysFades, SequelFades
<1>4. \A g \in Holding : g # h => RequestOk(g)' /\ position'[g] = position[g]
  BY <1>1, <1>2, <1>3, RequestFades DEF Requests
<1>5. EntryId(h)' = EntryId(h)
  BY <1>3, EntryFades
<1>6. Closed(h)'
  BY <1>2, <1>5 DEF Closed
<1>7. o # 0 => o \in ActiveStops(h)
  BY DEF Covers
<1>8. s = "active" => Covered(h)'
  BY <1>2 DEF Covers, Covered, ActiveStops, LiveOrders, IsRestingStop
<1> QED
  BY <1>3, <1>4, <1>6, <1>7, <1>8, SettleKeeps

\* A live entry that backs a position is the newest one with a fill.
LEMMA LiveEntryIsNewest ==
  ASSUME Core, Sequel, NEW h \in Holding, position[h] > 0, NEW e \in OrderId,
         IsLive(orders[e]), orders[e].action = "OPEN", orders[e].holding = h
  PROVE  EntryId(h) = e
<1>1. e \in FilledEntries(h)
  BY DEF Core, Backed, IsBuy, FilledEntries
<1>2. FilledEntries(h) \subseteq OrderId
  BY DEF FilledEntries
<1>3. \A p \in FilledEntries(h) : p <= e
  BY DEF FilledEntries, Sequel, Newest, Core, Numbered
<1> QED
  BY <1>1, <1>2, <1>3, LargestIs DEF EntryId

\* The cancellation of a stop, its polling, and what an exit does next.
LEMMA CancelKeeps ==
  ASSUME IInv, PInv,
         \/ \E o \in OrderId, b \in BOOLEAN : CancelStop(o, b)
         \/ PollCancel \/ CancelFails \/ ExitMayProceed
  PROVE  PInv'
<1>0. /\ Core /\ CoreType /\ WorkType /\ Sequel /\ Requests /\ Undoing /\ Sweep /\ Placing
      /\ Polling /\ request \in [Holding -> Request] /\ Busy /\ Cleared /\ job \in Job
      /\ pc \in {"cancel", "poll", "canceled"}
  BY DEF IInv, Core, Work, WorkType, PInv, CancelStop, PollCancel, CancelFails, ExitMayProceed
<1>h. PICK h \in Holding : h = job.holding
  BY <1>0 DEF Busy
<1>1. ASSUME NEW o \in OrderId, NEW b \in BOOLEAN, CancelStop(o, b)
      PROVE  PInv'
  <2>1. /\ UNCHANGED <<orders, last, position, request, todo, expired>>
        /\ o \in ActiveStops(h) /\ pc = "cancel" /\ pc' = "poll"
        /\ job' = [job EXCEPT !.id = o, !.polls = 0]
    BY <1>1, <1>h DEF CancelStop, ledgerVars, worldVars
  <2>2. /\ job'.id = o /\ job'.holding = job.holding /\ job'.task = job.task
        /\ job'.next = job.next /\ job'.prev = job.prev
    BY <1>0, <2>1 DEF Job
  <2>3. Fades /\ Stays /\ Sequel'
    BY <1>0, <2>1, FadesUnchanged, StaysFades, SequelFades
  <2>4. Requests'
    BY <1>0, <2>1, <2>3, RequestFades DEF Requests
  <2>5. Undoing'
    BY <1>0, <2>1, <2>2, <2>3, UndoingKept
  <2>6. Sweep' /\ Placing' /\ Polling'
    BY <1>0, <1>h, <2>1, <2>2 DEF Sweep, Placing, Polling, ActiveStops, LiveOrders
  <2>7. ActiveCovered'
    BY <2>1, <2>2, ActiveUntouched DEF Loose, Reconciling, Replacing
  <2> QED
    BY <2>3, <2>4, <2>5, <2>6, <2>7 DEF PInv
<1>2. CASE CancelFails
  <2>1. UNCHANGED <<orders, last, position, todo, expired>> /\ pc \in {"cancel", "poll"}
    BY <1>2 DEF CancelFails, worldVars
  <2>2. CASE job.task = "exit"
    <3>1. pc' = "leave" /\ UNCHANGED <<job, request>>
      BY <1>2, <2>2 DEF CancelFails, CancelGivenUp
    <3>2. Fades /\ Stays /\ Sequel'
      BY <1>0, <2>1, FadesUnchanged, StaysFades, SequelFades
    <3>3. Requests' /\ Undoing'
      BY <1>0, <2>1, <3>1, <3>2, RequestFades, UndoingKept DEF Requests
    <3>4. Sweep' /\ Placing' /\ Polling'
      BY <1>0, <2>1, <2>2, <3>1 DEF Sweep, Placing, Polling
    <3>5. ActiveCovered'
      BY <2>1, <2>2, <3>1, ActiveUntouched DEF Loose, Reconciling, Replacing
    <3> QED
      BY <3>2, <3>3, <3>4, <3>5 DEF PInv
  <2>3. CASE job.task # "exit"
    <3>1. Settle(h, "pending", 0)
      BY <1>2, <1>h, <2>3 DEF CancelFails, CancelGivenUp
    <3> QED
      BY <1>0, <1>h, <2>1, <3>1, SettleStill
  <2> QED
    BY <2>2, <2>3
<1>3. CASE ExitMayProceed
  <2>1. /\ UNCHANGED <<orders, last, position, job, todo, expired>>
        /\ pc = "canceled" /\ pc' \in {"verify", "leave"} /\ job.task = "exit"
        /\ request' = IF request[h].status = "none" THEN request
                      ELSE [request EXCEPT ![h].status = "pending"]
    BY <1>3, <1>h DEF ExitMayProceed, worldVars
  <2>2. /\ request'[h].entry = request[h].entry /\ request'[h].order = request[h].order
        /\ request'[h].status \in {"none", "pending"}
        /\ \A g \in Holding : g # h => request'[g] = request[g]
    BY <1>0, <2>1 DEF Request
  <2>3. Fades /\ Stays /\ Sequel'
    BY <1>0, <2>1, FadesUnchanged, StaysFades, SequelFades
  <2>4. \A g \in Holding : RequestOk(g)'
    BY <1>0, <2>1, <2>2, <2>3, RequestFades, OpenRequestOk DEF Requests
  <2>5. Undoing'
    BY <1>0, <1>h, <2>1, <2>2, <2>3, UndoingKept
  <2>6. Sweep' /\ Placing' /\ Polling'
    BY <1>0, <2>1 DEF Sweep, Placing, Polling
  <2> QED
    BY <1>0, <1>h, <2>1, <2>2, <2>3, <2>4, <2>5, <2>6, LocalStep
<1>4. CASE PollCancel
  <2> DEFINE o == job.id
  <2>1. PICK v \in Reports(o) :
          /\ ApplyResult(o, v)
          /\ CASE v.status \in Terminal ->
                    /\ pc' = IF ActiveStops(h) = {o} THEN "canceled" ELSE "cancel"
                    /\ UNCHANGED <<job, request>>
               [] v.status \notin Terminal /\ job.polls < MaxPolls ->
                    /\ job' = [job EXCEPT !.polls = @ + 1]
                    /\ UNCHANGED <<pc, request>>
               [] OTHER -> CancelGivenUp
    BY <1>4, <1>h DEF PollCancel
  <2>2. pc = "poll" /\ UNCHANGED <<last, wire, broker, acct, todo, expired>>
    BY <1>4 DEF PollCancel, brokerVars, worldVars
  <2>3. /\ o \in ActiveStops(h) /\ o \in OrderId /\ IsLive(orders[o])
        /\ orders[o].holding = h /\ orders[o].action = "UPDATE_STOP"
    BY <1>0, <1>h, <2>2 DEF Polling, ActiveStops, LiveOrders
  <2>4. ActiveStops(h) = {o}
    BY <1>0, <2>3 DEF Core, OneLive, ActiveStops, LiveOrders
  <2>5. /\ orders'[o].action = "UPDATE_STOP" /\ orders'[o].holding = h
        /\ orders'[o].kind = orders[o].kind /\ orders'[o].price = orders[o].price
        /\ \A p \in OrderId : p # o => orders'[p] = orders[p]
        /\ \A g \in Holding : g # h => position'[g] = position[g]
        /\ IsLive(orders'[o]) <=> v.status \notin Terminal
    BY <1>0, <2>1, <2>2, <2>3, Applied
  <2>6. Stays /\ Sequel'
    BY <1>0, <2>1, <2>2, <2>3, StaysApplied, SequelApplied
  <2>7. \A g \in Holding : request'[g] = request[g] => RequestOk(g)'
    BY <1>0, <2>1, <2>2, <2>3, RequestApplied DEF Requests
  <2>8. \A p \in OrderId : p <= last /\ orders[p].holding # h => orders'[p] = orders[p]
    BY <2>3, <2>5
  <2>9. ASSUME UNCHANGED request, v.status \notin Terminal, request[h].status = "active",
               ~Loose(h)
        PROVE  Covered(h)'
    <3>1. Covered(h)
      BY <2>9 DEF PInv, ActiveCovered
    <3>2. request[h].order = o
      BY <2>4, <3>1 DEF Covered
    <3>3. orders'[o].qty - orders'[o].filled = position'[h]
      BY <2>3, <2>5, <2>6, <2>9 DEF Sequel, StopsCover
    <3> QED
      BY <2>3, <2>5, <2>9, <3>1, <3>2, <3>3 DEF Covered, ActiveStops, LiveOrders
  <2>10. CASE v.status \in Terminal
    <3>1. pc' = "canceled" /\ UNCHANGED <<job, request>>
      BY <2>1, <2>4, <2>10
    <3>2. Undoing'
      BY <1>0, <2>6, <3>1, UndoingKept
    <3>3. Sweep' /\ Placing' /\ Polling'
      BY <1>0, <2>2, <3>1 DEF Sweep, Placing, Polling
    <3>4. Loose(h)'
      BY <1>h, <3>1 DEF Loose, Replacing
    <3> QED
      BY <1>h, <2>2, <2>5, <2>6, <2>7, <2>8, <3>1, <3>2, <3>3, <3>4, LocalStep
  <2>11. CASE v.status \notin Terminal /\ job.polls < MaxPolls
    <3>1. pc' = "poll" /\ request' = request /\ job' = [job EXCEPT !.polls = @ + 1]
      BY <2>1, <2>2, <2>11
    <3>2. /\ job'.id = o /\ job'.holding = job.holding /\ job'.task = job.task
          /\ job'.next = job.next /\ job'.prev = job.prev
      BY <1>0, <3>1 DEF Job
    <3>3. Undoing'
      BY <1>0, <2>6, <3>1, <3>2, UndoingKept
    <3>4. Sweep' /\ Placing'
      BY <1>0, <2>2, <3>1, <3>2 DEF Sweep, Placing
    <3>5. Polling'
      BY <1>h, <2>3, <2>5, <2>11, <3>2 DEF Polling, ActiveStops, LiveOrders
    <3>6. Loose(h) => Loose(h)'
      BY <2>2, <3>1, <3>2 DEF Loose, Reconciling, Replacing
    <3> QED
      BY <1>h, <2>2, <2>5, <2>6, <2>7, <2>8, <2>9, <2>11, <3>1, <3>3, <3>4, <3>5, <3>6,
         LocalStep
  <2>12. CASE v.status \notin Terminal /\ ~(job.polls < MaxPolls) /\ job.task = "exit"
    <3>1. pc' = "leave" /\ UNCHANGED <<job, request>>
      BY <2>1, <2>12 DEF CancelGivenUp
    <3>2. Undoing'
      BY <1>0, <2>6, <3>1, UndoingKept
    <3>3. Sweep' /\ Placing' /\ Polling'
      BY <1>0, <2>2, <2>12, <3>1 DEF Sweep, Placing, Polling
    <3>4. Loose(h) => Loose(h)'
      BY <2>2, <2>12, <3>1 DEF Loose, Reconciling, Replacing
    <3> QED
      BY <1>h, <2>2, <2>5, <2>6, <2>7, <2>8, <2>9, <2>12, <3>1, <3>2, <3>3, <3>4, LocalStep
  <2>13. CASE v.status \notin Terminal /\ ~(job.polls < MaxPolls) /\ job.task # "exit"
    <3>1. Settle(h, "pending", 0)
      BY <1>h, <2>1, <2>13 DEF CancelGivenUp
    <3>2. /\ request'[h].status = "pending"
          /\ \A g \in Holding : g # h => request'[g] = request[g]
      BY <1>0, <3>1, SettledRow
    <3>3. Closed(h)'
      BY <3>2 DEF Closed
    <3> QED
      BY <1>h, <2>2, <2>5, <2>6, <2>7, <2>8, <3>1, <3>2, <3>3, SettleKeeps
  <2> QED
    BY <2>10, <2>11, <2>12, <2>13
<1> QED
  BY <1>1, <1>2, <1>3, <1>4

\* Arming writes what it found, or goes on to replace the stop.
LEMMA ArmKeeps ==
  ASSUME IInv, PInv,
         \/ ArmWithoutPosition \/ ArmPausedOrExpired \/ ArmAlreadyActive
         \/ \E s \in {"pending", "blocked"} : ArmDeferred(s)
         \/ ArmReplace \/ ArmInventoryMoved
  PROVE  PInv'
<1>0. /\ Core /\ CoreType /\ WorkType /\ Sequel /\ Requests /\ Undoing /\ Sweep
      /\ request \in [Holding -> Request] /\ Busy /\ Cleared /\ Arming /\ job \in Job
      /\ pc \in {"arm", "canceled"}
  BY DEF IInv, Core, Work, WorkType, PInv, ArmWithoutPosition, ArmPausedOrExpired,
         ArmAlreadyActive, ArmDeferred, ArmNeeded, ArmApplies, ArmReplace, ArmInventoryMoved
<1>h. PICK h \in Holding : h = job.holding
  BY <1>0 DEF Busy
<1> DEFINE e == request[h].entry
<1>e. e # 0 => /\ e \in OrderId /\ orders[e].action = "OPEN" /\ orders[e].holding = h
  BY <1>0 DEF Requests, RequestOk, NamesEntry, Request
<1>n. position[h] \in Nat
  BY <1>0 DEF CoreType
<1>1. CASE ArmWithoutPosition
  <2>1. /\ UNCHANGED <<orders, last, position, todo, expired>>
        /\ \/ /\ position[h] = 0
              /\ Settle(h, IF e # 0 /\ IsLive(orders[e]) THEN "pending" ELSE "complete", 0)
           \/ /\ position[h] > 0 /\ EntryId(h) # e
              /\ Settle(h, "complete", 0)
    BY <1>1, <1>h DEF ArmWithoutPosition, worldVars
  <2>2. CASE position[h] = 0
    <3>1. PICK s \in {"pending", "complete"} :
            /\ Settle(h, s, 0)
            /\ s = "complete" => ~(e # 0 /\ IsLive(orders[e]))
      BY <1>n, <2>1, <2>2
    <3> QED
      BY <1>0, <1>h, <2>1, <2>2, <3>1, SettleStill
  <2>3. CASE position[h] > 0 /\ EntryId(h) # e
    <3>1. Settle(h, "complete", 0)
      BY <1>n, <2>1, <2>3
    <3>2. ~(e # 0 /\ IsLive(orders[e]))
      BY <1>0, <1>e, <2>3, LiveEntryIsNewest
    <3> QED
      BY <1>0, <1>h, <2>1, <2>3, <3>1, <3>2, SettleStill
  <2> QED
    BY <2>1, <2>2, <2>3
<1>2. CASE ArmPausedOrExpired
  <2>1. /\ UNCHANGED <<orders, last, position, todo, expired>>
        /\ Settle(h, "pending", 0) \/ (h \in expired /\ Settle(h, "complete", 0))
    BY <1>2, <1>h DEF ArmPausedOrExpired, worldVars
  <2>2. CASE Settle(h, "pending", 0)
    BY <1>0, <1>h, <2>1, <2>2, SettleStill
  <2>3. CASE h \in expired /\ Settle(h, "complete", 0)
    BY <1>0, <1>h, <2>1, <2>3, SettleStill
  <2> QED
    BY <2>1, <2>2, <2>3
<1>3. CASE ArmAlreadyActive
  <2>1. PICK o \in ActiveStops(h) : Covers(o, h) /\ Settle(h, "active", o)
    BY <1>3, <1>h DEF ArmAlreadyActive
  <2>2. UNCHANGED <<orders, last, position, todo, expired>>
    BY <1>3 DEF ArmAlreadyActive, worldVars
  <2>3. o \in OrderId /\ o # 0
    BY <2>1, ExecutionAssumption DEF ActiveStops, LiveOrders, OrderId
  <2> QED
    BY <1>0, <1>h, <2>1, <2>2, <2>3, SettleStill
<1>4. ASSUME NEW s \in {"pending", "blocked"}, ArmDeferred(s)
      PROVE  PInv'
  <2>1. UNCHANGED <<orders, last, position, todo, expired>> /\ Settle(h, s, 0)
    BY <1>4, <1>h DEF ArmDeferred, worldVars
  <2> QED
    BY <1>0, <1>h, <2>1, SettleStill
<1>5. CASE ArmReplace
  <2>1. /\ UNCHANGED <<orders, last, position, request, todo, expired>>
        /\ pc = "arm" /\ pc' \in {"canceled", "cancel"} /\ job.task = "protect"
        /\ job' = [job EXCEPT !.owned = position[h]]
    BY <1>0, <1>5, <1>h DEF ArmReplace, ArmNeeded, ArmApplies, Arming, ledgerVars, worldVars
  <2>2. /\ job'.holding = job.holding /\ job'.task = job.task
        /\ job'.next = job.next /\ job'.prev = job.prev
    BY <1>0, <2>1 DEF Job
  <2>3. Fades /\ Stays /\ Sequel'
    BY <1>0, <2>1, FadesUnchanged, StaysFades, SequelFades
  <2>4. Requests' /\ Undoing'
    BY <1>0, <2>1, <2>2, <2>3, RequestFades, UndoingKept DEF Requests
  <2>5. Sweep' /\ Placing' /\ Polling'
    BY <1>0, <2>1, <2>2 DEF Sweep, Placing, Polling
  <2>6. ActiveCovered'
    BY <2>1, <2>2, ActiveUntouched DEF Loose, Reconciling, Replacing
  <2> QED
    BY <2>3, <2>4, <2>5, <2>6 DEF PInv
<1>6. CASE ArmInventoryMoved
  <2>1. /\ UNCHANGED <<orders, last, position, todo, expired>> /\ pc = "canceled"
        /\ Settle(h, IF position[h] = 0 THEN "complete" ELSE "pending", 0)
    BY <1>6, <1>h DEF ArmInventoryMoved, worldVars
  <2>2. ~(e # 0 /\ IsLive(orders[e]))
    BY <1>0, <1>e, <1>h, <2>1 DEF Cleared, Quiet
  <2>3. PICK s \in {"pending", "complete"} : Settle(h, s, 0) /\ (s = "complete" => position[h] = 0)
    BY <2>1
  <2> QED
    BY <1>0, <1>h, <2>1, <2>2, <2>3, SettleStill
<1> QED
  BY <1>1, <1>2, <1>3, <1>4, <1>5, <1>6

\* The new stop is reserved, and its request names it.
LEMMA ReserveStopKeeps ==
  ASSUME IInv, PInv, NEW kind \in {"market", "stop_market"}, ReserveStop(kind)
  PROVE  PInv'
<1>0. /\ Core /\ CoreType /\ WorkType /\ Sequel /\ Requests /\ Undoing /\ Sweep
      /\ request \in [Holding -> Request] /\ Busy /\ Cleared /\ job \in Job
      /\ pc = "canceled"
  BY DEF IInv, Core, Work, WorkType, PInv, ReserveStop
<1>h. PICK h \in Holding : h = job.holding
  BY <1>0 DEF Busy
<1>1. /\ Reserve(h, "UPDATE_STOP", kind, position[h], request[h].price)
      /\ request' = [request EXCEPT ![h].status = "pending", ![h].order = last + 1]
      /\ pc' = "review" /\ job' = [job EXCEPT !.id = last + 1] /\ job.task = "protect"
      /\ UNCHANGED <<position, todo, expired>>
  BY <1>h DEF ReserveStop, worldVars
<1>2. Quiet(h) /\ position[h] \in Nat
  BY <1>0, <1>h DEF Cleared, CoreType
<1>3. /\ Sequel' /\ last' = last + 1 /\ last' \in OrderId /\ last \in Nat
      /\ \A o \in 1 .. last : o \in OrderId /\ orders'[o] = orders[o]
      /\ orders'[last'].action = "UPDATE_STOP" /\ orders'[last'].holding = h
      /\ orders'[last'].price = request[h].price
      /\ \A g \in Holding : EntryId(g)' = EntryId(g)
  BY <1>0, <1>1, <1>2, Appended
<1>4. Stays
  BY <1>3, StaysAppended
<1>5. request'[h] = [request[h] EXCEPT !.status = "pending", !.order = last']
  BY <1>0, <1>1, <1>3
<1>6. /\ request'[h].status = "pending" /\ request'[h].order = last'
      /\ request'[h].entry = request[h].entry /\ request'[h].price = request[h].price
      /\ \A g \in Holding : g # h => request'[g] = request[g]
  <2>1. request[h] \in Request
    BY <1>0
  <2>2. /\ request'[h].status = "pending" /\ request'[h].order = last'
        /\ request'[h].entry = request[h].entry /\ request'[h].price = request[h].price
    BY <1>5, <2>1 DEF Request
  <2>3. \A g \in Holding : g # h => request'[g] = request[g]
    BY <1>0, <1>1
  <2> QED
    BY <2>2, <2>3
<1>7. \A g \in Holding : g # h => RequestOk(g)'
  BY <1>0, <1>1, <1>3, <1>6, RequestAppended DEF Requests
<1>8. ASSUME NEW q \in Request, NamesEntry(h, q)
      PROVE  NamesEntry(h, q)' /\ q.entry < last'
  <2>1. q.entry \in OrderId \union {0}
    BY DEF Request
  <2>2. q.entry # 0 => q.entry <= last /\ q.entry \in Int
    BY <1>8, <2>1, ExecutionAssumption DEF NamesEntry, OrderId
  <2>3. q.entry < last'
    BY <1>3, <2>1, <2>2
  <2> QED
    BY <1>3, <1>4, <1>8, <2>1, <2>2, <2>3 DEF NamesEntry, Stays
<1>9. RequestOk(h)'
  <2>1. NamesEntry(h, request[h]) /\ request[h] \in Request
    BY <1>0 DEF Requests, RequestOk
  <2>2. NamesEntry(h, request[h])' /\ request[h].entry < last'
    BY <1>6, <1>8, <2>1 DEF NamesEntry
  <2>3. NamesStop(h)'
    BY <1>3, <1>6, <2>2, ExecutionAssumption DEF NamesStop, OrderId
  <2> QED
    BY <1>6, <2>2, <2>3 DEF RequestOk, Closed
<1>10. /\ job'.id = last' /\ job'.task = "protect" /\ job'.next = job.next
       /\ job'.prev = job.prev /\ job'.holding = h
  BY <1>0, <1>h, <1>1, <1>3 DEF Job
<1>11. Undoing'
  <2>1. SUFFICES ASSUME job.next = "undo"
                 PROVE  NamesEntry(h, job.prev)' /\ job.prev.entry < last'
    BY <1>6, <1>10 DEF Undoing, NamesEntry
  <2>2. NamesEntry(h, job.prev) /\ job.prev \in Request
    BY <1>0, <1>h, <2>1 DEF Undoing, Job
  <2>3. NamesEntry(h, job.prev)' /\ job.prev.entry < last'
    BY <1>8, <1>10, <2>2 DEF NamesEntry
  <2> QED
    BY <2>3
<1>12. Sweep' /\ Placing' /\ Polling'
  BY <1>0, <1>1, <1>3, <1>6, <1>10 DEF Sweep, Placing, Polling
<1>13. \A o \in OrderId : o <= last => orders'[o] = orders[o]
  BY <1>3, ExecutionAssumption DEF OrderId
<1> QED
  BY <1>0, <1>h, <1>1, <1>3, <1>6, <1>7, <1>9, <1>11, <1>12, <1>13, LocalStep

\* Back in the caller; a stop change that was held puts the old request back.
LEMMA ResumeKeeps == IInv /\ PInv /\ Resume => PInv'
<1> SUFFICES ASSUME IInv, PInv, Resume PROVE PInv'
  OBVIOUS
<1>0. /\ Core /\ WorkType /\ Sequel /\ Requests /\ Undoing /\ Sweep
      /\ request \in [Holding -> Request] /\ Busy /\ job \in Job
      /\ pc = "resume"
  BY DEF IInv, Work, WorkType, PInv, Resume
<1>h. PICK h \in Holding : h = job.holding
  BY <1>0 DEF Busy
<1> DEFINE undo == /\ job.next = "undo" /\ job.prev.status # "none" /\ Unresolved = {}
                   /\ request[h].status \notin {"active", "complete"}
           put == [job.prev EXCEPT !.status = "pending", !.order = request[h].order]
           again == [NoJob EXCEPT !.task = "protect", !.holding = h]
<1>1. /\ UNCHANGED <<orders, last, position, todo, expired>>
      /\ request' = IF undo THEN [request EXCEPT ![h] = put] ELSE request
      /\ IF undo THEN pc' = "arm" /\ job' = again
                 ELSE IF job.next \in {"idle", "undo"} THEN Idle
                      ELSE pc' = job.next /\ UNCHANGED job
  BY <1>h DEF Resume, worldVars
<1>2. /\ put.status = "pending" /\ put.order = request[h].order /\ put.entry = job.prev.entry
      /\ again.next = "idle" /\ again.task = "protect" /\ NoJob.next = "idle"
      /\ job.prev \in Request
  BY <1>0 DEF Job, Request, NoJob
<1> HIDE DEF put, again, undo
<1>3. Fades /\ Stays /\ Sequel'
  BY <1>0, <1>1, FadesUnchanged, StaysFades, SequelFades
<1>4. todo # {} => job.next = "maintain"
  BY <1>0 DEF Sweep
<1>5. CASE undo
  <2>1. /\ request'[h] = put /\ pc' = "arm" /\ job' = again
        /\ \A g \in Holding : g # h => request'[g] = request[g]
    BY <1>0, <1>1, <1>5
  <2>2. \A g \in Holding : g # h => RequestOk(g)'
    BY <1>0, <1>1, <1>3, <2>1, RequestFades DEF Requests
  <2>3. job.next = "undo"
    BY <1>5 DEF undo
  <2>4. /\ NamesEntry(h, job.prev) /\ NamesStop(h)
        /\ request[h].order # 0 => job.prev.entry < request[h].order
    BY <1>0, <1>h, <2>3 DEF Undoing, Requests, RequestOk
  <2>5. RequestOk(h)'
    BY <1>1, <1>2, <2>1, <2>4 DEF RequestOk, NamesEntry, NamesStop, Closed
  <2>6. Undoing' /\ Sweep' /\ Placing' /\ Polling'
    BY <1>2, <1>4, <1>1, <2>1, <2>3, FreshUndoing DEF Sweep, Placing, Polling
  <2> QED
    BY <1>0, <1>1, <1>2, <1>3, <1>h, <2>1, <2>2, <2>5, <2>6, LocalStep
<1>6. CASE ~undo
  <2>1. /\ request' = request
        /\ \/ pc' = "idle" /\ job' = NoJob /\ job.next \in {"idle", "undo"}
           \/ pc' = job.next /\ job' = job /\ job.next \in {"leave", "maintain"}
    BY <1>0, <1>1, <1>6 DEF Idle, Job
  <2>2. Requests'
    BY <1>0, <1>1, <1>3, <2>1, RequestFades DEF Requests
  <2>3. Undoing'
    BY <1>0, <1>2, <1>3, <2>1, FreshUndoing, UndoingKept
  <2>4. Sweep' /\ Placing' /\ Polling'
    BY <1>1, <1>4, <2>1 DEF Sweep, Placing, Polling
  <2>5. ActiveCovered'
    BY <1>0, <1>1, <2>1, ActiveUntouched DEF Loose, Reconciling, Replacing
  <2> QED
    BY <1>3, <2>2, <2>3, <2>4, <2>5 DEF PInv
<1> QED
  BY <1>5, <1>6

LEMMA ProtectKeeps == IInv /\ PInv /\ Protect => PInv'
BY CancelKeeps, ArmKeeps, ReserveStopKeeps, ResumeKeeps DEF Protect

\* Learning that the broker knows an order changes nothing else of it.
LEMMA FadesLearned ==
  ASSUME CoreType, NEW o \in OrderId, NEW b \in BOOLEAN,
         orders' = [orders EXCEPT ![o].known = @ \/ b], UNCHANGED <<last, position>>
  PROVE  Fades
<1> DEFINE k == orders[o].known \/ b
<1>1. orders[o] \in Order /\ orders'[o] = [orders[o] EXCEPT !.known = k]
  BY DEF CoreType
<1> HIDE DEF k
<1>2. /\ orders'[o].action = orders[o].action /\ orders'[o].holding = orders[o].holding
      /\ orders'[o].kind = orders[o].kind /\ orders'[o].qty = orders[o].qty
      /\ orders'[o].price = orders[o].price /\ orders'[o].filled = orders[o].filled
      /\ orders'[o].status = orders[o].status
  BY <1>1 DEF Order
<1>3. \A p \in OrderId : p # o => orders'[p] = orders[p]
  BY DEF CoreType
<1> QED
  BY <1>2, <1>3 DEF Fades, IsLive

\* A reconciliation pass: while orders are read every active request is loose,
\* then each is until the pass comes to it.
LEMMA ReconcileKeeps == IInv /\ PInv /\ Reconcile => PInv'
<1> SUFFICES ASSUME IInv, PInv, Reconcile PROVE PInv'
  OBVIOUS
<1>0. /\ Core /\ CoreType /\ WorkType /\ Sequel /\ Requests /\ Undoing /\ Sweep
      /\ request \in [Holding -> Request] /\ job \in Job
  BY DEF IInv, Core, Work, WorkType, PInv
<1>1. CASE \/ BeginReconcile \/ BeginMaintain \/ EndMaintain
           \/ \E o \in OrderId : CancelExpiredEntry(o)
  <2>1. /\ UNCHANGED <<orders, last, position, request, expired>>
        /\ \/ pc = "idle" /\ pc' = "recon" /\ job' = job /\ todo' = todo
           \/ /\ pc = "recon" /\ pc' = "maintain" /\ job' = job
              /\ todo' = {h \in Holding : request[h].status \in {"pending", "active"}}
           \/ pc = "maintain" /\ pc' = "idle" /\ job' = NoJob /\ todo = {} /\ todo' = todo
           \/ pc = "recon" /\ pc' = "recon" /\ job' = job /\ todo' = todo
    BY <1>1 DEF BeginReconcile, BeginMaintain, EndMaintain, CancelExpiredEntry, Idle,
                ledgerVars, taskVars, worldVars
  <2>2. Fades /\ Stays /\ Sequel'
    BY <1>0, <2>1, FadesUnchanged, StaysFades, SequelFades
  <2>3. Requests'
    BY <1>0, <2>1, <2>2, RequestFades DEF Requests
  <2>4. Undoing'
    BY <1>0, <2>1, <2>2, FreshUndoing, UndoingKept DEF NoJob
  <2>5. Sweep' /\ Placing' /\ Polling'
    BY <1>0, <2>1 DEF Sweep, Placing, Polling
  <2>6. ActiveCovered'
    BY <2>1, ActiveUntouched DEF Loose, Reconciling, Replacing
  <2> QED
    BY <2>2, <2>3, <2>4, <2>5, <2>6 DEF PInv
<1>2. ASSUME NEW o \in OrderId, ReconcileOrder(o)
      PROVE  PInv'
  <2>1. /\ UNCHANGED <<last, wire, broker, acct, request, job, pc, todo, expired>>
        /\ pc = "recon"
    BY <1>2 DEF ReconcileOrder, brokerVars, worldVars
  <2>2. PICK v \in Reports(o) : ApplyResult(o, v)
    BY <1>2 DEF ReconcileOrder
  <2>3. Stays /\ Sequel'
    BY <1>0, <2>1, <2>2, StaysApplied, SequelApplied
  <2>4. Requests'
    BY <1>0, <2>1, <2>2, RequestApplied DEF Requests
  <2>5. Undoing'
    BY <1>0, <2>1, <2>3, UndoingKept
  <2>6. Sweep' /\ Placing' /\ Polling'
    BY <1>0, <2>1 DEF Sweep, Placing, Polling
  <2>7. ActiveCovered'
    BY <2>1 DEF ActiveCovered, Loose, Reconciling
  <2> QED
    BY <2>3, <2>4, <2>5, <2>6, <2>7 DEF PInv
<1>3. ASSUME NEW o \in OrderId, NEW b \in BOOLEAN, ReconcileFails(o, b)
      PROVE  PInv'
  <2> DEFINE isStop == orders[o].action = "UPDATE_STOP"
  <2>1. /\ UNCHANGED <<last, position, job, pc, todo, expired>> /\ pc = "recon"
        /\ MarkUnknown(o, b) \/ orders' = [orders EXCEPT ![o].known = @ \/ b]
    BY <1>3 DEF ReconcileFails, worldVars
  <2>2. \A g \in Holding :
          request'[g] = IF isStop /\ request[g].order = o
                          THEN [request[g] EXCEPT !.status = "pending"] ELSE request[g]
    BY <1>3 DEF ReconcileFails
  <2>3. Fades
    BY <1>0, <2>1, FadesUncertain, FadesLearned
  <2>4. Stays /\ Sequel'
    BY <1>0, <2>3, StaysFades, SequelFades
  <2>5. \A g \in Holding :
          /\ request'[g].entry = request[g].entry /\ request'[g].order = request[g].order
          /\ request'[g] = request[g] \/ request'[g].status = "pending"
    BY <1>0, <2>2 DEF Request
  <2>6. Requests'
    BY <1>0, <2>1, <2>3, <2>4, <2>5, RequestFades, OpenRequestOk DEF Requests
  <2>7. Undoing'
    <3>1. CASE job.next = "undo"
      BY <1>0, <2>1, <2>4, <2>5, <3>1, UndoingKept DEF Undoing
    <3>2. CASE job.next # "undo"
      BY <2>1, <3>2, FreshUndoing
    <3> QED
      BY <3>1, <3>2
  <2>8. Sweep' /\ Placing' /\ Polling'
    BY <1>0, <2>1 DEF Sweep, Placing, Polling
  <2>9. ActiveCovered'
    BY <2>1 DEF ActiveCovered, Loose, Reconciling
  <2> QED
    BY <2>4, <2>6, <2>7, <2>8, <2>9 DEF PInv
<1>4. ASSUME NEW h \in Holding, Maintain(h)
      PROVE  PInv'
  <2> DEFINE o == request[h].order
             e == request[h].entry
             armed == [NoJob EXCEPT !.task = "protect", !.holding = h, !.next = "maintain"]
  <2>1. /\ UNCHANGED <<orders, last, position, expired>> /\ pc = "maintain" /\ h \in todo
        /\ todo' = todo \ {h}
    BY <1>4 DEF Maintain, worldVars
  <2>2. /\ armed.next = "maintain" /\ armed.task = "protect" /\ armed.holding = h
    BY DEF NoJob
  <2> HIDE DEF armed
  <2>3. \/ /\ o # 0 /\ orders[o].status = "filled" /\ pc' = pc /\ job' = job
           /\ request' = [request EXCEPT ![h].status = "complete"]
        \/ pc' = "arm" /\ job' = armed /\ request' = request
    BY <1>4 DEF Maintain, armed
  <2>4. Fades /\ Stays /\ Sequel'
    BY <1>0, <2>1, FadesUnchanged, StaysFades, SequelFades
  <2>5. CASE /\ o # 0 /\ orders[o].status = "filled" /\ pc' = pc /\ job' = job
             /\ request' = [request EXCEPT ![h].status = "complete"]
    <3>1. /\ request'[h].status = "complete" /\ request'[h].entry = e
          /\ request'[h].order = o
          /\ \A g \in Holding : g # h => request'[g] = request[g]
      BY <1>0, <2>5 DEF Request
    <3>2. /\ o \in OrderId /\ o <= last /\ e \in OrderId \union {0} /\ e < o
          /\ orders[o].action = "UPDATE_STOP" /\ orders[o].holding = h
          /\ NamesEntry(h, request[h]) /\ NamesStop(h)
      BY <1>0, <2>5 DEF Requests, RequestOk, NamesStop, Request
    <3>3. position[h] = 0 \/ EntryId(h) > o
      BY <1>0, <2>5, <3>2 DEF Sequel, FilledStops
    <3>4. e # 0 => ~IsLive(orders[e])
      <4>1. ASSUME e # 0, IsLive(orders[e])
            PROVE  FALSE
        <5>1. e \in OrderId /\ orders[e].holding = h
          BY <3>2, <4>1 DEF NamesEntry
        <5>2. o <= e
          BY <1>0, <3>2, <4>1, <5>1 DEF Sequel, Newest
        <5> QED
          BY <3>2, <5>1, <5>2, ExecutionAssumption DEF OrderId
      <4> QED
        BY <4>1
    <3>5. e = EntryId(h) => position[h] = 0
      BY <3>2, <3>3, ExecutionAssumption DEF OrderId
    <3>6. EntryId(h)' = EntryId(h)
      BY <2>4, EntryFades
    <3>7. Closed(h)'
      BY <2>1, <3>1, <3>4, <3>5, <3>6 DEF Closed
    <3>8. NamesEntry(h, request[h])' /\ NamesStop(h)'
      BY <1>0, <2>4, <3>1, <3>2, NamesKept
    <3>9. Requests'
      BY <1>0, <2>1, <2>4, <3>1, <3>7, <3>8, RequestFades DEF Requests, RequestOk
    <3>10. Undoing'
      <4>1. CASE job.next = "undo"
        <5>1. job.holding \in Holding /\ request'[job.holding].order = request[job.holding].order
          BY <1>0, <3>1, <4>1 DEF Undoing
        <5> QED
          BY <1>0, <2>4, <2>5, <5>1, UndoingKept
      <4>2. CASE job.next # "undo"
        BY <2>5, <4>2, FreshUndoing
      <4> QED
        BY <4>1, <4>2
    <3>11. Sweep' /\ Placing' /\ Polling'
      BY <2>1, <2>5 DEF Sweep, Placing, Polling
    <3>12. ASSUME NEW g \in Holding, request'[g].status = "active", ~Loose(g)'
           PROVE  Covered(g)'
      <4>1. g # h /\ request'[g] = request[g]
        BY <3>1, <3>12
      <4>2. ~Loose(g)
        BY <2>1, <2>5, <3>12, <4>1 DEF Loose, Reconciling, Replacing
      <4>3. Covered(g)
        BY <3>12, <4>1, <4>2 DEF PInv, ActiveCovered
      <4> QED
        BY <2>1, <4>1, <4>3, CoveredKept
    <3>13. ActiveCovered'
      BY <3>12 DEF ActiveCovered
    <3> QED
      BY <2>4, <3>9, <3>10, <3>11, <3>13 DEF PInv
  <2>6. CASE pc' = "arm" /\ job' = armed /\ request' = request
    <3>1. Requests'
      BY <1>0, <2>1, <2>4, <2>6, RequestFades DEF Requests
    <3>2. Undoing' /\ Sweep' /\ Placing' /\ Polling'
      BY <2>2, <2>6, FreshUndoing DEF Sweep, Placing, Polling
    <3>3. \A g \in Holding : Loose(g) => Loose(g)'
      BY <2>1, <2>2, <2>6 DEF Loose, Reconciling, Replacing
    <3>4. ActiveCovered'
      BY <2>1, <2>6, <3>3, ActiveUntouched
    <3> QED
      BY <2>4, <3>1, <3>2, <3>4 DEF PInv
  <2> QED
    BY <2>3, <2>5, <2>6
<1> QED
  BY <1>1, <1>2, <1>3, <1>4 DEF Reconcile

\* After a restart everything is read again before a request counts as active.
LEMMA CrashKeeps == IInv /\ PInv /\ Crash => PInv'
<1> SUFFICES ASSUME IInv, PInv, Crash PROVE PInv'
  OBVIOUS
<1>0. /\ Core /\ CoreType /\ Sequel /\ Requests /\ request \in [Holding -> Request]
  BY DEF IInv, Core, Work, WorkType, PInv
<1>1. /\ UNCHANGED <<last, position, request, expired>>
      /\ pc' = "recon" /\ job' = NoJob /\ todo' = {}
      /\ \A o \in OrderId : orders'[o] = IF orders[o].status = "submitting"
                                          THEN [orders[o] EXCEPT !.status = "unknown"]
                                          ELSE orders[o]
  BY DEF Crash, worldVars
<1>2. Fades
  <2>1. ASSUME NEW o \in OrderId
        PROVE  /\ orders'[o].action = orders[o].action
               /\ orders'[o].holding = orders[o].holding
               /\ orders'[o].kind = orders[o].kind
               /\ orders'[o].qty = orders[o].qty
               /\ orders'[o].price = orders[o].price
               /\ orders'[o].filled = orders[o].filled
               /\ orders'[o].status = "filled" => orders[o].status = "filled"
               /\ IsLive(orders'[o]) => IsLive(orders[o])
    <3>1. CASE orders[o].status = "submitting"
      <4>1. orders[o] \in Order /\ orders'[o] = [orders[o] EXCEPT !.status = "unknown"]
        BY <1>0, <1>1, <3>1 DEF CoreType
      <4>2. /\ orders'[o].action = orders[o].action
            /\ orders'[o].holding = orders[o].holding
            /\ orders'[o].kind = orders[o].kind
            /\ orders'[o].qty = orders[o].qty
            /\ orders'[o].price = orders[o].price
            /\ orders'[o].filled = orders[o].filled
            /\ orders'[o].status = "unknown"
        BY <4>1 DEF Order
      <4> QED
        BY <3>1, <4>2 DEF IsLive, Terminal
    <3>2. CASE orders[o].status # "submitting"
      BY <1>1, <3>2
    <3> QED
      BY <3>1, <3>2
  <2> QED
    BY <1>1, <2>1 DEF Fades
<1>3. Sequel'
  BY <1>0, <1>2, SequelFades
<1>4. Requests'
  BY <1>0, <1>1, <1>2, RequestFades DEF Requests
<1>5. Undoing' /\ Sweep' /\ Placing' /\ Polling'
  BY <1>1, FreshUndoing DEF NoJob, Sweep, Placing, Polling
<1>6. ActiveCovered'
  BY <1>1 DEF ActiveCovered, Loose, Reconciling
<1> QED
  BY <1>3, <1>4, <1>5, <1>6 DEF PInv

\* The broker, the operator and the calendar write no ledger.
LEMMA UntouchedKeeps ==
  ASSUME IInv, PInv, UNCHANGED <<ledgerVars, pc, job, todo>>, expired \subseteq expired'
  PROVE  PInv'
<1>0. /\ Core /\ WorkType /\ Sequel /\ Requests /\ Undoing /\ Sweep /\ Placing /\ Polling
      /\ request \in [Holding -> Request]
  BY DEF IInv, Work, WorkType, PInv
<1>1. UNCHANGED <<orders, last, position, request, pc, job, todo>>
  BY DEF ledgerVars
<1>2. Fades /\ Stays /\ Sequel'
  BY <1>0, <1>1, FadesUnchanged, StaysFades, SequelFades
<1>3. Requests'
  BY <1>0, <1>1, <1>2, RequestFades DEF Requests
<1>4. Undoing' /\ Sweep' /\ Placing' /\ Polling'
  BY <1>0, <1>1, <1>2, UndoingKept
     DEF Sweep, Placing, Polling, ActiveStops, LiveOrders
<1>5. ActiveCovered'
  BY <1>1, ActiveUntouched DEF Loose, Reconciling, Replacing
<1> QED
  BY <1>2, <1>3, <1>4, <1>5 DEF PInv

LEMMA WorldKeeps == IInv /\ PInv /\ World => PInv'
<1> SUFFICES ASSUME IInv, PInv, World PROVE PInv'
  OBVIOUS
<1>1. UNCHANGED <<ledgerVars, taskVars>> /\ expired \subseteq expired'
  BY DEF World, Arrive, Fill, EndOrder, ToggleKill, Expire, worldVars
<1> QED
  BY <1>1, UntouchedKeeps DEF taskVars

LEMMA StepPInv == IInv /\ PInv /\ [Next]_vars => PInv'
<1> SUFFICES ASSUME IInv, PInv, [Next]_vars PROVE PInv'
  OBVIOUS
<1>1. CASE UNCHANGED vars
  BY <1>1, UntouchedKeeps DEF vars, taskVars, worldVars
<1> QED
  BY <1>1, DecideKeeps, SubmitKeeps, ProtectKeeps, ReconcileKeeps, CrashKeeps, WorldKeeps
     DEF Next

LEMMA Protected == Spec => []PInv
<1>1. IInv /\ PInv /\ [Next]_vars => PInv'
  BY StepPInv
<1> QED
  BY <1>1, InitPInv, Invariance, PTL DEF Spec

-----------------------------------------------------------------------------
(* The properties. *)

\* CompleteMeansFlat: a protection request is closed only when the entry it
\* belongs to is sold or its contract has expired, whatever fills late, is lost
\* or is interrupted by a crash.
THEOREM ClosedMeansFlat == Spec => []CompleteMeansFlat
<1>1. PInv => CompleteMeansFlat
  BY DEF PInv, Requests, RequestOk, Closed, CompleteMeansFlat
<1> QED
  BY <1>1, Protected, PTL

\* ActiveMeansCovered: whenever the lock is free, a request called active names
\* an unfinished native stop for exactly the contracts owned, at the asked price.
THEOREM ActiveIsCovered == Spec => []ActiveMeansCovered
<1>1. PInv => ActiveMeansCovered
  <2> SUFFICES ASSUME PInv, pc = "idle", NEW h \in Holding, request[h].status = "active"
               PROVE  Covered(h)
    BY DEF ActiveMeansCovered, Covered
  <2>1. ~Loose(h)
    BY DEF PInv, Sweep, Loose, Reconciling, Replacing
  <2> QED
    BY <2>1 DEF PInv, ActiveCovered
<1> QED
  BY <1>1, Protected, PTL
=============================================================================
