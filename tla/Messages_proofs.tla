--------------------------- MODULE Messages_proofs ---------------------------
(***************************************************************************)
(* Proofs about the orders that follow from messages (module Signals):     *)
(* the ledger obeys messages in the order they were posted, no exit is     *)
(* made for contracts bought after its message, and every variable keeps   *)
(* its type, for any number of messages, sessions, contracts and stale     *)
(* messages, and whatever evaluators may find in a message.                *)
(*                                                                         *)
(* The invariant has four parts.  Types gives each variable its type.      *)
(* Known says that what the relay has heard of was posted.  Turn says who  *)
(* holds Engine.lock at which point of its work, and what it has reserved. *)
(* Books relates the orders to each other, to what is owned and to the     *)
(* messages they obey.                                                     *)
(***************************************************************************)
EXTENDS Signals_proofs, WellFoundedInduction

\* Every set of numbers that is not empty has a smallest one.
LEMMA SmallestNumber ==
  ASSUME NEW T, T \subseteq Nat, T # {}
  PROVE  \E x \in T : \A y \in T : x <= y
<1>1. PICK x \in T : \A y \in T : ~(<<y, x>> \in OpToRel(<, Nat))
  BY NatLessThanWellFounded, WFMin
<1>2. \A y \in T : ~(y < x)
  BY <1>1 DEF OpToRel
<1> QED
  BY <1>2

\* Max picks the largest of some numbers up to n.
LEMMA LargestNumber ==
  ASSUME NEW n \in Nat, NEW S, S \subseteq 0 .. n, S # {}
  PROVE  Max(S) \in S /\ \A y \in S : y <= Max(S)
<1> DEFINE T == {n - y : y \in S}
<1>1. T \subseteq Nat /\ T # {}
  OBVIOUS
<1>2. PICK t \in T : \A u \in T : t <= u
  BY <1>1, SmallestNumber
<1>3. PICK x \in S : t = n - x
  OBVIOUS
<1>4. \A y \in S : n - x <= n - y
  BY <1>2, <1>3
<1>5. \E z \in S : \A y \in S : z >= y
  BY <1>4
<1> QED
  BY <1>5 DEF Max

-----------------------------------------------------------------------------
(* The observations of a page of history. *)

\* A set of numbers that has 0, and every number after one it has, has all up to n.
LEMMA Upward ==
  ASSUME NEW n \in Nat, NEW G, 0 \in G, \A k \in 1 .. n : k - 1 \in G => k \in G
  PROVE  \A k \in 0 .. n : k \in G
<1> DEFINE Off == (0 .. n) \ G
<1> SUFFICES ASSUME Off # {} PROVE FALSE
  OBVIOUS
<1>1. Off \subseteq Nat
  OBVIOUS
<1> HIDE DEF Off
<1>2. PICK x \in Off : \A y \in Off : x <= y
  BY <1>1, SmallestNumber
<1>3. x \in 0 .. n /\ x \notin G
  BY DEF Off
<1>4. x \in 1 .. n /\ x - 1 \in 0 .. n
  BY <1>3
<1>5. x - 1 \notin Off
  BY <1>1, <1>2, <1>3
<1>6. x - 1 \in G
  BY <1>4, <1>5 DEF Off
<1> QED
  BY <1>3, <1>4, <1>6

\* What is posted on the page is an observation of the kind the page allows.
LEMMA HistoryIsSequence ==
  ASSUME MaxMessage \in Nat, NEW S,
         \A m \in Message : page.rev[m] # 0
           => [id |-> m, rev |-> page.rev[m], kind |-> "baseline"] \in S
  PROVE  History \in Seq(S)
<1> DEFINE copy(m) == [id |-> m, rev |-> page.rev[m], kind |-> "baseline"]
           step(f, m) == IF m = 0 THEN <<>>
                         ELSE IF page.rev[m] = 0 THEN f[m - 1]
                         ELSE Append(f[m - 1], copy(m))
           Good(f, n) == /\ f \in [0 .. n -> Seq(S)]
                         /\ \A m \in 0 .. n : f[m] = step(f, m)
           Built == {n \in 0 .. MaxMessage : \E f : Good(f, n)}
<1>1. 0 \in Built
  <2>1. Good([m \in 0 .. 0 |-> <<>>], 0)
    OBVIOUS
  <2> HIDE DEF Good
  <2> QED
    BY <2>1
<1>2. ASSUME NEW n \in 1 .. MaxMessage, n - 1 \in Built
      PROVE  n \in Built
  <2>1. PICK g : Good(g, n - 1)
    <3> HIDE DEF Good
    <3> QED
      BY <1>2
  <2> DEFINE newest == IF page.rev[n] = 0 THEN g[n - 1] ELSE Append(g[n - 1], copy(n))
             f == [m \in 0 .. n |-> IF m = n THEN newest ELSE g[m]]
  <2>2. \A m \in 0 .. n - 1 : g[m] \in Seq(S) /\ g[m] = step(g, m)
    BY <2>1
  <2>3. n - 1 \in 0 .. n - 1 /\ n \in Message /\ n \in Nat
    BY DEF Message
  <2>4. page.rev[n] # 0 => copy(n) \in S
    BY <2>3
  <2>5. newest \in Seq(S)
    <3> HIDE DEF copy
    <3> QED
      BY <2>2, <2>3, <2>4
  <2> HIDE DEF newest
  <2>6. f \in [0 .. n -> Seq(S)]
    <3> HIDE DEF step
    <3>1. \A m \in 0 .. n : m # n => m \in 0 .. n - 1
      BY <2>3
    <3>2. \A m \in 0 .. n : m # n => g[m] \in Seq(S)
      BY <2>2, <3>1
    <3> QED
      BY <2>5, <3>2
  <2>7. f[n] = newest /\ \A m \in 0 .. n - 1 : f[m] = g[m]
    BY <2>3
  <2> HIDE DEF f
  <2>8. \A m \in 0 .. n - 1 : f[m] = step(f, m)
    <3> SUFFICES ASSUME NEW m \in 0 .. n - 1
                 PROVE  f[m] = step(f, m)
      OBVIOUS
    <3>1. f[m] = g[m] /\ g[m] = step(g, m)
      BY <2>2, <2>7
    <3>2. m # 0 => f[m - 1] = g[m - 1]
      BY <2>3, <2>7
    <3> HIDE DEF copy
    <3> QED
      BY <3>1, <3>2
  <2>9. f[n] = step(f, n)
    <3>1. f[n - 1] = g[n - 1] /\ n # 0
      BY <2>3, <2>7
    <3> HIDE DEF copy
    <3> QED
      BY <2>7, <3>1 DEF newest
  <2>10. Good(f, n)
    <3> HIDE DEF step
    <3> QED
      BY <2>3, <2>6, <2>8, <2>9
  <2> HIDE DEF Good
  <2> QED
    BY <2>10
<1>3. MaxMessage \in Built
  <2> HIDE DEF Built
  <2> QED
    BY <1>1, <1>2, Upward
<1>4. PICK f : Good(f, MaxMessage)
  <2> HIDE DEF Good
  <2> QED
    BY <1>3
<1>5. f = [m \in 0 .. MaxMessage |-> step(f, m)]
  <2> HIDE DEF step
  <2> QED
    BY <1>4
<1> DEFINE up == CHOOSE u : u = [m \in 0 .. MaxMessage |-> step(u, m)]
<1>6. up = [m \in 0 .. MaxMessage |-> step(up, m)]
  <2> HIDE DEF step
  <2> QED
    BY <1>5
<1>7. History = up[MaxMessage]
  BY DEF History
<1> HIDE DEF up
<1>8. \A m \in 0 .. MaxMessage : up[m] = step(up, m)
  <2> HIDE DEF step
  <2> QED
    BY <1>6
<1> DEFINE Typed == {n \in 0 .. MaxMessage : up[n] \in Seq(S)}
<1>9. 0 \in Typed
  <2>1. 0 \in 0 .. MaxMessage
    OBVIOUS
  <2>2. step(up, 0) = <<>> /\ <<>> \in Seq(S)
    OBVIOUS
  <2> HIDE DEF step
  <2>3. up[0] = step(up, 0)
    BY <1>8, <2>1
  <2> QED
    BY <2>1, <2>2, <2>3
<1>10. ASSUME NEW n \in 1 .. MaxMessage, n - 1 \in Typed
       PROVE  n \in Typed
  <2>1. up[n - 1] \in Seq(S) /\ n \in Message /\ n \in 0 .. MaxMessage /\ n # 0
    BY <1>10 DEF Message
  <2>2. up[n] = step(up, n)
    BY <1>8, <2>1
  <2>3. page.rev[n] # 0 => copy(n) \in S
    BY <2>1
  <2>4. \/ up[n] = up[n - 1]
        \/ copy(n) \in S /\ up[n] = Append(up[n - 1], copy(n))
    <3> HIDE DEF copy
    <3> QED
      BY <2>1, <2>2, <2>3
  <2> HIDE DEF copy
  <2> DEFINE u == up[n - 1]
             c == copy(n)
  <2>5. u \in Seq(S) /\ (c \in S => Append(u, c) \in Seq(S))
    <3>1. u \in Seq(S)
      BY <2>1
    <3> HIDE DEF u, c
    <3> QED
      BY <3>1
  <2> QED
    BY <2>1, <2>4, <2>5
<1>11. MaxMessage \in Typed
  <2> HIDE DEF Typed
  <2> QED
    BY <1>9, <1>10, Upward
<1> QED
  BY <1>7, <1>11
-----------------------------------------------------------------------------
(* What the relay has heard of was posted. *)

KnownCopy == {c \in Copy : source[c.id] # "none"}

Known ==
  /\ inbox \in Seq(KnownCopy)
  /\ row \in [Message -> Revision \union {0}]
  /\ \A m \in Message : row[m] # 0 \/ page.rev[m] # 0 => source[m] # "none"

\* Posted is the newest message, and covers every one that is known.
LEMMA PostedCovers ==
  ASSUME NEW m \in Message, source[m] # "none"
  PROVE  Posted \in Message /\ m <= Posted
<1> DEFINE S == {n \in Message : source[n] # "none"} \union {0}
<1>1. MaxMessage \in Nat
  BY GatewayAssumption
<1>2. S \subseteq 0 .. MaxMessage /\ m \in S
  BY <1>1 DEF Message
<1> HIDE DEF S
<1>3. Max(S) \in S /\ \A y \in S : y <= Max(S)
  BY <1>1, <1>2, LargestNumber
<1>4. Posted = Max(S)
  BY DEF S, Posted
<1>5. Posted \in 0 .. MaxMessage /\ m <= Posted
  BY <1>2, <1>3, <1>4
<1> QED
  BY <1>1, <1>5 DEF Message

LEMMA PostedIsNumber == Posted \in 0 .. MaxMessage
<1> DEFINE S == {n \in Message : source[n] # "none"} \union {0}
<1>1. MaxMessage \in Nat
  BY GatewayAssumption
<1>2. S \subseteq 0 .. MaxMessage /\ S # {}
  BY <1>1 DEF Message
<1> HIDE DEF S
<1>3. Max(S) \in S
  BY <1>1, <1>2, LargestNumber
<1> QED
  BY <1>2, <1>3 DEF S, Posted

\* What was posted stays posted, and so does every observation of it.
LEMMA KnownCopiesStay ==
  ASSUME \A m \in Message : source[m] # "none" => source'[m] # "none"
  PROVE  \A I \in Seq(KnownCopy) : I \in Seq(KnownCopy')
<1>1. KnownCopy \subseteq KnownCopy'
  BY DEF KnownCopy, Copy
<1> HIDE DEF KnownCopy
<1> QED
  BY <1>1

LEMMA NothingOnNoPage == \A m \in Message : NoPage.rev[m] = 0
BY DEF NoPage

\* An observation enters the queue.
LEMMA ObservationKnown ==
  ASSUME Known, NEW copy \in KnownCopy', NEW valid, Observe(copy, valid),
         \A m \in Message : source[m] # "none" => source'[m] # "none",
         UNCHANGED <<row, page>>
  PROVE  Known'
<1>1. inbox' = Append(inbox, copy)
  BY DEF Observe
<1>2. inbox \in Seq(KnownCopy')
  BY KnownCopiesStay DEF Known
<1> DEFINE K == KnownCopy'
<1> HIDE DEF K
<1>3. Append(inbox, copy) \in Seq(K)
  BY <1>2 DEF K
<1>4. inbox' \in Seq(KnownCopy')
  BY <1>1, <1>3 DEF K
<1> HIDE DEF KnownCopy
<1> QED
  BY <1>4 DEF Known

\* Nothing else the reader does needs more than this.
LEMMA SameInboxKnown ==
  ASSUME Known, UNCHANGED <<inbox, row>>,
         \A m \in Message : source[m] # "none" => source'[m] # "none",
         \A m \in Message : page'.rev[m] # 0 => page.rev[m] # 0 \/ source'[m] # "none"
  PROVE  Known'
<1>1. inbox' \in Seq(KnownCopy')
  BY KnownCopiesStay DEF Known
<1> QED
  BY <1>1 DEF Known

LEMMA PostKeepsKnown ==
  ASSUME ReaderType, Known, Post, UNCHANGED row
  PROVE  Known'
<1> DEFINE new == Posted + 1
           copy == [id |-> new, rev |-> 1, kind |-> IF ready THEN "live" ELSE "baseline"]
<1>1. new \in Message
  BY PostedIsNumber, GatewayAssumption DEF Post, Message
<1>2. source' = [source EXCEPT ![new] = "original"] /\ UNCHANGED page
  BY DEF Post
<1>3. source'[new] = "original" /\ \A m \in Message : source[m] # "none" => source'[m] # "none"
  BY <1>1, <1>2 DEF ReaderType
<1>4. CASE UNCHANGED inbox
  BY <1>2, <1>3, <1>4, SameInboxKnown
<1>5. CASE Observe(copy, TRUE)
  <2>1. copy \in Copy
    BY <1>1 DEF Copy, Revision
  <2>2. copy.id = new
    OBVIOUS
  <2>3. copy \in KnownCopy'
    BY <1>3, <2>1, <2>2 DEF KnownCopy, Copy
  <2> HIDE DEF copy
  <2> QED
    BY <1>2, <1>3, <1>5, <2>3, ObservationKnown
<1> QED
  BY <1>4, <1>5 DEF Post

LEMMA EditKeepsKnown ==
  ASSUME ReaderType, Known, NEW m \in Message, Edit(m), UNCHANGED row
  PROVE  Known'
<1> DEFINE copy == [id |-> m, rev |-> 2, kind |-> "baseline"]
<1>1. source' = [source EXCEPT ![m] = "edited"] /\ UNCHANGED page
  BY DEF Edit
<1>2. source'[m] = "edited" /\ \A n \in Message : source[n] # "none" => source'[n] # "none"
  BY <1>1 DEF ReaderType
<1>3. CASE UNCHANGED inbox
  BY <1>1, <1>2, <1>3, SameInboxKnown
<1>4. CASE Observe(copy, FALSE)
  <2>1. copy \in Copy
    BY DEF Copy, Revision
  <2>2. copy.id = m
    OBVIOUS
  <2>3. copy \in KnownCopy'
    BY <1>2, <2>1, <2>2 DEF KnownCopy, Copy
  <2> HIDE DEF copy
  <2> QED
    BY <1>1, <1>2, <1>4, <2>3, ObservationKnown
<1> QED
  BY <1>3, <1>4 DEF Edit

LEMMA LoadKeepsKnown ==
  ASSUME ReaderType, Known, LoadHistory, UNCHANGED row
  PROVE  Known'
<1>1. UNCHANGED source /\ page' = [page EXCEPT !.state = "loaded"] /\ inbox' = inbox \o History
  BY DEF LoadHistory
<1>2. \A m \in Message : page.rev[m] # 0
        => [id |-> m, rev |-> page.rev[m], kind |-> "baseline"] \in KnownCopy
  <2> SUFFICES ASSUME NEW m \in Message, page.rev[m] # 0
               PROVE  [id |-> m, rev |-> page.rev[m], kind |-> "baseline"] \in KnownCopy
    OBVIOUS
  <2>1. page.rev[m] \in Revision /\ source[m] # "none"
    BY DEF ReaderType, Page, Known
  <2> QED
    BY <2>1 DEF KnownCopy, Copy
<1> DEFINE K == KnownCopy
<1>3. History \in Seq(K)
  <2> HIDE DEF K
  <2> QED
    BY <1>2, HistoryIsSequence, GatewayAssumption DEF K
<1>4. inbox \in Seq(K)
  BY DEF Known
<1> HIDE DEF K
<1>5. inbox' \in Seq(K)
  BY <1>1, <1>3, <1>4
<1>6. KnownCopy' = K
  BY <1>1 DEF KnownCopy, K
<1>7. page'.rev = page.rev
  BY <1>1 DEF ReaderType, Page
<1> QED
  BY <1>1, <1>5, <1>6, <1>7 DEF Known

LEMMA GatewayKeepsKnown ==
  ASSUME ReaderType, Known, GatewayNext, UNCHANGED row
  PROVE  Known'
<1>1. ASSUME NEW m \in Message, Delete(m)
      PROVE  Known'
  BY <1>1, SameInboxKnown DEF Delete, ReaderType
<1>2. CASE Disconnect \/ Connect
  <2>1. page' = NoPage /\ UNCHANGED <<source, inbox>>
    BY <1>2 DEF Disconnect, Connect, EndSession
  <2> QED
    BY <2>1, NothingOnNoPage, SameInboxKnown
<1>3. CASE FetchHistory
  <2>1. \A m \in Message : page'.rev[m] # 0 => source[m] # "none"
    BY <1>3 DEF FetchHistory
  <2> QED
    BY <1>3, <2>1, SameInboxKnown DEF FetchHistory
<1>4. CASE BecomeReady
  BY <1>4, SameInboxKnown DEF BecomeReady
<1> QED
  BY <1>1, <1>2, <1>3, <1>4, PostKeepsKnown, EditKeepsKnown, LoadKeepsKnown DEF GatewayNext

\* The relay stores a revision of what it is delivered.
LEMMA DeliverKeepsKnown ==
  ASSUME Known, Deliver
  PROVE  /\ Known'
         /\ Head(inbox) \in Copy
         /\ \A m \in Message : row[m] # 0 => row'[m] # 0
<1> DEFINE c == Head(inbox)
<1>1. UNCHANGED <<source, page>> /\ inbox' = Tail(inbox) /\ inbox # <<>>
  BY DEF Deliver
<1>2. c \in KnownCopy /\ inbox' \in Seq(KnownCopy)
  <2> DEFINE K == KnownCopy
  <2>1. inbox \in Seq(K)
    BY DEF Known
  <2> HIDE DEF K
  <2>2. Head(inbox) \in K /\ Tail(inbox) \in Seq(K)
    BY <1>1, <2>1
  <2> QED
    BY <1>1, <2>2 DEF K
<1>3. c \in Copy /\ c.id \in Message /\ c.rev \in Revision /\ c.rev # 0 /\ source[c.id] # "none"
  BY <1>2 DEF KnownCopy, Copy, Revision
<1>4. UNCHANGED row \/ row' = [row EXCEPT ![c.id] = c.rev]
  BY DEF Deliver
<1> HIDE DEF c
<1>5. /\ row' \in [Message -> Revision \union {0}]
      /\ \A m \in Message : row'[m] = row[m] \/ (m = c.id /\ row'[m] # 0)
  BY <1>3, <1>4 DEF Known
<1>6. KnownCopy' = KnownCopy
  BY <1>1 DEF KnownCopy
<1> QED
  BY <1>1, <1>2, <1>3, <1>5, <1>6 DEF Known, c

\* A row is never removed.
RowsStay == \A m \in Message : row[m] # 0 => row'[m] # 0

LEMMA StepKeepsKnown ==
  ASSUME ReaderType, Known, [Next]_vars
  PROVE  Known' /\ RowsStay
<1>1. CASE GatewayNext /\ UNCHANGED engineVars
  BY <1>1, GatewayKeepsKnown DEF engineVars, storeVars, RowsStay
<1>2. CASE Deliver
  BY <1>2, DeliverKeepsKnown DEF RowsStay
<1>3. CASE UNCHANGED <<source, page, inbox, row>>
  BY <1>3, SameInboxKnown DEF RowsStay
<1>4. CASE Restart
  <2>1. page' = NoPage /\ inbox' = <<>> /\ UNCHANGED <<source, row>>
    BY <1>4 DEF Restart, GatewayRestart
  <2>2. inbox' \in Seq(KnownCopy')
    BY <2>1
  <2> QED
    BY <2>1, <2>2, NothingOnNoPage DEF Known, RowsStay
<1>5. ASSUME Handle \/ Reconcile \/ Age
      PROVE  UNCHANGED row
  BY <1>5 DEF Handle, TakeContext, TakeHeld, TakeEvaluation, Interpreted, InterpretFails, Finish,
     Execute, Admit, AdmitNothing, Plan, PlanHolds, Send, SendHolds, Answer, Reconcile, Age, storeVars
<1>6. ASSUME RecoveryNext
      PROVE  UNCHANGED row
  BY <1>6 DEF RecoveryNext, Poll, Assess, Interpret, Review, FactsMissing, Viable, Changed, Defer,
     Close, ExecuteExit, AdmitExit, ExitNotReady, ExitChanged, ExitHeld, PlanExit, SendExit,
     SendExitHolds, AnswerExit, RetryDue, storeVars
<1> QED
  BY <1>1, <1>2, <1>3, <1>4, <1>5, <1>6
  DEF Next, EvaluationNext, RecoveryNext, Crash, Stop, vars, gatewayVars, engineVars, storeVars

LEMMA KnownInit == Init => Known
<1> SUFFICES ASSUME GatewayInit, EvaluationInit
             PROVE  Known
  BY DEF Init
<1>1. inbox \in Seq(KnownCopy)
  BY DEF GatewayInit
<1> QED
  BY <1>1, NothingOnNoPage DEF GatewayInit, EvaluationInit, Known
-----------------------------------------------------------------------------
(* The ledger, by itself. *)

Status == Unsettled \union {"rejected", "filled"}

BookTypes == orders \in Seq(Order) /\ position \in Nat

\* At most the newest order is unsettled, nothing of it has been filled, and an exit is
\* of no more than is owned.
OneOpenOrder ==
  \A i \in OrderNumber : orders[i].status \in Unsettled =>
    /\ i = Len(orders)
    /\ orders[i].filled = 0
    /\ orders[i].action = "EXIT" => orders[i].qty <= position

Bought(e) ==
  /\ orders[e].action = "OPEN" /\ orders[e].filled > 0
  /\ \A j \in OrderNumber : j > e => orders[j].action = "EXIT"

\* What is owned was bought by the newest entry.
OwnedWasBought == position > 0 => \E e \in OrderNumber : Bought(e)

\* An order obeys a message that is stored, and is made after that was posted.
OrdersHaveMessages ==
  \A i \in OrderNumber : row[orders[i].id] # 0 /\ orders[i].id <= orders[i].after

Books ==
  /\ BookTypes
  /\ OneOpenOrder
  /\ OwnedWasBought
  /\ OrdersHaveMessages
  /\ OrdersFollowMessages
  /\ ExitsFollowTheirEntry

LEMMA OrderFields ==
  ASSUME BookTypes
  PROVE  /\ Len(orders) \in Nat
         /\ DOMAIN orders = OrderNumber
         /\ \A i \in OrderNumber :
              /\ orders[i] \in Order
              /\ orders[i].id \in Message
              /\ orders[i].action \in {"OPEN", "EXIT"}
              /\ orders[i].qty \in 1 .. MaxQty
              /\ orders[i].filled \in 0 .. MaxQty
              /\ orders[i].after \in Message
              /\ orders[i].status \in Status
<1>1. orders \in Seq(Order)
  BY DEF BookTypes
<1>2. \A i \in OrderNumber : orders[i] \in Order
  BY <1>1 DEF OrderNumber
<1>3. Len(orders) \in Nat /\ DOMAIN orders = OrderNumber
  BY <1>1 DEF OrderNumber
<1> QED
  BY <1>2, <1>3 DEF Order, Status

\* Max finds the one order of a message.
LEMMA OrderOf ==
  ASSUME BookTypes, OneOrderPerMessage, NEW i \in OrderNumber
  PROVE  Max({j \in OrderNumber : orders[j].id = orders[i].id}) = i
<1> DEFINE S == {j \in OrderNumber : orders[j].id = orders[i].id}
<1>1. S = {i}
  BY DEF OneOrderPerMessage
<1>2. Len(orders) \in Nat
  BY OrderFields
<1>3. S \subseteq 0 .. Len(orders) /\ S # {}
  BY <1>1, <1>2 DEF OrderNumber
<1> HIDE DEF S
<1>4. Max(S) \in S
  BY <1>2, <1>3, LargestNumber
<1>5. Max(S) = i
  BY <1>1, <1>4
<1> QED
  BY <1>5 DEF S

\* The contracts that are owned were bought by Entry.
LEMMA EntryBought ==
  ASSUME Books, position > 0
  PROVE  Entry \in OrderNumber /\ Entry # 0 /\ Bought(Entry)
<1> DEFINE E == {i \in OrderNumber : orders[i].action = "OPEN" /\ orders[i].filled > 0}
<1>1. PICK e \in OrderNumber : Bought(e)
  BY DEF Books, OwnedWasBought
<1>2. Len(orders) \in Nat
  BY OrderFields DEF Books
<1>3. e \in E /\ \A i \in E : i <= e
  BY <1>1, <1>2 DEF Bought, OrderNumber
<1>4. E \subseteq OrderNumber
  OBVIOUS
<1> HIDE DEF E
<1>5. E \union {0} \subseteq 0 .. Len(orders) /\ E \union {0} # {}
  BY <1>2, <1>4 DEF OrderNumber
<1>6. Max(E \union {0}) \in E \union {0} /\ \A y \in E \union {0} : y <= Max(E \union {0})
  BY <1>2, <1>5, LargestNumber
<1> DEFINE M == Max(E \union {0})
<1> HIDE DEF M
<1>7. M = e
  <2>1. e <= M /\ M \in E \union {0}
    BY <1>3, <1>6 DEF M
  <2>2. e \in Nat /\ e > 0
    BY <1>2 DEF OrderNumber
  <2>3. M \in E
    BY <2>1, <2>2
  <2>4. M <= e /\ M \in Nat
    BY <1>2, <1>3, <1>4, <2>3 DEF OrderNumber
  <2> QED
    BY <2>1, <2>2, <2>4
<1>8. Entry = e
  BY <1>7 DEF Entry, E, M
<1> QED
  BY <1>1, <1>2, <1>8 DEF OrderNumber

\* The ledger stays as good as it is while nobody trades.
LEMMA SameBooks ==
  ASSUME Books, UNCHANGED <<orders, position>>, RowsStay
  PROVE  Books'
<1>1. OrderNumber' = OrderNumber
  BY DEF OrderNumber
<1>2. \A i \in OrderNumber : orders[i].id \in Message
  BY OrderFields DEF Books
<1>3. OrdersHaveMessages'
  BY <1>1, <1>2 DEF Books, OrdersHaveMessages, RowsStay
<1> QED
  BY <1>1, <1>3
  DEF Books, BookTypes, OneOpenOrder, OwnedWasBought, Bought, OrdersFollowMessages,
      ExitsFollowTheirEntry

\* A row changes, without its message, its action, its size and its time.
RowsAlike ==
  /\ OrderNumber' = OrderNumber /\ Len(orders)' = Len(orders)
  /\ \A i \in OrderNumber : /\ orders'[i].id = orders[i].id
                            /\ orders'[i].action = orders[i].action
                            /\ orders'[i].qty = orders[i].qty
                            /\ orders'[i].after = orders[i].after

LEMMA AlikeFollow ==
  ASSUME Books, RowsAlike, RowsStay
  PROVE  OrdersHaveMessages' /\ OrdersFollowMessages' /\ ExitsFollowTheirEntry'
<1>1. \A i \in OrderNumber : orders[i].id \in Message
  BY OrderFields DEF Books
<1>2. Len(orders) \in Nat
  BY OrderFields DEF Books
<1>3. OrdersHaveMessages'
  BY <1>1 DEF Books, RowsAlike, RowsStay, OrdersHaveMessages
<1>4. OrdersFollowMessages'
  BY DEF Books, RowsAlike, OrdersFollowMessages
<1>5. ExitsFollowTheirEntry'
  <2> SUFFICES ASSUME NEW j \in OrderNumber, orders[j].action = "EXIT"
               PROVE  \E i \in 1 .. j - 1 : orders'[i].action = "OPEN" /\ orders'[i].after < orders'[j].id
    BY DEF RowsAlike, ExitsFollowTheirEntry
  <2>1. PICK i \in 1 .. j - 1 : orders[i].action = "OPEN" /\ orders[i].after < orders[j].id
    BY DEF Books, ExitsFollowTheirEntry
  <2>2. i \in OrderNumber
    BY <1>2 DEF OrderNumber
  <2> QED
    BY <2>1, <2>2 DEF RowsAlike
<1> QED
  BY <1>3, <1>4, <1>5

\* What becomes of the order under way is written into its row.
LEMMA OutcomeKeepsBooks ==
  ASSUME Books, RowsStay,
         NEW n \in OrderNumber, orders[n].status \in Unsettled,
         NEW s \in Status, NEW q \in 0 .. MaxQty,
         s \in Unsettled => q = 0,
         q <= orders[n].qty,
         orders' = [orders EXCEPT ![n].status = s, ![n].filled = q],
         position' = IF orders[n].action = "OPEN" THEN position + q ELSE position - q
  PROVE  Books'
<1> DEFINE o == [orders[n] EXCEPT !.status = s, !.filled = q]
<1>1. MaxQty \in Nat \ {0}
  BY EvaluationAssumption
<1>2. /\ Len(orders) \in Nat /\ DOMAIN orders = OrderNumber
      /\ \A i \in OrderNumber : /\ orders[i] \in Order
                                /\ orders[i].qty \in 1 .. MaxQty
                                /\ orders[i].action \in {"OPEN", "EXIT"}
                                /\ orders[i].filled \in 0 .. MaxQty
  BY OrderFields DEF Books
<1>3. n = Len(orders) /\ orders[n].filled = 0
  BY DEF Books, OneOpenOrder
<1>4. orders' = [orders EXCEPT ![n] = o]
  BY <1>2
<1>5. o \in Order
  BY <1>2 DEF Order, Status
<1>6. /\ o.id = orders[n].id /\ o.action = orders[n].action /\ o.qty = orders[n].qty
      /\ o.after = orders[n].after /\ o.status = s /\ o.filled = q
  BY <1>2 DEF Order
<1> HIDE DEF o
<1>7. /\ orders' \in Seq(Order)
      /\ Len(orders') = Len(orders)
      /\ orders'[n] = o
      /\ \A i \in OrderNumber : i # n => orders'[i] = orders[i]
  <2>1. orders \in Seq(Order) /\ n \in 1 .. Len(orders)
    BY DEF Books, BookTypes, OrderNumber
  <2>2. /\ [orders EXCEPT ![n] = o] \in Seq(Order)
        /\ Len([orders EXCEPT ![n] = o]) = Len(orders)
        /\ \A i \in 1 .. Len(orders) : [orders EXCEPT ![n] = o][i] = IF i = n THEN o ELSE orders[i]
    BY <1>5, <2>1, ExceptSeq
  <2> QED
    BY <1>4, <2>2 DEF OrderNumber
<1>8. /\ Len(orders)' = Len(orders) /\ OrderNumber' = OrderNumber
      /\ orders'[n] = o
      /\ \A i \in OrderNumber : i # n => orders'[i] = orders[i]
  BY <1>7 DEF OrderNumber
<1>9. RowsAlike
  BY <1>6, <1>8 DEF RowsAlike
<1>10. position' \in Nat
  <2>1. CASE orders[n].action = "OPEN"
    BY <1>1, <2>1 DEF Books, BookTypes
  <2>2. CASE orders[n].action = "EXIT"
    <3>1. orders[n].qty <= position
      BY <2>2 DEF Books, OneOpenOrder
    <3> QED
      BY <1>1, <1>2, <2>2, <3>1 DEF Books, BookTypes
  <2> QED
    BY <1>2, <2>1, <2>2
<1>11. OneOpenOrder'
  <2> SUFFICES ASSUME NEW i \in OrderNumber, orders'[i].status \in Unsettled
               PROVE  /\ i = Len(orders)
                      /\ orders'[i].filled = 0
                      /\ orders'[i].action = "EXIT" => orders'[i].qty <= position'
    BY <1>8 DEF OneOpenOrder
  <2>1. CASE i # n
    BY <1>3, <1>8, <2>1 DEF Books, OneOpenOrder
  <2>2. CASE i = n
    <3>1. s \in Unsettled /\ q = 0
      BY <1>6, <1>8, <2>2
    <3>2. position' = position
      BY <3>1 DEF Books, BookTypes
    <3> QED
      BY <1>3, <1>6, <1>8, <2>2, <3>1, <3>2 DEF Books, OneOpenOrder
  <2> QED
    BY <2>1, <2>2
<1>12. OwnedWasBought'
  <2> SUFFICES ASSUME position' > 0
               PROVE  \E e \in OrderNumber : Bought(e)'
    BY <1>8 DEF OwnedWasBought
  <2>1. CASE orders[n].action = "OPEN" /\ q > 0
    <3>1. orders'[n].action = "OPEN" /\ orders'[n].filled > 0
      BY <1>6, <1>8, <2>1
    <3>2. \A j \in OrderNumber : ~(j > n)
      BY <1>2, <1>3 DEF OrderNumber
    <3>3. Bought(n)'
      BY <1>8, <3>1, <3>2 DEF Bought
    <3> QED
      BY <3>3
  <2>2. CASE ~(orders[n].action = "OPEN" /\ q > 0)
    <3>1. position > 0
      BY <1>1, <1>2, <2>2 DEF Books, BookTypes
    <3>2. PICK e \in OrderNumber : Bought(e)
      BY <3>1 DEF Books, OwnedWasBought
    <3>3. e # n
      BY <1>2, <1>3, <3>2 DEF Bought
    <3>4. orders'[e] = orders[e]
      BY <1>8, <3>3
    <3>5. Bought(e)'
      BY <1>9, <3>2, <3>4 DEF Bought, RowsAlike
    <3> QED
      BY <3>5
  <2> QED
    BY <2>1, <2>2
<1> QED
  BY <1>7, <1>9, <1>10, <1>11, <1>12, AlikeFollow DEF Books, BookTypes
\* Store.reserve keeps the ledger in order if no order is unsettled, the message is newer
\* than those obeyed, and an exit's message is newer than the entry it sells.
LEMMA ReserveKeepsBooks ==
  ASSUME Books, Known, NothingUnresolved,
         NEW m \in Message, NEW action \in {"OPEN", "EXIT"}, Reserve(m, action),
         UNCHANGED <<position, row>>, row[m] # 0,
         \A i \in OrderNumber : orders[i].id < m,
         action = "OPEN" => position = 0,
         action = "EXIT" => \E e \in OrderNumber : orders[e].action = "OPEN" /\ orders[e].after < m
  PROVE  Books'
<1>1. PICK q \in 1 .. MaxQty :
        /\ action = "EXIT" => q <= position
        /\ orders' = Append(orders, [id |-> m, action |-> action, qty |-> q, filled |-> 0,
                                     after |-> Posted, status |-> "submitting"])
  BY DEF Reserve
<1> DEFINE o == [id |-> m, action |-> action, qty |-> q, filled |-> 0,
                 after |-> Posted, status |-> "submitting"]
           n == Len(orders) + 1
<1>2. Posted \in Message /\ m <= Posted
  BY PostedCovers DEF Known
<1>3. MaxQty \in Nat \ {0}
  BY EvaluationAssumption
<1>4. o \in Order
  BY <1>2, <1>3 DEF Order, Unsettled
<1>5. /\ o.id = m /\ o.action = action /\ o.qty = q /\ o.filled = 0
      /\ o.after = Posted /\ o.status = "submitting"
  OBVIOUS
<1>6. orders' = Append(orders, o)
  BY <1>1
<1> HIDE DEF o
<1>7. orders \in Seq(Order)
  BY DEF Books, BookTypes
<1>8. /\ orders' \in Seq(Order)
      /\ Len(orders') = n
      /\ orders'[n] = o
      /\ \A i \in OrderNumber : orders'[i] = orders[i]
  BY <1>4, <1>6, <1>7 DEF OrderNumber
<1>9. Len(orders) \in Nat
  BY <1>7
<1> HIDE DEF n
<1>10. /\ n \in Nat /\ n \notin OrderNumber /\ \A i \in OrderNumber : i < n /\ i \in Nat
       /\ OrderNumber' = OrderNumber \union {n}
  BY <1>8, <1>9 DEF OrderNumber, n
<1>11. BookTypes'
  BY <1>8 DEF Books, BookTypes
<1>12. OneOpenOrder'
  <2> SUFFICES ASSUME NEW i \in OrderNumber', orders'[i].status \in Unsettled
               PROVE  /\ i = n
                      /\ orders'[i].filled = 0
                      /\ orders'[i].action = "EXIT" => orders'[i].qty <= position'
    BY <1>8 DEF OneOpenOrder
  <2>1. i = n
    BY <1>8, <1>10 DEF NothingUnresolved
  <2> QED
    BY <1>1, <1>5, <1>8, <2>1
<1>13. OwnedWasBought'
  <2> SUFFICES ASSUME position > 0
               PROVE  \E e \in OrderNumber' : Bought(e)'
    BY DEF OwnedWasBought
  <2>1. PICK e \in OrderNumber : Bought(e)
    BY DEF Books, OwnedWasBought
  <2>2. action = "EXIT"
    OBVIOUS
  <2>3. Bought(e)'
    BY <1>5, <1>8, <1>10, <2>1, <2>2 DEF Bought
  <2> QED
    BY <1>10, <2>3
<1>14. OrdersHaveMessages'
  BY <1>2, <1>5, <1>8, <1>10 DEF Books, OrdersHaveMessages
<1>15. OrdersFollowMessages'
  <2> SUFFICES ASSUME NEW i \in OrderNumber', NEW j \in OrderNumber', i < j
               PROVE  orders'[i].id < orders'[j].id
    BY DEF OrdersFollowMessages
  <2>1. i \in OrderNumber
    BY <1>10
  <2>2. CASE j = n
    BY <1>5, <1>8, <2>1, <2>2
  <2>3. CASE j \in OrderNumber
    BY <1>8, <2>1, <2>3 DEF Books, OrdersFollowMessages
  <2> QED
    BY <1>10, <2>2, <2>3
<1>16. ExitsFollowTheirEntry'
  <2> SUFFICES ASSUME NEW j \in OrderNumber', orders'[j].action = "EXIT"
               PROVE  \E i \in 1 .. j - 1 : orders'[i].action = "OPEN" /\ orders'[i].after < orders'[j].id
    BY DEF ExitsFollowTheirEntry
  <2>1. CASE j = n
    <3>1. PICK e \in OrderNumber : orders[e].action = "OPEN" /\ orders[e].after < m
      BY <1>5, <1>8, <2>1
    <3>2. e \in 1 .. j - 1
      BY <1>9, <2>1 DEF OrderNumber, n
    <3> QED
      BY <1>5, <1>8, <2>1, <3>1, <3>2
  <2>2. CASE j \in OrderNumber
    <3>1. PICK i \in 1 .. j - 1 : orders[i].action = "OPEN" /\ orders[i].after < orders[j].id
      BY <1>8, <2>2 DEF Books, ExitsFollowTheirEntry
    <3>2. i \in OrderNumber
      BY <1>9, <2>2 DEF OrderNumber
    <3> QED
      BY <1>8, <2>2, <3>1, <3>2
  <2> QED
    BY <1>10, <2>1, <2>2
<1> QED
  BY <1>11, <1>12, <1>13, <1>14, <1>15, <1>16 DEF Books

\* A live order: no stored message is newer, and an exit sells what was bought before it.
LEMMA LiveReserveKeepsBooks ==
  ASSUME Books, Known, NEW m \in Message, NEW action \in {"OPEN", "EXIT"},
         NothingNewer(m), Permitted(m, action), ~HasOrder(m), Reserve(m, action),
         UNCHANGED <<position, row>>
  PROVE  Books'
<1>1. NothingUnresolved /\ row[m] = 1 /\ (action = "OPEN" => position = 0)
  BY DEF Permitted, NothingNewer
<1>2. \A i \in OrderNumber : orders[i].id < m
  <2> SUFFICES ASSUME NEW i \in OrderNumber
               PROVE  orders[i].id < m
    OBVIOUS
  <2>1. orders[i].id \in Message
    BY OrderFields DEF Books
  <2>2. row[orders[i].id] # 0 /\ orders[i].id # m
    BY DEF Books, OrdersHaveMessages, HasOrder
  <2>3. orders[i].id <= m
    BY <2>1, <2>2 DEF NothingNewer
  <2> QED
    BY <2>1, <2>2, <2>3 DEF Message
<1>3. action = "EXIT" => \E e \in OrderNumber : orders[e].action = "OPEN" /\ orders[e].after < m
  <2> SUFFICES ASSUME action = "EXIT"
               PROVE  \E e \in OrderNumber : orders[e].action = "OPEN" /\ orders[e].after < m
    OBVIOUS
  <2>1. position > 0 /\ ~Predates(m)
    BY DEF Permitted
  <2>2. Entry \in OrderNumber /\ Entry # 0 /\ Bought(Entry)
    BY <2>1, EntryBought
  <2>3. orders[Entry].after \in Message
    BY <2>2, OrderFields DEF Books
  <2>4. orders[Entry].after < m
    BY <2>1, <2>2, <2>3 DEF Predates, Message
  <2> QED
    BY <2>2, <2>4 DEF Bought
<1> QED
  BY <1>1, <1>2, <1>3, ReserveKeepsBooks

\* A recovered exit: the entry is older than the message, and so are the exits since.
LEMMA LateReserveKeepsBooks ==
  ASSUME Books, Known, NEW m \in Message, NothingUnresolved,
         position > 0, ~Predates(m), NoLaterExit(m), row[m] # 0,
         ~HasOrder(m), Reserve(m, "EXIT"), UNCHANGED <<position, row>>
  PROVE  Books'
<1>1. Entry \in OrderNumber /\ Entry # 0 /\ Bought(Entry)
  BY EntryBought
<1>2. orders[Entry].after \in Message /\ Len(orders) \in Nat
  BY <1>1, OrderFields DEF Books
<1>3. orders[Entry].after < m
  BY <1>1, <1>2 DEF Predates, Message
<1>4. \A i \in OrderNumber : orders[i].id < m
  <2> SUFFICES ASSUME NEW i \in OrderNumber
               PROVE  orders[i].id < m
    OBVIOUS
  <2>1. orders[i].id \in Message /\ orders[Entry].id \in Message
    BY <1>1, OrderFields DEF Books
  <2>2. orders[Entry].id <= orders[Entry].after
    BY <1>1 DEF Books, OrdersHaveMessages
  <2>3. orders[Entry].id < m
    BY <1>2, <1>3, <2>1, <2>2 DEF Message
  <2>4. CASE i <= Entry
    <3>1. i = Entry \/ orders[i].id < orders[Entry].id
      BY <1>1, <1>2, <2>4 DEF Books, OrdersFollowMessages, OrderNumber
    <3> QED
      BY <2>1, <2>3, <3>1 DEF Message
  <2>5. CASE i > Entry
    <3>1. orders[i].action = "EXIT" /\ orders[i].id # m
      BY <1>1, <2>5 DEF Bought, HasOrder
    <3>2. i \in Entry .. Len(orders)
      BY <1>1, <1>2, <2>5 DEF OrderNumber
    <3> QED
      BY <3>1, <3>2 DEF NoLaterExit
  <2> QED
    BY <1>1, <1>2, <2>4, <2>5 DEF OrderNumber
<1>5. \E e \in OrderNumber : orders[e].action = "OPEN" /\ orders[e].after < m
  BY <1>1, <1>3 DEF Bought
<1> QED
  BY <1>4, <1>5, ReserveKeepsBooks

\* After the end of the process an order under way is of unknown fate.
LEMMA RestartKeepsBooks ==
  ASSUME Books, Restart
  PROVE  Books'
<1> DEFINE L(i) == IF orders[i].status = "submitting"
                   THEN [orders[i] EXCEPT !.status = "unknown"] ELSE orders[i]
<1>1. orders' = [i \in OrderNumber |-> L(i)] /\ UNCHANGED <<row, position>>
  BY DEF Restart
<1>2. \A i \in OrderNumber :
        /\ L(i) \in Order
        /\ L(i).id = orders[i].id /\ L(i).action = orders[i].action
        /\ L(i).qty = orders[i].qty /\ L(i).after = orders[i].after
        /\ L(i).filled = orders[i].filled
        /\ L(i).status \in Unsettled <=> orders[i].status \in Unsettled
  <2> SUFFICES ASSUME NEW i \in OrderNumber
               PROVE  /\ L(i) \in Order
                      /\ L(i).id = orders[i].id /\ L(i).action = orders[i].action
                      /\ L(i).qty = orders[i].qty /\ L(i).after = orders[i].after
                      /\ L(i).filled = orders[i].filled
                      /\ L(i).status \in Unsettled <=> orders[i].status \in Unsettled
    OBVIOUS
  <2>1. orders[i] \in Order
    BY OrderFields DEF Books
  <2> QED
    BY <2>1 DEF Order, Unsettled
<1> HIDE DEF L
<1>3. Len(orders) \in Nat
  BY OrderFields DEF Books
<1>4. /\ orders' \in Seq(Order)
      /\ Len(orders') = Len(orders)
      /\ \A i \in OrderNumber : orders'[i] = L(i)
  BY <1>1, <1>2, <1>3 DEF OrderNumber
<1>5. OrderNumber' = OrderNumber
  BY <1>4 DEF OrderNumber
<1>6. RowsAlike /\ RowsStay
  BY <1>1, <1>2, <1>4, <1>5 DEF RowsAlike, RowsStay
<1>7. OneOpenOrder'
  BY <1>1, <1>2, <1>4, <1>5 DEF Books, OneOpenOrder
<1>8. OwnedWasBought'
  BY <1>1, <1>2, <1>4, <1>5 DEF Books, OwnedWasBought, Bought
<1> QED
  BY <1>1, <1>4, <1>6, <1>7, <1>8, AlikeFollow DEF Books, BookTypes

\* Orders are in the order of their messages, so no message has two.
LEMMA BooksOneOrder ==
  ASSUME Books
  PROVE  OneOrderPerMessage
<1>1. \A i \in OrderNumber : orders[i].id \in Message /\ i \in Nat
  BY OrderFields DEF Books, OrderNumber
<1>2. \A i, j \in OrderNumber : i < j => orders[i].id < orders[j].id
  BY DEF Books, OrdersFollowMessages
<1>3. \A i, j \in OrderNumber : i # j => i < j \/ j < i
  BY <1>1
<1>4. \A i, j \in OrderNumber : i # j => orders[i].id # orders[j].id
  BY <1>1, <1>2, <1>3 DEF Message
<1> QED
  BY <1>4 DEF OneOrderPerMessage

\* The order of a message is settled, or what is known of it so far is written down.
LEMMA SetOrderKeepsBooks ==
  ASSUME Books, UNCHANGED <<row, position>>,
         NEW n \in OrderNumber, orders[n].status \in Unsettled,
         NEW s \in Status, SetOrder(orders[n].id, s, 0)
  PROVE  Books'
<1>1. Max({j \in OrderNumber : orders[j].id = orders[n].id}) = n
  BY OrderOf, BooksOneOrder DEF Books
<1>2. orders' = [orders EXCEPT ![n].status = s, ![n].filled = 0]
  BY <1>1 DEF SetOrder
<1>3. orders[n].qty \in 1 .. MaxQty /\ MaxQty \in Nat \ {0}
  BY OrderFields, EvaluationAssumption DEF Books
<1>4. 0 \in 0 .. MaxQty /\ 0 <= orders[n].qty
  BY <1>3
<1>5. position' = IF orders[n].action = "OPEN" THEN position + 0 ELSE position - 0
  BY DEF Books, BookTypes
<1> QED
  BY <1>2, <1>4, <1>5, OutcomeKeepsBooks DEF RowsStay

LEMMA AnswerKeepsBooks ==
  ASSUME Books, UNCHANGED row,
         NEW n \in OrderNumber, orders[n].status \in Unsettled,
         NEW s \in Status, NEW q \in 0 .. MaxQty, Outcome(orders[n].id, s, q)
  PROVE  Books'
<1>1. Max({j \in OrderNumber : orders[j].id = orders[n].id}) = n
  BY OrderOf, BooksOneOrder DEF Books
<1>2. /\ orders' = [orders EXCEPT ![n].status = s, ![n].filled = q]
      /\ s = "filled" <=> q > 0
      /\ q <= orders[n].qty
      /\ position' = IF orders[n].action = "OPEN" THEN position + q ELSE position - q
  BY <1>1 DEF SetOrder, Outcome
<1>3. s \in Unsettled => q = 0
  BY <1>2, EvaluationAssumption DEF Unsettled
<1> QED
  BY <1>2, <1>3, OutcomeKeepsBooks DEF RowsStay
-----------------------------------------------------------------------------
(* The types of the evaluations and of the recovery, and whose turn it is. *)

Seen   == {<<>>} \union (Nat \X SUBSET (Nat \X Status))
Work   == [pc: {"idle", "evaluating", "waiting", "planning", "review", "sent"},
           generation: Nat, seen: Seen, action: {"OPEN", "EXIT", "NONE"}]
Events == [Message -> [Revision -> EventState]]

\* The points of the work at which Engine.lock is held.
AtWork == {"planning", "review", "sent"}

TaskTypes ==
  /\ task \in [Message -> Work]
  /\ \A m \in Message : task[m].pc \in AtWork => task[m].action # "NONE"

EventTypes ==
  /\ event \in Events
  /\ kind \in [Message -> {"none", "live", "baseline"}]
  /\ generation \in Nat
  /\ attempt \in [Message -> {"none", "evaluating", "accepted", "finished", "interrupted"}]

QueueTypes ==
  /\ queue \in Seq(Delivery)
  /\ lock \in {"free", "live", "recovery"}
  /\ aged \in Message \union {0}
  /\ sessions \in 0 .. MaxSession

RecoveryTypes ==
  /\ rec \in Assessment
  /\ rec.pc # "none" => rec.id \in Message
  /\ deferred \in [Message -> Assessment]
  /\ \A m \in Message : /\ deferred[m].pc \in {"none", "waiting"}
                        /\ deferred[m].pc # "none" => deferred[m].id = m
  /\ retry \subseteq Message
  /\ scanned \in BOOLEAN
  /\ swept \in Nat \union {-1}

Types == TaskTypes /\ EventTypes /\ QueueTypes /\ RecoveryTypes

UnderWay(m) == \E i \in OrderNumber : orders[i].id = m /\ orders[i].status = "submitting"

\* A live evaluation at work holds the lock, alone, and what it sends it has reserved.
LiveTurn ==
  \A m \in Message : task[m].pc \in AtWork =>
    /\ lock = "live"
    /\ \A n \in Message : task[n].pc \in AtWork => n = m
    /\ task[m].pc # "planning" => UnderWay(m)

\* So does the recovery; while it plans, nothing is unsettled.
RecoveryTurn ==
  rec.pc \in AtWork =>
    /\ lock = "recovery"
    /\ rec.pc = "planning" => NothingUnresolved
    /\ rec.pc # "planning" => UnderWay(rec.id)

Turn == LiveTurn /\ RecoveryTurn

\* What a step needs to know.
SInv == ReaderInv /\ Known /\ Types /\ Turn /\ Books

-----------------------------------------------------------------------------
(* The ledger, step by step. *)

\* An order under way is unsettled.
LEMMA UnderWayIsUnsettled ==
  ASSUME NEW m, UnderWay(m)
  PROVE  \E n \in OrderNumber : orders[n].id = m /\ orders[n].status \in Unsettled
BY DEF UnderWay, Unsettled

LEMMA ExecuteKeepsBooks ==
  ASSUME SInv, NEW m \in Message, Execute(m)
  PROVE  Books'
<1>1. UNCHANGED row
  BY DEF Execute, Admit, AdmitNothing, Plan, PlanHolds, Send, SendHolds, Answer, Finish, storeVars
<1>2. CASE UNCHANGED <<orders, position>>
  BY <1>1, <1>2, SameBooks DEF SInv, RowsStay
<1>3. CASE Plan(m)
  <2>1. task[m].pc = "planning" /\ task[m].action \in {"OPEN", "EXIT"}
    BY <1>3 DEF Plan, SInv, Types, TaskTypes, Work, AtWork
  <2> DEFINE a == task[m].action
  <2>2. /\ NothingNewer(m) /\ Permitted(m, a) /\ ~HasOrder(m) /\ Reserve(m, a)
        /\ UNCHANGED <<position, row>>
    BY <1>3 DEF Plan, Unchanged, Unreserved
  <2>3. PICK action : action = a
    OBVIOUS
  <2> HIDE DEF a
  <2> QED
    BY <2>1, <2>2, <2>3, LiveReserveKeepsBooks DEF SInv, a
<1>4. ASSUME SendHolds(m) \/ Answer(m)
      PROVE  \E n \in OrderNumber : orders[n].id = m /\ orders[n].status \in Unsettled
  <2>1. task[m].pc \in {"review", "sent"}
    BY <1>4 DEF SendHolds, Answer
  <2>2. UnderWay(m)
    BY <2>1 DEF SInv, Turn, LiveTurn, AtWork
  <2> QED
    BY <2>2, UnderWayIsUnsettled
<1>5. CASE SendHolds(m)
  <2>1. PICK n \in OrderNumber : orders[n].id = m /\ orders[n].status \in Unsettled
    BY <1>4, <1>5
  <2>2. PICK s \in {"rejected", "unknown"} : SetOrder(m, s, 0)
    BY <1>5 DEF SendHolds
  <2>3. UNCHANGED <<row, position>> /\ s \in Status
    BY <1>5 DEF SendHolds, Finish, Status, Unsettled
  <2> QED
    BY <2>1, <2>2, <2>3, SetOrderKeepsBooks DEF SInv
<1>6. CASE Answer(m)
  <2>1. PICK n \in OrderNumber : orders[n].id = m /\ orders[n].status \in Unsettled
    BY <1>4, <1>6
  <2>2. PICK s \in {"unknown", "open", "rejected", "filled"}, q \in 0 .. MaxQty : Outcome(m, s, q)
    BY <1>6 DEF Answer
  <2>3. s \in Status
    BY DEF Status, Unsettled
  <2> QED
    BY <1>1, <2>1, <2>2, <2>3, AnswerKeepsBooks DEF SInv
<1> QED
  BY <1>2, <1>3, <1>5, <1>6
  DEF Execute, Admit, AdmitNothing, PlanHolds, Send, Finish, storeVars

LEMMA ExecuteExitKeepsBooks ==
  ASSUME SInv, ExecuteExit
  PROVE  Books'
<1>1. UNCHANGED row
  BY DEF ExecuteExit, AdmitExit, ExitNotReady, ExitChanged, ExitHeld, PlanExit, SendExit,
     SendExitHolds, AnswerExit, Defer, Close, storeVars
<1>2. CASE UNCHANGED <<orders, position>>
  BY <1>1, <1>2, SameBooks DEF SInv, RowsStay
<1>3. CASE PlanExit
  <2>1. rec.pc = "planning" /\ rec.id \in Message
    BY <1>3 DEF PlanExit, SInv, Types, RecoveryTypes
  <2>2. NothingUnresolved
    BY <2>1 DEF SInv, Turn, RecoveryTurn, AtWork
  <2>3. /\ row[rec.id] = 1 /\ position > 0 /\ ~Predates(rec.id) /\ NoLaterExit(rec.id)
        /\ ~HasOrder(rec.id) /\ Reserve(rec.id, "EXIT") /\ UNCHANGED <<position, row>>
    BY <1>3 DEF PlanExit, Guard, Unreserved
  <2>4. PICK m : m = rec.id
    OBVIOUS
  <2> QED
    BY <2>1, <2>2, <2>3, <2>4, LateReserveKeepsBooks DEF SInv
<1>4. ASSUME SendExitHolds \/ AnswerExit
      PROVE  \E n \in OrderNumber : orders[n].id = rec.id /\ orders[n].status \in Unsettled
  <2>1. rec.pc \in {"review", "sent"}
    BY <1>4 DEF SendExitHolds, AnswerExit
  <2>2. UnderWay(rec.id)
    BY <2>1 DEF SInv, Turn, RecoveryTurn, AtWork
  <2> QED
    BY <2>2, UnderWayIsUnsettled
<1>5. CASE SendExitHolds
  <2>1. PICK n \in OrderNumber : orders[n].id = rec.id /\ orders[n].status \in Unsettled
    BY <1>4, <1>5
  <2>2. PICK s \in {"rejected", "unknown"} : SetOrder(rec.id, s, 0)
    BY <1>5 DEF SendExitHolds
  <2>3. UNCHANGED <<row, position>> /\ s \in Status
    BY <1>5 DEF SendExitHolds, Close, Status, Unsettled
  <2> QED
    BY <2>1, <2>2, <2>3, SetOrderKeepsBooks DEF SInv
<1>6. CASE AnswerExit
  <2>1. PICK n \in OrderNumber : orders[n].id = rec.id /\ orders[n].status \in Unsettled
    BY <1>4, <1>6
  <2>2. PICK s \in {"unknown", "open", "rejected", "filled"}, q \in 0 .. MaxQty : Outcome(rec.id, s, q)
    BY <1>6 DEF AnswerExit
  <2>3. s \in Status
    BY DEF Status, Unsettled
  <2> QED
    BY <1>1, <2>1, <2>2, <2>3, AnswerKeepsBooks DEF SInv
<1> QED
  BY <1>2, <1>3, <1>5, <1>6
  DEF ExecuteExit, AdmitExit, ExitNotReady, ExitChanged, ExitHeld, SendExit, Defer, Close, storeVars

LEMMA StepKeepsBooks ==
  ASSUME SInv, [Next]_vars
  PROVE  Books'
<1>1. RowsStay
  BY StepKeepsKnown DEF SInv, ReaderInv
<1>2. CASE UNCHANGED <<orders, position>>
  BY <1>1, <1>2, SameBooks DEF SInv
<1>3. CASE Handle
  BY <1>2, <1>3, ExecuteKeepsBooks
  DEF Handle, TakeContext, TakeHeld, TakeEvaluation, Interpreted, InterpretFails, Finish, storeVars
<1>4. CASE Reconcile
  <2>1. PICK n \in OrderNumber, s \in {"rejected", "filled"}, q \in 0 .. MaxQty :
          orders[n].status \in Unsettled /\ Outcome(orders[n].id, s, q)
    BY <1>4 DEF Reconcile
  <2>2. s \in Status /\ UNCHANGED row
    BY <1>4 DEF Status, Reconcile
  <2> QED
    BY <2>1, <2>2, AnswerKeepsBooks DEF SInv
<1>5. CASE RecoveryNext
  BY <1>2, <1>5, ExecuteExitKeepsBooks
  DEF RecoveryNext, Poll, Assess, Interpret, Review, FactsMissing, Viable, Changed, Defer, Close,
      RetryDue, storeVars
<1>6. CASE Crash \/ Stop
  BY <1>6, RestartKeepsBooks DEF Crash, Stop, SInv
<1> QED
  BY <1>2, <1>3, <1>4, <1>5, <1>6
  DEF Next, EvaluationNext, Deliver, Age, vars, engineVars, storeVars

LEMMA BooksInit == Init => Books
<1> SUFFICES ASSUME orders = <<>>, position = 0
             PROVE  Books
  BY DEF Init, EvaluationInit
<1>1. orders \in Seq(Order) /\ OrderNumber = {}
  BY DEF OrderNumber
<1> QED
  BY <1>1 DEF Books, BookTypes, OneOpenOrder, OwnedWasBought, OrdersHaveMessages,
     OrdersFollowMessages, ExitsFollowTheirEntry
-----------------------------------------------------------------------------
(* The types, step by step. *)

\* Store.position_generation of any ledger.
LEMMA GenerationSeen ==
  ASSUME NEW L \in Seq(Order), NEW p \in Nat
  PROVE  <<p, {<<i, L[i].status>> : i \in {j \in 1 .. Len(L) : L[j].status \in Unsettled}}>> \in Seen
<1>1. \A j \in 1 .. Len(L) : j \in Nat /\ L[j] \in Order
  OBVIOUS
<1>2. \A j \in 1 .. Len(L) : j \in Nat /\ L[j].status \in Status
  BY <1>1 DEF Order, Status
<1>3. {<<i, L[i].status>> : i \in {j \in 1 .. Len(L) : L[j].status \in Unsettled}}
        \in SUBSET (Nat \X Status)
  BY <1>2
<1> QED
  BY <1>3 DEF Seen

LEMMA IdleIsWork == Idle \in Work /\ Idle.pc = "idle"
BY DEF Idle, Work, Seen

\* One evaluation moves on.
LEMMA TaskMoves ==
  ASSUME TaskTypes, NEW m \in Message, NEW w \in Work,
         w.pc \in AtWork => w.action # "NONE",
         task' = [task EXCEPT ![m] = w]
  PROVE  TaskTypes' /\ task'[m] = w /\ \A n \in Message : n # m => task'[n] = task[n]
BY DEF TaskTypes

LEMMA TaskFields ==
  ASSUME TaskTypes, NEW m \in Message
  PROVE  /\ task[m] \in Work
         /\ task[m].action \in {"OPEN", "EXIT", "NONE"}
         /\ task[m].pc \in AtWork => task[m].action # "NONE"
<1>1. task[m] \in Work
  BY DEF TaskTypes
<1> QED
  BY <1>1 DEF TaskTypes, Work

\* What an evaluation's step makes of task: m moves to p, the others stay.
Moved(m, p) ==
  /\ TaskTypes'
  /\ task'[m].pc = p
  /\ \A n \in Message : n # m => task'[n] = task[n]

LEMMA Finished ==
  ASSUME TaskTypes, NEW m \in Message, task' = [task EXCEPT ![m] = Idle]
  PROVE  Moved(m, "idle")
BY IdleIsWork, TaskMoves DEF Moved, AtWork

LEMMA PlanMoves ==
  ASSUME TaskTypes, BookTypes', NEW m \in Message, Plan(m)
  PROVE  Moved(m, "review")
<1>1. PICK g \in Seen : g = PositionGeneration'
  <2>1. orders' \in Seq(Order) /\ position' \in Nat
    BY DEF BookTypes
  <2> QED
    BY <2>1, GenerationSeen DEF PositionGeneration, OrderNumber
<1> DEFINE w == [task[m] EXCEPT !.pc = "review", !.seen = g]
<1>2. task[m] \in Work /\ task[m].action # "NONE"
  BY TaskFields DEF Plan, AtWork
<1>3. w \in Work /\ w.pc = "review" /\ w.action = task[m].action
  BY <1>2 DEF Work
<1>4. task' = [task EXCEPT ![m].pc = "review", ![m].seen = g]
  BY <1>1 DEF Plan
<1>5. task' = [task EXCEPT ![m] = w]
  BY <1>4 DEF TaskTypes
<1> HIDE DEF w
<1> QED
  BY <1>2, <1>3, <1>5, TaskMoves DEF Moved

LEMMA StepMoves ==
  ASSUME TaskTypes, NEW m \in Message, NEW p \in {"planning", "sent"},
         task[m].action # "NONE", task' = [task EXCEPT ![m].pc = p]
  PROVE  Moved(m, p)
<1> DEFINE w == [task[m] EXCEPT !.pc = p]
<1>1. w \in Work /\ w.pc = p /\ w.action = task[m].action
  BY TaskFields DEF Work
<1>2. task' = [task EXCEPT ![m] = w]
  BY DEF TaskTypes
<1> HIDE DEF w
<1> QED
  BY <1>1, <1>2, TaskMoves DEF Moved

LEMMA InterpretedMoves ==
  ASSUME TaskTypes, NEW m \in Message, Interpreted(m)
  PROVE  Moved(m, "waiting")
<1>1. PICK a \in Meaning[m] : task' = [task EXCEPT ![m].pc = "waiting", ![m].action = a]
  BY DEF Interpreted
<1>2. a \in {"OPEN", "EXIT", "NONE"}
  BY EvaluationAssumption
<1> DEFINE w == [task[m] EXCEPT !.pc = "waiting", !.action = a]
<1>3. w \in Work /\ w.pc = "waiting"
  BY <1>2, TaskFields DEF Work
<1>4. task' = [task EXCEPT ![m] = w]
  BY <1>1 DEF TaskTypes
<1> HIDE DEF w
<1> QED
  BY <1>3, <1>4, TaskMoves DEF Moved, AtWork

LEMMA EvaluationMoves ==
  ASSUME TaskTypes, BookTypes, generation \in Nat, NEW d, d.copy.id \in Message, TakeEvaluation(d)
  PROVE  Moved(d.copy.id, "evaluating")
<1> DEFINE w == [Idle EXCEPT !.pc = "evaluating", !.generation = generation,
                             !.seen = PositionGeneration]
<1>1. PositionGeneration \in Seen
  BY GenerationSeen DEF BookTypes, PositionGeneration, OrderNumber
<1>2. w \in Work /\ w.pc = "evaluating"
  BY <1>1 DEF Idle, Work
<1> HIDE DEF w
<1>3. PICK m \in Message : m = d.copy.id
  OBVIOUS
<1>4. task' = [task EXCEPT ![m] = w]
  BY <1>3 DEF TakeEvaluation, w
<1> QED
  BY <1>2, <1>3, <1>4, TaskMoves DEF Moved, AtWork

\* Which evaluation moves where.
LEMMA ExecuteMoves ==
  ASSUME TaskTypes, BookTypes', NEW m \in Message, Execute(m)
  PROVE  \/ Admit(m) /\ Moved(m, "planning")
         \/ Plan(m) /\ Moved(m, "review")
         \/ Send(m) /\ Moved(m, "sent")
         \/ /\ AdmitNothing(m) \/ PlanHolds(m) \/ SendHolds(m) \/ Answer(m)
            /\ Moved(m, "idle")
<1>1. ASSUME AdmitNothing(m) \/ PlanHolds(m) \/ SendHolds(m) \/ Answer(m)
      PROVE  Moved(m, "idle")
  BY <1>1, Finished DEF AdmitNothing, PlanHolds, SendHolds, Answer, Finish
<1>2. ASSUME Admit(m)
      PROVE  Moved(m, "planning")
  BY <1>2, StepMoves DEF Admit
<1>3. ASSUME Send(m)
      PROVE  Moved(m, "sent")
  <2>1. task[m].action # "NONE" /\ task' = [task EXCEPT ![m].pc = "sent"]
    BY <1>3, TaskFields DEF Send, AtWork
  <2> QED
    BY <2>1, StepMoves
<1> QED
  BY <1>1, <1>2, <1>3, PlanMoves DEF Execute

\* The first delivery is one of a message.
LEMMA DeliveryTaken ==
  ASSUME QueueTypes, NEW d \in {queue[i] : i \in 1 .. Len(queue)}
  PROVE  d \in Delivery /\ d.copy.id \in Message /\ d.copy.rev \in Revision
<1>1. d \in Delivery
  BY DEF QueueTypes
<1> QED
  BY <1>1 DEF Delivery, Copy

LEMMA HandleKeepsTasks ==
  ASSUME TaskTypes, BookTypes, BookTypes', QueueTypes, EventTypes, Handle
  PROVE  TaskTypes'
<1>1. ASSUME NEW d \in {queue[i] : i \in 1 .. Len(queue)},
             TakeContext(d) \/ TakeHeld(d) \/ TakeEvaluation(d)
      PROVE  TaskTypes'
  <2>1. CASE UNCHANGED task
    BY <2>1 DEF TaskTypes
  <2>2. CASE TakeEvaluation(d)
    BY <2>2, DeliveryTaken, EvaluationMoves DEF EventTypes, Moved
  <2> QED
    BY <1>1, <2>1, <2>2 DEF TakeContext, TakeHeld
<1>2. ASSUME NEW m \in Message, Interpreted(m) \/ InterpretFails(m) \/ Execute(m)
      PROVE  TaskTypes'
  <2>1. CASE InterpretFails(m)
    BY <2>1, Finished DEF InterpretFails, Finish, Moved
  <2> QED
    BY <1>2, <2>1, InterpretedMoves, ExecuteMoves DEF Moved
<1> QED
  BY <1>1, <1>2 DEF Handle

LEMMA StepKeepsTasks ==
  ASSUME TaskTypes, BookTypes, BookTypes', QueueTypes, EventTypes, [Next]_vars
  PROVE  TaskTypes'
<1>1. CASE UNCHANGED task
  BY <1>1 DEF TaskTypes
<1>2. CASE Restart
  <2>1. task' = [m \in Message |-> Idle]
    BY <1>2 DEF Restart
  <2> QED
    BY <2>1, IdleIsWork DEF TaskTypes, AtWork
<1>3. ASSUME Reconcile \/ Age \/ Deliver \/ RecoveryNext
      PROVE  UNCHANGED task
  BY <1>3 DEF Reconcile, Age, Deliver, RecoveryNext, Poll, Assess, Interpret, Review, FactsMissing,
     Viable, Changed, Defer, Close, ExecuteExit, AdmitExit, ExitNotReady, ExitChanged, ExitHeld,
     PlanExit, SendExit, SendExitHolds, AnswerExit, RetryDue, taskVars
<1> QED
  BY <1>1, <1>2, <1>3, HandleKeepsTasks
  DEF Next, EvaluationNext, Crash, Stop, vars, engineVars, taskVars
\* One event is written.
LEMMA EventSet ==
  ASSUME NEW ev \in Events, NEW m \in Message, NEW r \in Revision, NEW s \in EventState
  PROVE  [ev EXCEPT ![m][r] = s] \in Events
BY DEF Events

\* RecoveryEvaluator.enqueue writes one event or none.
LEMMA EnqueuedType ==
  ASSUME NEW ev \in Events, NEW copy, copy.id \in Message, NEW observed
  PROVE  Enqueued(ev, copy, observed) \in Events
<1>1. 1 \in Revision /\ "pending" \in EventState
  BY DEF Revision, EventState
<1>2. [ev EXCEPT ![copy.id][1] = "pending"] \in Events
  BY <1>1, EventSet
<1> QED
  BY <1>2 DEF Enqueued

LEMMA TailTyped ==
  ASSUME NEW S, NEW q \in Seq(S), q # <<>>
  PROVE  Tail(q) \in Seq(S)
OBVIOUS

LEMMA TakeKeepsEvents ==
  ASSUME event \in Events, QueueTypes, NEW d \in {queue[i] : i \in 1 .. Len(queue)},
         NEW s \in EventState \union {""}, Take(d, s)
  PROVE  event' \in Events /\ queue' \in Seq(Delivery)
<1> DEFINE ev == IF s = "" THEN event ELSE [event EXCEPT ![d.copy.id][d.copy.rev] = s]
<1>1. d.copy.id \in Message /\ d.copy.rev \in Revision
  BY DeliveryTaken
<1>2. s # "" => [event EXCEPT ![d.copy.id][d.copy.rev] = s] \in Events
  BY <1>1, EventSet
<1>3. ev \in Events
  BY <1>2
<1>4. event' = Enqueued(ev, d.copy, d.observed)
  BY DEF Take
<1> HIDE DEF ev
<1>5. event' \in Events
  BY <1>1, <1>3, <1>4, EnqueuedType
<1>6. queue \in Seq(Delivery) /\ queue # <<>> /\ queue' = Tail(queue)
  BY DEF QueueTypes, Take
<1>7. Tail(queue) \in Seq(Delivery)
  BY <1>6, TailTyped
<1> QED
  BY <1>5, <1>6, <1>7

LEMMA FinishKeepsEvents ==
  ASSUME EventTypes, NEW m \in Message, NEW s \in EventState, Finish(m, s)
  PROVE  EventTypes'
<1> DEFINE ev == [event EXCEPT ![m][1] = s]
           copy == [id |-> m, rev |-> 1, kind |-> "live"]
<1>1. ev \in Events
  BY EventSet DEF EventTypes, Revision
<1>2. copy.id \in Message
  OBVIOUS
<1>3. event' = Enqueued(ev, copy, "new")
  BY DEF Finish
<1> HIDE DEF ev, copy
<1>4. event' \in Events
  BY <1>1, <1>2, <1>3, EnqueuedType
<1>5. attempt' = [attempt EXCEPT ![m] = "finished"] /\ UNCHANGED <<kind, generation>>
  BY DEF Finish
<1> QED
  BY <1>4, <1>5 DEF EventTypes

LEMMA ExecuteKeepsEvents ==
  ASSUME EventTypes, NEW m \in Message, Execute(m)
  PROVE  EventTypes'
<1>1. ASSUME NEW s \in {"closed", "missed"}, Finish(m, s)
      PROVE  EventTypes'
  BY <1>1, FinishKeepsEvents DEF EventState
<1>2. CASE AdmitNothing(m) \/ PlanHolds(m) \/ SendHolds(m)
  <2>1. \E s \in {"closed", "missed"} : Finish(m, s)
    BY <1>2 DEF AdmitNothing, PlanHolds, SendHolds
  <2> QED
    BY <1>1, <2>1
<1>3. CASE Admit(m)
  BY <1>3 DEF Admit, EventTypes
<1>4. CASE Plan(m) \/ Send(m)
  BY <1>4 DEF Plan, Send, EventTypes, storeVars
<1>5. CASE Answer(m)
  <2>1. [event EXCEPT ![m][1] = "closed"] \in Events
    BY EventSet DEF EventTypes, Revision, EventState
  <2> QED
    BY <1>5, <2>1 DEF Answer, EventTypes
<1> QED
  BY <1>2, <1>3, <1>4, <1>5 DEF Execute

LEMMA HandleKeepsEvents ==
  ASSUME EventTypes, QueueTypes, Handle
  PROVE  EventTypes'
<1>1. ASSUME NEW d \in {queue[i] : i \in 1 .. Len(queue)},
             TakeContext(d) \/ TakeHeld(d) \/ TakeEvaluation(d)
      PROVE  EventTypes'
  <2>1. \E s \in EventState \union {""} : Take(d, s)
    BY <1>1 DEF TakeContext, TakeHeld, TakeEvaluation, EventState
  <2>2. event' \in Events
    BY <2>1, TakeKeepsEvents DEF EventTypes
  <2>3. /\ UNCHANGED <<kind, generation>>
        /\ UNCHANGED attempt \/ attempt' = [attempt EXCEPT ![d.copy.id] = "evaluating"]
    BY <1>1 DEF TakeContext, TakeHeld, TakeEvaluation
  <2> QED
    BY <2>2, <2>3 DEF EventTypes
<1>2. ASSUME NEW m \in Message, Interpreted(m) \/ InterpretFails(m)
      PROVE  EventTypes'
  <2>1. CASE InterpretFails(m)
    BY <2>1, FinishKeepsEvents DEF InterpretFails, EventState
  <2> QED
    BY <1>2, <2>1 DEF Interpreted, EventTypes, storeVars
<1> QED
  BY <1>1, <1>2, ExecuteKeepsEvents DEF Handle

LEMMA DeliverKeepsEvents ==
  ASSUME EventTypes, QueueTypes, Known, Deliver
  PROVE  EventTypes' /\ queue' \in Seq(Delivery)
<1> DEFINE c == Head(inbox)
<1>1. c \in Copy
  BY DeliverKeepsKnown
<1>2. c.id \in Message /\ c.rev \in Revision /\ c.kind \in {"live", "baseline"}
  BY <1>1 DEF Copy
<1>3. /\ UNCHANGED event \/ event' = [event EXCEPT ![c.id][c.rev] = "observed"]
      /\ UNCHANGED kind \/ kind' = [kind EXCEPT ![c.id] = c.kind]
      /\ UNCHANGED generation \/ generation' = generation + 1
      /\ UNCHANGED attempt
      /\ \E o \in {"new", "edit", "same"} : queue' = Append(queue, [copy |-> c, observed |-> o])
  BY DEF Deliver
<1> HIDE DEF c
<1>4. [event EXCEPT ![c.id][c.rev] = "observed"] \in Events
  BY <1>2, EventSet DEF EventTypes, EventState
<1>5. PICK o \in {"new", "edit", "same"} : queue' = Append(queue, [copy |-> c, observed |-> o])
  BY <1>3
<1>6. [copy |-> c, observed |-> o] \in Delivery
  BY <1>1 DEF Delivery
<1>7. queue' \in Seq(Delivery)
  BY <1>5, <1>6 DEF QueueTypes
<1>8. kind' \in [Message -> {"none", "live", "baseline"}]
  BY <1>2, <1>3 DEF EventTypes
<1>9. event' \in Events /\ generation' \in Nat /\ UNCHANGED attempt
  BY <1>3, <1>4 DEF EventTypes
<1> QED
  BY <1>7, <1>8, <1>9 DEF EventTypes

\* The row to assess first is a message, if there is any.
LEMMA FirstDueIsMessage ==
  ASSUME NEW ev, FirstDue(ev) # 0
  PROVE  FirstDue(ev) \in Message
<1> DEFINE due == {m \in Message : row[m] = 1 /\ ev[m][1] = "pending" /\ m \notin retry}
<1>1. due # {} /\ FirstDue(ev) = Min(due)
  BY DEF FirstDue
<1>2. due \subseteq Nat /\ due \subseteq Message
  BY DEF Message
<1> HIDE DEF due
<1>3. PICK x \in due : \A y \in due : x <= y
  BY <1>1, <1>2, SmallestNumber
<1>4. Min(due) \in due
  BY <1>3 DEF Min
<1> QED
  BY <1>1, <1>2, <1>4

LEMMA WalkedType ==
  ASSUME event \in Events
  PROVE  Walked \in Events
<1>1. \A m \in Message : event[m] \in [Revision -> EventState]
  BY DEF Events
<1>2. \A m \in Message : [event[m] EXCEPT ![1] = "pending"] \in [Revision -> EventState]
  BY <1>1 DEF EventState
<1> QED
  BY <1>1, <1>2 DEF Walked, Events

LEMMA RestartEvents ==
  ASSUME event \in Events
  PROVE  /\ Waiting(event) \in Events
         /\ Waiting(Abandoned(Cancelled)) \in Events
<1>1. ASSUME NEW ev \in Events
      PROVE  Waiting(ev) \in Events
  <2>1. \A m \in Message : ev[m] \in [Revision -> EventState]
    BY DEF Events
  <2>2. \A m \in Message : [ev[m] EXCEPT ![1] = "pending"] \in [Revision -> EventState]
    BY <2>1 DEF EventState
  <2> QED
    BY <2>1, <2>2 DEF Waiting, Events
<1>2. ASSUME NEW ev \in Events
      PROVE  Abandoned(ev) \in Events
  BY DEF Abandoned, Events, EventState
<1>3. Cancelled \in Events
  <2>1. \A m \in Message : event[m] \in [Revision -> EventState]
    BY DEF Events
  <2>2. \A m \in Message : /\ [event[m] EXCEPT ![1] = "context"] \in [Revision -> EventState]
                           /\ [event[m] EXCEPT ![1] = "pending"] \in [Revision -> EventState]
    BY <2>1 DEF EventState
  <2> QED
    BY <2>1, <2>2 DEF Cancelled, Events
<1> QED
  BY <1>1, <1>2, <1>3

LEMMA RecoveryKeepsEvents ==
  ASSUME EventTypes, RecoveryTypes, RecoveryNext
  PROVE  EventTypes'
<1>1. UNCHANGED <<kind, generation, attempt>>
  BY DEF RecoveryNext, Poll, Assess, Interpret, Review, FactsMissing, Viable, Changed, Defer, Close,
     ExecuteExit, AdmitExit, ExitNotReady, ExitChanged, ExitHeld, PlanExit, SendExit,
     SendExitHolds, AnswerExit, RetryDue, storeVars
<1>2. 1 \in Revision /\ {"closed", "pending", "context", "assessing"} \subseteq EventState
  BY DEF Revision, EventState
<1>3. ASSUME NEW s \in {"closed", "pending"}, SetEvent(rec.id, s), rec.pc # "none"
      PROVE  event' \in Events
  BY <1>2, <1>3, EventSet DEF SetEvent, EventTypes, RecoveryTypes
<1>4. CASE Poll
  <2>1. Walked \in Events
    BY WalkedType DEF EventTypes
  <2>2. \A m \in Message : \A s \in {"context", "assessing"} : [Walked EXCEPT ![m][1] = s] \in Events
    BY <1>2, <2>1, EventSet
  <2> DEFINE f == FirstDue(Walked)
  <2>3. f # 0 => f \in Message
    BY FirstDueIsMessage
  <2>4. \/ event' = Walked
        \/ f # 0 /\ \E s \in {"context", "assessing"} : event' = [Walked EXCEPT ![f][1] = s]
    BY <1>4 DEF Poll
  <2> HIDE DEF f
  <2>5. event' \in Events
    BY <2>1, <2>2, <2>3, <2>4
  <2> QED
    BY <1>1, <2>5 DEF EventTypes
<1>5. CASE Assess
  BY <1>1, <1>3, <1>5
  DEF Assess, Interpret, Review, FactsMissing, Viable, Changed, Defer, Close, storeVars, EventTypes
<1>6. CASE ExecuteExit
  BY <1>1, <1>3, <1>6
  DEF ExecuteExit, AdmitExit, ExitNotReady, ExitChanged, ExitHeld, PlanExit, SendExit,
      SendExitHolds, AnswerExit, Defer, Close, storeVars, EventTypes
<1>7. ASSUME NEW m \in Message, RetryDue(m)
      PROVE  EventTypes'
  BY <1>7 DEF RetryDue, storeVars, EventTypes
<1> QED
  BY <1>4, <1>5, <1>6, <1>7 DEF RecoveryNext

LEMMA StepKeepsEvents ==
  ASSUME EventTypes, QueueTypes, RecoveryTypes, Known, [Next]_vars
  PROVE  EventTypes'
<1>1. CASE UNCHANGED <<event, kind, generation, attempt>>
  BY <1>1 DEF EventTypes
<1>2. CASE Crash \/ Stop
  <2>1. event' \in Events
    BY <1>2, RestartEvents DEF Crash, Stop, EventTypes
  <2>2. UNCHANGED <<kind, generation>>
    BY <1>2 DEF Crash, Stop, Restart
  <2>3. attempt' \in [Message -> {"none", "evaluating", "accepted", "finished", "interrupted"}]
    BY <1>2 DEF Crash, Stop, EventTypes
  <2> QED
    BY <2>1, <2>2, <2>3 DEF EventTypes
<1>3. ASSUME Reconcile \/ Age
      PROVE  UNCHANGED <<event, kind, generation, attempt>>
  BY <1>3 DEF Reconcile, Age, storeVars
<1> QED
  BY <1>1, <1>2, <1>3, HandleKeepsEvents, DeliverKeepsEvents, RecoveryKeepsEvents
  DEF Next, EvaluationNext, vars, engineVars, storeVars
LEMMA HandleKeepsQueue ==
  ASSUME EventTypes, QueueTypes, Handle
  PROVE  queue' \in Seq(Delivery) /\ lock' \in {"free", "live", "recovery"}
<1>1. ASSUME NEW d \in {queue[i] : i \in 1 .. Len(queue)},
             TakeContext(d) \/ TakeHeld(d) \/ TakeEvaluation(d)
      PROVE  queue' \in Seq(Delivery) /\ UNCHANGED lock
  <2>1. \E s \in EventState \union {""} : Take(d, s)
    BY <1>1 DEF TakeContext, TakeHeld, TakeEvaluation, EventState
  <2>2. queue' \in Seq(Delivery)
    BY <2>1, TakeKeepsEvents DEF EventTypes
  <2> QED
    BY <1>1, <2>2 DEF TakeContext, TakeHeld, TakeEvaluation
<1>2. ASSUME NEW m \in Message, Interpreted(m) \/ InterpretFails(m) \/ Execute(m)
      PROVE  UNCHANGED queue /\ (UNCHANGED lock \/ lock' \in {"free", "live"})
  BY <1>2 DEF Interpreted, InterpretFails, Finish, Execute, Admit, AdmitNothing, Plan, PlanHolds,
     Send, SendHolds, Answer
<1> QED
  BY <1>1, <1>2 DEF Handle, QueueTypes

LEMMA StepKeepsQueue ==
  ASSUME EventTypes, QueueTypes, RecoveryTypes, Known, [Next]_vars
  PROVE  QueueTypes'
<1>1. CASE UNCHANGED <<queue, lock, aged, sessions>>
  BY <1>1 DEF QueueTypes
<1>2. ASSUME Connect \/ GatewayRestart
      PROVE  sessions' \in 0 .. MaxSession
  BY <1>2, GatewayAssumption DEF Connect, GatewayRestart, QueueTypes
<1>3. ASSUME GatewayNext
      PROVE  Connect \/ UNCHANGED sessions
  BY <1>3 DEF GatewayNext, Post, Edit, Delete, Disconnect, FetchHistory, LoadHistory, BecomeReady
<1>4. CASE GatewayNext /\ UNCHANGED engineVars
  BY <1>2, <1>3, <1>4 DEF QueueTypes, engineVars, taskVars
<1>5. CASE Deliver
  BY <1>5, DeliverKeepsEvents DEF Deliver, QueueTypes
<1>6. CASE Handle /\ UNCHANGED <<gatewayVars, aged>>
  BY <1>6, HandleKeepsQueue DEF QueueTypes, gatewayVars
<1>7. CASE Age /\ UNCHANGED gatewayVars
  <2>1. aged' \in Message
    BY <1>7, PostedIsNumber, GatewayAssumption DEF Age, QueueTypes, Message
  <2> QED
    BY <1>7, <2>1 DEF QueueTypes, Age, taskVars, gatewayVars
<1>8. CASE RecoveryNext
  <2>1. UNCHANGED <<queue, aged, sessions>> /\ (UNCHANGED lock \/ lock' \in {"free", "recovery"})
    BY <1>8 DEF RecoveryNext, Poll, Assess, Interpret, Review, FactsMissing, Viable, Changed, Defer,
       Close, ExecuteExit, AdmitExit, ExitNotReady, ExitChanged, ExitHeld, PlanExit, SendExit,
       SendExitHolds, AnswerExit, RetryDue, taskVars, gatewayVars
  <2> QED
    BY <2>1 DEF QueueTypes
<1>9. CASE Restart
  <2>1. queue' = <<>> /\ lock' = "free" /\ UNCHANGED aged /\ GatewayRestart
    BY <1>9 DEF Restart
  <2> QED
    BY <1>2, <2>1 DEF QueueTypes
<1>10. ASSUME Reconcile, UNCHANGED <<gatewayVars, aged>>
       PROVE  UNCHANGED <<queue, lock, aged, sessions>>
  BY <1>10 DEF Reconcile, taskVars, gatewayVars
<1> QED
  BY <1>1, <1>4, <1>5, <1>6, <1>7, <1>8, <1>9, <1>10
  DEF Next, EvaluationNext, Crash, Stop, vars, gatewayVars, engineVars, taskVars

LEMMA NoAssessmentType == NoAssessment \in Assessment /\ NoAssessment.pc = "none"
<1>1. <<>> \in Seq(Revision \union {0})
  OBVIOUS
<1> QED
  BY <1>1 DEF NoAssessment, Assessment

\* The messages around one, as a sequence.
LEMMA ContextType ==
  ASSUME Known, NEW m
  PROVE  Context(m) \in Seq(Revision \union {0})
<1> DEFINE R == Revision \union {0}
<1>1. \A n \in 1 .. MaxMessage : (IF n = m THEN 0 ELSE row[n]) \in R
  BY DEF Known, Message
<1>2. MaxMessage \in Nat
  BY GatewayAssumption
<1> HIDE DEF R
<1>3. [n \in 1 .. MaxMessage |-> IF n = m THEN 0 ELSE row[n]] \in Seq(R)
  BY <1>1, <1>2
<1> QED
  BY <1>3 DEF Context, Message, R

\* An assessment that moves on keeps its message.
LEMMA RecMoves ==
  ASSUME RecoveryTypes, UNCHANGED <<deferred, retry, scanned, swept>>,
         NEW p \in {"assessing", "waiting", "planning", "review", "sent"},
         rec.pc # "none", rec' = [rec EXCEPT !.pc = p]
  PROVE  RecoveryTypes'
<1>1. rec' \in Assessment /\ rec'.id = rec.id
  BY DEF RecoveryTypes, Assessment
<1> QED
  BY <1>1 DEF RecoveryTypes

\* An assessment that ends may be kept for a retry.
LEMMA RecEnds ==
  ASSUME RecoveryTypes, rec.pc # "none", rec' = NoAssessment, UNCHANGED <<scanned, swept>>,
         \/ UNCHANGED deferred
         \/ deferred' = [deferred EXCEPT ![rec.id] = NoAssessment]
         \/ deferred' = [deferred EXCEPT ![rec.id] = [rec EXCEPT !.pc = "waiting"]],
         UNCHANGED retry \/ retry' = retry \union {rec.id}
  PROVE  RecoveryTypes'
<1> DEFINE kept == [rec EXCEPT !.pc = "waiting"]
<1>1. kept \in Assessment /\ kept.pc = "waiting" /\ kept.id = rec.id
  BY DEF RecoveryTypes, Assessment
<1>2. NoAssessment \in Assessment /\ NoAssessment.pc = "none"
  BY NoAssessmentType
<1>3. rec.id \in Message
  BY DEF RecoveryTypes
<1> HIDE DEF kept
<1>4. \/ UNCHANGED deferred
      \/ deferred' = [deferred EXCEPT ![rec.id] = NoAssessment]
      \/ deferred' = [deferred EXCEPT ![rec.id] = kept]
  BY DEF kept
<1>5. /\ deferred' \in [Message -> Assessment]
      /\ \A m \in Message : /\ deferred'[m].pc \in {"none", "waiting"}
                            /\ deferred'[m].pc # "none" => deferred'[m].id = m
  BY <1>1, <1>2, <1>3, <1>4 DEF RecoveryTypes
<1>6. retry' \subseteq Message
  BY <1>3 DEF RecoveryTypes
<1> QED
  BY <1>2, <1>5, <1>6 DEF RecoveryTypes

LEMMA PollKeepsRecovery ==
  ASSUME RecoveryTypes, EventTypes, BookTypes, Poll
  PROVE  RecoveryTypes'
<1> DEFINE m == FirstDue(Walked)
<1>1. PICK f : f = m
  OBVIOUS
<1> HIDE DEF m
<1>2. f # 0 => f \in Message
  BY <1>1, FirstDueIsMessage DEF m
<1>3. scanned' = TRUE /\ swept' \in Nat \union {-1} /\ UNCHANGED retry
  BY DEF Poll, BookTypes
<1>4. \/ UNCHANGED <<rec, deferred>>
      \/ /\ f # 0 /\ UNCHANGED deferred
         /\ rec' = [NoAssessment EXCEPT !.pc = "interpreting", !.id = f, !.kind = kind[f],
                                        !.position = position]
      \/ /\ f # 0 /\ deferred[f].pc # "none"
         /\ rec' = [deferred[f] EXCEPT !.kind = kind[f]]
         /\ deferred' = [deferred EXCEPT ![f] = NoAssessment]
  BY <1>1 DEF Poll, m
<1>5. CASE UNCHANGED <<rec, deferred>>
  BY <1>3, <1>5 DEF RecoveryTypes
<1>6. CASE /\ f # 0 /\ UNCHANGED deferred
           /\ rec' = [NoAssessment EXCEPT !.pc = "interpreting", !.id = f, !.kind = kind[f],
                                          !.position = position]
  <2>1. f \in Message /\ kind[f] \in {"none", "live", "baseline"} /\ position \in Nat
    BY <1>2, <1>6 DEF EventTypes, BookTypes
  <2>2. rec' \in Assessment /\ rec'.id = f
    BY <1>6, <2>1, NoAssessmentType DEF Assessment
  <2> QED
    BY <1>3, <1>6, <2>1, <2>2 DEF RecoveryTypes
<1>7. CASE /\ f # 0 /\ deferred[f].pc # "none"
           /\ rec' = [deferred[f] EXCEPT !.kind = kind[f]]
           /\ deferred' = [deferred EXCEPT ![f] = NoAssessment]
  <2>1. /\ f \in Message /\ kind[f] \in {"none", "live", "baseline"}
        /\ deferred[f] \in Assessment /\ deferred[f].id = f
    BY <1>2, <1>7 DEF EventTypes, RecoveryTypes
  <2>2. rec' \in Assessment /\ rec'.id = f
    BY <1>7, <2>1 DEF Assessment
  <2>3. /\ deferred' \in [Message -> Assessment]
        /\ \A n \in Message : /\ deferred'[n].pc \in {"none", "waiting"}
                              /\ deferred'[n].pc # "none" => deferred'[n].id = n
    BY <1>7, <2>1, NoAssessmentType DEF RecoveryTypes
  <2> QED
    BY <1>3, <2>1, <2>2, <2>3 DEF RecoveryTypes
<1> QED
  BY <1>4, <1>5, <1>6, <1>7

LEMMA AssessKeepsRecovery ==
  ASSUME RecoveryTypes, Known, Assess
  PROVE  RecoveryTypes'
<1>1. CASE Interpret
  <2>1. Context(rec.id) \in Seq(Revision \union {0})
    BY ContextType
  <2>2. PICK c \in Seq(Revision \union {0}) : rec' = [rec EXCEPT !.pc = "assessing", !.context = c]
    BY <1>1, <2>1 DEF Interpret
  <2>3. rec' \in Assessment /\ rec'.id = rec.id
    BY <2>2 DEF RecoveryTypes, Assessment
  <2> QED
    BY <1>1, <2>3 DEF Interpret, RecoveryTypes
<1>2. CASE Review \/ FactsMissing \/ Changed
  <2>1. /\ rec.pc # "none" /\ rec' = NoAssessment /\ UNCHANGED <<scanned, swept, deferred>>
        /\ UNCHANGED retry \/ retry' = retry \union {rec.id}
    BY <1>2 DEF Review, FactsMissing, Changed, Defer, Close
  <2> QED
    BY <2>1, RecEnds
<1>3. CASE Viable
  BY <1>3, RecMoves DEF Viable
<1> QED
  BY <1>1, <1>2, <1>3 DEF Assess

LEMMA ExecuteExitKeepsRecovery ==
  ASSUME RecoveryTypes, ExecuteExit
  PROVE  RecoveryTypes'
<1>1. CASE AdmitExit
  BY <1>1, RecMoves DEF AdmitExit
<1>2. CASE PlanExit
  BY <1>2, RecMoves DEF PlanExit
<1>3. CASE SendExit
  BY <1>3, RecMoves DEF SendExit
<1>4. CASE ExitNotReady \/ ExitChanged
  <2>1. /\ rec.pc # "none" /\ rec' = NoAssessment /\ UNCHANGED <<scanned, swept>>
        /\ \/ deferred' = [deferred EXCEPT ![rec.id] = NoAssessment]
           \/ deferred' = [deferred EXCEPT ![rec.id] = [rec EXCEPT !.pc = "waiting"]]
        /\ retry' = retry \union {rec.id}
    BY <1>4 DEF ExitNotReady, ExitChanged, Defer, Close
  <2> QED
    BY <2>1, RecEnds
<1>5. CASE ExitHeld \/ SendExitHolds \/ AnswerExit
  <2>1. /\ rec.pc # "none" /\ rec' = NoAssessment /\ UNCHANGED <<scanned, swept, deferred, retry>>
    BY <1>5 DEF ExitHeld, SendExitHolds, AnswerExit, Close
  <2> QED
    BY <2>1, RecEnds
<1> QED
  BY <1>1, <1>2, <1>3, <1>4, <1>5 DEF ExecuteExit

LEMMA StepKeepsRecovery ==
  ASSUME RecoveryTypes, EventTypes, BookTypes, Known, [Next]_vars
  PROVE  RecoveryTypes'
<1>1. CASE UNCHANGED recoveryVars
  BY <1>1 DEF RecoveryTypes, recoveryVars
<1>2. CASE Restart
  <2>1. /\ rec' = NoAssessment /\ deferred' = [m \in Message |-> NoAssessment]
        /\ retry' = {} /\ scanned' = FALSE /\ swept' = -1
    BY <1>2 DEF Restart
  <2> QED
    BY <2>1, NoAssessmentType DEF RecoveryTypes
<1>3. ASSUME NEW m \in Message, RetryDue(m)
      PROVE  RecoveryTypes'
  BY <1>3 DEF RetryDue, RecoveryTypes
<1> QED
  BY <1>1, <1>2, <1>3, PollKeepsRecovery, AssessKeepsRecovery, ExecuteExitKeepsRecovery
  DEF Next, RecoveryNext, Crash, Stop, vars

LEMMA StepKeepsTypes ==
  ASSUME Types, Known, BookTypes, BookTypes', [Next]_vars
  PROVE  Types'
BY StepKeepsTasks, StepKeepsEvents, StepKeepsQueue, StepKeepsRecovery DEF Types

LEMMA TypesInit == Init => Types
<1> SUFFICES ASSUME GatewayInit, EvaluationInit, RecoveryInit
             PROVE  Types
  BY DEF Init
<1>1. TaskTypes
  BY IdleIsWork DEF EvaluationInit, TaskTypes, AtWork
<1>2. EventTypes
  BY DEF EvaluationInit, EventTypes, Events, EventState
<1>3. QueueTypes
  <2>1. sessions \in 0 .. MaxSession
    BY GatewayAssumption DEF GatewayInit
  <2>2. queue = <<>> /\ lock = "free" /\ aged = 0
    BY DEF EvaluationInit
  <2> QED
    BY <2>1, <2>2 DEF QueueTypes
<1>4. RecoveryTypes
  BY NoAssessmentType DEF RecoveryInit, RecoveryTypes
<1> QED
  BY <1>1, <1>2, <1>3, <1>4 DEF Types
-----------------------------------------------------------------------------
(* Whose turn it is, step by step. *)

LEMMA SameTurn ==
  ASSUME Turn, UNCHANGED <<task, lock, rec, orders>>
  PROVE  Turn'
BY DEF Turn, LiveTurn, RecoveryTurn, UnderWay, NothingUnresolved, OrderNumber

\* Nobody is at work.
LEMMA NobodysTurn ==
  ASSUME \A m \in Message : task'[m].pc \notin AtWork, rec'.pc \notin AtWork
  PROVE  Turn'
BY DEF Turn, LiveTurn, RecoveryTurn

\* While the lock is free, or the other's, one is not at work.
LEMMA LockTells ==
  ASSUME Turn
  PROVE  /\ lock # "live" => \A m \in Message : task[m].pc \notin AtWork
         /\ lock # "recovery" => rec.pc \notin AtWork
BY DEF Turn, LiveTurn, RecoveryTurn

\* An evaluation that does not hold the lock moves.
LEMMA StandsBack ==
  ASSUME Turn, NEW m \in Message, NEW p, p \notin AtWork, Moved(m, p),
         UNCHANGED <<lock, rec, orders>>
  PROVE  Turn'
<1>1. \A n \in Message : task'[n].pc \in AtWork => task[n].pc \in AtWork /\ task'[n] = task[n]
  BY DEF Moved
<1>2. LiveTurn'
  BY <1>1 DEF Turn, LiveTurn, UnderWay, OrderNumber
<1>3. RecoveryTurn'
  BY DEF Turn, RecoveryTurn, UnderWay, NothingUnresolved, OrderNumber
<1> QED
  BY <1>2, <1>3 DEF Turn

\* The one at work is done, or another finds it must not begin.
LEMMA WorkEnds ==
  ASSUME Turn, NEW m \in Message, task[m].pc \in AtWork, Moved(m, "idle"), UNCHANGED rec
  PROVE  Turn'
<1>1. lock = "live" /\ \A n \in Message : task[n].pc \in AtWork => n = m
  BY DEF Turn, LiveTurn
<1>2. rec.pc \notin AtWork
  BY <1>1, LockTells
<1>3. \A n \in Message : task'[n].pc \notin AtWork
  BY <1>1 DEF Moved, AtWork
<1> QED
  BY <1>2, <1>3, NobodysTurn

\* Store.reserve leaves an order under way.
LEMMA ReserveUnderWay ==
  ASSUME BookTypes, NEW m, NEW action, Reserve(m, action)
  PROVE  UnderWay(m)'
<1>1. PICK q : orders' = Append(orders, [id |-> m, action |-> action, qty |-> q, filled |-> 0,
                                         after |-> Posted, status |-> "submitting"])
  BY DEF Reserve
<1> DEFINE o == [id |-> m, action |-> action, qty |-> q, filled |-> 0,
                 after |-> Posted, status |-> "submitting"]
<1>2. o.id = m /\ o.status = "submitting"
  OBVIOUS
<1> HIDE DEF o
<1>3. orders \in Seq(Order \union {o})
  BY DEF BookTypes
<1>4. orders' = Append(orders, o)
  BY <1>1 DEF o
<1>5. Len(orders') = Len(orders) + 1 /\ orders'[Len(orders) + 1] = o /\ Len(orders) \in Nat
  BY <1>3, <1>4
<1>6. Len(orders) + 1 \in OrderNumber'
  BY <1>5 DEF OrderNumber
<1> QED
  BY <1>2, <1>5, <1>6 DEF UnderWay

LEMMA ExecuteKeepsTurn ==
  ASSUME SInv, BookTypes', NEW m \in Message, Execute(m), UNCHANGED rec
  PROVE  Turn'
<1>1. Turn /\ TaskTypes
  BY DEF SInv, Types
<1>2. /\ Admit(m) => Moved(m, "planning")
      /\ Plan(m) => Moved(m, "review")
      /\ Send(m) => Moved(m, "sent")
      /\ AdmitNothing(m) \/ PlanHolds(m) \/ SendHolds(m) \/ Answer(m) => Moved(m, "idle")
  <2>1. Admit(m) => Moved(m, "planning")
    BY <1>1, StepMoves DEF Admit
  <2>2. Send(m) => Moved(m, "sent")
    <3>1. Send(m) => task[m].action # "NONE" /\ task' = [task EXCEPT ![m].pc = "sent"]
      BY <1>1, TaskFields DEF Send, AtWork
    <3> QED
      BY <1>1, <3>1, StepMoves
  <2>3. AdmitNothing(m) \/ PlanHolds(m) \/ SendHolds(m) \/ Answer(m) => Moved(m, "idle")
    BY <1>1, Finished DEF AdmitNothing, PlanHolds, SendHolds, Answer, Finish
  <2> QED
    BY <1>1, <2>1, <2>2, <2>3, PlanMoves
<1>3. CASE Admit(m)
  <2>1. lock = "free" /\ lock' = "live" /\ UNCHANGED orders
    BY <1>3 DEF Admit
  <2>2. /\ \A n \in Message : task[n].pc \notin AtWork
        /\ rec.pc \notin AtWork
    BY <1>1, <2>1, LockTells
  <2>3. Moved(m, "planning")
    BY <1>2, <1>3
  <2>4. LiveTurn'
    BY <2>1, <2>2, <2>3 DEF LiveTurn, Moved
  <2>5. RecoveryTurn'
    BY <2>2 DEF RecoveryTurn
  <2> QED
    BY <2>4, <2>5 DEF Turn
<1>4. CASE Plan(m) \/ Send(m)
  <2>1. task[m].pc \in AtWork /\ UNCHANGED lock
    BY <1>4 DEF Plan, Send, AtWork
  <2>2. lock = "live" /\ \A n \in Message : task[n].pc \in AtWork => n = m
    BY <1>1, <2>1 DEF Turn, LiveTurn
  <2>3. UnderWay(m)'
    <3>1. CASE Plan(m)
      BY <3>1, ReserveUnderWay DEF Plan, SInv, Books
    <3>2. CASE Send(m)
      <4>1. UnderWay(m) /\ UNCHANGED orders
        BY <1>1, <3>2 DEF Send, storeVars, Turn, LiveTurn, AtWork
      <4> QED
        BY <4>1 DEF UnderWay, OrderNumber
    <3> QED
      BY <1>4, <3>1, <3>2
  <2>4. \A n \in Message : task'[n].pc \in AtWork => n = m
    BY <1>2, <1>4, <2>2 DEF Moved
  <2>5. rec.pc \notin AtWork
    BY <1>1, <2>2, LockTells
  <2>6. LiveTurn'
    BY <2>1, <2>2, <2>3, <2>4 DEF LiveTurn
  <2>7. RecoveryTurn'
    BY <2>5 DEF RecoveryTurn
  <2> QED
    BY <2>6, <2>7 DEF Turn
<1>5. CASE PlanHolds(m) \/ SendHolds(m) \/ Answer(m)
  BY <1>1, <1>2, <1>5, WorkEnds DEF PlanHolds, SendHolds, Answer, AtWork
<1>6. CASE AdmitNothing(m)
  BY <1>1, <1>2, <1>6, StandsBack DEF AdmitNothing, AtWork
<1> QED
  BY <1>3, <1>4, <1>5, <1>6 DEF Execute

LEMMA HandleKeepsTurn ==
  ASSUME SInv, BookTypes', Handle, UNCHANGED rec
  PROVE  Turn'
<1>1. Turn /\ TaskTypes /\ BookTypes /\ QueueTypes /\ EventTypes
  BY DEF SInv, Types, Books
<1>2. ASSUME NEW d \in {queue[i] : i \in 1 .. Len(queue)},
             TakeContext(d) \/ TakeHeld(d) \/ TakeEvaluation(d)
      PROVE  Turn'
  <2>1. UNCHANGED <<lock, orders>>
    BY <1>2 DEF TakeContext, TakeHeld, TakeEvaluation
  <2>2. CASE UNCHANGED task
    BY <1>1, <2>1, <2>2, SameTurn
  <2>3. CASE TakeEvaluation(d)
    <3>1. PICK m \in Message : m = d.copy.id
      BY <1>1, DeliveryTaken
    <3>2. Moved(m, "evaluating")
      BY <1>1, <2>3, <3>1, EvaluationMoves DEF EventTypes
    <3> QED
      BY <1>1, <2>1, <3>2, StandsBack DEF AtWork
  <2> QED
    BY <1>2, <2>2, <2>3 DEF TakeContext, TakeHeld
<1>3. ASSUME NEW m \in Message, Interpreted(m) \/ InterpretFails(m)
      PROVE  Turn'
  <2>1. UNCHANGED <<lock, orders>>
    BY <1>3 DEF Interpreted, InterpretFails, storeVars
  <2>2. Moved(m, "waiting") \/ Moved(m, "idle")
    BY <1>1, <1>3, InterpretedMoves, Finished DEF InterpretFails, Finish
  <2> QED
    BY <1>1, <2>1, <2>2, StandsBack DEF AtWork
<1> QED
  BY <1>2, <1>3, ExecuteKeepsTurn DEF Handle

\* A step of the recovery that leaves it idle, or beside the lock.
LEMMA RecoveryStandsBack ==
  ASSUME Turn, UNCHANGED <<task, lock, orders>>, rec'.pc \notin AtWork
  PROVE  Turn'
BY DEF Turn, LiveTurn, RecoveryTurn, UnderWay, OrderNumber

\* The recovery gives up the lock, or never had it.
LEMMA RecoveryEnds ==
  ASSUME Turn, rec.pc \in AtWork \/ lock = "free", UNCHANGED task, rec' = NoAssessment
  PROVE  Turn'
<1>1. lock # "live"
  BY DEF Turn, RecoveryTurn
<1>2. rec'.pc \notin AtWork
  BY NoAssessmentType DEF AtWork
<1> QED
  BY <1>1, <1>2, LockTells, NobodysTurn

LEMMA ExecuteExitKeepsTurn ==
  ASSUME SInv, ExecuteExit
  PROVE  Turn'
<1>1. Turn /\ rec \in Assessment
  BY DEF SInv, Types, RecoveryTypes
<1>2. CASE AdmitExit
  <2>1. /\ lock = "free" /\ lock' = "recovery" /\ NothingUnresolved
        /\ UNCHANGED <<task, orders>> /\ rec' = [rec EXCEPT !.pc = "planning"]
    BY <1>2 DEF AdmitExit, storeVars
  <2>2. rec'.pc = "planning"
    BY <1>1, <2>1 DEF Assessment
  <2>3. \A m \in Message : task[m].pc \notin AtWork
    BY <1>1, <2>1, LockTells
  <2> QED
    BY <2>1, <2>2, <2>3 DEF Turn, LiveTurn, RecoveryTurn, NothingUnresolved, OrderNumber
<1>3. CASE PlanExit \/ SendExit
  <2>1. /\ rec.pc \in AtWork /\ UNCHANGED <<task, lock>>
        /\ rec' = [rec EXCEPT !.pc = "review"] \/ rec' = [rec EXCEPT !.pc = "sent"]
    BY <1>3 DEF PlanExit, SendExit, taskVars, AtWork
  <2>2. rec'.pc \in {"review", "sent"} /\ rec'.id = rec.id
    BY <1>1, <2>1 DEF Assessment
  <2>3. lock = "recovery"
    BY <1>1, <2>1 DEF Turn, RecoveryTurn
  <2>4. UnderWay(rec.id)'
    <3>1. CASE PlanExit
      <4>1. PICK m : m = rec.id
        OBVIOUS
      <4>2. Reserve(m, "EXIT")
        BY <3>1, <4>1 DEF PlanExit
      <4>3. UnderWay(m)'
        BY <4>2, ReserveUnderWay DEF SInv, Books
      <4> QED
        BY <2>2, <4>1, <4>3 DEF UnderWay
    <3>2. CASE SendExit
      <4>1. UnderWay(rec.id) /\ UNCHANGED orders
        BY <1>1, <3>2 DEF SendExit, storeVars, Turn, RecoveryTurn, AtWork
      <4> QED
        BY <2>2, <4>1 DEF UnderWay, OrderNumber
    <3> QED
      BY <1>3, <3>1, <3>2
  <2>5. \A m \in Message : task[m].pc \notin AtWork
    BY <1>1, <2>3, LockTells
  <2> QED
    BY <2>1, <2>2, <2>3, <2>4, <2>5 DEF Turn, LiveTurn, RecoveryTurn
<1>4. CASE ExitNotReady \/ ExitChanged \/ ExitHeld \/ SendExitHolds \/ AnswerExit
  <2>1. /\ rec.pc \in AtWork \/ lock = "free"
        /\ UNCHANGED task /\ rec' = NoAssessment
    BY <1>4 DEF ExitNotReady, ExitChanged, ExitHeld, SendExitHolds, AnswerExit, Defer, Close, AtWork
  <2> QED
    BY <1>1, <2>1, RecoveryEnds
<1> QED
  BY <1>2, <1>3, <1>4 DEF ExecuteExit

LEMMA RecoveryKeepsTurn ==
  ASSUME SInv, RecoveryNext
  PROVE  Turn'
<1>1. Turn /\ rec \in Assessment /\ \A m \in Message : deferred[m].pc \in {"none", "waiting"}
  BY DEF SInv, Types, RecoveryTypes
<1>2. CASE Poll
  <2>1. UNCHANGED <<task, lock, orders>>
    BY <1>2 DEF Poll, taskVars
  <2>2. rec'.pc \notin AtWork
    <3>1. PICK f : f = FirstDue(Walked)
      OBVIOUS
    <3>2. f # 0 => f \in Message
      BY <3>1, FirstDueIsMessage
    <3>3. \/ UNCHANGED rec
          \/ rec' = [NoAssessment EXCEPT !.pc = "interpreting", !.id = f, !.kind = kind[f],
                                         !.position = position]
          \/ f # 0 /\ rec' = [deferred[f] EXCEPT !.kind = kind[f]]
      BY <1>2, <3>1 DEF Poll
    <3>4. CASE UNCHANGED rec
      BY <1>2, <3>4 DEF Poll, AtWork
    <3>5. CASE rec' = [NoAssessment EXCEPT !.pc = "interpreting", !.id = f, !.kind = kind[f],
                                           !.position = position]
      BY <3>5 DEF NoAssessment, AtWork
    <3>6. CASE f # 0 /\ rec' = [deferred[f] EXCEPT !.kind = kind[f]]
      <4>1. deferred[f] \in Assessment /\ deferred[f].pc \in {"none", "waiting"}
        BY <3>2, <3>6 DEF SInv, Types, RecoveryTypes
      <4> QED
        BY <3>6, <4>1 DEF Assessment, AtWork
    <3> QED
      BY <3>3, <3>4, <3>5, <3>6
  <2> QED
    BY <1>1, <2>1, <2>2, RecoveryStandsBack
<1>3. CASE Assess
  <2>1. UNCHANGED <<task, lock, orders>>
    BY <1>3 DEF Assess, Interpret, Review, FactsMissing, Viable, Changed, Defer, Close, storeVars, taskVars
  <2>2. rec'.pc \notin AtWork
    BY <1>1, <1>3, NoAssessmentType
    DEF Assess, Interpret, Review, FactsMissing, Viable, Changed, Defer, Close, Assessment, AtWork
  <2> QED
    BY <1>1, <2>1, <2>2, RecoveryStandsBack
<1>4. ASSUME NEW m \in Message, RetryDue(m)
      PROVE  Turn'
  BY <1>1, <1>4, SameTurn DEF RetryDue, storeVars, taskVars
<1> QED
  BY <1>2, <1>3, <1>4, ExecuteExitKeepsTurn DEF RecoveryNext

LEMMA StepKeepsTurn ==
  ASSUME SInv, BookTypes', [Next]_vars
  PROVE  Turn'
<1>1. Turn
  BY DEF SInv
<1>2. CASE UNCHANGED <<task, lock, rec, orders>>
  BY <1>1, <1>2, SameTurn
<1>3. CASE Reconcile /\ UNCHANGED recoveryVars
  <2>1. lock = "free" /\ UNCHANGED <<task, rec>>
    BY <1>3 DEF Reconcile, taskVars, recoveryVars
  <2> QED
    BY <1>1, <2>1, LockTells, NobodysTurn
<1>4. CASE Restart
  <2>1. task' = [m \in Message |-> Idle] /\ rec' = NoAssessment
    BY <1>4 DEF Restart
  <2> QED
    BY <2>1, IdleIsWork, NoAssessmentType, NobodysTurn DEF AtWork
<1>5. CASE Handle /\ UNCHANGED recoveryVars
  BY <1>5, HandleKeepsTurn DEF recoveryVars
<1> QED
  BY <1>2, <1>3, <1>4, <1>5, RecoveryKeepsTurn
  DEF Next, EvaluationNext, Deliver, Age, Crash, Stop, vars, engineVars, storeVars, taskVars,
      recoveryVars

-----------------------------------------------------------------------------
(* The invariant, and what follows from it. *)

LEMMA SInvInit == Init => SInv
<1>1. Init => Turn
  <2> SUFFICES ASSUME EvaluationInit, RecoveryInit
               PROVE  Turn
    BY DEF Init
  <2> QED
    BY IdleIsWork, NoAssessmentType
    DEF EvaluationInit, RecoveryInit, Turn, LiveTurn, RecoveryTurn, AtWork
<1> QED
  BY <1>1, ReaderInvInit, KnownInit, TypesInit, BooksInit DEF SInv

LEMMA StepKeepsSInv ==
  ASSUME SInv, [Next]_vars
  PROVE  SInv'
<1>1. ReaderInv' /\ Known'
  BY StepKeepsReader, StepKeepsKnown DEF SInv, ReaderInv
<1>2. Books'
  BY StepKeepsBooks
<1>3. Types'
  BY <1>2, StepKeepsTypes DEF SInv, Books
<1>4. Turn'
  BY <1>2, StepKeepsTurn DEF Books
<1> QED
  BY <1>1, <1>2, <1>3, <1>4 DEF SInv

LEMMA Messages == Spec => []SInv
<1>1. SInv /\ [Next]_vars => SInv'
  BY StepKeepsSInv
<1> QED
  BY <1>1, SInvInit, PTL DEF Spec

\* Every variable keeps its type.
THEOREM SignalsTyped == Spec => []TypeOK
<1>1. SInv => TypeOK
  <2> SUFFICES ASSUME SInv
               PROVE  TypeOK
    OBVIOUS
  <2>1. inbox \in Seq(Copy)
    <3>1. KnownCopy \subseteq Copy
      BY DEF KnownCopy
    <3>2. inbox \in Seq(KnownCopy)
      BY DEF SInv, Known
    <3> HIDE DEF KnownCopy
    <3> QED
      BY <3>1, <3>2
  <2>2. \A m \in Message : task[m].pc \in {"idle", "evaluating", "waiting", "planning", "review", "sent"}
    BY DEF SInv, Types, TaskTypes, Work
  <2> QED
    BY <2>1, <2>2
    DEF SInv, TypeOK, ReaderInv, ReaderType, Known, Types, EventTypes, Events, QueueTypes,
        RecoveryTypes, Books, BookTypes
<1> QED
  BY <1>1, Messages, PTL

\* Engine.unchanged, exit_guard and Engine.plan: whatever is delivered late, evaluated slowly,
\* missed and recovered, and however often the process dies, orders are made in the order of the
\* messages they obey, and an exit, live or recovered, is never made for contracts bought after
\* its message was posted.
THEOREM DoesAsMeant == Spec => []OrdersAreMeant
<1>1. SInv => OrdersAreMeant
  BY DEF SInv, Books, OrdersAreMeant
<1> QED
  BY <1>1, Messages, PTL
=============================================================================
