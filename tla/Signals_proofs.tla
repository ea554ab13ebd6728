--------------------------- MODULE Signals_proofs ---------------------------
(***************************************************************************)
(* Proofs about the way of a message to an order (module Signals), for any *)
(* number of messages, sessions, contracts and stale messages, and         *)
(* whatever evaluators may find in a message.                              *)
(***************************************************************************)
EXTENDS Signals, SequenceTheorems, TLAPS

-----------------------------------------------------------------------------
(* One order for each message.  The invariant adds that the ledger is a      *)
(* sequence of records: rows are appended to it and changed in place, never  *)
(* removed, and no change touches the "id" that stands for the primary key.  *)

LedgerIsSequence == \E S : orders \in Seq(S)

RowsHaveIds == \A i \in OrderNumber : "id" \in DOMAIN orders[i]

LedgerInv ==
  /\ LedgerIsSequence
  /\ RowsHaveIds
  /\ OneOrderPerMessage

\* A ledger with the same ids is as good: what became of an order, or a restart, changes
\* rows in place.
LEMMA SameIdsSuffice ==
  ASSUME LedgerInv,
         NEW L, orders' = [i \in OrderNumber |-> L[i]],
         \A i \in OrderNumber : "id" \in DOMAIN L[i] /\ L[i].id = orders[i].id
  PROVE  LedgerInv'
<1>1. PICK S : orders \in Seq(S)
  BY DEF LedgerInv, LedgerIsSequence
<1>2. Len(orders) \in Nat
  BY <1>1
<1>3. orders' \in Seq({L[i] : i \in OrderNumber})
  BY <1>2 DEF OrderNumber
<1>4. Len(orders') = Len(orders)
  BY <1>2, <1>3 DEF OrderNumber
<1>5. OrderNumber' = OrderNumber
  BY <1>4 DEF OrderNumber
<1>6. LedgerIsSequence'
  BY <1>3 DEF LedgerIsSequence
<1>7. RowsHaveIds'
  BY <1>5 DEF RowsHaveIds
<1>8. OneOrderPerMessage'
  BY <1>5 DEF LedgerInv, OneOrderPerMessage
<1> QED
  BY <1>6, <1>7, <1>8 DEF LedgerInv

\* Store.reserve keeps the invariant when the message has no order yet.
LEMMA ReserveKeepsLedger ==
  ASSUME LedgerInv, NEW m, NEW action, ~HasOrder(m), Reserve(m, action)
  PROVE  LedgerInv'
<1>1. PICK S : orders \in Seq(S)
  BY DEF LedgerInv, LedgerIsSequence
<1>2. PICK q : orders' = Append(orders, [id |-> m, action |-> action, qty |-> q, filled |-> 0,
                                         after |-> Posted, status |-> "submitting"])
  BY DEF Reserve
<1> DEFINE o == [id |-> m, action |-> action, qty |-> q, filled |-> 0,
                 after |-> Posted, status |-> "submitting"]
<1>3. "id" \in DOMAIN o /\ o.id = m
  OBVIOUS
<1> HIDE DEF o
<1>4. orders \in Seq(S \union {o})
  BY <1>1
<1>5. /\ Len(orders) \in Nat
      /\ orders' \in Seq(S \union {o})
      /\ Len(orders') = Len(orders) + 1
      /\ orders'[Len(orders) + 1] = o
      /\ \A i \in OrderNumber : orders'[i] = orders[i]
  BY <1>2, <1>4 DEF OrderNumber, o
<1>6. OrderNumber' = OrderNumber \union {Len(orders) + 1}
  BY <1>5 DEF OrderNumber
<1>7. LedgerIsSequence'
  BY <1>5 DEF LedgerIsSequence
<1>8. RowsHaveIds'
  BY <1>3, <1>5, <1>6 DEF LedgerInv, RowsHaveIds
<1>9. \A i \in OrderNumber : orders[i].id # m
  BY DEF HasOrder
<1>10. OneOrderPerMessage'
  BY <1>3, <1>5, <1>6, <1>9 DEF LedgerInv, OneOrderPerMessage
<1> QED
  BY <1>7, <1>8, <1>10 DEF LedgerInv

\* What becomes of an order is written into its row.
LEMMA SetOrderKeepsLedger ==
  ASSUME LedgerInv, NEW m, NEW status, NEW filled, SetOrder(m, status, filled)
  PROVE  LedgerInv'
<1>1. PICK S : orders \in Seq(S)
  BY DEF LedgerInv, LedgerIsSequence
<1>2. PICK k : orders' = [orders EXCEPT ![k].status = status, ![k].filled = filled]
  BY DEF SetOrder
<1> DEFINE L == [orders EXCEPT ![k].status = status, ![k].filled = filled]
<1>3. DOMAIN orders = OrderNumber
  BY <1>1 DEF OrderNumber
<1>4. orders' = [i \in OrderNumber |-> L[i]]
  BY <1>2, <1>3
<1>5. \A i \in OrderNumber : "id" \in DOMAIN L[i] /\ L[i].id = orders[i].id
  BY <1>3 DEF LedgerInv, RowsHaveIds
<1> QED
  BY <1>4, <1>5, SameIdsSuffice

LEMMA OutcomeKeepsLedger ==
  ASSUME LedgerInv, NEW m, NEW status, NEW filled, Outcome(m, status, filled)
  PROVE  LedgerInv'
BY SetOrderKeepsLedger DEF Outcome

\* Store.__init__ changes the status of orders under way and nothing else.
LEMMA RestartKeepsLedger ==
  ASSUME LedgerInv, Restart
  PROVE  LedgerInv'
<1> DEFINE L == [i \in OrderNumber |->
                   IF orders[i].status = "submitting"
                   THEN [orders[i] EXCEPT !.status = "unknown"] ELSE orders[i]]
<1>1. orders' = [i \in OrderNumber |-> L[i]]
  BY DEF Restart
<1>2. \A i \in OrderNumber : "id" \in DOMAIN L[i] /\ L[i].id = orders[i].id
  BY DEF LedgerInv, RowsHaveIds
<1> QED
  BY <1>1, <1>2, SameIdsSuffice

LEMMA SameOrdersKeepLedger ==
  ASSUME LedgerInv, UNCHANGED orders
  PROVE  LedgerInv'
BY DEF LedgerInv, LedgerIsSequence, RowsHaveIds, OneOrderPerMessage, OrderNumber

\* Engine.handle in its steps.
LEMMA ExecuteKeepsLedger ==
  ASSUME LedgerInv, NEW m \in Message, Execute(m)
  PROVE  LedgerInv'
<1>1. CASE Admit(m)
  BY <1>1, SameOrdersKeepLedger DEF Admit
<1>2. CASE AdmitNothing(m)
  BY <1>2, SameOrdersKeepLedger DEF AdmitNothing
<1>3. CASE Plan(m)
  BY <1>3, ReserveKeepsLedger DEF Plan, Unreserved
<1>4. CASE PlanHolds(m)
  BY <1>4, SameOrdersKeepLedger DEF PlanHolds
<1>5. CASE Send(m)
  BY <1>5, SameOrdersKeepLedger DEF Send, storeVars
<1>6. CASE SendHolds(m)
  BY <1>6, SetOrderKeepsLedger DEF SendHolds
<1>7. CASE Answer(m)
  BY <1>7, OutcomeKeepsLedger DEF Answer
<1> QED
  BY <1>1, <1>2, <1>3, <1>4, <1>5, <1>6, <1>7 DEF Execute

LEMMA EvaluationKeepsLedger ==
  ASSUME LedgerInv, EvaluationNext
  PROVE  LedgerInv'
<1>1. CASE Deliver
  BY <1>1, SameOrdersKeepLedger DEF Deliver
<1>2. ASSUME NEW d, TakeContext(d) \/ TakeHeld(d) \/ TakeEvaluation(d)
      PROVE  LedgerInv'
  BY <1>2, SameOrdersKeepLedger DEF TakeContext, TakeHeld, TakeEvaluation
<1>3. ASSUME NEW m \in Message, Interpreted(m) \/ InterpretFails(m)
      PROVE  LedgerInv'
  BY <1>3, SameOrdersKeepLedger DEF Interpreted, InterpretFails, storeVars
<1>4. CASE Handle
  BY <1>2, <1>3, <1>4, ExecuteKeepsLedger DEF Handle
<1>5. CASE Reconcile
  BY <1>5, OutcomeKeepsLedger DEF Reconcile
<1>6. CASE Age
  BY <1>6, SameOrdersKeepLedger DEF Age, storeVars
<1> QED
  BY <1>1, <1>4, <1>5, <1>6 DEF EvaluationNext

\* RecoveryEvaluator in its steps.
LEMMA RecoveryKeepsLedger ==
  ASSUME LedgerInv, RecoveryNext
  PROVE  LedgerInv'
<1>1. CASE Poll
  BY <1>1, SameOrdersKeepLedger DEF Poll
<1>2. CASE Assess
  BY <1>2, SameOrdersKeepLedger
  DEF Assess, Interpret, Review, FactsMissing, Viable, Changed, storeVars
<1>3. CASE ExecuteExit
  <2>1. CASE AdmitExit
    BY <2>1, SameOrdersKeepLedger DEF AdmitExit, storeVars
  <2>2. CASE ExitNotReady \/ ExitChanged \/ ExitHeld
    BY <2>2, SameOrdersKeepLedger DEF ExitNotReady, ExitChanged, ExitHeld
  <2>3. CASE PlanExit
    BY <2>3, ReserveKeepsLedger DEF PlanExit, Unreserved
  <2>4. CASE SendExit
    BY <2>4, SameOrdersKeepLedger DEF SendExit, storeVars
  <2>5. CASE SendExitHolds
    BY <2>5, SetOrderKeepsLedger DEF SendExitHolds
  <2>6. CASE AnswerExit
    BY <2>6, OutcomeKeepsLedger DEF AnswerExit
  <2> QED
    BY <1>3, <2>1, <2>2, <2>3, <2>4, <2>5, <2>6 DEF ExecuteExit
<1>4. ASSUME NEW m \in Message, RetryDue(m)
      PROVE  LedgerInv'
  BY <1>4, SameOrdersKeepLedger DEF RetryDue, storeVars
<1> QED
  BY <1>1, <1>2, <1>3, <1>4 DEF RecoveryNext

LEMMA StepKeepsLedger ==
  ASSUME LedgerInv, [Next]_vars
  PROVE  LedgerInv'
<1>1. CASE GatewayNext /\ UNCHANGED <<engineVars, recoveryVars>>
  BY <1>1, SameOrdersKeepLedger DEF engineVars, storeVars
<1>2. CASE Crash \/ Stop
  BY <1>2, RestartKeepsLedger DEF Crash, Stop
<1>3. CASE UNCHANGED vars
  BY <1>3, SameOrdersKeepLedger DEF vars, engineVars, storeVars
<1> QED
  BY <1>1, <1>2, <1>3, EvaluationKeepsLedger, RecoveryKeepsLedger DEF Next

LEMMA LedgerInvInit == Init => LedgerInv
<1> SUFFICES ASSUME orders = <<>>
             PROVE  LedgerInv
  BY DEF Init, EvaluationInit
<1>1. orders \in Seq({}) /\ OrderNumber = {}
  BY DEF OrderNumber
<1> QED
  BY <1>1 DEF LedgerInv, LedgerIsSequence, RowsHaveIds, OneOrderPerMessage

\* client_order_id: whatever is delivered again, evaluated, missed, recovered or
\* interrupted, and however often the process dies, a message moves money once.
THEOREM MovesMoneyOnce == Spec => []OneOrderPerMessage
<1>1. LedgerInv => OneOrderPerMessage
  BY DEF LedgerInv
<1>2. LedgerInv /\ [Next]_vars => LedgerInv'
  BY StepKeepsLedger
<1> QED
  BY <1>1, <1>2, LedgerInvInit, PTL DEF Spec

-----------------------------------------------------------------------------
(* What the reader vouches for.  The invariant relates the cache, the        *)
(* session and the page of history to what Discord shows.                    *)

ReaderType ==
  /\ source \in [Message -> {"none", "original", "edited", "deleted"}]
  /\ link \in BOOLEAN /\ ready \in BOOLEAN
  /\ page \in Page
  /\ cache \in [Message -> Cached]

\* Nothing counts, and no page is there, without a session.
SessionHeld ==
  ~link => /\ ~ready
           /\ page.state = "none"
           /\ \A m \in Message : ~cache[m].candidate

\* What counts is a record.
CandidatesKnown ==
  \A m \in Message : cache[m].valid \/ cache[m].candidate => cache[m].rev # 0

\* The records that become candidates with the page are history.
PageIsHistory ==
  page.state = "loaded" /\ ~ready
    => \A m \in Message : page.rev[m] # 0 => cache[m].kind # "live"

\* A live candidate is what Discord shows.
LiveIsShown ==
  \A m \in Message : cache[m].candidate /\ cache[m].kind = "live" => source[m] = "original"

ReaderInv ==
  /\ ReaderType
  /\ SessionHeld
  /\ CandidatesKnown
  /\ PageIsHistory
  /\ LiveIsShown

\* An observation keeps the records apart from the one it replaces.
LEMMA ObserveRecords ==
  ASSUME ReaderType, NEW copy, copy.rev \in Revision, copy.kind \in {"live", "baseline"},
         NEW valid \in BOOLEAN, Observe(copy, valid)
  PROVE  /\ cache' \in [Message -> Cached]
         /\ \A n \in Message :
              \/ cache'[n] = cache[n]
              \/ n = copy.id
                 /\ cache'[n] = [rev |-> copy.rev, kind |-> copy.kind,
                                 valid |-> valid, candidate |-> valid /\ ready]
<1> DEFINE r == [rev |-> copy.rev, kind |-> copy.kind,
                 valid |-> valid, candidate |-> valid /\ ready]
<1>1. (valid /\ ready) \in BOOLEAN
  BY DEF ReaderType
<1>2. r \in Cached
  BY <1>1 DEF Cached
<1>3. cache' = [cache EXCEPT ![copy.id] = r]
  BY DEF Observe
<1> HIDE DEF r
<1>4. /\ cache' \in [Message -> Cached]
      /\ \A n \in Message : cache'[n] = cache[n] \/ (n = copy.id /\ cache'[n] = r)
  BY <1>2, <1>3 DEF ReaderType
<1> QED
  BY <1>4 DEF r

LEMMA PostKeepsReader ==
  ASSUME ReaderInv, Post
  PROVE  ReaderInv'
<1> DEFINE new == Posted + 1
<1>1. source' = [source EXCEPT ![new] = "original"]
  BY DEF Post
<1>2. UNCHANGED <<link, ready, page>>
  BY DEF Post
<1>3. /\ source' \in [Message -> {"none", "original", "edited", "deleted"}]
      /\ \A n \in Message : source'[n] = source[n] \/ source'[n] = "original"
      /\ \A n \in Message : n = new => source'[n] = "original"
  BY <1>1 DEF ReaderInv, ReaderType
<1>4. CASE ~link /\ UNCHANGED cache
  BY <1>2, <1>3, <1>4
  DEF ReaderInv, ReaderType, SessionHeld, CandidatesKnown, PageIsHistory, LiveIsShown
<1>5. CASE /\ link
           /\ Observe([id |-> new, rev |-> 1, kind |-> IF ready THEN "live" ELSE "baseline"], TRUE)
  <2> DEFINE copy == [id |-> new, rev |-> 1, kind |-> IF ready THEN "live" ELSE "baseline"]
  <2>1. /\ copy.rev \in Revision /\ copy.kind \in {"live", "baseline"}
        /\ copy.id = new /\ copy.rev = 1
        /\ copy.kind = IF ready THEN "live" ELSE "baseline"
    BY DEF Revision
  <2>2. Observe(copy, TRUE)
    BY <1>5
  <2> HIDE DEF copy
  <2>3. /\ cache' \in [Message -> Cached]
        /\ \A n \in Message :
             \/ cache'[n] = cache[n]
             \/ n = copy.id
                /\ cache'[n] = [rev |-> copy.rev, kind |-> copy.kind,
                                valid |-> TRUE, candidate |-> TRUE /\ ready]
    BY <2>1, <2>2, ObserveRecords DEF ReaderInv
  <2>4. \A n \in Message :
          \/ cache'[n] = cache[n]
          \/ /\ n = new
             /\ cache'[n].rev = 1
             /\ cache'[n].kind = IF ready THEN "live" ELSE "baseline"
    BY <2>1, <2>3
  <2> HIDE DEF new
  <2>5. ReaderType'
    BY <1>2, <1>3, <2>3 DEF ReaderInv, ReaderType
  <2>6. SessionHeld' /\ CandidatesKnown' /\ PageIsHistory'
    BY <1>2, <1>5, <2>4 DEF ReaderInv, SessionHeld, CandidatesKnown, PageIsHistory
  <2>7. LiveIsShown'
    BY <1>3, <2>4 DEF ReaderInv, LiveIsShown
  <2> QED
    BY <2>5, <2>6, <2>7 DEF ReaderInv
<1> QED
  BY <1>4, <1>5 DEF Post

LEMMA EditKeepsReader ==
  ASSUME ReaderInv, NEW m \in Message, Edit(m)
  PROVE  ReaderInv'
<1>1. source' = [source EXCEPT ![m] = "edited"] /\ UNCHANGED <<link, ready, page>>
  BY DEF Edit
<1>2. /\ source' \in [Message -> {"none", "original", "edited", "deleted"}]
      /\ \A n \in Message : n # m => source'[n] = source[n]
  BY <1>1 DEF ReaderInv, ReaderType
<1>3. CASE (~link \/ cache[m].rev = 0) /\ UNCHANGED cache
  <2>1. ~cache[m].candidate
    BY <1>3 DEF ReaderInv, SessionHeld, CandidatesKnown
  <2> QED
    BY <1>1, <1>2, <1>3, <2>1
    DEF ReaderInv, ReaderType, SessionHeld, CandidatesKnown, PageIsHistory, LiveIsShown
<1>4. CASE link /\ Observe([id |-> m, rev |-> 2, kind |-> "baseline"], FALSE)
  <2> DEFINE copy == [id |-> m, rev |-> 2, kind |-> "baseline"]
  <2>1. /\ copy.rev \in Revision /\ copy.kind \in {"live", "baseline"}
        /\ copy.id = m /\ copy.rev = 2 /\ copy.kind = "baseline"
    BY DEF Revision
  <2>2. Observe(copy, FALSE)
    BY <1>4
  <2>3. cache' = [cache EXCEPT ![m] = [rev |-> 2, kind |-> "baseline",
                                       valid |-> FALSE, candidate |-> FALSE]]
    BY <2>1, <2>2 DEF Observe
  <2>4. [rev |-> 2, kind |-> "baseline", valid |-> FALSE, candidate |-> FALSE] \in Cached
    BY DEF Cached, Revision
  <2>5. /\ cache' \in [Message -> Cached]
        /\ \A n \in Message : n # m => cache'[n] = cache[n]
        /\ cache'[m].rev = 2 /\ cache'[m].kind = "baseline" /\ ~cache'[m].candidate
    BY <2>3, <2>4 DEF ReaderInv, ReaderType
  <2> HIDE DEF copy
  <2> QED
    BY <1>1, <1>2, <1>4, <2>5
    DEF ReaderInv, ReaderType, SessionHeld, CandidatesKnown, PageIsHistory, LiveIsShown
<1> QED
  BY <1>3, <1>4 DEF Edit

LEMMA NotCachedType ==
  /\ NotCached \in Cached
  /\ NotCached.rev = 0 /\ NotCached.kind = "none" /\ ~NotCached.valid /\ ~NotCached.candidate
BY DEF NotCached, Cached

LEMMA DeleteKeepsReader ==
  ASSUME ReaderInv, NEW m \in Message, Delete(m)
  PROVE  ReaderInv'
<1>1. source' = [source EXCEPT ![m] = "deleted"] /\ UNCHANGED <<link, ready, page>>
  BY DEF Delete
<1>2. /\ source' \in [Message -> {"none", "original", "edited", "deleted"}]
      /\ \A n \in Message : n # m => source'[n] = source[n]
  BY <1>1 DEF ReaderInv, ReaderType
<1>3. /\ cache' \in [Message -> Cached]
      /\ \A n \in Message : cache'[n] = cache[n] \/ cache'[n] = NotCached
      /\ ~cache'[m].candidate
  BY NotCachedType DEF Delete, ReaderInv, ReaderType, SessionHeld
<1> QED
  BY <1>1, <1>2, <1>3, NotCachedType
  DEF ReaderInv, ReaderType, SessionHeld, CandidatesKnown, PageIsHistory, LiveIsShown

\* A session that ends takes its candidates along.
LEMMA CandidatesDropped ==
  ASSUME ReaderType, EndSession
  PROVE  /\ cache' \in [Message -> Cached]
         /\ \A n \in Message : /\ ~cache'[n].candidate
                               /\ cache'[n].valid = cache[n].valid
                               /\ cache'[n].rev = cache[n].rev
         /\ page' \in Page /\ page'.state = "none"
<1>1. \A n \in Message : [cache[n] EXCEPT !.candidate = FALSE] \in Cached
  BY DEF ReaderType, Cached
<1>2. \A n \in Message : cache[n] \in Cached
  BY DEF ReaderType
<1>3. page' \in Page /\ page'.state = "none"
  BY DEF EndSession, NoPage, Page
<1> QED
  BY <1>1, <1>2, <1>3 DEF EndSession, Cached

LEMMA SessionKeepsReader ==
  ASSUME ReaderInv, Disconnect \/ Connect
  PROVE  ReaderInv'
<1>1. UNCHANGED source /\ link' \in BOOLEAN /\ ready' = FALSE /\ EndSession
  BY DEF Disconnect, Connect, EndSession
<1> QED
  BY <1>1, CandidatesDropped
  DEF ReaderInv, ReaderType, SessionHeld, CandidatesKnown, PageIsHistory, LiveIsShown

LEMMA FetchKeepsReader ==
  ASSUME ReaderInv, FetchHistory
  PROVE  ReaderInv'
<1>1. link /\ UNCHANGED <<source, link, ready, cache>>
  BY DEF FetchHistory
<1>2. page' \in Page /\ page'.state = "fetched"
  BY DEF FetchHistory, Page, Revision
<1> QED
  BY <1>1, <1>2
  DEF ReaderInv, ReaderType, SessionHeld, CandidatesKnown, PageIsHistory, LiveIsShown

LEMMA LoadKeepsReader ==
  ASSUME ReaderInv, LoadHistory
  PROVE  ReaderInv'
<1>1. UNCHANGED <<source, link, ready>> /\ page.state = "fetched"
  BY DEF LoadHistory
<1>2. /\ page' \in Page /\ page'.state = "loaded" /\ page'.rev = page.rev
  BY DEF LoadHistory, ReaderInv, ReaderType, Page
<1>3. \A n \in Message : page.rev[n] \in Revision \union {0}
  BY DEF ReaderInv, ReaderType, Page
<1>4. /\ cache' \in [Message -> Cached]
      /\ \A n \in Message :
           \/ page.rev[n] = 0 /\ cache'[n] = cache[n]
           \/ /\ page.rev[n] # 0 /\ cache'[n].rev = page.rev[n]
              /\ cache'[n].kind = "baseline" /\ ~cache'[n].candidate
  BY <1>3 DEF LoadHistory, ReaderInv, ReaderType, Cached
<1>5. link
  BY <1>1 DEF ReaderInv, ReaderType, SessionHeld
<1> QED
  BY <1>1, <1>2, <1>4, <1>5
  DEF ReaderInv, ReaderType, SessionHeld, CandidatesKnown, PageIsHistory, LiveIsShown

LEMMA ReadyKeepsReader ==
  ASSUME ReaderInv, BecomeReady
  PROVE  ReaderInv'
<1>1. UNCHANGED <<source, link, page>> /\ page.state = "loaded" /\ ~ready /\ ready'
  BY DEF BecomeReady
<1>2. link
  BY <1>1 DEF ReaderInv, ReaderType, SessionHeld
<1>3. \A n \in Message : cache[n] \in Cached
  BY DEF ReaderInv, ReaderType
<1>4. \A n \in Message :
        /\ cache'[n] = [cache[n] EXCEPT !.candidate = page.rev[n] # 0 /\ cache[n].valid]
        /\ (page.rev[n] # 0 /\ cache[n].valid) \in BOOLEAN
  BY <1>3 DEF BecomeReady, Cached
<1>5. \A n \in Message :
        /\ cache'[n] \in Cached
        /\ cache'[n].rev = cache[n].rev
        /\ cache'[n].kind = cache[n].kind
        /\ cache'[n].valid = cache[n].valid
        /\ cache'[n].candidate = (page.rev[n] # 0 /\ cache[n].valid)
  BY <1>3, <1>4 DEF Cached
<1>6. cache' \in [Message -> Cached]
  BY <1>5 DEF BecomeReady
<1>7. ReaderType'
  BY <1>1, <1>6 DEF ReaderInv, ReaderType, BecomeReady
<1>8. LiveIsShown'
  BY <1>1, <1>5 DEF ReaderInv, PageIsHistory, LiveIsShown
<1>9. CandidatesKnown'
  BY <1>5 DEF ReaderInv, CandidatesKnown
<1> QED
  BY <1>1, <1>2, <1>7, <1>8, <1>9 DEF ReaderInv, SessionHeld, PageIsHistory

LEMMA RestartKeepsReader ==
  ASSUME ReaderInv, GatewayRestart
  PROVE  ReaderInv'
<1>1. UNCHANGED source /\ link' = FALSE /\ ready' = FALSE
  BY DEF GatewayRestart
<1>2. page' \in Page /\ page'.state = "none"
  BY DEF GatewayRestart, NoPage, Page
<1>3. cache' \in [Message -> Cached] /\ \A n \in Message : cache'[n] = NotCached
  BY NotCachedType DEF GatewayRestart
<1> QED
  BY <1>1, <1>2, <1>3, NotCachedType
  DEF ReaderInv, ReaderType, SessionHeld, CandidatesKnown, PageIsHistory, LiveIsShown

LEMMA SameReaderKept ==
  ASSUME ReaderInv, UNCHANGED <<source, link, ready, page, cache>>
  PROVE  ReaderInv'
BY DEF ReaderInv, ReaderType, SessionHeld, CandidatesKnown, PageIsHistory, LiveIsShown

\* Only the reader's own steps, and the end of the process, touch what it holds.
LEMMA StepKeepsReader ==
  ASSUME ReaderInv, [Next]_vars
  PROVE  ReaderInv'
<1>1. CASE GatewayNext
  BY <1>1, PostKeepsReader, EditKeepsReader, DeleteKeepsReader, SessionKeepsReader,
     FetchKeepsReader, LoadKeepsReader, ReadyKeepsReader DEF GatewayNext
<1>2. CASE Deliver
  BY <1>2, SameReaderKept DEF Deliver
<1>3. CASE Crash \/ Stop
  BY <1>3, RestartKeepsReader DEF Crash, Stop, Restart
<1>4. CASE UNCHANGED gatewayVars
  BY <1>4, SameReaderKept DEF gatewayVars
<1> QED
  BY <1>1, <1>2, <1>3, <1>4 DEF Next, EvaluationNext, RecoveryNext, vars

LEMMA ReaderInvInit == Init => ReaderInv
<1> SUFFICES ASSUME GatewayInit
             PROVE  ReaderInv
  BY DEF Init
<1>1. page \in Page /\ page.state = "none"
  BY DEF GatewayInit, NoPage, Page
<1> QED
  BY <1>1, NotCachedType
  DEF GatewayInit, ReaderInv, ReaderType, SessionHeld, CandidatesKnown, PageIsHistory, LiveIsShown

\* GatewayReader.verify and Engine.unchanged: a live order is sent only while its message
\* stands as it was posted, whatever sessions were torn down in between and whatever was
\* edited or deleted meanwhile.
THEOREM SentOnlyAsShown == Spec => LiveSentAsShown
<1>1. ReaderInv /\ [Next]_vars
        => [\A m \in Message : Send(m) => source[m] = "original"]_vars
  BY DEF ReaderInv, LiveIsShown, Send, Verify, Shows
<1>2. ReaderInv /\ [Next]_vars => ReaderInv'
  BY StepKeepsReader
<1> QED
  BY <1>1, <1>2, ReaderInvInit, PTL DEF Spec, LiveSentAsShown
=============================================================================
