---------------------------- MODULE Outbox_proofs ----------------------------
(* Proofs about Outbox, for any items, webhooks and bounds. *)
EXTENDS Outbox, FiniteSetTheorems, TLAPS

(* Rows are for the webhook the worker has taken up last, and that is where it sends. *)
ForTheHash ==
  /\ \A r \in outbox : r.for = meta.hash
  /\ notifier.pc # "idle" => notifier.to = meta.hash

(* What is about to be marked has arrived. *)
MarkedHasArrived ==
  notifier.pc = "mark" =>
    /\ \E r \in outbox : r.news = notifier.row
    /\ [news |-> notifier.row, at |-> meta.hash, for |-> meta.hash] \in reached

(* The generations of an issue are no more than the times there was one. *)
Counted ==
  /\ issues <= MaxIssue /\ meta.generation <= issues
  /\ issue => issues > 0
  /\ issue /\ ~meta.issue => meta.generation < issues

OutboxInv == OutboxTypeOK /\ ForTheHash /\ MarkedHasArrived /\ Counted /\ DeliveryIsTrue

-----------------------------------------------------------------------------

LEMMA OutboxBounds == /\ MaxState \in Nat /\ MaxEdit \in Nat /\ MaxIssue \in Nat
                      /\ MaxCrash \in Nat
BY OutboxAssumption

LEMMA RestIsTyped == NoNews \in News /\ Asleep \in Worker
<1>1. NoNews \in News
  BY OutboxBounds DEF NoNews, News
<1> QED
  BY <1>1 DEF Asleep, Worker

LEMMA OutboxInitInv == OutboxInit => OutboxInv
<1> SUFFICES ASSUME OutboxInit PROVE OutboxInv
  OBVIOUS
<1> USE DEF OutboxInit
<1>1. OutboxTypeOK
  <2>1. journal \in [Item -> 0 .. MaxState] /\ before \in [Item -> 0 .. MaxState]
    BY OutboxBounds
  <2>2. meta \in Meta
    BY DEF Meta
  <2>3. {edits, issues, crashes} \subseteq Nat
    OBVIOUS
  <2> QED BY <2>1, <2>2, <2>3, RestIsTyped DEF OutboxTypeOK
<1>2. ForTheHash /\ MarkedHasArrived
  BY DEF ForTheHash, MarkedHasArrived, Asleep
<1>3. Counted
  BY OutboxBounds DEF Counted
<1>4. DeliveryIsTrue
  BY DEF DeliveryIsTrue, SentHasArrived, ReachesItsWebhook
<1> QED BY <1>1, <1>2, <1>3, <1>4 DEF OutboxInv

(* What the relay, the operator and time do is nothing to the outbox. *)
LEMMA WorldInv ==
  ASSUME OutboxInv,
         \/ \E i \in Item : Change(i)
         \/ Trouble \/ EditConfig \/ AttemptDue
  PROVE  OutboxInv'
<1> USE DEF OutboxInv
<1>1. UNCHANGED <<meta, dedup, outbox, notifier, reached, crashes, before>>
  BY DEF Change, Trouble, EditConfig, AttemptDue
<1>2. (ForTheHash /\ MarkedHasArrived /\ DeliveryIsTrue)'
  BY <1>1 DEF ForTheHash, MarkedHasArrived, DeliveryIsTrue, SentHasArrived, ReachesItsWebhook
<1>3. OutboxTypeOK' /\ Counted'
  <2>1. ASSUME NEW i \in Item, Change(i) PROVE OutboxTypeOK' /\ Counted'
    BY <1>1, <2>1, OutboxBounds DEF Change, OutboxTypeOK, Counted
  <2>2. ASSUME Trouble PROVE OutboxTypeOK' /\ Counted'
    <3>1. issue \in BOOLEAN /\ issues \in Nat /\ meta.generation \in Nat
      BY DEF OutboxTypeOK, Meta
    <3>2. UNCHANGED <<webhookSaved, edits, journal, due, cooling>>
      BY <2>2 DEF Trouble
    <3>3. CASE ~issue /\ issues < MaxIssue /\ issue' = TRUE /\ issues' = issues + 1
      BY <1>1, <3>1, <3>2, <3>3, OutboxBounds DEF OutboxTypeOK, Counted
    <3>4. CASE issue /\ issue' = FALSE /\ UNCHANGED issues
      BY <1>1, <3>1, <3>2, <3>4 DEF OutboxTypeOK, Counted
    <3> QED BY <2>2, <3>3, <3>4 DEF Trouble
  <2>3. ASSUME EditConfig PROVE OutboxTypeOK' /\ Counted'
    BY <1>1, <2>3, OutboxBounds DEF EditConfig, OutboxTypeOK, Counted
  <2>4. ASSUME AttemptDue PROVE OutboxTypeOK' /\ Counted'
    <3>1. Queued \subseteq News
      BY DEF Queued, OutboxTypeOK, OutboxRow
    <3> QED
      BY <1>1, <2>4, <3>1 DEF AttemptDue, OutboxTypeOK, Counted
  <2> QED BY <2>1, <2>2, <2>3, <2>4
<1> QED BY <1>2, <1>3

(* A poll takes up the saved webhook, and drops what was for another. *)
LEMMA BeginInv ==
  ASSUME OutboxInv, PollDisabled \/ BeginPoll
  PROVE  OutboxInv'
<1> USE DEF OutboxInv
<1>1. CASE PollDisabled
  <2>1. meta' \in Meta /\ meta'.hash = meta.hash /\ meta'.issue = meta.issue
        /\ meta'.generation = meta.generation
    BY <1>1 DEF PollDisabled, OutboxTypeOK, Meta
  <2>2. UNCHANGED <<webhookSaved, edits, journal, issue, issues, dedup, outbox, due, cooling,
                    notifier, reached, crashes, before>>
    BY <1>1 DEF PollDisabled
  <2> QED
    BY <2>1, <2>2 DEF OutboxTypeOK, ForTheHash, MarkedHasArrived, Counted, DeliveryIsTrue,
                      SentHasArrived, ReachesItsWebhook
<1>2. CASE BeginPoll
  <2> DEFINE baseline == meta.hash # webhookSaved \/ ~meta.active \/ ~meta.initialized
  <2>1. /\ webhookSaved \in Webhook /\ baseline \in BOOLEAN
        /\ notifier' = [Asleep EXCEPT !.pc = "scan", !.to = webhookSaved, !.baseline = baseline]
        /\ UNCHANGED <<webhookSaved, edits, journal, issue, issues, reached, crashes>>
    BY <1>2 DEF BeginPoll, OutboxTypeOK
  <2>2. notifier' \in Worker /\ notifier'.pc = "scan" /\ notifier'.to = webhookSaved
    BY <2>1, RestIsTyped DEF Worker, Asleep
  <2>3. CASE baseline
    <3>1. dedup' = {} /\ meta' = BaselineBegun(meta) /\ Forgotten /\ before' = journal
      BY <1>2, <2>3 DEF BeginPoll
    <3>2. /\ meta' \in Meta /\ meta'.hash = webhookSaved
          /\ meta.hash = webhookSaved => meta'.issue = meta.issue
                                         /\ meta'.generation = meta.generation
          /\ meta.hash # webhookSaved => meta'.issue = FALSE /\ meta'.generation = 0
      BY <2>1, <3>1 DEF BaselineBegun, OutboxTypeOK, Meta
    <3>3. /\ outbox' \subseteq outbox /\ due' \subseteq due /\ cooling' \in BOOLEAN
          /\ \A r \in outbox' : r.for = webhookSaved
      BY <3>1 DEF Forgotten, OutboxTypeOK, ForTheHash
    <3>4. OutboxTypeOK'
      BY <2>1, <2>2, <3>1, <3>2, <3>3 DEF OutboxTypeOK
    <3>5. Counted'
      BY <2>1, <3>2, OutboxBounds DEF OutboxTypeOK, Counted, Meta
    <3>6. (ForTheHash /\ MarkedHasArrived /\ DeliveryIsTrue)'
      BY <2>1, <2>2, <3>2, <3>3 DEF ForTheHash, MarkedHasArrived, DeliveryIsTrue, SentHasArrived,
                                    ReachesItsWebhook
    <3> QED BY <3>4, <3>5, <3>6
  <2>4. CASE ~baseline
    <3>1. UNCHANGED <<dedup, meta, outbox, due, cooling, before>> /\ meta.hash = webhookSaved
      BY <1>2, <2>4 DEF BeginPoll
    <3> QED
      BY <2>1, <2>2, <3>1 DEF OutboxTypeOK, ForTheHash, MarkedHasArrived, Counted, DeliveryIsTrue,
                              SentHasArrived, ReachesItsWebhook
  <2> QED BY <2>3, <2>4
<1> QED BY <1>1, <1>2

(* What is queued, and how an issue is counted, when a scan is over. *)
LEMMA IssueCounted ==
  ASSUME OutboxInv
  PROVE  /\ NewIssue \subseteq News
         /\ Cardinality(NewIssue) \in Nat
         /\ meta.generation + Cardinality(NewIssue) <= issues
<1> USE DEF OutboxInv
<1>1. meta.generation \in Nat /\ issues \in Nat
  BY DEF OutboxTypeOK, Meta
<1>2. CASE issue /\ ~meta.issue
  <2>1. NewIssue = {[item |-> "runtime", state |-> meta.generation + 1]}
    BY <1>2 DEF NewIssue
  <2>2. [item |-> "runtime", state |-> meta.generation + 1] \in News
    BY <1>1, <1>2, OutboxBounds DEF News, Counted
  <2>3. Cardinality(NewIssue) = 1
    BY <2>1, FS_Singleton
  <2> QED BY <1>1, <1>2, <2>1, <2>2, <2>3 DEF Counted
<1>3. CASE ~(issue /\ ~meta.issue)
  <2>1. NewIssue = {}
    BY <1>3 DEF NewIssue
  <2>2. Cardinality(NewIssue) = 0
    BY <2>1, FS_EmptySet
  <2> QED BY <1>1, <2>1, <2>2 DEF Counted
<1> QED BY <1>2, <1>3

(* New rows are for the webhook of the poll, and nothing is marked by making them. *)
LEMMA QueueInv ==
  ASSUME OutboxInv, notifier.pc = "scan", NEW news \in SUBSET News, Queue(news)
  PROVE  /\ outbox' \subseteq OutboxRow /\ due' \subseteq News
         /\ \A r \in outbox' : r.for = meta.hash
         /\ \A r \in outbox' : r.state = "sent" => r \in outbox
<1> DEFINE new == {n \in news : \A r \in outbox : r.news # n}
<1>1. outbox' = outbox \union {[news |-> n, for |-> notifier.to, state |-> "pending"] : n \in new}
      /\ due' = due \union new
  BY DEF Queue
<1>2. notifier.to = meta.hash /\ notifier.to \in Webhook
  BY OutboxAssumption DEF OutboxInv, ForTheHash, OutboxTypeOK, Meta, Worker
<1>3. ASSUME NEW n \in new
      PROVE  /\ [news |-> n, for |-> notifier.to, state |-> "pending"] \in OutboxRow
             /\ [news |-> n, for |-> notifier.to, state |-> "pending"].for = meta.hash
             /\ [news |-> n, for |-> notifier.to, state |-> "pending"].state # "sent"
  BY <1>2 DEF OutboxRow
<1> QED
  BY <1>1, <1>3 DEF OutboxInv, OutboxTypeOK, ForTheHash

LEMMA ScanInv ==
  ASSUME OutboxInv, Scan \/ ScanFails
  PROVE  OutboxInv'
<1> USE DEF OutboxInv
<1> DEFINE told == IF notifier.baseline THEN {} ELSE Unknown
<1>1. Unknown \subseteq News /\ told \subseteq News
  BY OutboxBounds DEF Unknown, News
<1>2. PICK news \in SUBSET News : Queue(news)
  BY <1>1, IssueCounted DEF Scan, ScanFails
<1>3. /\ notifier.pc = "scan" /\ notifier' = [notifier EXCEPT !.pc = "flush"]
      /\ UNCHANGED <<webhookSaved, edits, journal, issue, issues, cooling, reached, crashes, before>>
  BY DEF Scan, ScanFails
<1>4. notifier' \in Worker /\ notifier'.pc = "flush" /\ notifier'.to = notifier.to
  BY <1>3 DEF OutboxTypeOK, Worker
<1>5. /\ meta' \in Meta /\ meta'.hash = meta.hash /\ meta'.issue = issue
      /\ meta'.generation = meta.generation + Cardinality(NewIssue)
  <2>1. /\ notifier.baseline \in BOOLEAN /\ issue \in BOOLEAN /\ meta \in Meta
        /\ meta.initialized \in BOOLEAN /\ meta.generation \in Nat
    BY DEF OutboxTypeOK, Worker, Meta
  <2>2. meta.generation + Cardinality(NewIssue) \in Nat
    BY <2>1, IssueCounted
  <2>3. PICK i \in BOOLEAN, g \in Nat :
          /\ meta' = [meta EXCEPT !.initialized = i, !.issue = issue, !.generation = g]
          /\ g = meta.generation + Cardinality(NewIssue)
    <3>1. (meta.initialized \/ notifier.baseline) \in BOOLEAN
      OBVIOUS
    <3>2. CASE Scan
      BY <2>2, <3>1, <3>2 DEF Scan
    <3>3. CASE ScanFails
      <4>1. meta' = [meta EXCEPT !.initialized = meta.initialized, !.issue = issue,
                                 !.generation = meta.generation + Cardinality(NewIssue)]
        BY <2>1, <3>3 DEF ScanFails, Meta
      <4> QED BY <2>1, <2>2, <4>1
    <3> QED BY <3>2, <3>3
  <2> QED BY <2>1, <2>3 DEF Meta
<1>6. dedup' \subseteq News
  BY <1>1, IssueCounted DEF Scan, ScanFails, OutboxTypeOK
<1>7. /\ outbox' \subseteq OutboxRow /\ due' \subseteq News
      /\ \A r \in outbox' : r.for = meta.hash
      /\ \A r \in outbox' : r.state = "sent" => r \in outbox
  BY <1>2, <1>3, QueueInv
<1>8. OutboxTypeOK'
  BY <1>3, <1>4, <1>5, <1>6, <1>7 DEF OutboxTypeOK
<1>9. Counted'
  BY <1>3, <1>5, IssueCounted DEF Counted
<1>10. (ForTheHash /\ MarkedHasArrived /\ DeliveryIsTrue)'
  BY <1>3, <1>4, <1>5, <1>7 DEF ForTheHash, MarkedHasArrived, DeliveryIsTrue, SentHasArrived,
                                ReachesItsWebhook
<1> QED BY <1>8, <1>9, <1>10

(* Changing the state of a row keeps what it tells, and to whom. *)
LEMMA SetRowInv ==
  ASSUME OutboxInv, NEW n \in News, NEW state \in {"pending", "blocked", "sent"},
         \E r \in outbox : r.news = n, SetRow(n, state)
  PROVE  /\ outbox' \subseteq OutboxRow
         /\ \A r \in outbox' : r.for = meta.hash
         /\ \A r \in outbox' : r \in outbox \/ (r.news = n /\ r.state = state)
<1> DEFINE row == [RowOf(n) EXCEPT !.state = state]
<1>1. RowOf(n) \in outbox /\ RowOf(n).news = n
  BY DEF RowOf
<1>2. RowOf(n) \in OutboxRow /\ RowOf(n).for = meta.hash
  BY <1>1 DEF OutboxInv, OutboxTypeOK, ForTheHash
<1>3. row \in OutboxRow /\ row.news = n /\ row.for = meta.hash /\ row.state = state
  BY <1>1, <1>2 DEF OutboxRow
<1>4. outbox' = (outbox \ {RowOf(n)}) \union {row}
  BY DEF SetRow
<1> HIDE DEF row
<1> QED
  BY <1>3, <1>4 DEF OutboxInv, OutboxTypeOK, ForTheHash

(* A message arrives at the webhook its row is for. *)
LEMMA ArrivesInv ==
  ASSUME OutboxInv, NEW n \in News, Sending(n)
  PROVE  /\ \E r \in outbox : r.news = n
         /\ meta.hash \in Webhook /\ RowOf(n).for = meta.hash /\ notifier.to = meta.hash
         /\ [news |-> n, at |-> notifier.to, for |-> RowOf(n).for]
              \in [news: News, at: Webhook, for: Webhook]
<1>1. \E r \in outbox : r.news = n
  BY DEF Sending, Queued
<1>2. RowOf(n) \in outbox /\ RowOf(n).for = meta.hash
  BY <1>1 DEF RowOf, OutboxInv, ForTheHash
<1>3. notifier.to = meta.hash /\ meta.hash \in Webhook
  BY OutboxAssumption DEF Sending, OutboxInv, OutboxTypeOK, ForTheHash, Worker, Meta
<1> QED BY <1>1, <1>2, <1>3

LEMMA DeliverInv ==
  ASSUME OutboxInv, NEW n \in News, Deliver(n)
  PROVE  OutboxInv'
<1> USE DEF OutboxInv
<1>1. UNCHANGED <<webhookSaved, edits, journal, issue, issues, meta, dedup, due, cooling, crashes,
                  before>>
  BY DEF Deliver
<1>2. Counted'
  BY <1>1 DEF Counted
<1>3. CASE notifier.pc = "flush"
  <2>1. /\ Sending(n) /\ Arrives(n) /\ UNCHANGED outbox
        /\ notifier' = [notifier EXCEPT !.pc = "mark", !.row = n]
    BY <1>3 DEF Deliver, Send
  <2>2. /\ notifier' \in Worker /\ notifier'.pc = "mark" /\ notifier'.row = n
        /\ notifier'.to = notifier.to
    BY <2>1 DEF OutboxTypeOK, Worker
  <2> DEFINE m == [news |-> n, at |-> notifier.to, for |-> RowOf(n).for]
  <2>3. /\ m \in [news: News, at: Webhook, for: Webhook] /\ m.at = m.for
        /\ m = [news |-> n, at |-> meta.hash, for |-> meta.hash]
    BY <2>1, ArrivesInv
  <2>4. reached' = reached \union {m}
    BY <2>1 DEF Arrives
  <2>5. (\E r \in outbox : r.news = n) /\ notifier.to = meta.hash
    BY <2>1, ArrivesInv
  <2> HIDE DEF m
  <2>6. OutboxTypeOK'
    BY <1>1, <2>1, <2>2, <2>3, <2>4 DEF OutboxTypeOK
  <2>7. (ForTheHash /\ MarkedHasArrived)'
    BY <1>1, <2>1, <2>2, <2>3, <2>4, <2>5 DEF ForTheHash, MarkedHasArrived
  <2>8. DeliveryIsTrue'
    BY <2>1, <2>3, <2>4 DEF DeliveryIsTrue, SentHasArrived, ReachesItsWebhook
  <2> QED BY <1>2, <2>6, <2>7, <2>8
<1>4. CASE notifier.pc = "mark"
  <2>1. /\ notifier.row = n /\ SetRow(n, "sent") /\ UNCHANGED reached
        /\ notifier' = [notifier EXCEPT !.pc = "flush", !.row = NoNews]
    BY <1>4 DEF Deliver, Send
  <2>2. notifier' \in Worker /\ notifier'.pc = "flush" /\ notifier'.to = notifier.to
    BY <2>1, RestIsTyped DEF OutboxTypeOK, Worker
  <2>3. /\ \E r \in outbox : r.news = n
        /\ [news |-> n, at |-> meta.hash, for |-> meta.hash] \in reached
    BY <1>4, <2>1 DEF MarkedHasArrived
  <2>4. /\ outbox' \subseteq OutboxRow
        /\ \A r \in outbox' : r.for = meta.hash
        /\ \A r \in outbox' : r \in outbox \/ (r.news = n /\ r.state = "sent")
    BY <2>1, <2>3, SetRowInv
  <2>5. OutboxTypeOK'
    BY <1>1, <2>1, <2>2, <2>4 DEF OutboxTypeOK
  <2>6. (ForTheHash /\ MarkedHasArrived)'
    BY <1>1, <1>4, <2>2, <2>4 DEF ForTheHash, MarkedHasArrived
  <2>7. SentHasArrived'
    BY <2>1, <2>3, <2>4 DEF DeliveryIsTrue, SentHasArrived
  <2>8. ReachesItsWebhook'
    BY <2>1 DEF DeliveryIsTrue, ReachesItsWebhook
  <2> QED BY <1>2, <2>5, <2>6, <2>7, <2>8 DEF DeliveryIsTrue
<1> QED BY <1>3, <1>4 DEF Deliver, Send

LEMMA FailInv ==
  ASSUME OutboxInv, NEW n \in News, DeliveryFails(n)
  PROVE  OutboxInv'
<1> USE DEF OutboxInv
<1>1. /\ Sending(n) /\ notifier' = Asleep /\ due' = due \ {n} /\ cooling' \in BOOLEAN
      /\ UNCHANGED <<webhookSaved, edits, journal, issue, issues, meta, dedup, crashes, before>>
  BY DEF DeliveryFails
<1>2. PICK state \in {"pending", "blocked"} : SetRow(n, state)
  BY DEF DeliveryFails
<1> DEFINE m == [news |-> n, at |-> notifier.to, for |-> RowOf(n).for]
<1>3. m \in [news: News, at: Webhook, for: Webhook] /\ m.at = m.for
  BY <1>1, ArrivesInv
<1>4. reached \subseteq reached' /\ reached' \subseteq reached \union {m}
  BY DEF DeliveryFails, Arrives
<1>5. \E r \in outbox : r.news = n
  BY <1>1, ArrivesInv
<1> HIDE DEF m
<1>6. /\ outbox' \subseteq OutboxRow
      /\ \A r \in outbox' : r.for = meta.hash
      /\ \A r \in outbox' : r \in outbox \/ (r.news = n /\ r.state = state)
  BY <1>2, <1>5, SetRowInv
<1>7. OutboxTypeOK'
  BY <1>1, <1>3, <1>4, <1>6, RestIsTyped DEF OutboxTypeOK
<1>8. (ForTheHash /\ MarkedHasArrived /\ Counted)'
  BY <1>1, <1>6 DEF ForTheHash, MarkedHasArrived, Counted, Asleep
<1>9. DeliveryIsTrue'
  BY <1>3, <1>4, <1>6 DEF DeliveryIsTrue, SentHasArrived, ReachesItsWebhook
<1> QED BY <1>7, <1>8, <1>9

LEMMA EndInv ==
  ASSUME OutboxInv, EndPoll \/ OutboxCrash
  PROVE  OutboxInv'
<1>1. /\ notifier' = Asleep /\ crashes' \in {crashes, crashes + 1}
      /\ UNCHANGED <<webhookSaved, edits, journal, issue, issues, meta, dedup, outbox, due, cooling,
                     reached, before>>
  BY DEF EndPoll, OutboxCrash
<1>2. OutboxTypeOK'
  BY <1>1, RestIsTyped DEF OutboxInv, OutboxTypeOK
<1>3. (ForTheHash /\ MarkedHasArrived /\ Counted /\ DeliveryIsTrue)'
  BY <1>1 DEF OutboxInv, ForTheHash, MarkedHasArrived, Counted, DeliveryIsTrue, SentHasArrived,
              ReachesItsWebhook, Asleep
<1> QED BY <1>2, <1>3 DEF OutboxInv

LEMMA OutboxStepInv == OutboxInv /\ [OutboxNext]_outboxVars => OutboxInv'
<1> SUFFICES ASSUME OutboxInv, [OutboxNext]_outboxVars PROVE OutboxInv'
  OBVIOUS
<1>1. CASE (\E i \in Item : Change(i)) \/ Trouble \/ EditConfig \/ AttemptDue
  BY <1>1, WorldInv
<1>2. CASE PollDisabled \/ BeginPoll
  BY <1>2, BeginInv
<1>3. CASE Scan \/ ScanFails
  BY <1>3, ScanInv
<1>4. CASE \E n \in News : Deliver(n) \/ DeliveryFails(n)
  BY <1>4, DeliverInv, FailInv
<1>5. CASE EndPoll \/ OutboxCrash
  BY <1>5, EndInv
<1>6. CASE UNCHANGED outboxVars
  BY <1>6 DEF outboxVars, OutboxInv, OutboxTypeOK, ForTheHash, MarkedHasArrived, Counted,
              DeliveryIsTrue, SentHasArrived, ReachesItsWebhook
<1> QED BY <1>1, <1>2, <1>3, <1>4, <1>5, <1>6 DEF OutboxNext, OutboxPoll

(* Everything the worker keeps has its type; the generation of an issue stays below the      *)
(* number of issues, so that what tells one is within bounds.                                *)
THEOREM OutboxTypes == OutboxSpec => []OutboxTypeOK
<1>1. OutboxInv => OutboxTypeOK
  BY DEF OutboxInv
<1> QED BY OutboxInitInv, OutboxStepInv, <1>1, PTL DEF OutboxSpec

(* _flush and poll: whatever crashes come between a delivery and its record, and however     *)
(* often the webhook is changed, a row that is called sent has arrived, and nothing arrives  *)
(* at another webhook than the one it was queued for.                                        *)
THEOREM RecordsAreTrue == OutboxSpec => []DeliveryIsTrue
<1>1. OutboxInv => DeliveryIsTrue
  BY DEF OutboxInv
<1> QED BY OutboxInitInv, OutboxStepInv, <1>1, PTL DEF OutboxSpec

-----------------------------------------------------------------------------
(* The baseline. *)

(* A baseline that was made knows every state an item had when it began, if the item is still in
   it: the ledger only goes on. *)
Baselined ==
  /\ \A i \in Item : before[i] <= journal[i]
  /\ meta.initialized => \A i \in Item : journal[i] = before[i] /\ journal[i] > 0 =>
                           [item |-> i, state |-> journal[i]] \in dedup
  /\ notifier.pc = "scan" /\ ~notifier.baseline => meta.initialized

(* What a step adds to the outbox. *)
OnlyNews ==
  \A r \in outbox' : r.news.item \in Item /\ (\A q \in outbox : q.news # r.news)
                       => r.news.state > before[r.news.item]

NothingNew == \A r \in outbox' : \E q \in outbox : q.news = r.news

LEMMA NothingNewIsSilent == NothingNew => OnlyNews
BY DEF NothingNew, OnlyNews

LEMMA BaselinedInit == OutboxInit => Baselined
BY OutboxBounds DEF OutboxInit, Baselined, Asleep

(* What queues nothing is silent, and leaves the books of the baseline alone. *)
LEMMA OthersAreSilent ==
  ASSUME OutboxInv, Baselined,
         \/ \E i \in Item : Change(i)
         \/ Trouble \/ EditConfig \/ AttemptDue
         \/ \E n \in News : Deliver(n) \/ DeliveryFails(n)
         \/ EndPoll \/ OutboxCrash
  PROVE  Baselined' /\ OnlyNews
<1>1. UNCHANGED <<meta, dedup, before>>
  BY DEF Change, Trouble, EditConfig, AttemptDue, Deliver, DeliveryFails, EndPoll, OutboxCrash
<1>2. notifier'.pc = "scan" => notifier'.pc = notifier.pc /\ notifier'.baseline = notifier.baseline
  <2>1. CASE \E n \in News : Deliver(n)
    BY <2>1 DEF Deliver, Send, OutboxInv, OutboxTypeOK, Worker
  <2>2. CASE ~\E n \in News : Deliver(n)
    BY <2>2 DEF Change, Trouble, EditConfig, AttemptDue, DeliveryFails, EndPoll, OutboxCrash, Asleep
  <2> QED BY <2>1, <2>2
<1>3. \A i \in Item : before[i] \in Nat /\ journal[i] \in Nat /\ journal[i] <= journal'[i]
  <2>1. \A i \in Item : before[i] \in Nat /\ journal[i] \in Nat
    BY OutboxBounds DEF OutboxInv, OutboxTypeOK
  <2>2. ASSUME NEW j \in Item, Change(j), NEW i \in Item PROVE journal[i] <= journal'[i]
    <3>1. journal' = [journal EXCEPT ![j] = @ + 1] /\ journal \in [Item -> 0 .. MaxState]
      BY <2>2 DEF Change, OutboxInv, OutboxTypeOK
    <3> QED BY <2>1, <3>1
  <2>3. CASE ~\E i \in Item : Change(i)
    BY <2>1, <2>3 DEF Trouble, EditConfig, AttemptDue, Deliver, DeliveryFails, EndPoll, OutboxCrash
  <2> QED BY <2>1, <2>2, <2>3
<1>4. ASSUME NEW i \in Item, journal'[i] = before[i] PROVE journal'[i] = journal[i]
  BY <1>3, <1>4 DEF Baselined
<1>5. Baselined'
  <2>1. \A i \in Item : before'[i] <= journal'[i]
    <3>1. \A i \in Item : before[i] <= journal[i] /\ before'[i] = before[i]
      BY <1>1 DEF Baselined
    <3>2. journal' \in [Item -> 0 .. MaxState]
      BY OutboxStepInv DEF OutboxInv, OutboxTypeOK, OutboxNext, OutboxPoll
    <3>3. \A i \in Item : journal'[i] \in Nat
      BY <3>2, OutboxBounds
    <3> QED BY <1>3, <3>1, <3>3
  <2>2. meta'.initialized => \A i \in Item : journal'[i] = before'[i] /\ journal'[i] > 0 =>
                               [item |-> i, state |-> journal'[i]] \in dedup'
    BY <1>1, <1>4 DEF Baselined
  <2>3. notifier'.pc = "scan" /\ ~notifier'.baseline => meta'.initialized
    BY <1>1, <1>2 DEF Baselined
  <2> QED BY <2>1, <2>2, <2>3 DEF Baselined
<1>6. NothingNew
  <2>1. CASE UNCHANGED outbox
    BY <2>1 DEF NothingNew
  <2>2. ASSUME NEW n \in News, NEW state \in {"pending", "blocked", "sent"}, SetRow(n, state),
               \E r \in outbox : r.news = n
        PROVE  NothingNew
    BY <2>2, SetRowInv DEF NothingNew
  <2>3. ASSUME NEW n \in News, Deliver(n) PROVE NothingNew
    <3>1. CASE notifier.pc = "flush"
      BY <2>1, <2>3, <3>1 DEF Deliver, Send
    <3>2. CASE notifier.pc = "mark"
      <4>1. notifier.row = n /\ SetRow(n, "sent")
        BY <2>3, <3>2 DEF Deliver, Send
      <4> QED BY <2>2, <3>2, <4>1 DEF OutboxInv, MarkedHasArrived
    <3> QED BY <2>3, <3>1, <3>2 DEF Deliver, Send
  <2>4. ASSUME NEW n \in News, DeliveryFails(n) PROVE NothingNew
    <3>1. PICK state \in {"pending", "blocked"} : SetRow(n, state)
      BY <2>4 DEF DeliveryFails
    <3>2. \E r \in outbox : r.news = n
      BY <2>4, ArrivesInv DEF DeliveryFails
    <3> QED BY <2>2, <3>1, <3>2
  <2> QED
    BY <2>1, <2>3, <2>4 DEF Change, Trouble, EditConfig, AttemptDue, EndPoll, OutboxCrash
<1> QED BY <1>5, <1>6, NothingNewIsSilent

(* A poll that begins takes the ledger as it is for what was there before. *)
LEMMA BeginIsSilent ==
  ASSUME OutboxInv, Baselined, PollDisabled \/ BeginPoll
  PROVE  Baselined' /\ OnlyNews
<1>1. CASE PollDisabled
  <2>1. meta' = [meta EXCEPT !.active = FALSE] /\ meta \in Meta
        /\ UNCHANGED <<journal, dedup, outbox, notifier, before>>
    BY <1>1 DEF PollDisabled, OutboxInv, OutboxTypeOK
  <2>2. meta'.initialized <=> meta.initialized
    BY <2>1 DEF Meta
  <2>3. NothingNew
    BY <2>1 DEF NothingNew
  <2> QED BY <2>1, <2>2, <2>3, NothingNewIsSilent DEF Baselined
<1>2. CASE BeginPoll
  <2> DEFINE baseline == meta.hash # webhookSaved \/ ~meta.active \/ ~meta.initialized
  <2>1. /\ baseline \in BOOLEAN /\ UNCHANGED journal
        /\ notifier' = [Asleep EXCEPT !.pc = "scan", !.to = webhookSaved, !.baseline = baseline]
    BY <1>2 DEF BeginPoll
  <2>2. notifier'.baseline = baseline
    BY <2>1 DEF Asleep
  <2>3. CASE baseline
    <3>1. meta' = BaselineBegun(meta) /\ Forgotten /\ before' = journal
      BY <1>2, <2>3 DEF BeginPoll
    <3>2. ~meta'.initialized
      BY <3>1 DEF BaselineBegun, OutboxInv, OutboxTypeOK, Meta
    <3>3. NothingNew
      BY <3>1 DEF Forgotten, NothingNew
    <3>4. \A i \in Item : journal[i] \in Nat
      BY OutboxBounds DEF OutboxInv, OutboxTypeOK
    <3>5. notifier'.baseline
      BY <2>2, <2>3
    <3> HIDE DEF baseline
    <3>6. \A i \in Item : before'[i] <= journal'[i]
      BY <2>1, <3>1, <3>4
    <3>7. Baselined'
      BY <3>2, <3>5, <3>6 DEF Baselined
    <3> QED BY <3>3, <3>7, NothingNewIsSilent
  <2>4. CASE ~baseline
    <3>1. UNCHANGED <<dedup, meta, outbox, before>> /\ meta.initialized
      BY <1>2, <2>4 DEF BeginPoll
    <3>2. NothingNew
      BY <3>1 DEF NothingNew
    <3> QED BY <2>1, <3>1, <3>2, NothingNewIsSilent DEF Baselined
  <2> QED BY <2>3, <2>4
<1> QED BY <1>1, <1>2

(* A row that was queued tells something of what was to be queued. *)
LEMMA QueuedIsNews ==
  ASSUME NEW news, Queue(news), NEW r \in outbox', \A q \in outbox : q.news # r.news
  PROVE  r.news \in news
BY DEF Queue

(* A scan queues nothing that was in the ledger when the baseline began. *)
LEMMA ScanIsSilent ==
  ASSUME OutboxInv, Baselined, Scan \/ ScanFails
  PROVE  Baselined' /\ OnlyNews
<1> DEFINE told == IF notifier.baseline THEN {} ELSE Unknown
<1>1. /\ notifier.pc = "scan" /\ notifier' = [notifier EXCEPT !.pc = "flush"]
      /\ UNCHANGED <<journal, before>>
  BY DEF Scan, ScanFails
<1>2. notifier'.pc = "flush"
  BY <1>1 DEF OutboxInv, OutboxTypeOK, Worker
<1>3. \A i \in Item : before[i] \in Nat /\ journal[i] \in Nat /\ journal[i] <= MaxState
  BY OutboxBounds DEF OutboxInv, OutboxTypeOK
<1>4. \A n \in NewIssue : n.item \notin Item
  BY OutboxAssumption DEF NewIssue
<1>5. Baselined'
  <2>1. CASE Scan
    <3>1. dedup' = dedup \union Unknown \union NewIssue
      BY <2>1 DEF Scan
    <3>2. ASSUME NEW i \in Item, journal[i] > 0
          PROVE  [item |-> i, state |-> journal[i]] \in dedup'
      <4>1. [item |-> i, state |-> journal[i]] \in [item: Item, state: 1 .. MaxState]
        BY <1>3, <3>2, OutboxBounds
      <4> QED BY <3>1, <4>1 DEF Unknown
    <3> QED BY <1>1, <1>2, <3>2 DEF Baselined
  <2>2. CASE ScanFails
    <3>1. dedup' = dedup \union NewIssue
          /\ meta' = [meta EXCEPT !.issue = issue, !.generation = @ + Cardinality(NewIssue)]
      BY <2>2 DEF ScanFails
    <3>2. meta'.initialized <=> meta.initialized
      BY <3>1 DEF OutboxInv, OutboxTypeOK, Meta
    <3> QED BY <1>1, <1>2, <3>1, <3>2 DEF Baselined
  <2> QED BY <2>1, <2>2
<1>6. PICK news \in {told \union NewIssue, NewIssue} : Queue(news)
  BY DEF Scan, ScanFails
<1>7. ASSUME NEW r \in outbox', r.news.item \in Item, \A q \in outbox : q.news # r.news
      PROVE  r.news.state > before[r.news.item]
  <2>1. r.news \in told
    BY <1>4, <1>6, <1>7, QueuedIsNews
  <2>2. ~notifier.baseline /\ r.news \in Unknown
    BY <2>1
  <2> DEFINE i == r.news.item
  <2>3. /\ r.news = [item |-> i, state |-> journal[i]] /\ journal[i] > 0 /\ r.news \notin dedup
        /\ r.news.state = journal[i]
    BY <2>2 DEF Unknown
  <2>4. meta.initialized
    BY <1>1, <2>2 DEF Baselined
  <2>5. journal[i] # before[i]
    BY <1>7, <2>3, <2>4 DEF Baselined
  <2>6. before[i] <= journal[i]
    BY <1>7 DEF Baselined
  <2> HIDE DEF i
  <2>7. before[i] \in Nat /\ journal[i] \in Nat
    BY <1>3, <1>7 DEF i
  <2>8. journal[i] > before[i]
    BY <2>5, <2>6, <2>7
  <2> QED BY <2>3, <2>8 DEF i
<1> QED BY <1>5, <1>7 DEF OnlyNews

LEMMA BaselinedStep ==
  OutboxInv /\ Baselined /\ [OutboxNext]_outboxVars => Baselined' /\ [OnlyNews]_outboxVars
<1> SUFFICES ASSUME OutboxInv, Baselined, [OutboxNext]_outboxVars
             PROVE  Baselined' /\ [OnlyNews]_outboxVars
  OBVIOUS
<1>1. CASE UNCHANGED outboxVars
  BY <1>1 DEF outboxVars, Baselined
<1>2. CASE OutboxNext
  BY <1>2, OthersAreSilent, BeginIsSilent, ScanIsSilent DEF OutboxNext, OutboxPoll
<1> QED BY <1>1, <1>2

(* _baseline_or_scan: a new destination is not told what was in the ledger before it was taken
   up, wherever a baseline is cut off by a crash or a failed read, and however the operator goes
   back and forth between destinations. *)
THEOREM BaselineTellsNothing == OutboxSpec => BaselineIsSilent
<1>1. OutboxInv /\ Baselined /\ [OutboxNext]_outboxVars =>
        [\A r \in outbox' : r.news.item \in Item /\ (\A q \in outbox : q.news # r.news)
                              => r.news.state > before[r.news.item]]_outboxVars
  BY BaselinedStep DEF OnlyNews
<1> QED BY OutboxInitInv, OutboxStepInv, BaselinedInit, BaselinedStep, <1>1, PTL
        DEF OutboxSpec, BaselineIsSilent

-----------------------------------------------------------------------------
(* The outbox implements Telling. *)

NewsIn(rows) == {r.news : r \in rows}

(* A thing is told by one row, and what is about to be marked is not marked yet. *)
OneRowEach ==
  /\ \A r, q \in outbox : r.news = q.news => r = q
  /\ notifier.pc = "mark" => notifier.row \in Queued

LEMMA OneRowInit == OutboxInit => OneRowEach
BY DEF OutboxInit, OneRowEach, Asleep

(* What is owed and what is settled after the state of a row has changed. *)
LEMMA SetRowSettles ==
  ASSUME OneRowEach, NEW n, NEW state, \E r \in outbox : r.news = n, SetRow(n, state),
         outbox \subseteq OutboxRow
  PROVE  /\ \A r, q \in outbox' : r.news = q.news => r = q
         /\ NewsIn(outbox') = NewsIn(outbox)
         /\ state = "sent" => Queued' = Queued \ {n}
         /\ state # "sent" => Queued' = Queued \union {n}
<1> DEFINE row == [RowOf(n) EXCEPT !.state = state]
<1>1. RowOf(n) \in outbox /\ RowOf(n).news = n
  BY DEF RowOf
<1>2. RowOf(n) \in OutboxRow
  BY <1>1
<1>3. row.news = n /\ row.state = state
  BY <1>1, <1>2 DEF OutboxRow
<1>4. outbox' = (outbox \ {RowOf(n)}) \union {row}
  BY DEF SetRow
<1>5. \A r \in outbox \ {RowOf(n)} : r.news # n
  BY <1>1 DEF OneRowEach
<1> HIDE DEF row
<1>6. \A r, q \in outbox' : r.news = q.news => r = q
  BY <1>3, <1>4, <1>5 DEF OneRowEach
<1>7. NewsIn(outbox') = NewsIn(outbox)
  BY <1>1, <1>3, <1>4 DEF NewsIn
<1>8. ASSUME NEW m PROVE m \in Queued' <=> \E r \in outbox' : r.news = m /\ r.state # "sent"
  BY DEF Queued
<1>9. ASSUME NEW m PROVE m \in Queued <=> \E r \in outbox : r.news = m /\ r.state # "sent"
  BY DEF Queued
<1>10. ASSUME NEW m, m # n PROVE m \in Queued' <=> m \in Queued
  BY <1>1, <1>3, <1>4, <1>8, <1>9, <1>10
<1>11. n \in Queued' <=> state # "sent"
  BY <1>3, <1>4, <1>5, <1>8
<1>12. ASSUME state = "sent" PROVE Queued' = Queued \ {n}
  BY <1>10, <1>11, <1>12
<1>13. ASSUME state # "sent" PROVE Queued' = Queued \union {n}
  BY <1>10, <1>11, <1>13
<1> QED BY <1>6, <1>7, <1>12, <1>13

(* What is owed and what is settled after a scan. *)
LEMMA QueueOwes ==
  ASSUME OneRowEach, NEW news, Queue(news)
  PROVE  LET new == NewsIn(outbox') \ NewsIn(outbox)
         IN  /\ \A r, q \in outbox' : r.news = q.news => r = q
             /\ Queued' = Queued \union new
             /\ NewsIn(outbox') \ Queued' = NewsIn(outbox) \ Queued
<1> DEFINE new == {n \in news : \A r \in outbox : r.news # n}
           made(n) == [news |-> n, for |-> notifier.to, state |-> "pending"]
<1>1. outbox' = outbox \union {made(n) : n \in new}
  BY DEF Queue
<1>2. \A n \in new : made(n).news = n /\ made(n).state # "sent" /\ n \notin NewsIn(outbox)
  BY DEF NewsIn
<1> HIDE DEF made
<1>3. NewsIn(outbox') = NewsIn(outbox) \union new
  BY <1>1, <1>2 DEF NewsIn
<1>4. new = NewsIn(outbox') \ NewsIn(outbox)
  BY <1>2, <1>3
<1>5. \A r, q \in outbox' : r.news = q.news => r = q
  BY <1>1, <1>2 DEF OneRowEach, NewsIn
<1>6. Queued' = Queued \union new
  BY <1>1, <1>2 DEF Queued
<1>7. NewsIn(outbox') \ Queued' = NewsIn(outbox) \ Queued
  BY <1>2, <1>3, <1>6
<1> QED BY <1>4, <1>5, <1>6, <1>7

LEMMA OneRowStep == OutboxInv /\ OneRowEach /\ [OutboxNext]_outboxVars => OneRowEach'
<1> SUFFICES ASSUME OutboxInv, OneRowEach, [OutboxNext]_outboxVars PROVE OneRowEach'
  OBVIOUS
<1>1. CASE UNCHANGED <<outbox, notifier>>
  BY <1>1 DEF OneRowEach, Queued
<1>2. CASE outbox' \in {outbox, {}} /\ notifier'.pc # "mark"
  BY <1>2 DEF OneRowEach
<1>3. CASE Scan \/ ScanFails
  <2>1. PICK news : Queue(news)
    BY <1>3 DEF Scan, ScanFails
  <2>2. notifier'.pc = "flush"
    BY <1>3 DEF Scan, ScanFails, OutboxInv, OutboxTypeOK, Worker
  <2> QED BY <2>1, <2>2, QueueOwes DEF OneRowEach
<1>4. ASSUME NEW n \in News, Deliver(n) PROVE OneRowEach'
  <2>1. CASE notifier.pc = "flush"
    <3>1. n \in Queued /\ UNCHANGED outbox /\ notifier' = [notifier EXCEPT !.pc = "mark", !.row = n]
      BY <1>4, <2>1 DEF Deliver, Send, Sending
    <3>2. notifier'.row = n
      BY <3>1 DEF OutboxInv, OutboxTypeOK, Worker
    <3> QED BY <3>1, <3>2 DEF OneRowEach, Queued
  <2>2. CASE notifier.pc = "mark"
    <3>1. notifier.row = n /\ SetRow(n, "sent")
          /\ notifier' = [notifier EXCEPT !.pc = "flush", !.row = NoNews]
      BY <1>4, <2>2 DEF Deliver, Send
    <3>2. notifier'.pc = "flush"
      BY <3>1 DEF OutboxInv, OutboxTypeOK, Worker
    <3>3. (\E r \in outbox : r.news = n) /\ outbox \subseteq OutboxRow
      BY <2>2, <3>1 DEF OutboxInv, OutboxTypeOK, MarkedHasArrived
    <3> QED BY <3>1, <3>2, <3>3, SetRowSettles DEF OneRowEach
  <2> QED BY <1>4, <2>1, <2>2 DEF Deliver, Send
<1>5. ASSUME NEW n \in News, DeliveryFails(n) PROVE OneRowEach'
  <2>1. PICK state \in {"pending", "blocked"} : SetRow(n, state)
    BY <1>5 DEF DeliveryFails
  <2>2. (\E r \in outbox : r.news = n) /\ outbox \subseteq OutboxRow /\ notifier'.pc = "idle"
    BY <1>5, ArrivesInv DEF DeliveryFails, OutboxInv, OutboxTypeOK, Asleep
  <2> QED BY <2>1, <2>2, SetRowSettles DEF OneRowEach
<1>6. CASE BeginPoll
  <2>1. outbox' \in {outbox, {}} /\ notifier'.pc = "scan"
    BY <1>6 DEF BeginPoll, Forgotten, Asleep
  <2> QED BY <1>2, <2>1
<1>7. CASE EndPoll \/ OutboxCrash
  BY <1>2, <1>7 DEF EndPoll, OutboxCrash, Asleep
<1>8. CASE (\E i \in Item : Change(i)) \/ Trouble \/ EditConfig \/ AttemptDue \/ PollDisabled
           \/ UNCHANGED outboxVars
  BY <1>1, <1>8 DEF Change, Trouble, EditConfig, AttemptDue, PollDisabled, outboxVars
<1> QED BY <1>3, <1>4, <1>5, <1>6, <1>7, <1>8 DEF OutboxNext, OutboxPoll

(* The refinement mapping. *)
OldNews == {n \in [item: Item, state: 1 .. MaxState] : n.state <= before[n.item]}
SettledNews == NewsIn(outbox) \ Queued
HeardNews == {<<m.news, m.at>> : m \in reached}
tellingVars == <<meta.hash, OldNews, Queued, SettledNews, HeardNews>>

LEMMA TellingStarts == OutboxInit => Teller!Init
<1> SUFFICES ASSUME OutboxInit PROVE Teller!Init
  OBVIOUS
<1>1. {n \in [item: Item, state: 1 .. MaxState] : n.state <= before[n.item]} = {}
  BY OutboxBounds DEF OutboxInit, News
<1>2. outbox = {} /\ reached = {} /\ meta.hash = "none" /\ Queued = {}
  BY DEF OutboxInit, Queued
<1> QED BY <1>1, <1>2 DEF Teller!Init

(* Nothing is told by what leaves webhook, baseline, rows and deliveries alone. *)
LEMMA TellingStill ==
  ASSUME meta'.hash = meta.hash, UNCHANGED <<outbox, reached, before>>
  PROVE  UNCHANGED tellingVars
BY DEF tellingVars, OldNews, Queued, SettledNews, HeardNews, NewsIn

LEMMA BeginTakesUp ==
  ASSUME OutboxInv, BeginPoll
  PROVE  (\E d \in Webhook : Teller!TakeUp(d)) \/ UNCHANGED tellingVars
<1> DEFINE baseline == meta.hash # webhookSaved \/ ~meta.active \/ ~meta.initialized
<1>1. webhookSaved \in Webhook /\ UNCHANGED reached
  BY DEF BeginPoll, OutboxInv, OutboxTypeOK
<1>2. CASE ~baseline
  <2>1. UNCHANGED <<meta, outbox, before>>
    BY <1>2 DEF BeginPoll
  <2> QED BY <1>1, <2>1, TellingStill
<1>3. CASE baseline
  <2>1. meta' = BaselineBegun(meta) /\ Forgotten
    BY <1>3 DEF BeginPoll
  <2>2. meta'.hash = webhookSaved
    BY <2>1 DEF BaselineBegun, OutboxInv, OutboxTypeOK, Meta
  <2>3. IF webhookSaved = meta.hash THEN UNCHANGED outbox ELSE outbox' = {}
    BY <2>1 DEF Forgotten
  <2>4. IF webhookSaved = meta.hash THEN UNCHANGED <<Queued, SettledNews>>
        ELSE Queued' = {} /\ SettledNews' = {}
    BY <2>3 DEF Queued, SettledNews, NewsIn
  <2>5. UNCHANGED HeardNews /\ OldNews' \subseteq News
    <3>1. MaxState \in Nat /\ MaxIssue \in Nat
      BY OutboxAssumption
    <3>2. [item: Item, state: 1 .. MaxState] \subseteq News
      BY <3>1 DEF News
    <3>3. OldNews' \subseteq [item: Item, state: 1 .. MaxState]
      BY DEF OldNews
    <3>4. UNCHANGED HeardNews
      BY <1>1 DEF HeardNews
    <3> QED BY <3>2, <3>3, <3>4
  <2>6. PICK d \in Webhook : webhookSaved = d
    BY <1>1
  <2>7. Teller!TakeUp(d)
    BY <2>2, <2>4, <2>5, <2>6 DEF Teller!TakeUp, OldNews, SettledNews, HeardNews, NewsIn
  <2> QED BY <2>7
<1> QED BY <1>2, <1>3

LEMMA ScanOwes ==
  ASSUME OutboxInv, OneRowEach, OnlyNews, Scan \/ ScanFails
  PROVE  Teller!Owe
<1> DEFINE new == NewsIn(outbox') \ NewsIn(outbox)
<1>1. PICK news : Queue(news)
  BY DEF Scan, ScanFails
<1>2. Queued' = Queued \union new /\ NewsIn(outbox') \ Queued' = NewsIn(outbox) \ Queued
  BY <1>1, QueueOwes
<1>3. new \subseteq News
  BY ScanInv DEF OutboxInv, OutboxTypeOK, OutboxRow, NewsIn
<1>4. new \intersect (Queued \union SettledNews) = {}
  BY DEF Queued, SettledNews, NewsIn
<1>5. new \intersect OldNews = {}
  <2> SUFFICES ASSUME NEW r \in outbox', \A q \in outbox : q.news # r.news, r.news \in OldNews
               PROVE  FALSE
    BY DEF NewsIn
  <2>1. r.news.item \in Item /\ r.news.state <= before[r.news.item] /\ r.news.state \in Nat
    BY OutboxBounds DEF OldNews, News
  <2>2. r.news.state > before[r.news.item] /\ before[r.news.item] \in Nat
    BY <2>1, OutboxBounds DEF OnlyNews, OutboxInv, OutboxTypeOK
  <2> QED BY <2>1, <2>2
<1>6. meta'.hash = meta.hash /\ UNCHANGED <<reached, before>>
  BY DEF Scan, ScanFails, OutboxInv, OutboxTypeOK, Meta
<1>7. UNCHANGED <<meta.hash, OldNews, SettledNews, HeardNews>>
  BY <1>2, <1>6 DEF OldNews, SettledNews, HeardNews
<1>8. meta.hash # "none"
  BY OutboxAssumption DEF Scan, ScanFails, OutboxInv, OutboxTypeOK, ForTheHash, Meta, Worker
<1>9. Queued \subseteq News
  BY DEF Queued, OutboxInv, OutboxTypeOK, OutboxRow
<1>10. /\ Queued \subseteq Queued' /\ Queued' \subseteq News
       /\ (Queued' \ Queued) \intersect (OldNews \union SettledNews) = {}
  <2> HIDE DEF new
  <2> QED BY <1>2, <1>3, <1>4, <1>5, <1>9
<1> QED BY <1>7, <1>8, <1>10 DEF Teller!Owe, OldNews, SettledNews, HeardNews, NewsIn

(* A message that arrives is owed where it arrives. *)
LEMMA ArrivingTells ==
  ASSUME OutboxInv, NEW n \in News, Sending(n), Arrives(n), meta'.hash = meta.hash,
         UNCHANGED <<before, Queued, SettledNews>>
  PROVE  n \in Queued /\ Teller!Tell(n)
<1>1. n \in Queued /\ notifier.to = meta.hash
  BY ArrivesInv DEF Sending
<1> DEFINE m == [news |-> n, at |-> notifier.to, for |-> RowOf(n).for]
<1>2. HeardNews' = HeardNews \union {<<n, meta.hash>>}
  <2>1. <<m.news, m.at>> = <<n, meta.hash>> /\ reached' = reached \union {m}
    BY <1>1 DEF Arrives
  <2> HIDE DEF m
  <2> QED BY <2>1 DEF HeardNews
<1>3. UNCHANGED OldNews
  BY DEF OldNews
<1> QED BY <1>1, <1>2, <1>3 DEF Teller!Tell, OldNews, SettledNews, HeardNews, NewsIn

LEMMA DeliverTells ==
  ASSUME OutboxInv, OneRowEach, NEW n \in News, Deliver(n)
  PROVE  n \in Queued /\ (Teller!Tell(n) \/ Teller!Settle(n))
<1>1. UNCHANGED <<meta, before>>
  BY DEF Deliver
<1>2. CASE notifier.pc = "flush"
  <2>1. Sending(n) /\ Arrives(n) /\ UNCHANGED outbox
    BY <1>2 DEF Deliver, Send
  <2>2. UNCHANGED <<Queued, SettledNews>>
    BY <2>1 DEF Queued, SettledNews, NewsIn
  <2> QED BY <1>1, <2>1, <2>2, ArrivingTells
<1>3. CASE notifier.pc = "mark"
  <2>1. notifier.row = n /\ SetRow(n, "sent") /\ UNCHANGED reached
    BY <1>3 DEF Deliver, Send
  <2>2. /\ n \in Queued /\ \E r \in outbox : r.news = n
        /\ [news |-> n, at |-> meta.hash, for |-> meta.hash] \in reached
    BY <1>3, <2>1 DEF OneRowEach, OutboxInv, MarkedHasArrived
  <2>3. <<n, meta.hash>> \in HeardNews
    BY <2>2 DEF HeardNews
  <2>4. NewsIn(outbox') = NewsIn(outbox) /\ Queued' = Queued \ {n}
    BY <2>1, <2>2, SetRowSettles DEF OutboxInv, OutboxTypeOK
  <2>5. SettledNews' = SettledNews \union {n}
    BY <2>2, <2>4 DEF SettledNews, NewsIn
  <2>6. UNCHANGED <<OldNews, HeardNews>>
    BY <1>1, <2>1 DEF OldNews, HeardNews
  <2>7. Teller!Settle(n)
    BY <1>1, <2>2, <2>3, <2>4, <2>5, <2>6 DEF Teller!Settle, OldNews, SettledNews, HeardNews, NewsIn
  <2> QED BY <2>2, <2>7
<1> QED BY <1>2, <1>3 DEF Deliver, Send

LEMMA FailTells ==
  ASSUME OutboxInv, OneRowEach, NEW n \in News, DeliveryFails(n)
  PROVE  (n \in Queued /\ Teller!Tell(n)) \/ UNCHANGED tellingVars
<1>1. Sending(n) /\ UNCHANGED <<meta, before>> /\ (Arrives(n) \/ UNCHANGED reached)
  BY DEF DeliveryFails
<1>2. PICK state \in {"pending", "blocked"} : SetRow(n, state)
  BY DEF DeliveryFails
<1>3. n \in Queued /\ (\E r \in outbox : r.news = n) /\ outbox \subseteq OutboxRow
  BY <1>1, ArrivesInv DEF Sending, OutboxInv, OutboxTypeOK
<1>4. NewsIn(outbox') = NewsIn(outbox) /\ Queued' = Queued
  BY <1>2, <1>3, SetRowSettles
<1>5. UNCHANGED <<Queued, SettledNews, OldNews>>
  BY <1>1, <1>4 DEF SettledNews, OldNews
<1>6. CASE Arrives(n)
  BY <1>1, <1>5, <1>6, ArrivingTells
<1>7. CASE UNCHANGED reached
  BY <1>1, <1>5, <1>7 DEF tellingVars, HeardNews
<1> QED BY <1>1, <1>6, <1>7

LEMMA TellingStep ==
  OutboxInv /\ OneRowEach /\ Baselined /\ [OutboxNext]_outboxVars => [Teller!Next]_tellingVars
<1> SUFFICES ASSUME OutboxInv, OneRowEach, Baselined, [OutboxNext]_outboxVars
             PROVE  [Teller!Next]_tellingVars
  OBVIOUS
<1>1. CASE BeginPoll
  BY <1>1, BeginTakesUp DEF Teller!Next
<1>2. CASE Scan \/ ScanFails
  BY <1>2, ScanOwes, ScanIsSilent DEF Teller!Next
<1>3. CASE \E n \in News : Deliver(n) \/ DeliveryFails(n)
  <2>1. PICK n \in News : Deliver(n) \/ DeliveryFails(n)
    BY <1>3
  <2>2. \/ n \in Queued /\ (Teller!Tell(n) \/ Teller!Settle(n))
        \/ UNCHANGED tellingVars
    BY <2>1, DeliverTells, FailTells
  <2> QED BY <2>2 DEF Teller!Next
<1>4. CASE (\E i \in Item : Change(i)) \/ Trouble \/ EditConfig \/ AttemptDue \/ PollDisabled
           \/ EndPoll \/ OutboxCrash \/ UNCHANGED outboxVars
  <2>1. meta'.hash = meta.hash
    BY <1>4 DEF Change, Trouble, EditConfig, AttemptDue, PollDisabled, EndPoll, OutboxCrash,
                outboxVars, OutboxInv, OutboxTypeOK, Meta
  <2>2. UNCHANGED <<outbox, reached, before>>
    BY <1>4 DEF Change, Trouble, EditConfig, AttemptDue, PollDisabled, EndPoll, OutboxCrash,
                outboxVars
  <2> QED BY <2>1, <2>2, TellingStill
<1> QED BY <1>1, <1>2, <1>3, <1>4 DEF OutboxNext, OutboxPoll

(* NotificationWorker: whatever dies, is answered late or is edited meanwhile, what is queued for
   a webhook is not lost, what is recorded has arrived and is not queued again, and a webhook is
   told only what was news when it was taken up. *)
THEOREM Tells == OutboxSpec => TellsWhatIsOwed
<1>1. [Teller!Next]_tellingVars =>
        [Teller!Next]_<<meta.hash,
                        {n \in [item: Item, state: 1 .. MaxState] : n.state <= before[n.item]},
                        Queued, {r.news : r \in outbox} \ Queued, {<<m.news, m.at>> : m \in reached}>>
  BY DEF tellingVars, OldNews, SettledNews, HeardNews, NewsIn
<1> QED
  BY OutboxInitInv, OutboxStepInv, BaselinedInit, BaselinedStep, OneRowInit, OneRowStep,
     TellingStarts, TellingStep, <1>1, PTL
  DEF OutboxSpec, TellsWhatIsOwed, Teller!Spec
=============================================================================
