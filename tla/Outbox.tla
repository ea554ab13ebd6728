------------------------------- MODULE Outbox -------------------------------
(***************************************************************************)
(* NotificationWorker (notifications.py): a second process that reads the  *)
(* ledger and the runtime status of the relay and tells a Discord webhook  *)
(* what has changed, over an outbox of its own that survives crashes.      *)
(*                                                                         *)
(* An item is a row of events or orders, its states are numbered in the    *)
(* order it passes them (a state that comes back would be taken for told,  *)
(* and is left out).  An issue of the runtime status is told by the same   *)
(* rows.  Texts are left out.                                              *)
(***************************************************************************)
EXTENDS Integers, FiniteSets

CONSTANTS
  Item,          \* rows of the ledger
  Webhook,       \* webhook URLs an operator may save
  MaxState,      \* bound: states an item passes
  MaxEdit,       \* bound: edits of the configuration
  MaxIssue,      \* bound: times a provider gets into trouble
  MaxCrash       \* bound: crashes of the worker

ASSUME OutboxAssumption ==
  /\ {MaxState, MaxEdit, MaxIssue, MaxCrash} \subseteq Nat
  /\ "runtime" \notin Item /\ {"off", "none"} \intersect Webhook = {}

VARIABLES
  webhookSaved,  \* the saved webhook, "off" when disabled or not configured
  edits,         \* edits of the configuration so far
  journal,       \* the ledger: the state of each item
  issue,         \* the runtime status shows an issue
  issues,        \* issues so far
  meta,          \* meta table
  dedup,         \* dedup table
  outbox,        \* outbox table
  due,           \* what rows of the outbox tell whose next_attempt has come
  cooling,       \* cooldown_until lies ahead
  notifier,      \* NotificationWorker.poll: control point and locals
  reached,       \* what has arrived at which webhook
  crashes,
  before         \* the journal when the last baseline began

outboxVars == <<webhookSaved, edits, journal, issue, issues, meta, dedup, outbox, due, cooling, notifier,
                reached, crashes, before>>

\* What a row tells: a state of an item, or an issue of the runtime status by its generation.
News == [item: Item \union {"runtime"}, state: 0 .. MaxState + MaxIssue]

\* "for" is the webhook configured when the row was made.  "blocked" is a row whose
\* failure is not retried soon.
OutboxRow == [news: News, for: Webhook, state: {"pending", "blocked", "sent"}]

\* "hash" stands for config_hash and webhook_hash, "issue" for runtime:<provider>.
Meta == [hash: Webhook \union {"none"}, active: BOOLEAN, initialized: BOOLEAN,
         issue: BOOLEAN, generation: Nat]

NoNews == [item |-> "runtime", state |-> 0]
Worker == [pc: {"idle", "scan", "flush", "mark"}, to: Webhook \union {"off"}, baseline: BOOLEAN,
           row: News]
Asleep == [pc |-> "idle", to |-> "off", baseline |-> FALSE, row |-> NoNews]

\* Mutant of Queued: a blocked row is not tried again.
QueuedPending == {r.news : r \in {r \in outbox : r.state = "pending"}}

Queued == {r.news : r \in {r \in outbox : r.state # "sent"}}

-----------------------------------------------------------------------------
(* The relay, the operator and time. *)

Change(i) ==
  /\ journal[i] < MaxState
  /\ journal' = [journal EXCEPT ![i] = @ + 1]
  /\ UNCHANGED <<webhookSaved, edits, issue, issues, meta, dedup, outbox, due, cooling, notifier, reached,
                 crashes, before>>

Trouble ==
  /\ \/ ~issue /\ issues < MaxIssue /\ issue' = TRUE /\ issues' = issues + 1
     \/ issue /\ issue' = FALSE /\ UNCHANGED issues
  /\ UNCHANGED <<webhookSaved, edits, journal, meta, dedup, outbox, due, cooling, notifier, reached,
                 crashes, before>>

EditConfig ==
  /\ edits < MaxEdit
  /\ edits' = edits + 1
  /\ webhookSaved' \in (Webhook \union {"off"}) \ {webhookSaved}
  /\ UNCHANGED <<journal, issue, issues, meta, dedup, outbox, due, cooling, notifier, reached,
                 crashes, before>>

AttemptDue ==
  /\ \/ \E k \in Queued \ due : due' = due \union {k} /\ UNCHANGED cooling
     \/ cooling /\ cooling' = FALSE /\ UNCHANGED due
  /\ UNCHANGED <<webhookSaved, edits, journal, issue, issues, meta, dedup, outbox, notifier, reached,
                 crashes, before>>

-----------------------------------------------------------------------------
(* NotificationWorker.poll. *)

\* Nothing to do: a worker that was active is told so by its own state.
PollDisabled ==
  /\ notifier.pc = "idle" /\ webhookSaved = "off"
  /\ meta' = [meta EXCEPT !.active = FALSE]
  /\ UNCHANGED <<webhookSaved, edits, journal, issue, issues, dedup, outbox, due, cooling, notifier,
                 reached, crashes, before>>

\* Mutant of Forgotten: every baseline drops what is queued.
ForgottenAlways == outbox' = {} /\ due' = {} /\ cooling' = FALSE

\* A change of the webhook drops what was queued for the old one.
Forgotten ==
  IF meta.hash = webhookSaved THEN UNCHANGED <<outbox, due, cooling>>
  ELSE outbox' = {} /\ due' = {} /\ cooling' = FALSE

\* The first transaction of a baseline.
BaselineBegun(m) ==
  [m EXCEPT !.hash = webhookSaved, !.active = TRUE, !.initialized = FALSE,
            !.issue = IF m.hash = webhookSaved THEN @ ELSE FALSE,
            !.generation = IF m.hash = webhookSaved THEN @ ELSE 0]

\* Another configuration, or a baseline that is missing, is found first.
BeginPoll ==
  /\ notifier.pc = "idle" /\ webhookSaved # "off"
  /\ LET baseline == meta.hash # webhookSaved \/ ~meta.active \/ ~meta.initialized IN
     /\ notifier' = [Asleep EXCEPT !.pc = "scan", !.to = webhookSaved, !.baseline = baseline]
     /\ IF baseline
        THEN dedup' = {} /\ meta' = BaselineBegun(meta) /\ Forgotten /\ before' = journal
        ELSE UNCHANGED <<dedup, meta, outbox, due, cooling, before>>
  /\ UNCHANGED <<webhookSaved, edits, journal, issue, issues, reached, crashes>>

\* _baseline_or_scan: what the ledger shows and dedup does not know.
Unknown == {n \in [item: Item, state: 1 .. MaxState] : journal[n.item] = n.state} \ dedup

\* _sync_runtime: an issue that begins gets a generation.
NewIssue == IF issue /\ ~meta.issue
            THEN {[item |-> "runtime", state |-> meta.generation + 1]} ELSE {}

\* INSERT OR IGNORE: a row that tells the same is left alone.
Queue(news) ==
  LET new == {n \in news : \A r \in outbox : r.news # n}
  IN  /\ outbox' = outbox \union {[news |-> n, for |-> notifier.to, state |-> "pending"] : n \in new}
      /\ due' = due \union new

\* The second transaction; the ledger is read just before.
Scan ==
  /\ notifier.pc = "scan"
  /\ Queue((IF notifier.baseline THEN {} ELSE Unknown) \union NewIssue)
  /\ dedup' = dedup \union Unknown \union NewIssue
  /\ meta' = [meta EXCEPT !.initialized = @ \/ notifier.baseline, !.issue = issue,
                          !.generation = @ + Cardinality(NewIssue)]
  /\ notifier' = [notifier EXCEPT !.pc = "flush"]
  /\ UNCHANGED <<webhookSaved, edits, journal, issue, issues, cooling, reached, crashes, before>>

\* The ledger cannot be read: only issues are queued.
ScanFails ==
  /\ notifier.pc = "scan"
  /\ Queue(NewIssue)
  /\ dedup' = dedup \union NewIssue
  /\ meta' = [meta EXCEPT !.issue = issue, !.generation = @ + Cardinality(NewIssue)]
  /\ notifier' = [notifier EXCEPT !.pc = "flush"]
  /\ UNCHANGED <<webhookSaved, edits, journal, issue, issues, cooling, reached, crashes, before>>

-----------------------------------------------------------------------------
(* NotificationWorker._flush. *)

RowOf(n) == CHOOSE r \in outbox : r.news = n

SetRow(n, state) == outbox' = (outbox \ {RowOf(n)}) \union {[RowOf(n) EXCEPT !.state = state]}

\* A row is sent to the webhook read at the start of the poll.
Sending(n) ==
  /\ notifier.pc \in {"flush", "mark"}
  /\ n \in due \intersect Queued
  /\ ~cooling

Arrives(n) == reached' = reached \union {[news |-> n, at |-> notifier.to, for |-> RowOf(n).for]}

\* It arrives; then it is marked.
Send(n) ==
  \/ /\ notifier.pc = "flush" /\ Sending(n)
     /\ Arrives(n)
     /\ notifier' = [notifier EXCEPT !.pc = "mark", !.row = n]
     /\ UNCHANGED outbox
  \/ /\ notifier.pc = "mark" /\ notifier.row = n
     /\ SetRow(n, "sent")
     /\ notifier' = [notifier EXCEPT !.pc = "flush", !.row = NoNews]
     /\ UNCHANGED reached

Deliver(n) ==
  /\ Send(n)
  /\ UNCHANGED <<webhookSaved, edits, journal, issue, issues, meta, dedup, due, cooling, crashes, before>>

\* The delivery fails, though the message may have arrived: the flush ends.  Whether a retry
\* comes in seconds or in an hour, the row waits for it; "too many requests" stops them all.
DeliveryFails(n) ==
  /\ notifier.pc = "flush" /\ Sending(n)
  /\ \/ Arrives(n)
     \/ UNCHANGED reached
  /\ \E state \in {"pending", "blocked"} : SetRow(n, state)
  /\ due' = due \ {n}
  /\ cooling' \in BOOLEAN
  /\ notifier' = Asleep
  /\ UNCHANGED <<webhookSaved, edits, journal, issue, issues, meta, dedup, crashes, before>>

EndPoll ==
  /\ notifier.pc = "flush"
  /\ cooling \/ due \intersect Queued = {}
  /\ notifier' = Asleep
  /\ UNCHANGED <<webhookSaved, edits, journal, issue, issues, meta, dedup, outbox, due, cooling, reached,
                 crashes, before>>

\* The worker dies, or its database fails: the next poll starts over.
OutboxCrash ==
  /\ notifier.pc # "idle" /\ crashes < MaxCrash
  /\ crashes' = crashes + 1
  /\ notifier' = Asleep
  /\ UNCHANGED <<webhookSaved, edits, journal, issue, issues, meta, dedup, outbox, due, cooling, reached,
                 before>>

-----------------------------------------------------------------------------

OutboxInit ==
  /\ webhookSaved = "off"
  /\ edits = 0
  /\ journal = [i \in Item |-> 0]
  /\ issue = FALSE
  /\ issues = 0
  /\ meta = [hash |-> "none", active |-> FALSE, initialized |-> FALSE, issue |-> FALSE,
             generation |-> 0]
  /\ dedup = {}
  /\ outbox = {}
  /\ due = {}
  /\ cooling = FALSE
  /\ notifier = Asleep
  /\ reached = {}
  /\ crashes = 0
  /\ before = journal

OutboxPoll ==
  \/ PollDisabled
  \/ BeginPoll
  \/ Scan
  \/ EndPoll

OutboxNext ==
  \/ \E i \in Item : Change(i)
  \/ Trouble
  \/ EditConfig
  \/ AttemptDue
  \/ OutboxPoll
  \/ ScanFails
  \/ \E n \in News : Deliver(n) \/ DeliveryFails(n)
  \/ OutboxCrash

\* The worker polls for ever, time passes, and a ledger or a webhook that is asked often
\* enough answers.
OutboxFairness ==
  /\ WF_outboxVars(BeginPoll)
  /\ WF_outboxVars(EndPoll)
  /\ SF_outboxVars(Scan)
  /\ WF_outboxVars(AttemptDue)
  /\ \A n \in News : SF_outboxVars(Deliver(n))

OutboxSpec == OutboxInit /\ [][OutboxNext]_outboxVars /\ OutboxFairness

-----------------------------------------------------------------------------

OutboxTypeOK ==
  /\ webhookSaved \in Webhook \union {"off"}
  /\ journal \in [Item -> 0 .. MaxState] /\ before \in [Item -> 0 .. MaxState]
  /\ issue \in BOOLEAN /\ cooling \in BOOLEAN
  /\ meta \in Meta
  /\ dedup \subseteq News
  /\ outbox \subseteq OutboxRow
  /\ due \subseteq News
  /\ notifier \in Worker
  /\ reached \subseteq [news: News, at: Webhook, for: Webhook]
  /\ {edits, issues, crashes} \subseteq Nat

\* _flush: what the outbox calls sent has arrived, whatever crashes come between the
\* delivery and its record.
SentHasArrived ==
  \A r \in outbox : r.state = "sent" => [news |-> r.news, at |-> r.for, for |-> r.for] \in reached

\* poll: a webhook gets only what was queued for it, however long rows waited for a retry
\* and however the configuration went back and forth meanwhile.
ReachesItsWebhook == \A m \in reached : m.at = m.for

\* What the outbox records of a delivery is true.
DeliveryIsTrue == SentHasArrived /\ ReachesItsWebhook

\* The baseline: a new destination is not told what was in the ledger before it was taken
\* up, also when the worker dies half way through the baseline.
BaselineIsSilent ==
  [][\A r \in outbox' : r.news.item \in Item /\ (\A q \in outbox : q.news # r.news)
                           => r.news.state > before[r.news.item]]_outboxVars

\* The outbox as Telling sees it: what the ledger showed when the baseline began is old, rows that
\* are not sent are owed, sent ones are settled.
Teller == INSTANCE Telling WITH Matter <- News, Destination <- Webhook, Nowhere <- "none",
       serving <- meta.hash,
       old <- {n \in [item: Item, state: 1 .. MaxState] : n.state <= before[n.item]},
       owed <- Queued, settled <- {r.news : r \in outbox} \ Queued,
       heard <- {<<m.news, m.at>> : m \in reached}

\* Outbox implements Telling: over crashes, lost answers, repeated baselines and edits of the
\* configuration nothing queued is lost, nothing is recorded that did not arrive, and a webhook is
\* told only news, which are not queued again once they are recorded.
TellsWhatIsOwed == Teller!Spec

\* _flush and _http_failure: what is queued for a webhook is told there, however often the
\* delivery fails and for whatever reason, unless the operator turns away from it.
QueuedIsTold ==
  \A n \in News, w \in Webhook :
    LET Owed == \E r \in outbox : r.news = n /\ r.for = w /\ r.state # "sent"
    IN  Owed ~> (~Owed \/ webhookSaved # w)
=============================================================================
