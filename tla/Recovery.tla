------------------------------ MODULE Recovery ------------------------------
(***************************************************************************)
(* RecoveryEvaluator: alerts that were missed while the relay or its       *)
(* reader was away, or that became stale, are assessed one at a time, and  *)
(* an exit among them may still be executed, beside the live evaluations   *)
(* of module Evaluation.                                                   *)
(*                                                                         *)
(* The 100 rows of a scan and the 60 messages of a context are more than   *)
(* MaxMessage.  Account and market facts may defer or hold an exit at any  *)
(* point.  Monitors and last-day exits are other modules' business.        *)
(***************************************************************************)
EXTENDS Evaluation

VARIABLES
  rec,       \* the assessment under way
  deferred,  \* deferred_exits: assessments kept for a retry
  retry,     \* retry_due: messages whose retry is not due yet
  scanned,   \* scan_complete
  swept      \* the positions of the last complete sweep, -1 before the first

recoveryVars == <<rec, deferred, retry, scanned, swept>>

\* "context" is the signature of the messages the verdict was made on.
Assessment == [pc: {"none", "interpreting", "assessing", "waiting", "planning", "review", "sent"},
               id: Message \union {0}, kind: {"none", "live", "baseline"},
               context: Seq(Revision \union {0}), position: Nat]

NoAssessment == [pc |-> "none", id |-> 0, kind |-> "none", context |-> <<>>, position |-> 0]

\* RecoveryEvaluator.context and signature: every other message and its revision.
Context(m) == [n \in Message |-> IF n = m THEN 0 ELSE row[n]]

\* RecoveryEvaluator.eligible holds of revision 1 only.  A row counts while it is the
\* stored revision, has no order and no other revision.
Recoverable(m) == row[m] = 1 /\ ~HasOrder(m) /\ ~Revised(m)

\* Mutant of Rescued: only alerts already marked as missed are found again.
RescuedMissedOnly(m) == event[m][1] = "missed"

\* recover_saved: rows an earlier process left unfinished.
Rescued(m) == \/ event[m][1] \in {"observed", "missed"}
              \/ event[m][1] = "context" /\ kind[m] = "baseline"

\* recover_position_context: any row since the entry of an owned position.
Swept(m) == /\ position > 0 /\ Entry # 0 /\ ~Predates(m)
            /\ event[m][1] \notin {"none", "pending", "assessing"}

\* The events after both walks.
Walked ==
  [m \in Message |->
     IF /\ Recoverable(m)
        /\ \/ ~scanned /\ Rescued(m)
           \/ (swept # position) /\ Swept(m)
     THEN [event[m] EXCEPT ![1] = "pending"] ELSE event[m]]

\* The first pending row whose retry is due, 0 if there is none.
FirstDue(ev) == LET due == {m \in Message : row[m] = 1 /\ ev[m][1] = "pending" /\ m \notin retry}
             IN  IF due = {} THEN 0 ELSE Min(due)

-----------------------------------------------------------------------------
(* RecoveryEvaluator.consume and assess. *)

SetEvent(m, state) == event' = [event EXCEPT ![m][1] = state]

\* consume, when nothing else is at work, up to the first await of assess.  A delivery
\* whose task was created but has not begun is not seen.
Poll ==
  /\ rec.pc = "none" /\ lock = "free"
  /\ \A m \in Message : task[m].pc = "idle"
  /\ scanned' = TRUE
  /\ swept' = position
  /\ LET m == FirstDue(Walked) IN
     \/ /\ m = 0 \/ HasOrder(m)    \* "an order already exists": nothing is recorded
        /\ event' = Walked
        /\ UNCHANGED <<rec, deferred, retry>>
     \/ /\ m # 0 /\ ~HasOrder(m) /\ Revised(m)
        /\ event' = [Walked EXCEPT ![m][1] = "context"]
        /\ UNCHANGED <<rec, deferred, retry>>
     \/ /\ m # 0 /\ ~HasOrder(m) /\ ~Revised(m)
        /\ deferred[m].pc = "none"
        /\ event' = [Walked EXCEPT ![m][1] = "assessing"]
        /\ rec' = [NoAssessment EXCEPT !.pc = "interpreting", !.id = m, !.kind = kind[m],
                                       !.position = position]
        /\ UNCHANGED <<deferred, retry>>
     \/ /\ m # 0 /\ ~HasOrder(m) /\ ~Revised(m)
        /\ deferred[m].pc # "none"
        /\ event' = Walked
        /\ rec' = [deferred[m] EXCEPT !.kind = kind[m]]
        /\ deferred' = [deferred EXCEPT ![m] = NoAssessment]
        /\ UNCHANGED retry
  /\ UNCHANGED <<row, kind, generation, attempt, orders, position, taskVars>>

\* The verdict is recorded; the next poll may assess another row.
Close(state) ==
  /\ SetEvent(rec.id, state)
  /\ rec' = NoAssessment
  /\ UNCHANGED <<row, kind, generation, attempt, position, queue, task, scanned, swept>>

\* RecoveryEvaluator.defer: the row stays pending until its retry is due.
Defer ==
  /\ Close("pending")
  /\ retry' = retry \union {rec.id}

\* Mutant of NoLaterExit: only the message's own order counts.
NoOwnExit(m) ==
  \A i \in Entry .. Len(orders) :
    orders[i].id = m => orders[i].status = "submitting"

\* exit_guard, the orders: no exit of this lifetime was made for the message or later.
NoLaterExit(m) ==
  \A i \in Entry .. Len(orders) :
    orders[i].action = "EXIT" /\ ~(orders[i].id = m /\ orders[i].status = "submitting")
      => orders[i].id < m

SameContext == Context(rec.id) = rec.context

\* exit_guard, apart from the context.
Guard == LET m == rec.id IN
  /\ row[m] = 1
  /\ position > 0 /\ Entry # 0 /\ ~Predates(m)
  /\ position = rec.position
  /\ NoLaterExit(m)

\* interpret and the market facts: an exit goes on with the context of this moment.
Interpret ==
  /\ rec.pc = "interpreting"
  /\ "EXIT" \in Meaning[rec.id]
  /\ rec' = [rec EXCEPT !.pc = "assessing", !.context = Context(rec.id)]
  /\ UNCHANGED <<storeVars, taskVars, deferred, retry, scanned, swept>>

\* Not an exit, or an evaluator that fails: entries are for review only.
Review ==
  /\ rec.pc \in {"interpreting", "assessing"}
  /\ Close("closed")
  /\ UNCHANGED <<orders, lock, deferred, retry>>

\* The facts are not to be had now, but the exit passes its guard.
FactsMissing ==
  /\ rec.pc = "interpreting"
  /\ "EXIT" \in Meaning[rec.id] /\ Guard
  /\ Defer
  /\ UNCHANGED <<orders, lock, deferred>>

\* assess_recovery finds the exit viable.
Viable ==
  /\ rec.pc = "assessing"
  /\ SameContext /\ row[rec.id] = 1 /\ position = rec.position
  /\ rec' = [rec EXCEPT !.pc = "waiting"]
  /\ UNCHANGED <<storeVars, taskVars, deferred, retry, scanned, swept>>

\* SourceContextChanged: the assessment is dropped and made again later.
Changed ==
  /\ rec.pc = "assessing"
  /\ ~SameContext \/ row[rec.id] # 1
  /\ Defer
  /\ UNCHANGED <<orders, lock, deferred>>

-----------------------------------------------------------------------------
(* execute_exit, under Engine.lock. *)

\* The lock is taken and the guard made.
AdmitExit ==
  /\ rec.pc = "waiting" /\ lock = "free"
  /\ Guard /\ SameContext /\ NothingUnresolved
  /\ rec' = [rec EXCEPT !.pc = "planning"]
  /\ lock' = "recovery"
  /\ UNCHANGED <<storeVars, queue, task, deferred, retry, scanned, swept>>

\* RetryHold: something is not ready.  The assessment is kept.
ExitNotReady ==
  /\ \/ rec.pc = "waiting" /\ lock = "free"
     \/ rec.pc = "planning"
  /\ Guard /\ SameContext
  /\ deferred' = [deferred EXCEPT ![rec.id] = [rec EXCEPT !.pc = "waiting"]]
  /\ Defer
  /\ lock' = "free"
  /\ UNCHANGED orders

\* The context moved on before an order was reserved.
ExitChanged ==
  /\ \/ rec.pc = "waiting" /\ lock = "free"
     \/ rec.pc = "planning"
  /\ ~SameContext
  /\ deferred' = [deferred EXCEPT ![rec.id] = NoAssessment]
  /\ Defer
  /\ lock' = "free"
  /\ UNCHANGED orders

\* Any other hold.
ExitHeld ==
  /\ \/ rec.pc = "waiting" /\ lock = "free"
     \/ rec.pc = "planning"
  /\ Close("closed")
  /\ lock' = "free"
  /\ UNCHANGED <<orders, deferred, retry>>

PlanExit ==
  /\ rec.pc = "planning"
  /\ Guard /\ SameContext
  /\ Unreserved(rec.id)
  /\ Reserve(rec.id, "EXIT")
  /\ rec' = [rec EXCEPT !.pc = "review"]
  /\ UNCHANGED <<row, kind, event, generation, attempt, position, taskVars,
                 deferred, retry, scanned, swept>>

\* The newest message the guard knows of.
Watermark == Max({n \in Message : row[n] # 0})

SourceVerified == VerifyMissed(rec.id, rec.kind, Watermark)

\* before_submit: the guard again, then the reader.
SendExit ==
  /\ rec.pc = "review"
  /\ Guard /\ SameContext
  /\ SourceVerified
  /\ rec' = [rec EXCEPT !.pc = "sent"]
  /\ UNCHANGED <<storeVars, taskVars, deferred, retry, scanned, swept>>

\* Whatever before_submit raises, RobinhoodBroker.submit makes a preflight hold of it;
\* other failures leave the order unknown.
SendExitHolds ==
  /\ rec.pc = "review"
  /\ Close("closed")
  /\ \E status \in {"rejected", "unknown"} : SetOrder(rec.id, status, 0)
  /\ lock' = "free"
  /\ UNCHANGED <<deferred, retry>>

AnswerExit ==
  /\ rec.pc = "sent"
  /\ \E s \in {"unknown", "open", "rejected", "filled"}, q \in 0 .. MaxQty :
       Outcome(rec.id, s, q)
  /\ SetEvent(rec.id, "closed")
  /\ rec' = NoAssessment
  /\ lock' = "free"
  /\ UNCHANGED <<row, kind, generation, attempt, queue, task, deferred, retry, scanned, swept>>

RetryDue(m) ==
  /\ m \in retry
  /\ retry' = retry \ {m}
  /\ UNCHANGED <<storeVars, taskVars, rec, deferred, scanned, swept>>

RecoveryInit ==
  /\ rec = NoAssessment
  /\ deferred = [m \in Message |-> NoAssessment]
  /\ retry = {}
  /\ scanned = FALSE
  /\ swept = -1

Assess ==
  \/ Interpret
  \/ Review
  \/ FactsMissing
  \/ Viable
  \/ Changed

ExecuteExit ==
  \/ AdmitExit
  \/ ExitNotReady
  \/ ExitChanged
  \/ ExitHeld
  \/ PlanExit
  \/ SendExit
  \/ SendExitHolds
  \/ AnswerExit

RecoveryNext ==
  /\ \/ Poll
     \/ Assess
     \/ ExecuteExit
     \/ \E m \in Message : RetryDue(m)
  /\ UNCHANGED <<gatewayVars, aged>>
=============================================================================
