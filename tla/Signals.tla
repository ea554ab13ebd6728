------------------------------ MODULE Signals -------------------------------
(***************************************************************************)
(* The way of a message from Discord to an order: the gateway reader, the  *)
(* live evaluation and the recovery of missed exits in one process, which  *)
(* may be stopped or die at any moment and starts again on its database.   *)
(***************************************************************************)
EXTENDS Recovery

vars == <<gatewayVars, engineVars, recoveryVars>>

-----------------------------------------------------------------------------
(* The end of the process, and its next start on the same database. *)

\* RecoveryEvaluator.__init__: an interrupted assessment waits again.
Waiting(ev) ==
  [m \in Message |-> IF ev[m][1] = "assessing" THEN [ev[m] EXCEPT ![1] = "pending"] ELSE ev[m]]

\* Store.__init__: what was under way is of unknown fate.
Restart ==
  /\ GatewayRestart
  /\ orders' = [i \in OrderNumber |->
                  IF orders[i].status = "submitting"
                  THEN [orders[i] EXCEPT !.status = "unknown"] ELSE orders[i]]
  /\ queue' = <<>>
  /\ task' = [m \in Message |-> Idle]
  /\ lock' = "free"
  /\ rec' = NoAssessment
  /\ deferred' = [m \in Message |-> NoAssessment]
  /\ retry' = {}
  /\ scanned' = FALSE
  /\ swept' = -1
  /\ UNCHANGED <<row, kind, generation, position, aged>>

\* The process dies.
Crash ==
  /\ Restart
  /\ event' = Waiting(event)
  /\ attempt' = [m \in Message |->
                   IF attempt[m] \in {"evaluating", "accepted"} THEN "interrupted" ELSE attempt[m]]

\* Engine.handle and RecoveryEvaluator.assess, cancelled.
Cancelled ==
  [m \in Message |->
     CASE task[m].pc # "idle" -> [event[m] EXCEPT ![1] = "context"]
       [] rec.id = m -> [event[m] EXCEPT ![1] = "pending"]
       [] OTHER -> event[m]]

\* run, at its end: what was never interpreted may be recovered.
Abandoned(ev) ==
  [m \in Message |-> [r \in Revision |->
     IF ev[m][r] \in {"observed", "evaluating"} /\ ~HasOrder(m) THEN "missed" ELSE ev[m][r]]]

\* The process is stopped: its tasks are cancelled and run to their end.
Stop ==
  /\ Restart
  /\ event' = Waiting(Abandoned(Cancelled))
  /\ attempt' = [m \in Message |-> IF task[m].pc # "idle" THEN "finished" ELSE attempt[m]]

-----------------------------------------------------------------------------

Init ==
  /\ GatewayInit
  /\ EvaluationInit
  /\ RecoveryInit

Next ==
  \/ GatewayNext /\ UNCHANGED <<engineVars, recoveryVars>>
  \/ EvaluationNext /\ UNCHANGED recoveryVars
  \/ RecoveryNext
  \/ Crash
  \/ Stop

Spec == Init /\ [][Next]_vars

\* What the event loop runs sooner or later.  The author, Discord, the broker and the
\* clock are not fair: messages, answers to history requests, sessions, fills and ageing
\* need not come.
FairSpec ==
  /\ Spec
  /\ WF_vars(Deliver /\ UNCHANGED recoveryVars)
  /\ WF_vars(/\ \E d \in {queue[i] : i \in 1 .. Len(queue)} :
                  TakeContext(d) \/ TakeHeld(d) \/ TakeEvaluation(d)
             /\ UNCHANGED <<gatewayVars, aged, recoveryVars>>)
  /\ \A m \in Message :
       WF_vars(/\ Interpreted(m) \/ InterpretFails(m) \/ Execute(m)
               /\ UNCHANGED <<gatewayVars, aged, recoveryVars>>)
  /\ WF_vars(Poll /\ UNCHANGED <<gatewayVars, aged>>)
  /\ WF_vars((Assess \/ ExecuteExit) /\ UNCHANGED <<gatewayVars, aged>>)

-----------------------------------------------------------------------------

TypeOK ==
  /\ source \in [Message -> {"none", "original", "edited", "deleted"}]
  /\ link \in BOOLEAN /\ ready \in BOOLEAN /\ scanned \in BOOLEAN
  /\ sessions \in 0 .. MaxSession
  /\ page \in Page
  /\ cache \in [Message -> Cached]
  /\ inbox \in Seq(Copy)
  /\ row \in [Message -> Revision \union {0}]
  /\ kind \in [Message -> {"none", "live", "baseline"}]
  /\ event \in [Message -> [Revision -> EventState]]
  /\ generation \in Nat
  /\ attempt \in [Message -> {"none", "evaluating", "accepted", "finished", "interrupted"}]
  /\ orders \in Seq(Order)
  /\ position \in Nat
  /\ queue \in Seq(Delivery)
  /\ \A m \in Message : task[m].pc \in {"idle", "evaluating", "waiting", "planning", "review", "sent"}
  /\ lock \in {"free", "live", "recovery"}
  /\ aged \in Message \union {0}
  /\ rec \in Assessment
  /\ deferred \in [Message -> Assessment]
  /\ retry \subseteq Message
  /\ swept \in Nat \union {-1}

\* client_order_id: whatever is delivered again, evaluated, missed, recovered or
\* interrupted, a message moves money once.
OneOrderPerMessage ==
  \A i, j \in OrderNumber : orders[i].id = orders[j].id => i = j

\* Engine.unchanged and exit_guard: orders are made in the order of the messages they
\* obey; neither a slow evaluation nor a catch-up acts after a newer message was obeyed.
OrdersFollowMessages ==
  \A i, j \in OrderNumber : i < j => orders[i].id < orders[j].id

\* exit_guard and Engine.plan: an exit is never made for contracts bought after its
\* message was posted.
ExitsFollowTheirEntry ==
  \A j \in OrderNumber : orders[j].action = "EXIT" =>
    \E i \in 1 .. j - 1 : orders[i].action = "OPEN" /\ orders[i].after < orders[j].id

\* The orders of the relay mean what the messages meant.
OrdersAreMeant == OrdersFollowMessages /\ ExitsFollowTheirEntry

\* GatewayReader.verify and Engine.unchanged: a live order is sent only while its message
\* stands as it was posted, also when it was edited or deleted behind the reader's back,
\* between two sessions or before the history of a session was read.  A connected reader is
\* told of edits and deletions at once.
LiveSentAsShown ==
  [][\A m \in Message : Send(m) => source[m] = "original"]_vars

\* recover_saved, Engine.handle and run: an observed message does not stay unjudged,
\* whatever restarts come in between, unless an edit replaces it.
ObservedIsJudged ==
  \A m \in Message : event[m][1] = "observed" ~> event[m][1] # "observed" \/ Revised(m)

-----------------------------------------------------------------------------
(* What the documents say. *)

\* README.md: "A temporarily unavailable source keeps a viable exit pending with a
\* 30-second retry".
UnavailableSourceKeepsExitPending ==
  [][SendExitHolds /\ ~ready => event'[rec.id][1] = "pending"]_vars

\* README.md: "eligible baseline alerts and alerts held because they became stale receive
\* a separate recovery assessment".
PendingIsAssessed ==
  \A m \in Message : event[m][1] = "pending" /\ ~HasOrder(m)
                      ~> event[m][1] # "pending" \/ m \in retry \/ Revised(m)
=============================================================================
