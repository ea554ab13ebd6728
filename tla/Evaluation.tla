----------------------------- MODULE Evaluation -----------------------------
(***************************************************************************)
(* From an observed message to an order: the messages, events and          *)
(* evaluation_attempts tables of core.Store and Engine.handle, in live     *)
(* mode, for the one contract a source group trades.                       *)
(*                                                                         *)
(* Evaluations run side by side, execution holds Engine.lock.  What the    *)
(* broker, quotes, prices and the kill switch decide may hold an order at  *)
(* any point; how an order is submitted and reconciled in detail, and what *)
(* protects the position meanwhile, is module Execution.                   *)
(*                                                                         *)
(* note_observation is not apart here: it runs in the same synchronous     *)
(* block as Store.observe and remembers what the rows say.                 *)
(***************************************************************************)
EXTENDS Gateway

CONSTANTS
  MaxQty,      \* bound: contracts bought by an entry
  MaxStale,    \* bound: messages that grow older than max_signal_age_seconds
  Meaning      \* message -> instructions an evaluator may find in it

ASSUME EvaluationAssumption ==
  /\ MaxQty \in Nat \ {0}
  /\ MaxStale \in Nat
  /\ Meaning \in [Message -> SUBSET {"OPEN", "EXIT", "NONE"}]

VARIABLES
  row,         \* messages.revision, 0 without a row
  kind,        \* "ingestion" of the stored body
  event,       \* events.state of each revision
  generation,  \* source_generations
  attempt,     \* evaluation_attempts.state
  orders,      \* orders table, in rowid order
  position,    \* contracts owned
  queue,       \* deliveries whose task has not begun
  task,        \* Engine.handle of each message
  lock,        \* who holds Engine.lock
  aged         \* messages up to this one are older than max_signal_age_seconds

storeVars == <<row, kind, event, generation, attempt, orders, position>>
taskVars  == <<queue, task, lock>>
engineVars == <<storeVars, taskVars, aged>>

Unsettled == {"submitting", "unknown", "open"}

\* "after" stands for created_at: the messages posted by then.
Order == [id: Message, action: {"OPEN", "EXIT"}, qty: 1 .. MaxQty, filled: 0 .. MaxQty,
          after: Message, status: Unsettled \union {"rejected", "filled"}]

\* "missed" is a held event whose reason is a stale signal or a stopped worker;
\* "closed" is every other outcome.
EventState == {"none", "observed", "evaluating", "context", "missed", "closed",
               "pending", "assessing"}

Delivery == [copy: Copy, observed: {"new", "edit", "same"}]

Idle == [pc |-> "idle", generation |-> 0, seen |-> <<>>, action |-> "NONE"]

-----------------------------------------------------------------------------
(* Reading the store. *)

OrderNumber == 1 .. Len(orders)
HasOrder(m) == \E i \in OrderNumber : orders[i].id = m
Revised(m)  == event[m][2] # "none"

\* Store.position_generation, without average prices, which may coincide.
PositionGeneration ==
  <<position, {<<i, orders[i].status>> : i \in {j \in OrderNumber : orders[j].status \in Unsettled}}>>

NothingUnresolved == \A i \in OrderNumber : orders[i].status \notin Unsettled

\* The newest entry with a fill, 0 if there is none.
Entry == Max({i \in OrderNumber : orders[i].action = "OPEN" /\ orders[i].filled > 0} \union {0})

\* The owned contracts were bought after the message was posted.
Predates(m) == Entry # 0 /\ orders[Entry].after >= m

Fresh(m) == m > aged

\* Engine.unchanged, the part about messages.
NothingNewer(m) == row[m] = 1 /\ \A n \in Message : row[n] # 0 => n <= m

\* Engine.unchanged, with the claim of the evaluation.
Unchanged(m) == /\ task[m].generation = generation
                /\ task[m].seen = PositionGeneration
                /\ NothingNewer(m)

\* RecoveryEvaluator.enqueue, which follows every Engine.handle.
Enqueued(ev, copy, observed) ==
  IF /\ observed # "edit" /\ copy.rev = 1
     /\ \/ copy.kind = "baseline" /\ ev[copy.id][1] \in {"context", "observed"}
        \/ ev[copy.id][1] = "missed"
     /\ ~HasOrder(copy.id)
     /\ ev[copy.id][2] = "none"
  THEN [ev EXCEPT ![copy.id][1] = "pending"]
  ELSE ev

-----------------------------------------------------------------------------
(* on_message and Store.observe: the delivery of an observation. *)

Deliver ==
  /\ inbox # <<>>
  /\ inbox' = Tail(inbox)
  /\ LET c == Head(inbox)
         isNew == event[c.id][c.rev] = "none"
     IN  \/ /\ row[c.id] = c.rev
            /\ queue' = Append(queue, [copy |-> c, observed |-> "same"])
            /\ UNCHANGED <<row, kind, event, generation>>
         \/ /\ row[c.id] # c.rev
            /\ row' = [row EXCEPT ![c.id] = c.rev]
            /\ kind' = [kind EXCEPT ![c.id] = c.kind]
            /\ generation' = generation + 1
            /\ event' = IF isNew THEN [event EXCEPT ![c.id][c.rev] = "observed"] ELSE event
            /\ queue' = Append(queue, [copy |-> c,
                                       observed |-> IF ~isNew THEN "same"
                                                    ELSE IF row[c.id] # 0 THEN "edit" ELSE "new"])
  /\ UNCHANGED <<source, link, sessions, ready, page, cache,
                 attempt, orders, position, task, lock, aged>>

-----------------------------------------------------------------------------
(* Engine.handle up to the evaluator. *)

\* The first delivery is taken up, and its event becomes "state" unless that is "".
Take(d, state) ==
  /\ queue # <<>> /\ d = Head(queue)
  /\ queue' = Tail(queue)
  /\ event' = Enqueued(IF state = "" THEN event
                       ELSE [event EXCEPT ![d.copy.id][d.copy.rev] = state],
                       d.copy, d.observed)

ForExecution(d) == d.observed = "new" /\ d.copy.rev = 1 /\ d.copy.kind = "live"

\* Nothing to evaluate: a repetition, or a message that is only context.
TakeContext(d) ==
  /\ ~ForExecution(d)
  /\ Take(d, IF d.observed = "same" THEN "" ELSE "context")
  /\ UNCHANGED <<row, kind, generation, attempt, orders, position, task, lock>>

\* Held before the evaluation: stale, overtaken, or the kill switch.
TakeHeld(d) ==
  /\ ForExecution(d)
  /\ Take(d, IF Fresh(d.copy.id) THEN "closed" ELSE "missed")
  /\ UNCHANGED <<row, kind, generation, attempt, orders, position, task, lock>>

\* The evaluator is asked.
TakeEvaluation(d) ==
  LET m == d.copy.id IN
  /\ ForExecution(d)
  /\ Fresh(m) /\ NothingNewer(m)
  /\ attempt[m] = "none"
  /\ Take(d, "evaluating")
  /\ attempt' = [attempt EXCEPT ![m] = "evaluating"]
  /\ task' = [task EXCEPT ![m] = [Idle EXCEPT !.pc = "evaluating", !.generation = generation,
                                              !.seen = PositionGeneration]]
  /\ UNCHANGED <<row, kind, generation, orders, position, lock>>

\* The evaluator answers.
Interpreted(m) ==
  /\ task[m].pc = "evaluating"
  /\ \E a \in Meaning[m] : task' = [task EXCEPT ![m].pc = "waiting", ![m].action = a]
  /\ UNCHANGED <<storeVars, queue, lock>>

\* The end of Engine.handle, and the enqueue that follows it.
Finish(m, state) ==
  /\ task' = [task EXCEPT ![m] = Idle]
  /\ attempt' = [attempt EXCEPT ![m] = "finished"]
  /\ event' = Enqueued([event EXCEPT ![m][1] = state], [id |-> m, rev |-> 1, kind |-> "live"], "new")
  /\ UNCHANGED <<row, kind, generation, position, queue>>

InterpretFails(m) ==
  /\ task[m].pc = "evaluating"
  /\ Finish(m, "closed")
  /\ UNCHANGED <<orders, lock>>

-----------------------------------------------------------------------------
(* Engine.handle and execute_decision, under Engine.lock. *)

\* The lock is taken: the message must still be what was evaluated.
Admit(m) ==
  /\ task[m].pc = "waiting" /\ lock = "free"
  /\ Unchanged(m) /\ Fresh(m)
  /\ attempt[m] = "evaluating"
  /\ task[m].action # "NONE"
  /\ attempt' = [attempt EXCEPT ![m] = "accepted"]
  /\ task' = [task EXCEPT ![m].pc = "planning"]
  /\ lock' = "live"
  /\ UNCHANGED <<row, kind, event, generation, orders, position, queue>>

\* It is not, or there is nothing to do.
AdmitNothing(m) ==
  /\ task[m].pc = "waiting" /\ lock = "free"
  /\ ~(Unchanged(m) /\ Fresh(m)) \/ attempt[m] # "evaluating" \/ task[m].action = "NONE"
  /\ Finish(m, IF Unchanged(m) /\ ~Fresh(m) THEN "missed" ELSE "closed")
  /\ UNCHANGED <<orders, lock>>

\* Engine.plan: what the ledger says about the decision.
Permitted(m, action) ==
  /\ NothingUnresolved
  /\ action = "OPEN" => position = 0
  /\ action = "EXIT" => position > 0 /\ ~Predates(m)

\* Mutant of Unreserved: any message may get a second order.
UnreservedAlways(m) == TRUE

\* client_order_id, the primary key of orders, is made of message and revision.
Unreserved(m) == ~HasOrder(m)

\* Store.reserve: an entry of any size, an exit of no more than is owned.
Reserve(m, action) ==
  \E q \in 1 .. MaxQty :
    /\ action = "EXIT" => q <= position
    /\ orders' = Append(orders, [id |-> m, action |-> action, qty |-> q, filled |-> 0,
                                 after |-> Posted, status |-> "submitting"])

SetOrder(m, status, filled) ==
  LET i == Max({j \in OrderNumber : orders[j].id = m}) IN
  orders' = [orders EXCEPT ![i].status = status, ![i].filled = filled]

\* plan and verify_dispatch pass, and the order is reserved.  The claim takes the
\* reservation for its own.
Plan(m) ==
  /\ task[m].pc = "planning"
  /\ Fresh(m) /\ Unchanged(m) /\ Permitted(m, task[m].action)
  /\ Unreserved(m)
  /\ Reserve(m, task[m].action)
  /\ UNCHANGED <<row, kind, event, generation, attempt, position, queue, lock>>
  /\ task' = [task EXCEPT ![m].pc = "review", ![m].seen = PositionGeneration']

\* They do not: quotes, prices and the account may hold any order.
PlanHolds(m) ==
  /\ task[m].pc = "planning"
  /\ Finish(m, IF Fresh(m) THEN "closed" ELSE "missed")
  /\ lock' = "free"
  /\ UNCHANGED orders

\* Mutant of Send: the reader is not asked.
SendUnverified(m) ==
  /\ task[m].pc = "review"
  /\ Fresh(m) /\ Unchanged(m)
  /\ task' = [task EXCEPT ![m].pc = "sent"]
  /\ UNCHANGED <<storeVars, queue, lock>>

\* before_submit: the message is checked again, last of all with the reader.
Send(m) ==
  /\ task[m].pc = "review"
  /\ Fresh(m) /\ Unchanged(m) /\ Verify(m)
  /\ task' = [task EXCEPT ![m].pc = "sent"]
  /\ UNCHANGED <<storeVars, queue, lock>>

\* Nothing is sent: a preflight hold, or a failure that is not recognised as one.
SendHolds(m) ==
  /\ task[m].pc = "review"
  /\ Finish(m, "closed")
  /\ \E status \in {"rejected", "unknown"} : SetOrder(m, status, 0)
  /\ lock' = "free"

\* Mutant of Outcome: every fill is taken for a sale.
OutcomeSells(m, status, filled) ==
  LET o == orders[Max({j \in OrderNumber : orders[j].id = m})] IN
  /\ status = "filled" <=> filled > 0
  /\ filled <= o.qty
  /\ SetOrder(m, status, filled)
  /\ position' = position - filled

\* What becomes of a sent order, as far as it is known by then; "filled" ends it with a
\* fill, perhaps of a part.
Outcome(m, status, filled) ==
  LET o == orders[Max({j \in OrderNumber : orders[j].id = m})] IN
  /\ status = "filled" <=> filled > 0
  /\ filled <= o.qty
  /\ SetOrder(m, status, filled)
  /\ position' = IF o.action = "OPEN" THEN position + filled ELSE position - filled

Answer(m) ==
  /\ task[m].pc = "sent"
  /\ \E s \in {"unknown", "open", "rejected", "filled"}, q \in 0 .. MaxQty : Outcome(m, s, q)
  /\ task' = [task EXCEPT ![m] = Idle]
  /\ attempt' = [attempt EXCEPT ![m] = "finished"]
  /\ event' = [event EXCEPT ![m][1] = "closed"]
  /\ lock' = "free"
  /\ UNCHANGED <<row, kind, generation, queue>>

\* Reconciliation learns how an order ended.
Reconcile ==
  /\ lock = "free"
  /\ \E i \in OrderNumber, s \in {"rejected", "filled"}, q \in 0 .. MaxQty :
       /\ orders[i].status \in Unsettled
       /\ Outcome(orders[i].id, s, q)
  /\ UNCHANGED <<row, kind, event, generation, attempt, taskVars>>

\* Time passes.
Age ==
  /\ aged < Posted /\ aged < MaxStale
  /\ aged' = aged + 1
  /\ UNCHANGED <<storeVars, taskVars>>

EvaluationInit ==
  /\ row = [m \in Message |-> 0]
  /\ kind = [m \in Message |-> "none"]
  /\ event = [m \in Message |-> [r \in Revision |-> "none"]]
  /\ generation = 0
  /\ attempt = [m \in Message |-> "none"]
  /\ orders = <<>>
  /\ position = 0
  /\ queue = <<>>
  /\ task = [m \in Message |-> Idle]
  /\ lock = "free"
  /\ aged = 0

Execute(m) ==
  \/ Admit(m)
  \/ AdmitNothing(m)
  \/ Plan(m)
  \/ PlanHolds(m)
  \/ Send(m)
  \/ SendHolds(m)
  \/ Answer(m)

Handle ==
  \/ \E d \in {queue[i] : i \in 1 .. Len(queue)} :
       TakeContext(d) \/ TakeHeld(d) \/ TakeEvaluation(d)
  \/ \E m \in Message : Interpreted(m) \/ InterpretFails(m) \/ Execute(m)

EvaluationNext ==
  \/ Deliver
  \/ (Handle \/ Reconcile) /\ UNCHANGED <<gatewayVars, aged>>
  \/ Age /\ UNCHANGED gatewayVars
=============================================================================
