------------------------------- MODULE Monitor -------------------------------
(***************************************************************************)
(* PositionMonitors (monitoring.py): durable observations of one owned     *)
(* contract that wake the evaluator again.  A poll loop, one evaluation    *)
(* task per monitor, new instructions and the account work of others share *)
(* one row per monitor, which each writes with a compare-and-swap on the   *)
(* copy it read.                                                           *)
(*                                                                         *)
(* The evaluator's answer, the trigger conditions and the facts that may   *)
(* block an exit are choices; the stop orders around an exit and what      *)
(* becomes of an order in detail are module Execution.                     *)
(***************************************************************************)
EXTENDS Integers, Sequences

CONSTANTS
  MaxMonitor,      \* bound: monitors ever armed
  MaxGeneration,   \* bound: times a monitor is renewed
  MaxEntry,        \* bound: entries ever filled
  MaxContext,      \* bound: messages that arrive
  MaxRestart       \* bound: ends of the process

ASSUME MonitorAssumption ==
  {MaxMonitor, MaxGeneration, MaxEntry, MaxContext, MaxRestart} \subseteq Nat

VARIABLES
  monitors,    \* position_monitors table
  overdue,     \* monitors past their expires_at
  polling,     \* what poll_once is observing: its id and the copy it read
  tasks,       \* PositionMonitors.tasks: the evaluation of each monitor
  sold,        \* orders made by monitors, in rowid order
  entry,       \* filled entries of the contract so far; the last is the position's
  owned,       \* contracts owned
  context,     \* source_generations
  holder,      \* who holds Engine.lock: 0, a monitor, or -1 for another
  foreground,  \* messages are being evaluated or wait in the queue
  killed,      \* the kill-switch file exists
  restarts     \* ends of the process so far

monitorVars == <<monitors, overdue, polling, tasks, sold, entry, owned, context, holder,
                 foreground, killed, restarts>>

MonitorId == 1 .. MaxMonitor
Watching  == {"active", "evaluating", "error"}

\* "event" tells whether the row has an event_id: a firing that is not settled.
Row   == [state: Watching \union {"none", "canceled", "expired", "completed"},
          generation: 0 .. MaxGeneration, event: BOOLEAN, entry: 0 .. MaxEntry]
NoRow == [state |-> "none", generation |-> 0, event |-> FALSE, entry |-> 0]

\* The locals of evaluate: the row, and the inventory and messages the answer is about.
Task   == [pc: {"none", "created", "assessing", "waiting", "executing", "reserved", "sent"},
           row: Row, owned: Nat, orders: Nat, context: 0 .. MaxContext,
           action: {"", "SELL", "RENEW", "DROP"}]
NoTask == [pc |-> "none", row |-> NoRow, owned |-> 0, orders |-> 0, context |-> 0, action |-> ""]

NoPoll == [id |-> 0, row |-> NoRow]

\* An order of a monitor: which firing made it, and for which position.
Sale == [monitor: MonitorId, generation: 0 .. MaxGeneration, entry: 0 .. MaxEntry]

HasSale(i, g) == \E k \in 1 .. Len(sold) : sold[k].monitor = i /\ sold[k].generation = g

\* PositionMonitors.owned: the position is still the one of the entry.
StillOwned(row) == owned > 0 /\ entry = row.entry

\* Mutant of Saved: the row is written whatever happened to it.
SavedAnyway(i, copy, row) == [monitors EXCEPT ![i] = row]

\* PositionMonitors.save: the row is written if it is still the copy that was read.
Saved(i, copy, row) == IF monitors[i] = copy THEN [monitors EXCEPT ![i] = row] ELSE monitors

-----------------------------------------------------------------------------
(* PositionMonitors.arm. *)

\* A WAIT instruction takes the place of the one before.  Engine.handle holds Engine.lock
\* for it, the recovery of missed alerts does not.
Arm(i) ==
  /\ owned > 0
  /\ monitors[i].state = "none" /\ \A j \in 1 .. i - 1 : monitors[j].state # "none"
  /\ monitors' = [j \in MonitorId |->
       IF j = i THEN [NoRow EXCEPT !.state = "active", !.entry = entry]
       ELSE IF monitors[j].state \in Watching THEN [monitors[j] EXCEPT !.state = "canceled"]
       ELSE monitors[j]]
  /\ UNCHANGED <<overdue, polling, tasks, sold, entry, owned, context, holder, foreground,
                 killed, restarts>>

-----------------------------------------------------------------------------
(* PositionMonitors.poll_once. *)

\* The firing has an order: normal reconciliation owns its outcome.
Settled(i) == monitors[i].event /\ HasSale(i, monitors[i].generation)

\* Mutant of PickedUp: a claim whose task is gone is not taken up again.
PickedUpUnclaimed(i) == monitors[i].state \in {"active", "error"} /\ tasks[i].pc = "none"

\* The rows poll_once goes through.
PickedUp(i) == monitors[i].state \in Watching /\ tasks[i].pc = "none"

\* A row comes up: it ends, or its observation begins.
PollRow(i) ==
  /\ holder = 0 /\ ~foreground /\ polling = NoPoll
  /\ PickedUp(i)
  /\ LET End(state) == /\ monitors' = [monitors EXCEPT ![i].state = state]
                       /\ UNCHANGED polling
     IN  CASE i \in overdue                -> End("expired")
           [] ~StillOwned(monitors[i])     -> End("canceled")
           [] Settled(i)                   -> End("completed")
           [] OTHER -> /\ ~killed
                       /\ polling' = [id |-> i, row |-> monitors[i]]
                       /\ UNCHANGED monitors
  /\ UNCHANGED <<overdue, tasks, sold, entry, owned, context, holder, foreground, killed, restarts>>

\* The observation fails, or the position has changed meanwhile.
ObservationFails ==
  /\ polling # NoPoll
  /\ monitors' = Saved(polling.id, polling.row, [polling.row EXCEPT !.state = "error"])
  /\ polling' = NoPoll
  /\ UNCHANGED <<overdue, tasks, sold, entry, owned, context, holder, foreground, killed, restarts>>

\* It is saved.  Nothing is triggered, the market is closed, or a message waits.
Observed ==
  /\ polling # NoPoll /\ StillOwned(polling.row)
  /\ monitors' = Saved(polling.id, polling.row, [polling.row EXCEPT !.state = "active"])
  /\ polling' = NoPoll
  /\ UNCHANGED <<overdue, tasks, sold, entry, owned, context, holder, foreground, killed, restarts>>

\* A condition or the timer triggers, or an earlier firing is resumed.
Triggered ==
  LET i == polling.id
      row == [polling.row EXCEPT !.state = "evaluating", !.event = TRUE]
  IN
  /\ polling # NoPoll /\ StillOwned(polling.row)
  /\ monitors' = Saved(i, polling.row, row)
  /\ tasks' = IF monitors'[i] = row THEN [tasks EXCEPT ![i].pc = "created"] ELSE tasks
  /\ polling' = NoPoll
  /\ UNCHANGED <<overdue, sold, entry, owned, context, holder, foreground, killed, restarts>>

-----------------------------------------------------------------------------
(* PositionMonitors.evaluate. *)

\* The task ends, and the row becomes "row" unless it has moved on.
EndTask(i, row) ==
  /\ monitors' = Saved(i, tasks[i].row, row)
  /\ tasks' = [tasks EXCEPT ![i] = NoTask]
  /\ holder' = IF holder = i THEN 0 ELSE holder
  /\ UNCHANGED <<overdue, polling, entry, context, foreground, killed, restarts>>

\* The except clause: the firing is held and will be resumed by a later poll.
TaskHeld(i) == EndTask(i, [tasks[i].row EXCEPT !.state = "error"])

\* The task runs up to the call of the evaluator.
BeginTask(i) ==
  /\ tasks[i].pc = "created" /\ monitors[i].state = "evaluating"
  /\ tasks' = [tasks EXCEPT ![i] = IF StillOwned(monitors[i])
                 THEN [pc |-> "assessing", row |-> monitors[i], owned |-> owned,
                       orders |-> Len(sold), context |-> context, action |-> ""]
                 ELSE NoTask]
  /\ monitors' = IF StillOwned(monitors[i]) THEN monitors
                 ELSE [monitors EXCEPT ![i].state = "error"]
  /\ UNCHANGED <<overdue, polling, sold, entry, owned, context, holder, foreground, killed, restarts>>

\* The evaluator answers about the row as it still stands.
Assessed(i) ==
  /\ tasks[i].pc = "assessing" /\ monitors[i] = tasks[i].row
  /\ \E a \in {"SELL", "RENEW", "DROP"} :
       tasks' = [tasks EXCEPT ![i].pc = "waiting", ![i].action = a]
  /\ UNCHANGED <<monitors, overdue, polling, sold, entry, owned, context, holder, foreground,
                 killed, restarts>>

\* The row moved on, or a message waits: the answer is dropped.
AssessedInVain(i) ==
  \/ /\ tasks[i].pc = "created" /\ monitors[i].state # "evaluating"
     /\ EndTask(i, tasks[i].row)
     /\ UNCHANGED <<sold, owned>>
  \/ /\ tasks[i].pc = "assessing" /\ (monitors[i] # tasks[i].row \/ foreground)
     /\ EndTask(i, tasks[i].row)
     /\ UNCHANGED <<sold, owned>>

\* Mutant of Guard: it is not asked whose position is owned.
GuardWithoutOwner(i) ==
  /\ monitors[i] = tasks[i].row
  /\ i \notin overdue /\ ~killed
  /\ context = tasks[i].context
  /\ owned = tasks[i].owned

\* guard, which is asked again before each step that leads to an order.
Guard(i) ==
  /\ monitors[i] = tasks[i].row
  /\ i \notin overdue /\ ~killed
  /\ StillOwned(tasks[i].row)
  /\ context = tasks[i].context
  /\ owned = tasks[i].owned

\* The evaluator fails, the guard, or what the account, the ledger and quotes say.
TaskFails(i) ==
  /\ \/ tasks[i].pc = "assessing"
     \/ tasks[i].pc = "waiting" /\ holder = 0
     \/ tasks[i].pc = "executing"
  /\ TaskHeld(i)
  /\ UNCHANGED <<sold, owned>>

\* Under the lock: an exit begins.
BeginSale(i) ==
  /\ tasks[i].pc = "waiting" /\ holder = 0 /\ tasks[i].action = "SELL"
  /\ Guard(i)
  /\ Len(sold) = tasks[i].orders
  /\ tasks' = [tasks EXCEPT ![i].pc = "executing"]
  /\ holder' = i
  /\ UNCHANGED <<monitors, overdue, polling, sold, entry, owned, context, foreground, killed, restarts>>

\* Under the lock: the monitor is renewed for another generation, or done.
Conclude(i) ==
  /\ tasks[i].pc = "waiting" /\ holder = 0
  /\ Guard(i)
  /\ \/ /\ tasks[i].action = "RENEW" /\ monitors[i].generation < MaxGeneration
        /\ EndTask(i, [monitors[i] EXCEPT !.state = "active", !.event = FALSE, !.generation = @ + 1])
     \/ /\ tasks[i].action = "DROP"
        /\ EndTask(i, [monitors[i] EXCEPT !.state = "completed"])
  /\ UNCHANGED <<sold, owned>>

\* execute_decision: the exit is planned and reserved under the id of the firing.
ReserveSale(i) ==
  /\ tasks[i].pc = "executing"
  /\ Guard(i)
  /\ ~HasSale(i, monitors[i].generation)
  /\ sold' = Append(sold, [monitor |-> i, generation |-> monitors[i].generation, entry |-> entry])
  /\ tasks' = [tasks EXCEPT ![i].pc = "reserved"]
  /\ UNCHANGED <<monitors, overdue, polling, entry, owned, context, holder, foreground, killed, restarts>>

\* before_submit: the guard once more, and the order is sent.
SendSale(i) ==
  /\ tasks[i].pc = "reserved"
  /\ Guard(i)
  /\ tasks' = [tasks EXCEPT ![i].pc = "sent"]
  /\ UNCHANGED <<monitors, overdue, polling, sold, entry, owned, context, holder, foreground,
                 killed, restarts>>

\* The end of execute_decision: nothing was sent, or an answer came and was booked.
\* Restoring the stop may fail after that.
FinishSale(i) ==
  /\ tasks[i].pc \in {"reserved", "sent"}
  /\ owned' \in IF tasks[i].pc = "sent" THEN 0 .. owned ELSE {owned}
  /\ EndTask(i, [monitors[i] EXCEPT !.state = "completed"]) \/ TaskHeld(i)
  /\ UNCHANGED sold

-----------------------------------------------------------------------------
(* PositionMonitors.run, beside the polls: a task that must not go on is cancelled. *)

CancelTask(i) ==
  /\ holder = 0 /\ tasks[i].pc # "none"
  /\ \/ /\ monitors[i].state \notin Watching \/ killed \/ foreground
        /\ UNCHANGED monitors
     \/ /\ monitors[i].state \in Watching /\ i \in overdue
        /\ monitors' = [monitors EXCEPT ![i].state = "expired"]
  /\ tasks' = [tasks EXCEPT ![i] = NoTask]
  /\ UNCHANGED <<overdue, polling, sold, entry, owned, context, holder, foreground, killed, restarts>>

\* The process ends, on request or not: tasks are gone, rows and orders stay.
EndProcess ==
  /\ restarts < MaxRestart
  /\ restarts' = restarts + 1
  /\ polling' = NoPoll
  /\ tasks' = [i \in MonitorId |-> NoTask]
  /\ holder' = 0
  /\ foreground' = FALSE
  /\ UNCHANGED <<monitors, overdue, sold, entry, owned, context, killed>>

-----------------------------------------------------------------------------
(* The others. *)

\* Messages arrive and are evaluated; while they are, the account may be traded.
Message ==
  /\ ~foreground /\ context < MaxContext
  /\ foreground' = TRUE
  /\ context' = context + 1
  /\ UNCHANGED <<monitors, overdue, polling, tasks, sold, entry, owned, holder, killed, restarts>>

Evaluated ==
  /\ foreground /\ holder # -1
  /\ foreground' = FALSE
  /\ UNCHANGED <<monitors, overdue, polling, tasks, sold, entry, owned, context, holder, killed, restarts>>

Trade ==
  \/ /\ holder = 0
     /\ holder' = -1
     /\ UNCHANGED <<entry, owned>>
  \/ /\ holder = -1
     /\ holder' = 0
     /\ \/ owned > 0 /\ owned' = owned - 1 /\ UNCHANGED entry
        \/ owned = 0 /\ entry < MaxEntry /\ owned' = 1 /\ entry' = entry + 1
        \/ UNCHANGED <<entry, owned>>

\* A stop fills and is booked: by reconciliation, or by the exit that cancels it.
StopFills ==
  /\ owned > 0
  /\ holder = 0 \/ \E i \in MonitorId : tasks[i].pc = "executing"
  /\ owned' = owned - 1
  /\ UNCHANGED <<entry, holder>>

Account ==
  /\ Trade \/ StopFills
  /\ UNCHANGED <<monitors, overdue, polling, tasks, sold, context, foreground, killed, restarts>>

ToggleKill ==
  /\ killed' = ~killed
  /\ UNCHANGED <<monitors, overdue, polling, tasks, sold, entry, owned, context, holder,
                 foreground, restarts>>

Deadline(i) ==
  /\ monitors[i].state \in Watching /\ i \notin overdue
  /\ overdue' = overdue \union {i}
  /\ UNCHANGED <<monitors, polling, tasks, sold, entry, owned, context, holder, foreground,
                 killed, restarts>>

-----------------------------------------------------------------------------

MonitorInit ==
  /\ monitors = [i \in MonitorId |-> NoRow]
  /\ overdue = {}
  /\ polling = NoPoll
  /\ tasks = [i \in MonitorId |-> NoTask]
  /\ sold = <<>>
  /\ entry = 0
  /\ owned = 0
  /\ context = 0
  /\ holder = 0
  /\ foreground = FALSE
  /\ killed = FALSE
  /\ restarts = 0

Poll == (\E i \in MonitorId : PollRow(i)) \/ ObservationFails \/ Observed \/ Triggered

RunTask(i) ==
  \/ BeginTask(i)
  \/ Assessed(i)
  \/ AssessedInVain(i)
  \/ TaskFails(i)
  \/ BeginSale(i)
  \/ Conclude(i)
  \/ ReserveSale(i)
  \/ SendSale(i)
  \/ FinishSale(i)

MonitorNext ==
  \/ \E i \in MonitorId : Arm(i) \/ RunTask(i) \/ CancelTask(i) \/ Deadline(i)
  \/ Poll
  \/ EndProcess
  \/ Message
  \/ Evaluated
  \/ Account
  \/ ToggleKill

\* The event loop runs, the clock goes on and other work comes to an end.  Strong fairness
\* where Engine.lock is needed: the lock is first come, first served, and the loop, which
\* looks once a second, does not for ever look while it is taken.
MonitorFairness ==
  /\ SF_monitorVars(Evaluated)
  /\ WF_monitorVars(holder = -1 /\ Account)
  /\ \A i \in MonitorId :
       /\ WF_monitorVars(Deadline(i))
       /\ SF_monitorVars(PollRow(i))
       /\ SF_monitorVars(CancelTask(i))
       /\ SF_monitorVars(RunTask(i))
  /\ WF_monitorVars(ObservationFails \/ Observed \/ Triggered)

MonitorSpec == MonitorInit /\ [][MonitorNext]_monitorVars /\ MonitorFairness

-----------------------------------------------------------------------------

MonitorTypeOK ==
  /\ monitors \in [MonitorId -> Row]
  /\ overdue \subseteq MonitorId
  /\ polling \in [id: MonitorId \union {0}, row: Row]
  /\ tasks \in [MonitorId -> Task]
  /\ sold \in Seq(Sale)
  /\ entry \in 0 .. MaxEntry
  /\ owned \in Nat
  /\ context \in 0 .. MaxContext
  /\ holder \in MonitorId \union {0, -1}
  /\ foreground \in BOOLEAN /\ killed \in BOOLEAN
  /\ restarts \in 0 .. MaxRestart

\* PositionMonitors.save and arm: a contract is watched by one instruction, the newest,
\* whatever the poll loop and the tasks still write.
OneInstructionWatches ==
  \A i \in MonitorId : monitors[i].state \in Watching =>
    \A j \in MonitorId : j > i => monitors[j].state = "none"

\* poll_once: a monitor sells once in its life, whatever is cancelled, resumed after a
\* restart, or fails after the order was reserved.
MonitorSellsOnce ==
  \A k, l \in 1 .. Len(sold) : sold[k].monitor = sold[l].monitor => k = l

\* guard: what a monitor sells was bought by the entry it was armed for, though the position
\* may be sold and bought again while the evaluator thinks.
MonitorSellsItsEntry ==
  \A k \in 1 .. Len(sold) : sold[k].entry = monitors[sold[k].monitor].entry

\* A monitor sells what it was armed for, and once.
MonitorSellsItsOwn == MonitorSellsOnce /\ MonitorSellsItsEntry

\* run and poll_once: every monitor comes to an end, whatever is cancelled, held or restarted.
MonitorEnds ==
  \A i \in MonitorId : monitors[i].state \in Watching ~> monitors[i].state \notin Watching
=============================================================================
