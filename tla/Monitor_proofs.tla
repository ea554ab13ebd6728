---------------------------- MODULE Monitor_proofs ----------------------------
(***************************************************************************)
(* Proofs about Monitor and Expiry, which sell without being told to: for  *)
(* any number of monitors, renewals, entries, refusals and restarts.       *)
(***************************************************************************)
EXTENDS Monitor, Expiry, TLAPS

-----------------------------------------------------------------------------
(* Monitor. *)

(* Monitors are armed in the order of their numbers. *)
ArmedInOrder ==
  \A i, j \in MonitorId : i < j /\ monitors[i].state = "none" => monitors[j].state = "none"

(* What is evaluated is a firing. *)
EvaluatingHasFired == \A i \in MonitorId : monitors[i].state = "evaluating" => monitors[i].event

(* A poll observes a row that was watching, and leaves rows alone that are being evaluated. *)
PollingIsFree ==
  polling = NoPoll \/ ( /\ polling.id \in MonitorId /\ polling.row.state \in Watching
                        /\ tasks[polling.id].pc = "none" )

(* A task that has begun goes by a copy of a firing. *)
TaskHasFired ==
  \A i \in MonitorId : tasks[i].pc \notin {"none", "created"} =>
    tasks[i].row.state = "evaluating" /\ tasks[i].row.event

HasSold(i) == \E k \in 1 .. Len(sold) : sold[k].monitor = i

(* A monitor that has sold cannot get as far as another sale: its task is past the
   reservation or gone, and a poll that finds the row finds its firing settled. *)
SoldIsSettled ==
  \A i \in MonitorId : HasSold(i) =>
    /\ monitors[i].state # "none" /\ polling.id # i
    /\ tasks[i].pc \in {"none", "reserved", "sent"}
    /\ monitors[i].state \in Watching => Settled(i)

MonitorInv ==
  /\ MonitorTypeOK
  /\ OneInstructionWatches /\ ArmedInOrder /\ EvaluatingHasFired
  /\ PollingIsFree /\ TaskHasFired
  /\ SoldIsSettled /\ MonitorSellsItsOwn

(* Rows only go on from where they watch, and keep their entry. *)
RowsGoOn ==
  \A j \in MonitorId :
    \/ monitors'[j] = monitors[j]
    \/ /\ monitors[j].state \in Watching
       /\ monitors'[j].state # "none" /\ monitors'[j].entry = monitors[j].entry

-----------------------------------------------------------------------------

LEMMA Bounds == /\ MaxMonitor \in Nat /\ MaxGeneration \in Nat /\ MaxEntry \in Nat
                /\ MaxContext \in Nat /\ MaxRestart \in Nat
BY MonitorAssumption

LEMMA NoneTyped == NoRow \in Row /\ NoTask \in Task
<1>1. NoRow \in Row
  BY Bounds DEF Row, NoRow, Watching
<1>2. NoTask \in Task
  BY Bounds, <1>1 DEF Task, NoTask
<1> QED BY <1>1, <1>2

LEMMA MonitorInitInv == MonitorInit => MonitorInv
<1> SUFFICES ASSUME MonitorInit PROVE MonitorInv
  OBVIOUS
<1>1. monitors \in [MonitorId -> Row] /\ tasks \in [MonitorId -> Task]
  BY NoneTyped DEF MonitorInit
<1>2. sold = <<>>
  BY DEF MonitorInit
<1>3. sold \in Seq(Sale) /\ 1 .. Len(sold) = {}
  BY <1>2
<1>4. polling \in [id: MonitorId \union {0}, row: Row] /\ polling.id = 0
  BY NoneTyped DEF MonitorInit, NoPoll
<1>5. MonitorTypeOK
  <2>1. overdue \subseteq MonitorId /\ holder \in MonitorId \union {0, -1}
    BY DEF MonitorInit
  <2>2. /\ entry \in 0 .. MaxEntry /\ owned \in Nat /\ context \in 0 .. MaxContext
        /\ restarts \in 0 .. MaxRestart
    BY Bounds DEF MonitorInit
  <2>3. foreground \in BOOLEAN /\ killed \in BOOLEAN
    BY DEF MonitorInit
  <2> QED BY <1>1, <1>3, <1>4, <2>1, <2>2, <2>3 DEF MonitorTypeOK
<1>6. SoldIsSettled /\ MonitorSellsItsOwn
  BY <1>3 DEF SoldIsSettled, HasSold, MonitorSellsItsOwn, MonitorSellsOnce, MonitorSellsItsEntry
<1>7. \A i \in MonitorId : monitors[i].state = "none" /\ tasks[i].pc = "none"
  BY DEF MonitorInit, NoRow, NoTask
<1>8. OneInstructionWatches /\ ArmedInOrder /\ EvaluatingHasFired
  BY <1>7 DEF OneInstructionWatches, ArmedInOrder, EvaluatingHasFired, Watching
<1>9. PollingIsFree /\ TaskHasFired
  BY <1>7 DEF MonitorInit, PollingIsFree, TaskHasFired
<1> QED
  BY <1>5, <1>6, <1>8, <1>9 DEF MonitorInv

(* The order of the monitors, kept by every step that lets rows go on. *)
LEMMA OrderKept ==
  ASSUME OneInstructionWatches, ArmedInOrder, RowsGoOn
  PROVE  OneInstructionWatches' /\ ArmedInOrder'
BY DEF OneInstructionWatches, ArmedInOrder, RowsGoOn, Watching, MonitorId

(* What has been sold, and for which entry, is kept likewise. *)
LEMMA SalesKept ==
  ASSUME MonitorTypeOK, MonitorSellsItsOwn, SoldIsSettled, RowsGoOn, sold' = sold
  PROVE  MonitorSellsItsOwn'
<1>1. \A k \in 1 .. Len(sold) : sold[k].monitor \in MonitorId
  <2> SUFFICES ASSUME NEW k \in 1 .. Len(sold) PROVE sold[k].monitor \in MonitorId
    OBVIOUS
  <2>1. sold \in Seq(Sale)
    BY DEF MonitorTypeOK
  <2>2. sold[k] \in Sale
    BY <2>1
  <2> QED BY <2>2 DEF Sale
<1>2. MonitorSellsOnce'
  BY DEF MonitorSellsItsOwn, MonitorSellsOnce
<1>3. MonitorSellsItsEntry'
  BY <1>1 DEF MonitorSellsItsOwn, MonitorSellsItsEntry, RowsGoOn
<1> QED BY <1>2, <1>3 DEF MonitorSellsItsOwn

(* A row that is written over a watching one. *)
LEMMA RowWritten ==
  ASSUME monitors \in [MonitorId -> Row], EvaluatingHasFired, NEW i \in MonitorId, NEW r \in Row,
         monitors[i].state \in Watching, r.state # "none", r.entry = monitors[i].entry,
         r.state = "evaluating" => r.event,
         monitors' = [monitors EXCEPT ![i] = r]
  PROVE  monitors' \in [MonitorId -> Row] /\ RowsGoOn /\ EvaluatingHasFired'
BY DEF RowsGoOn, EvaluatingHasFired

LEMMA RowSaved ==
  ASSUME monitors \in [MonitorId -> Row], EvaluatingHasFired, NEW i \in MonitorId, NEW r \in Row,
         NEW copy, copy.state \in Watching, r.state # "none", r.entry = copy.entry,
         r.state = "evaluating" => r.event,
         monitors' = Saved(i, copy, r)
  PROVE  monitors' \in [MonitorId -> Row] /\ RowsGoOn /\ EvaluatingHasFired'
<1>1. CASE monitors[i] = copy
  BY <1>1, RowWritten DEF Saved
<1>2. CASE monitors[i] # copy
  BY <1>2 DEF Saved, RowsGoOn, EvaluatingHasFired
<1> QED BY <1>1, <1>2

(* What a step does to a monitor that has sold. *)
StaysSettled(i) ==
  /\ monitors'[i].state # "none" /\ polling'.id # i
  /\ tasks'[i].pc \in {"none", "reserved", "sent"}
  /\ monitors'[i].state \in Watching =>
       /\ monitors[i].state \in Watching
       /\ monitors'[i].event = monitors[i].event
       /\ monitors'[i].generation = monitors[i].generation

LEMMA SettledKept ==
  ASSUME SoldIsSettled, sold' = sold, \A i \in MonitorId : HasSold(i) => StaysSettled(i)
  PROVE  SoldIsSettled'
BY DEF SoldIsSettled, HasSold, StaysSettled, Settled, HasSale

(* The parts of the invariant that a step without a sale has to be shown to keep. *)
LEMMA StepWithoutSale ==
  ASSUME MonitorInv, MonitorTypeOK', RowsGoOn, EvaluatingHasFired', PollingIsFree', TaskHasFired',
         sold' = sold, \A i \in MonitorId : HasSold(i) => StaysSettled(i)
  PROVE  MonitorInv'
BY OrderKept, SalesKept, SettledKept DEF MonitorInv

-----------------------------------------------------------------------------
(* The steps. *)

LEMMA ArmStep == ASSUME MonitorInv, NEW i \in MonitorId, Arm(i) PROVE MonitorInv'
<1> DEFINE armed == [NoRow EXCEPT !.state = "active", !.entry = entry]
<1>1. armed \in Row /\ armed.state = "active" /\ armed.entry = entry
  <2>1. entry \in 0 .. MaxEntry
    BY DEF MonitorInv, MonitorTypeOK
  <2> QED BY <2>1, NoneTyped DEF Row, NoRow, Watching
<1>2. \A j \in MonitorId : monitors'[j] =
        IF j = i THEN armed
        ELSE IF monitors[j].state \in Watching THEN [monitors[j] EXCEPT !.state = "canceled"]
        ELSE monitors[j]
  BY DEF Arm
<1>3. monitors \in [MonitorId -> Row]
  BY DEF MonitorInv, MonitorTypeOK
<1>4. monitors[i].state = "none" /\ \A j \in 1 .. i - 1 : monitors[j].state # "none"
  BY DEF Arm
<1>5. \A j \in MonitorId \ {i} :
        /\ monitors'[j] \in Row
        /\ monitors'[j].entry = monitors[j].entry
        /\ monitors'[j].state \notin Watching
        /\ monitors'[j].state = "none" <=> monitors[j].state = "none"
  <2> TAKE j \in MonitorId \ {i}
  <2>1. monitors[j] \in Row
    BY <1>3
  <2>2. CASE monitors[j].state \in Watching
    <3> DEFINE r == [monitors[j] EXCEPT !.state = "canceled"]
    <3>1. r \in Row /\ r.entry = monitors[j].entry /\ r.state = "canceled"
      BY <2>1 DEF Row
    <3>2. monitors'[j] = r
      BY <1>2, <2>2
    <3> HIDE DEF r
    <3> QED BY <2>2, <3>1, <3>2 DEF Watching
  <2>3. CASE monitors[j].state \notin Watching
    BY <1>2, <2>1, <2>3
  <2> QED BY <2>2, <2>3
<1>6. monitors'[i] = armed
  BY <1>2
<1>7. UNCHANGED <<overdue, polling, tasks, sold, entry, owned, context, holder, foreground,
                 killed, restarts>>
  BY DEF Arm
<1>8. DOMAIN monitors' = MonitorId /\ monitors' = [j \in MonitorId |-> monitors'[j]]
  BY DEF Arm
<1>9. monitors' \in [MonitorId -> Row]
  BY <1>1, <1>5, <1>6, <1>8
<1>10. MonitorTypeOK'
  BY <1>7, <1>9 DEF MonitorInv, MonitorTypeOK
<1>11. \A j \in MonitorId : i < j => monitors[j].state = "none"
  BY <1>4 DEF MonitorInv, ArmedInOrder
<1>12. OneInstructionWatches' /\ ArmedInOrder'
  <2>1. OneInstructionWatches'
    BY <1>1, <1>5, <1>6, <1>11 DEF OneInstructionWatches, MonitorId
  <2>2. ArmedInOrder'
    BY <1>1, <1>4, <1>5, <1>6 DEF MonitorInv, ArmedInOrder, MonitorId
  <2> QED BY <2>1, <2>2
<1>13. EvaluatingHasFired'
  BY <1>1, <1>5, <1>6 DEF EvaluatingHasFired, Watching
<1>14. PollingIsFree' /\ TaskHasFired'
  BY <1>7 DEF MonitorInv, PollingIsFree, TaskHasFired
<1>15. ~HasSold(i)
  BY <1>4 DEF MonitorInv, SoldIsSettled
<1>16. SoldIsSettled'
  BY <1>5, <1>7, <1>15 DEF MonitorInv, SoldIsSettled, HasSold
<1>17. \A k \in 1 .. Len(sold) : sold[k].monitor \in MonitorId /\ sold[k].monitor # i
  <2> SUFFICES ASSUME NEW k \in 1 .. Len(sold)
               PROVE  sold[k].monitor \in MonitorId /\ sold[k].monitor # i
    OBVIOUS
  <2>1. sold[k] \in Sale
    BY DEF MonitorInv, MonitorTypeOK
  <2> QED BY <1>15, <2>1 DEF Sale, HasSold
<1>18. MonitorSellsItsOwn'
  BY <1>5, <1>7, <1>17 DEF MonitorInv, MonitorSellsItsOwn, MonitorSellsOnce, MonitorSellsItsEntry
<1> QED BY <1>10, <1>12, <1>13, <1>14, <1>16, <1>18 DEF MonitorInv

LEMMA PollRowStep == ASSUME MonitorInv, NEW i \in MonitorId, PollRow(i) PROVE MonitorInv'
<1>1. monitors[i].state \in Watching /\ tasks[i].pc = "none" /\ polling = NoPoll /\ polling.id = 0
  BY DEF PollRow, PickedUp, NoPoll
<1>2. monitors \in [MonitorId -> Row]
  BY DEF MonitorInv, MonitorTypeOK
<1>3. UNCHANGED <<overdue, tasks, sold, entry, owned, context, holder, foreground, killed, restarts>>
  BY DEF PollRow
<1>4. ASSUME NEW state \in {"expired", "canceled", "completed"},
             monitors' = [monitors EXCEPT ![i].state = state], polling' = polling
      PROVE  MonitorInv'
  <2> DEFINE r == [monitors[i] EXCEPT !.state = state]
  <2>1. r \in Row /\ r.state = state /\ r.entry = monitors[i].entry
    BY <1>2 DEF Row
  <2>2. monitors' = [monitors EXCEPT ![i] = r]
    BY <1>4
  <2>3. monitors' \in [MonitorId -> Row] /\ RowsGoOn /\ EvaluatingHasFired'
    <3> HIDE DEF r
    <3> QED BY <1>1, <1>2, <2>1, <2>2, RowWritten DEF MonitorInv
  <2>4. MonitorTypeOK'
    BY <1>3, <1>4, <2>3 DEF MonitorInv, MonitorTypeOK
  <2>5. PollingIsFree' /\ TaskHasFired'
    BY <1>3, <1>4 DEF MonitorInv, PollingIsFree, TaskHasFired
  <2>6. monitors'[i].state \notin Watching \union {"none"}
        /\ \A j \in MonitorId \ {i} : monitors'[j] = monitors[j]
    BY <1>2, <2>1, <2>2 DEF Watching
  <2>7. \A j \in MonitorId : HasSold(j) => StaysSettled(j)
    BY <1>3, <1>4, <2>6 DEF MonitorInv, SoldIsSettled, StaysSettled
  <2> QED BY <1>3, <2>3, <2>4, <2>5, <2>7, StepWithoutSale
<1>5. ASSUME polling' = [id |-> i, row |-> monitors[i]], monitors' = monitors, ~Settled(i)
      PROVE  MonitorInv'
  <2>1. polling' \in [id: MonitorId \union {0}, row: Row]
    BY <1>2, <1>5
  <2>2. MonitorTypeOK'
    BY <1>3, <1>5, <2>1 DEF MonitorInv, MonitorTypeOK
  <2>3. PollingIsFree'
    BY <1>1, <1>3, <1>5 DEF PollingIsFree
  <2>4. EvaluatingHasFired' /\ TaskHasFired' /\ RowsGoOn
    BY <1>3, <1>5 DEF MonitorInv, EvaluatingHasFired, TaskHasFired, RowsGoOn
  <2>5. ~HasSold(i)
    BY <1>1, <1>5 DEF MonitorInv, SoldIsSettled
  <2>6. \A j \in MonitorId : HasSold(j) => StaysSettled(j)
    BY <1>3, <1>5, <2>5 DEF MonitorInv, SoldIsSettled, StaysSettled
  <2> QED BY <1>3, <2>2, <2>3, <2>4, <2>6, StepWithoutSale
<1>6. \/ \E state \in {"expired", "canceled", "completed"} :
            monitors' = [monitors EXCEPT ![i].state = state] /\ polling' = polling
      \/ polling' = [id |-> i, row |-> monitors[i]] /\ monitors' = monitors /\ ~Settled(i)
  BY DEF PollRow
<1> QED BY <1>4, <1>5, <1>6

(* The end of an observation: the row is saved if it is still the copy. *)
LEMMA ObservationEnds ==
  ASSUME MonitorInv, polling # NoPoll, polling' = NoPoll,
         NEW r \in Row, r.entry = polling.row.entry, r.generation = polling.row.generation,
         r.state \in Watching, r.state = "evaluating" => r.event,
         monitors' = Saved(polling.id, polling.row, r)
  PROVE  /\ monitors' \in [MonitorId -> Row] /\ RowsGoOn /\ EvaluatingHasFired'
         /\ polling' \in [id: MonitorId \union {0}, row: Row]
         /\ polling.id \in MonitorId /\ tasks[polling.id].pc = "none" /\ ~HasSold(polling.id)
         /\ \A j \in MonitorId : HasSold(j) => monitors'[j] = monitors[j] /\ polling'.id # j
<1>1. /\ polling.id \in MonitorId /\ tasks[polling.id].pc = "none" /\ ~HasSold(polling.id)
      /\ polling.row.state \in Watching
  BY DEF MonitorInv, PollingIsFree, SoldIsSettled
<1>2. monitors \in [MonitorId -> Row]
  BY DEF MonitorInv, MonitorTypeOK
<1>3. r.state # "none"
  BY DEF Watching
<1>4. monitors' \in [MonitorId -> Row] /\ RowsGoOn /\ EvaluatingHasFired'
  BY <1>1, <1>2, <1>3, RowSaved DEF MonitorInv
<1>5. polling' \in [id: MonitorId \union {0}, row: Row] /\ polling'.id = 0
  BY NoneTyped DEF NoPoll
<1>6. \A j \in MonitorId : HasSold(j) => monitors'[j] = monitors[j] /\ polling'.id # j
  BY <1>1, <1>2, <1>5 DEF Saved, MonitorId
<1> QED BY <1>1, <1>4, <1>5, <1>6

LEMMA ObservationFailsStep == ASSUME MonitorInv, ObservationFails PROVE MonitorInv'
<1> DEFINE r == [polling.row EXCEPT !.state = "error"]
<1>1. polling.row \in Row
  BY DEF MonitorInv, MonitorTypeOK
<1>2. /\ r \in Row /\ r.state = "error" /\ r.entry = polling.row.entry
      /\ r.generation = polling.row.generation /\ r.state \in Watching
  BY <1>1 DEF Row, Watching
<1>3. /\ polling # NoPoll /\ polling' = NoPoll /\ monitors' = Saved(polling.id, polling.row, r)
      /\ UNCHANGED <<overdue, tasks, sold, entry, owned, context, holder, foreground, killed, restarts>>
  BY DEF ObservationFails
<1> HIDE DEF r
<1>4. /\ monitors' \in [MonitorId -> Row] /\ RowsGoOn /\ EvaluatingHasFired'
      /\ polling' \in [id: MonitorId \union {0}, row: Row]
      /\ \A j \in MonitorId : HasSold(j) => monitors'[j] = monitors[j] /\ polling'.id # j
  BY <1>2, <1>3, ObservationEnds
<1>5. MonitorTypeOK'
  BY <1>3, <1>4 DEF MonitorInv, MonitorTypeOK
<1>6. PollingIsFree' /\ TaskHasFired'
  BY <1>3 DEF MonitorInv, PollingIsFree, TaskHasFired
<1>7. \A j \in MonitorId : HasSold(j) => StaysSettled(j)
  BY <1>3, <1>4 DEF MonitorInv, SoldIsSettled, StaysSettled
<1> QED BY <1>3, <1>4, <1>5, <1>6, <1>7, StepWithoutSale

LEMMA ObservedStep == ASSUME MonitorInv, Observed PROVE MonitorInv'
<1> DEFINE r == [polling.row EXCEPT !.state = "active"]
<1>1. polling.row \in Row
  BY DEF MonitorInv, MonitorTypeOK
<1>2. /\ r \in Row /\ r.state = "active" /\ r.entry = polling.row.entry
      /\ r.generation = polling.row.generation /\ r.state \in Watching
  BY <1>1 DEF Row, Watching
<1>3. /\ polling # NoPoll /\ polling' = NoPoll /\ monitors' = Saved(polling.id, polling.row, r)
      /\ UNCHANGED <<overdue, tasks, sold, entry, owned, context, holder, foreground, killed, restarts>>
  BY DEF Observed
<1> HIDE DEF r
<1>4. /\ monitors' \in [MonitorId -> Row] /\ RowsGoOn /\ EvaluatingHasFired'
      /\ polling' \in [id: MonitorId \union {0}, row: Row]
      /\ \A j \in MonitorId : HasSold(j) => monitors'[j] = monitors[j] /\ polling'.id # j
  BY <1>2, <1>3, ObservationEnds
<1>5. MonitorTypeOK'
  BY <1>3, <1>4 DEF MonitorInv, MonitorTypeOK
<1>6. PollingIsFree' /\ TaskHasFired'
  BY <1>3 DEF MonitorInv, PollingIsFree, TaskHasFired
<1>7. \A j \in MonitorId : HasSold(j) => StaysSettled(j)
  BY <1>3, <1>4 DEF MonitorInv, SoldIsSettled, StaysSettled
<1> QED BY <1>3, <1>4, <1>5, <1>6, <1>7, StepWithoutSale

LEMMA TriggeredStep == ASSUME MonitorInv, Triggered PROVE MonitorInv'
<1> DEFINE r == [polling.row EXCEPT !.state = "evaluating", !.event = TRUE]
           i == polling.id
<1>1. polling.row \in Row
  BY DEF MonitorInv, MonitorTypeOK
<1>2. /\ r \in Row /\ r.state = "evaluating" /\ r.event /\ r.entry = polling.row.entry
      /\ r.generation = polling.row.generation /\ r.state \in Watching
  BY <1>1 DEF Row, Watching
<1>3. /\ polling # NoPoll /\ polling' = NoPoll /\ monitors' = Saved(i, polling.row, r)
      /\ tasks' = (IF monitors'[i] = r THEN [tasks EXCEPT ![i].pc = "created"] ELSE tasks)
      /\ UNCHANGED <<overdue, sold, entry, owned, context, holder, foreground, killed, restarts>>
  BY DEF Triggered
<1> HIDE DEF r
<1>4. /\ monitors' \in [MonitorId -> Row] /\ RowsGoOn /\ EvaluatingHasFired'
      /\ polling' \in [id: MonitorId \union {0}, row: Row]
      /\ i \in MonitorId /\ tasks[i].pc = "none" /\ ~HasSold(i)
      /\ \A j \in MonitorId : HasSold(j) => monitors'[j] = monitors[j] /\ polling'.id # j
  BY <1>2, <1>3, ObservationEnds
<1> HIDE DEF i
<1>5. /\ tasks' \in [MonitorId -> Task]
      /\ \A j \in MonitorId \ {i} : tasks'[j] = tasks[j]
      /\ tasks'[i].pc \in {"none", "created"}
  <2>1. tasks \in [MonitorId -> Task]
    BY DEF MonitorInv, MonitorTypeOK
  <2> DEFINE t == [tasks[i] EXCEPT !.pc = "created"]
  <2>2. tasks[i] \in Task
    BY <1>4, <2>1
  <2>3. t \in Task /\ t.pc = "created"
    BY <2>2 DEF Task
  <2>4. tasks' = tasks \/ tasks' = [tasks EXCEPT ![i] = t]
    BY <1>3
  <2> HIDE DEF t
  <2> QED BY <1>4, <2>1, <2>3, <2>4
<1>6. MonitorTypeOK'
  BY <1>3, <1>4, <1>5 DEF MonitorInv, MonitorTypeOK
<1>7. PollingIsFree' /\ TaskHasFired'
  BY <1>3, <1>5 DEF MonitorInv, PollingIsFree, TaskHasFired
<1>8. \A j \in MonitorId : HasSold(j) => StaysSettled(j)
  BY <1>3, <1>4, <1>5 DEF MonitorInv, SoldIsSettled, StaysSettled
<1> QED BY <1>3, <1>4, <1>6, <1>7, <1>8, StepWithoutSale

LEMMA TaskEnds ==
  ASSUME MonitorInv, NEW i \in MonitorId, NEW r, EndTask(i, r), tasks[i].pc # "none",
         sold' = sold, owned' \in Nat,
         monitors[i] = tasks[i].row =>
           \/ r = monitors[i]
           \/ /\ monitors[i].state \in Watching /\ r \in Row
              /\ r.state \notin {"none", "evaluating"} /\ r.entry = monitors[i].entry
              /\ r.state \in Watching /\ HasSold(i) =>
                   r.event = monitors[i].event /\ r.generation = monitors[i].generation
  PROVE  MonitorInv'
<1>1. /\ monitors \in [MonitorId -> Row] /\ tasks \in [MonitorId -> Task]
      /\ holder \in MonitorId \union {0, -1}
  BY DEF MonitorInv, MonitorTypeOK
<1>2. /\ monitors' = Saved(i, tasks[i].row, r)
      /\ tasks' = [tasks EXCEPT ![i] = NoTask]
      /\ holder' = (IF holder = i THEN 0 ELSE holder)
      /\ UNCHANGED <<overdue, polling, entry, context, foreground, killed, restarts>>
  BY DEF EndTask
<1>3. /\ monitors' \in [MonitorId -> Row] /\ RowsGoOn /\ EvaluatingHasFired'
      /\ \A j \in MonitorId \ {i} : monitors'[j] = monitors[j]
      /\ \/ monitors'[i] = monitors[i]
         \/ /\ monitors'[i].state # "none" /\ monitors[i].state \in Watching
            /\ monitors'[i].state \in Watching /\ HasSold(i) =>
                 /\ monitors'[i].event = monitors[i].event
                 /\ monitors'[i].generation = monitors[i].generation
  <2>1. CASE monitors[i] = tasks[i].row /\ r # monitors[i]
    <3>1. monitors' = [monitors EXCEPT ![i] = r]
      BY <1>2, <2>1 DEF Saved
    <3>2. monitors' \in [MonitorId -> Row] /\ RowsGoOn /\ EvaluatingHasFired'
      BY <1>1, <2>1, <3>1, RowWritten DEF MonitorInv
    <3> QED BY <1>1, <2>1, <3>1, <3>2
  <2>2. CASE monitors[i] # tasks[i].row \/ r = monitors[i]
    <3>1. monitors' = monitors
      BY <1>1, <1>2, <2>2 DEF Saved
    <3> QED BY <1>1, <3>1 DEF RowsGoOn, MonitorInv, EvaluatingHasFired
  <2> QED BY <2>1, <2>2
<1>4. tasks' \in [MonitorId -> Task] /\ tasks'[i].pc = "none"
      /\ \A j \in MonitorId \ {i} : tasks'[j] = tasks[j]
  BY <1>1, <1>2, NoneTyped DEF NoTask
<1>5. MonitorTypeOK'
  BY <1>1, <1>2, <1>3, <1>4 DEF MonitorInv, MonitorTypeOK
<1>6. PollingIsFree' /\ TaskHasFired'
  BY <1>2, <1>4 DEF MonitorInv, PollingIsFree, TaskHasFired
<1>7. \A j \in MonitorId : HasSold(j) => StaysSettled(j)
  BY <1>2, <1>3, <1>4 DEF MonitorInv, SoldIsSettled, StaysSettled
<1> QED BY <1>3, <1>5, <1>6, <1>7, StepWithoutSale

LEMMA TaskHeldStep ==
  ASSUME MonitorInv, NEW i \in MonitorId, tasks[i].pc \notin {"none", "created"}, TaskHeld(i),
         sold' = sold, owned' \in Nat
  PROVE  MonitorInv'
<1> DEFINE r == [tasks[i].row EXCEPT !.state = "error"]
<1>1. tasks[i].row.state = "evaluating"
  BY DEF MonitorInv, TaskHasFired
<1>2. monitors \in [MonitorId -> Row] /\ tasks \in [MonitorId -> Task]
  BY DEF MonitorInv, MonitorTypeOK
<1>3. tasks[i].row \in Row
  BY <1>2 DEF Task
<1>4. /\ r \in Row /\ r.state = "error" /\ r.entry = tasks[i].row.entry
      /\ r.event = tasks[i].row.event /\ r.generation = tasks[i].row.generation
  BY <1>3 DEF Row, Watching
<1>5. EndTask(i, r)
  BY DEF TaskHeld
<1> HIDE DEF r
<1> QED BY <1>1, <1>4, <1>5, TaskEnds DEF Watching

(* A step that changes the control point of one task only. *)
LEMMA TaskGoesOn ==
  ASSUME MonitorInv, NEW i \in MonitorId, NEW t \in Task, tasks' = [tasks EXCEPT ![i] = t],
         UNCHANGED <<monitors, overdue, polling, sold, entry, owned, context, foreground,
                     killed, restarts>>,
         holder' \in MonitorId \union {0, -1},
         tasks[i].pc # "none",
         t.pc \in {"none", "assessing", "waiting", "executing", "reserved", "sent"},
         t.pc # "none" => t.row.state = "evaluating" /\ t.row.event,
         HasSold(i) => t.pc \in {"none", "reserved", "sent"}
  PROVE  MonitorInv'
<1>1. tasks \in [MonitorId -> Task]
  BY DEF MonitorInv, MonitorTypeOK
<1>2. tasks' \in [MonitorId -> Task] /\ tasks'[i] = t
      /\ \A j \in MonitorId \ {i} : tasks'[j] = tasks[j]
  BY <1>1
<1>3. MonitorTypeOK'
  BY <1>2 DEF MonitorInv, MonitorTypeOK
<1>4. PollingIsFree'
  BY <1>2 DEF MonitorInv, PollingIsFree
<1>5. TaskHasFired'
  BY <1>2 DEF MonitorInv, TaskHasFired
<1>6. RowsGoOn /\ EvaluatingHasFired'
  BY DEF MonitorInv, RowsGoOn, EvaluatingHasFired
<1>7. \A j \in MonitorId : HasSold(j) => StaysSettled(j)
  BY <1>2 DEF MonitorInv, SoldIsSettled, StaysSettled
<1> QED BY <1>3, <1>4, <1>5, <1>6, <1>7, StepWithoutSale

LEMMA BeginTaskStep == ASSUME MonitorInv, NEW i \in MonitorId, BeginTask(i) PROVE MonitorInv'
<1>1. /\ tasks[i].pc = "created" /\ monitors[i].state = "evaluating" /\ monitors[i].event
      /\ ~HasSold(i)
  BY DEF BeginTask, MonitorInv, EvaluatingHasFired, SoldIsSettled
<1>2. monitors \in [MonitorId -> Row] /\ tasks \in [MonitorId -> Task] /\ holder \in MonitorId \union {0, -1}
  BY DEF MonitorInv, MonitorTypeOK
<1>3. UNCHANGED <<overdue, polling, sold, entry, owned, context, holder, foreground, killed, restarts>>
  BY DEF BeginTask
<1>4. CASE StillOwned(monitors[i])
  <2> DEFINE t == [pc |-> "assessing", row |-> monitors[i], owned |-> owned,
                   orders |-> Len(sold), context |-> context, action |-> ""]
  <2>1. tasks' = [tasks EXCEPT ![i] = t] /\ monitors' = monitors
    BY <1>4 DEF BeginTask
  <2>2. t \in Task
    <3>1. /\ owned \in Nat /\ Len(sold) \in Nat /\ context \in 0 .. MaxContext
          /\ monitors[i] \in Row
      BY <1>2 DEF MonitorInv, MonitorTypeOK
    <3> QED BY <3>1 DEF Task
  <2>3. t.pc = "assessing" /\ t.row = monitors[i]
    OBVIOUS
  <2> HIDE DEF t
  <2> QED BY <1>1, <1>2, <1>3, <2>1, <2>2, <2>3, TaskGoesOn
<1>5. CASE ~StillOwned(monitors[i])
  <2> DEFINE r == [monitors[i] EXCEPT !.state = "error"]
  <2>1. monitors' = [monitors EXCEPT ![i] = r] /\ tasks' = [tasks EXCEPT ![i] = NoTask]
    BY <1>5 DEF BeginTask
  <2>2. r \in Row /\ r.state = "error" /\ r.entry = monitors[i].entry
    BY <1>2 DEF Row, Watching
  <2> HIDE DEF r
  <2>3. monitors' \in [MonitorId -> Row] /\ RowsGoOn /\ EvaluatingHasFired'
    BY <1>1, <1>2, <2>1, <2>2, RowWritten DEF MonitorInv, Watching
  <2>4. tasks' \in [MonitorId -> Task] /\ tasks'[i].pc = "none"
        /\ \A j \in MonitorId \ {i} : tasks'[j] = tasks[j] /\ monitors'[j] = monitors[j]
    BY <1>2, <2>1, NoneTyped DEF NoTask
  <2>5. MonitorTypeOK'
    BY <1>3, <2>3, <2>4 DEF MonitorInv, MonitorTypeOK
  <2>6. PollingIsFree' /\ TaskHasFired'
    BY <1>3, <2>4 DEF MonitorInv, PollingIsFree, TaskHasFired
  <2>7. \A j \in MonitorId : HasSold(j) => StaysSettled(j)
    BY <1>1, <1>3, <2>4 DEF MonitorInv, SoldIsSettled, StaysSettled
  <2> QED BY <1>3, <2>3, <2>5, <2>6, <2>7, StepWithoutSale
<1> QED BY <1>4, <1>5

(* The steps that lead up to a sale change the control point only. *)
LEMMA TaskSteps ==
  ASSUME MonitorInv, NEW i \in MonitorId, Assessed(i) \/ BeginSale(i) \/ SendSale(i)
  PROVE  MonitorInv'
<1>1. tasks \in [MonitorId -> Task] /\ holder \in MonitorId \union {0, -1}
  BY DEF MonitorInv, MonitorTypeOK
<1>2. tasks[i].pc \notin {"none", "created"} =>
        tasks[i].row.state = "evaluating" /\ tasks[i].row.event
  BY DEF MonitorInv, TaskHasFired
<1>3. CASE Assessed(i)
  <2>1. tasks[i].pc = "assessing" /\ ~HasSold(i)
    BY <1>3 DEF Assessed, MonitorInv, SoldIsSettled
  <2>2. PICK a \in {"SELL", "RENEW", "DROP"} :
          tasks' = [tasks EXCEPT ![i].pc = "waiting", ![i].action = a]
    BY <1>3 DEF Assessed
  <2> DEFINE t == [tasks[i] EXCEPT !.pc = "waiting", !.action = a]
  <2>3. tasks' = [tasks EXCEPT ![i] = t]
    BY <1>1, <2>2
  <2>4. t \in Task /\ t.pc = "waiting" /\ t.row = tasks[i].row
    BY <1>1 DEF Task
  <2> HIDE DEF t
  <2> QED BY <1>1, <1>2, <1>3, <2>1, <2>3, <2>4, TaskGoesOn DEF Assessed
<1>4. CASE BeginSale(i)
  <2>1. tasks[i].pc = "waiting" /\ ~HasSold(i)
    BY <1>4 DEF BeginSale, MonitorInv, SoldIsSettled
  <2> DEFINE t == [tasks[i] EXCEPT !.pc = "executing"]
  <2>2. tasks' = [tasks EXCEPT ![i] = t]
    BY <1>4 DEF BeginSale
  <2>3. t \in Task /\ t.pc = "executing" /\ t.row = tasks[i].row
    BY <1>1 DEF Task
  <2> HIDE DEF t
  <2>4. /\ holder' \in MonitorId \union {0, -1}
        /\ UNCHANGED <<monitors, overdue, polling, sold, entry, owned, context, foreground, killed,
                       restarts>>
    BY <1>1, <1>4 DEF BeginSale
  <2> QED BY <1>1, <1>2, <2>1, <2>2, <2>3, <2>4, TaskGoesOn
<1>5. CASE SendSale(i)
  <2>1. tasks[i].pc = "reserved"
    BY <1>5 DEF SendSale
  <2> DEFINE t == [tasks[i] EXCEPT !.pc = "sent"]
  <2>2. tasks' = [tasks EXCEPT ![i] = t]
    BY <1>5 DEF SendSale
  <2>3. t \in Task /\ t.pc = "sent" /\ t.row = tasks[i].row
    BY <1>1 DEF Task
  <2> HIDE DEF t
  <2> QED BY <1>1, <1>2, <1>5, <2>1, <2>2, <2>3, TaskGoesOn DEF SendSale
<1> QED BY <1>3, <1>4, <1>5

(* The steps that end a task. *)
LEMMA TaskEndSteps ==
  ASSUME MonitorInv, NEW i \in MonitorId,
         AssessedInVain(i) \/ TaskFails(i) \/ Conclude(i) \/ FinishSale(i)
  PROVE  MonitorInv'
<1>1. /\ monitors \in [MonitorId -> Row] /\ tasks \in [MonitorId -> Task]
      /\ owned \in Nat /\ monitors[i].generation \in 0 .. MaxGeneration
  BY DEF MonitorInv, MonitorTypeOK, Row
<1>2. CASE AssessedInVain(i)
  <2>1. /\ tasks[i].pc # "none" /\ EndTask(i, tasks[i].row) /\ sold' = sold /\ owned' = owned
    BY <1>2 DEF AssessedInVain
  <2> QED BY <1>1, <2>1, TaskEnds
<1>3. CASE TaskFails(i)
  BY <1>1, <1>3, TaskHeldStep DEF TaskFails
<1>4. CASE Conclude(i)
  <2>1. /\ tasks[i].pc = "waiting" /\ ~HasSold(i) /\ monitors[i] = tasks[i].row
        /\ tasks[i].row.state = "evaluating" /\ sold' = sold /\ owned' = owned
    BY <1>4 DEF Conclude, Guard, MonitorInv, SoldIsSettled, TaskHasFired
  <2>2. CASE monitors[i].generation < MaxGeneration
             /\ EndTask(i, [monitors[i] EXCEPT !.state = "active", !.event = FALSE, !.generation = @ + 1])
    <3> DEFINE r == [monitors[i] EXCEPT !.state = "active", !.event = FALSE, !.generation = @ + 1]
    <3>1. r \in Row /\ r.state = "active" /\ r.entry = monitors[i].entry
      <4>1. monitors[i] \in Row /\ monitors[i].generation + 1 \in 0 .. MaxGeneration
        BY <1>1, <2>2, Bounds
      <4>2. r = [[[monitors[i] EXCEPT !.state = "active"] EXCEPT !.event = FALSE]
                   EXCEPT !.generation = monitors[i].generation + 1]
        BY <4>1 DEF Row
      <4>3. [[monitors[i] EXCEPT !.state = "active"] EXCEPT !.event = FALSE] \in Row
        BY <4>1 DEF Row, Watching
      <4> QED BY <4>1, <4>2, <4>3 DEF Row, Watching
    <3>2. EndTask(i, r)
      BY <2>2
    <3> HIDE DEF r
    <3> QED BY <1>1, <2>1, <3>1, <3>2, TaskEnds DEF Watching
  <2>3. CASE EndTask(i, [monitors[i] EXCEPT !.state = "completed"])
    <3> DEFINE r == [monitors[i] EXCEPT !.state = "completed"]
    <3>1. r \in Row /\ r.state = "completed" /\ r.entry = monitors[i].entry
      BY <1>1 DEF Row
    <3>2. EndTask(i, r)
      BY <2>3
    <3> HIDE DEF r
    <3> QED BY <1>1, <2>1, <3>1, <3>2, TaskEnds DEF Watching
  <2> QED BY <1>4, <2>2, <2>3 DEF Conclude
<1>5. CASE FinishSale(i)
  <2>1. tasks[i].pc \in {"reserved", "sent"} /\ sold' = sold /\ owned' \in Nat
    BY <1>1, <1>5 DEF FinishSale
  <2>2. CASE EndTask(i, [monitors[i] EXCEPT !.state = "completed"])
    <3> DEFINE r == [monitors[i] EXCEPT !.state = "completed"]
    <3>1. r \in Row /\ r.state = "completed" /\ r.entry = monitors[i].entry
      BY <1>1 DEF Row
    <3>2. EndTask(i, r)
      BY <2>2
    <3>3. monitors[i] = tasks[i].row => monitors[i].state \in Watching
      BY <2>1 DEF MonitorInv, TaskHasFired, Watching
    <3> HIDE DEF r
    <3> QED BY <2>1, <3>1, <3>2, <3>3, TaskEnds DEF Watching
  <2>3. CASE TaskHeld(i)
    BY <2>1, <2>3, TaskHeldStep
  <2> QED BY <1>5, <2>2, <2>3 DEF FinishSale
<1> QED BY <1>2, <1>3, <1>4, <1>5

(* The one step that sells: the monitor has not sold before, and the position is its entry's. *)
LEMMA ReserveSaleStep == ASSUME MonitorInv, NEW i \in MonitorId, ReserveSale(i) PROVE MonitorInv'
<1> DEFINE sale == [monitor |-> i, generation |-> monitors[i].generation, entry |-> entry]
<1>1. /\ monitors \in [MonitorId -> Row] /\ tasks \in [MonitorId -> Task]
      /\ sold \in Seq(Sale) /\ entry \in 0 .. MaxEntry
  BY DEF MonitorInv, MonitorTypeOK
<1>2. /\ tasks[i].pc = "executing" /\ ~HasSold(i)
      /\ monitors[i] = tasks[i].row /\ entry = monitors[i].entry
  BY DEF ReserveSale, Guard, StillOwned, MonitorInv, SoldIsSettled
<1>3. monitors[i].state = "evaluating" /\ monitors[i].event
  BY <1>2 DEF MonitorInv, TaskHasFired
<1>4. /\ sold' = Append(sold, sale) /\ tasks' = [tasks EXCEPT ![i].pc = "reserved"]
      /\ UNCHANGED <<monitors, overdue, polling, entry, owned, context, holder, foreground,
                     killed, restarts>>
  BY DEF ReserveSale
<1>5. sale \in Sale
  BY <1>1 DEF Sale, Row
<1>6. /\ sold' \in Seq(Sale) /\ Len(sold') = Len(sold) + 1 /\ sold'[Len(sold) + 1] = sale
      /\ \A k \in 1 .. Len(sold) : sold'[k] = sold[k]
      /\ Len(sold) \in Nat
  BY <1>1, <1>4, <1>5
<1>7. sale.monitor = i /\ sale.generation = monitors[i].generation /\ sale.entry = entry
  OBVIOUS
<1> HIDE DEF sale
<1>8. /\ tasks' \in [MonitorId -> Task] /\ tasks'[i].pc = "reserved" /\ tasks'[i].row = tasks[i].row
      /\ \A j \in MonitorId \ {i} : tasks'[j] = tasks[j]
  <2> DEFINE t == [tasks[i] EXCEPT !.pc = "reserved"]
  <2>1. t \in Task /\ t.pc = "reserved" /\ t.row = tasks[i].row
    BY <1>1 DEF Task
  <2>2. tasks' = [tasks EXCEPT ![i] = t]
    BY <1>4
  <2> HIDE DEF t
  <2> QED BY <1>1, <2>1, <2>2
<1>9. MonitorTypeOK'
  BY <1>4, <1>6, <1>8 DEF MonitorInv, MonitorTypeOK
<1>10. OneInstructionWatches' /\ ArmedInOrder' /\ EvaluatingHasFired'
  BY <1>4 DEF MonitorInv, OneInstructionWatches, ArmedInOrder, EvaluatingHasFired
<1>11. PollingIsFree' /\ polling.id # i
  <2>1. polling.id # i
    BY <1>2 DEF MonitorInv, PollingIsFree, NoPoll, MonitorId
  <2> QED BY <1>4, <1>8, <2>1 DEF MonitorInv, PollingIsFree
<1>12. TaskHasFired'
  BY <1>2, <1>8 DEF MonitorInv, TaskHasFired
<1>13. \A j \in MonitorId : HasSold(j)' => j = i \/ HasSold(j)
  BY <1>6, <1>7 DEF HasSold
<1>14. SoldIsSettled'
  <2> SUFFICES ASSUME NEW j \in MonitorId, HasSold(j)'
               PROVE  /\ monitors'[j].state # "none" /\ polling'.id # j
                      /\ tasks'[j].pc \in {"none", "reserved", "sent"}
                      /\ monitors'[j].state \in Watching => Settled(j)'
    BY DEF SoldIsSettled
  <2>1. CASE j = i
    <3>1. Settled(i)'
      BY <1>3, <1>4, <1>6, <1>7 DEF Settled, HasSale
    <3> QED BY <1>3, <1>4, <1>8, <1>11, <2>1, <3>1
  <2>2. CASE j # i
    <3>1. HasSold(j)
      BY <1>13, <2>2
    <3>2. /\ monitors[j].state # "none" /\ polling.id # j
          /\ tasks[j].pc \in {"none", "reserved", "sent"}
          /\ monitors[j].state \in Watching => Settled(j)
      BY <3>1 DEF MonitorInv, SoldIsSettled
    <3>3. Settled(j) => Settled(j)'
      BY <1>4, <1>6 DEF Settled, HasSale
    <3> QED BY <1>4, <1>8, <2>2, <3>2, <3>3
  <2> QED BY <2>1, <2>2
<1>15. MonitorSellsItsOwn'
  <2>1. \A k \in 1 .. Len(sold) : sold[k].monitor # i
    BY <1>2 DEF HasSold
  <2>2. MonitorSellsOnce'
    BY <1>6, <1>7, <2>1 DEF MonitorInv, MonitorSellsItsOwn, MonitorSellsOnce
  <2>3. MonitorSellsItsEntry'
    BY <1>2, <1>4, <1>6, <1>7 DEF MonitorInv, MonitorSellsItsOwn, MonitorSellsItsEntry
  <2> QED BY <2>2, <2>3 DEF MonitorSellsItsOwn
<1> QED BY <1>9, <1>10, <1>11, <1>12, <1>14, <1>15 DEF MonitorInv

LEMMA CancelTaskStep == ASSUME MonitorInv, NEW i \in MonitorId, CancelTask(i) PROVE MonitorInv'
<1>1. monitors \in [MonitorId -> Row] /\ tasks \in [MonitorId -> Task]
  BY DEF MonitorInv, MonitorTypeOK
<1>2. /\ tasks' = [tasks EXCEPT ![i] = NoTask]
      /\ UNCHANGED <<overdue, polling, sold, entry, owned, context, holder, foreground, killed, restarts>>
  BY DEF CancelTask
<1>3. /\ monitors' \in [MonitorId -> Row] /\ RowsGoOn /\ EvaluatingHasFired'
      /\ \A j \in MonitorId :
           monitors'[j] = monitors[j] \/ monitors'[j].state \notin Watching \union {"none"}
  <2>1. CASE monitors' = monitors
    BY <1>1, <2>1 DEF RowsGoOn, MonitorInv, EvaluatingHasFired
  <2>2. CASE monitors[i].state \in Watching /\ monitors' = [monitors EXCEPT ![i].state = "expired"]
    <3> DEFINE r == [monitors[i] EXCEPT !.state = "expired"]
    <3>1. r \in Row /\ r.state = "expired" /\ r.entry = monitors[i].entry
      BY <1>1 DEF Row
    <3>2. monitors' = [monitors EXCEPT ![i] = r]
      BY <2>2
    <3> HIDE DEF r
    <3>3. monitors' \in [MonitorId -> Row] /\ RowsGoOn /\ EvaluatingHasFired'
      BY <1>1, <2>2, <3>1, <3>2, RowWritten DEF MonitorInv
    <3> QED BY <1>1, <3>1, <3>2, <3>3 DEF Watching
  <2> QED BY <2>1, <2>2 DEF CancelTask
<1>4. tasks' \in [MonitorId -> Task] /\ tasks'[i].pc = "none"
      /\ \A j \in MonitorId \ {i} : tasks'[j] = tasks[j]
  BY <1>1, <1>2, NoneTyped DEF NoTask
<1>5. MonitorTypeOK'
  BY <1>2, <1>3, <1>4 DEF MonitorInv, MonitorTypeOK
<1>6. PollingIsFree' /\ TaskHasFired'
  BY <1>2, <1>4 DEF MonitorInv, PollingIsFree, TaskHasFired
<1>7. \A j \in MonitorId : HasSold(j) => StaysSettled(j)
  BY <1>2, <1>3, <1>4 DEF MonitorInv, SoldIsSettled, StaysSettled
<1> QED BY <1>2, <1>3, <1>5, <1>6, <1>7, StepWithoutSale

LEMMA EndProcessStep == ASSUME MonitorInv, EndProcess PROVE MonitorInv'
<1>1. /\ tasks' = [i \in MonitorId |-> NoTask] /\ polling' = NoPoll /\ holder' = 0
      /\ foreground' = FALSE /\ restarts' = restarts + 1 /\ restarts < MaxRestart
      /\ UNCHANGED <<monitors, overdue, sold, entry, owned, context, killed>>
  BY DEF EndProcess
<1>2. tasks' \in [MonitorId -> Task] /\ \A j \in MonitorId : tasks'[j].pc = "none"
  BY <1>1, NoneTyped DEF NoTask
<1>3. polling' \in [id: MonitorId \union {0}, row: Row] /\ polling'.id = 0
  BY <1>1, NoneTyped DEF NoPoll
<1>4. restarts' \in 0 .. MaxRestart
  BY <1>1, Bounds DEF MonitorInv, MonitorTypeOK
<1>5. MonitorTypeOK'
  BY <1>1, <1>2, <1>3, <1>4 DEF MonitorInv, MonitorTypeOK
<1>6. PollingIsFree' /\ TaskHasFired'
  BY <1>1, <1>2 DEF PollingIsFree, TaskHasFired
<1>7. RowsGoOn /\ EvaluatingHasFired'
  BY <1>1 DEF RowsGoOn, MonitorInv, EvaluatingHasFired
<1>8. \A j \in MonitorId : HasSold(j) => StaysSettled(j)
  BY <1>1, <1>2, <1>3 DEF MonitorInv, SoldIsSettled, StaysSettled, MonitorId
<1> QED BY <1>1, <1>5, <1>6, <1>7, <1>8, StepWithoutSale

(* The steps of others leave monitors and tasks alone. *)
LEMMA OthersStep ==
  ASSUME MonitorInv, UNCHANGED <<monitors, polling, tasks, sold>>, MonitorTypeOK'
  PROVE  MonitorInv'
<1>1. PollingIsFree' /\ TaskHasFired'
  BY DEF MonitorInv, PollingIsFree, TaskHasFired
<1>2. RowsGoOn /\ EvaluatingHasFired'
  BY DEF RowsGoOn, MonitorInv, EvaluatingHasFired
<1>3. \A j \in MonitorId : HasSold(j) => StaysSettled(j)
  BY DEF MonitorInv, SoldIsSettled, StaysSettled
<1> QED BY <1>1, <1>2, <1>3, StepWithoutSale

LEMMA WorldSteps ==
  ASSUME MonitorInv, Message \/ Evaluated \/ Account \/ ToggleKill \/ \E i \in MonitorId : Deadline(i)
  PROVE  MonitorInv'
<1> USE Bounds
<1>1. MonitorTypeOK
  BY DEF MonitorInv
<1>2. CASE Message
  BY <1>1, <1>2, OthersStep DEF Message, MonitorTypeOK
<1>3. CASE Evaluated
  BY <1>1, <1>3, OthersStep DEF Evaluated, MonitorTypeOK
<1>4. CASE Account
  <2>1. UNCHANGED <<monitors, overdue, polling, tasks, sold, context, foreground, killed, restarts>>
    BY <1>4 DEF Account
  <2>2. owned' \in Nat /\ entry' \in 0 .. MaxEntry /\ holder' \in MonitorId \union {0, -1}
    <3>1. owned \in Nat /\ entry \in 0 .. MaxEntry /\ holder \in MonitorId \union {0, -1}
      BY <1>1 DEF MonitorTypeOK
    <3>2. CASE StopFills
      BY <3>1, <3>2 DEF StopFills
    <3>3. CASE Trade
      BY <3>1, <3>3 DEF Trade
    <3> QED BY <1>4, <3>2, <3>3 DEF Account
  <2>3. MonitorTypeOK'
    BY <1>1, <2>1, <2>2 DEF MonitorTypeOK
  <2> QED BY <2>1, <2>3, OthersStep
<1>5. CASE ToggleKill
  BY <1>1, <1>5, OthersStep DEF ToggleKill, MonitorTypeOK
<1>6. CASE \E i \in MonitorId : Deadline(i)
  <2>1. UNCHANGED <<monitors, polling, tasks, sold, entry, owned, context, holder, foreground,
                   killed, restarts>> /\ overdue' \subseteq MonitorId
    BY <1>1, <1>6 DEF Deadline, MonitorTypeOK
  <2>2. MonitorTypeOK'
    BY <1>1, <2>1 DEF MonitorTypeOK
  <2> QED BY <2>1, <2>2, OthersStep
<1> QED BY <1>2, <1>3, <1>4, <1>5, <1>6

LEMMA MonitorStepInv == MonitorInv /\ [MonitorNext]_monitorVars => MonitorInv'
<1> SUFFICES ASSUME MonitorInv, [MonitorNext]_monitorVars PROVE MonitorInv'
  OBVIOUS
<1>1. ASSUME NEW i \in MonitorId, Arm(i) \/ RunTask(i) \/ CancelTask(i) \/ Deadline(i)
      PROVE  MonitorInv'
  BY <1>1, ArmStep, BeginTaskStep, TaskSteps, TaskEndSteps, ReserveSaleStep, CancelTaskStep,
     WorldSteps DEF RunTask
<1>2. CASE Poll
  BY <1>2, PollRowStep, ObservationFailsStep, ObservedStep, TriggeredStep DEF Poll
<1>3. CASE EndProcess
  BY <1>3, EndProcessStep
<1>4. CASE Message \/ Evaluated \/ Account \/ ToggleKill
  BY <1>4, WorldSteps
<1>5. CASE UNCHANGED monitorVars
  <2>1. MonitorTypeOK'
    BY <1>5 DEF MonitorInv, MonitorTypeOK, monitorVars
  <2> QED BY <1>5, <2>1, OthersStep DEF monitorVars
<1> QED BY <1>1, <1>2, <1>3, <1>4, <1>5 DEF MonitorNext

-----------------------------------------------------------------------------

(* Type correctness of Monitor. *)
THEOREM MonitorTypes == MonitorSpec => []MonitorTypeOK
<1>1. MonitorInv => MonitorTypeOK
  BY DEF MonitorInv
<1> QED BY MonitorInitInv, MonitorStepInv, <1>1, PTL DEF MonitorSpec

(* PositionMonitors.save and arm: the newest instruction of a contract is the only one that
   watches, whatever is still written by those it replaced. *)
THEOREM NewestWatches == MonitorSpec => []OneInstructionWatches
<1>1. MonitorInv => OneInstructionWatches
  BY DEF MonitorInv
<1> QED BY MonitorInitInv, MonitorStepInv, <1>1, PTL DEF MonitorSpec

(* evaluate and poll_once: a monitor makes one exit in its life, for the entry it was armed for. *)
THEOREM SellsItsOwnOnce == MonitorSpec => []MonitorSellsItsOwn
<1>1. MonitorInv => MonitorSellsItsOwn
  BY DEF MonitorInv
<1> QED BY MonitorInitInv, MonitorStepInv, <1>1, PTL DEF MonitorSpec

-----------------------------------------------------------------------------
(* Expiry. *)


InFlight == {"reserved", "cleared", "called"}

(* An exit of the policy is a row with four columns; one that was refused was never sent. *)
ExitRows ==
  \A o \in exits :
    /\ o = [entry |-> o.entry, attempt |-> o.attempt, status |-> o.status, sent |-> o.sent]
    /\ o.sent \in BOOLEAN
    /\ o.sent => o.status # "rejected"

(* All attempts of an entry but one were refused. *)
OneStands ==
  \A o, p \in exits :
    o.entry = p.entry /\ o.status # "rejected" /\ p.status # "rejected" => o = p

(* What is being submitted is the order of the attempt under way, which has not been sent    *)
(* before the call.                                                                          *)
OnlyAttempt ==
  /\ \A o \in exits : o.status = "submitting" =>
       /\ attempt \in InFlight
       /\ attempt # "called" => ~o.sent
  /\ \A o, p \in exits : o.status = "submitting" /\ p.status = "submitting" => o = p

(* Between the check and the reservation nothing of the entry stands. *)
PlannedIsFree ==
  attempt = "planned" =>
    \A o \in exits : o.status # "submitting" /\ (o.entry = entryNo => o.status = "rejected")

ExpiryInv == ExpiryTypeOK /\ ExitRows /\ OneStands /\ OnlyAttempt /\ PlannedIsFree

-----------------------------------------------------------------------------

LEMMA ExpiryBounds == MaxExpiryEntry \in Nat /\ MaxRefusal \in Nat /\ MaxExpiryCrash \in Nat
BY ExpiryAssumption

(* A row keeps its other columns when its status changes. *)
LEMMA StatusOnly ==
  ASSUME ExitRows, NEW o \in exits, NEW status
  PROVE  [o EXCEPT !.status = status]
           = [entry |-> o.entry, attempt |-> o.attempt, status |-> status, sent |-> o.sent]
BY DEF ExitRows

(* One order of the policy that stands gets another status. *)
LEMMA UpdateKeeps ==
  ASSUME ExpiryInv, NEW o \in exits, NEW status, UpdateExit(o, status),
         o.status # "rejected",
         status \in {"rejected", "open", "unknown", "ended"},
         status = "rejected" => ~o.sent,
         o.status # "submitting" => UNCHANGED attempt /\ attempt = "idle"
  PROVE  /\ ExitRows' /\ OneStands'
         /\ \A p \in exits' : p.status \in {"submitting", "rejected", "open", "unknown", "ended"}
         /\ \A p \in exits' : p.status # "submitting"
<1> DEFINE q == [o EXCEPT !.status = status]
<1>1. q = [entry |-> o.entry, attempt |-> o.attempt, status |-> status, sent |-> o.sent]
  BY StatusOnly DEF ExpiryInv
<1>2. /\ q.entry = o.entry /\ q.attempt = o.attempt /\ q.status = status /\ q.sent = o.sent
      /\ q = [entry |-> q.entry, attempt |-> q.attempt, status |-> q.status, sent |-> q.sent]
  BY <1>1
<1>3. exits' = (exits \ {o}) \union {q}
  BY DEF UpdateExit
<1> HIDE DEF q
<1>4. ExitRows'
  BY <1>2, <1>3 DEF ExpiryInv, ExitRows
<1>5. OneStands'
  <2>1. ASSUME NEW p \in exits \ {o}, p.entry = o.entry PROVE p.status = "rejected"
    BY <2>1 DEF ExpiryInv, OneStands
  <2> QED BY <1>2, <1>3, <2>1 DEF ExpiryInv, OneStands
<1>6. \A p \in exits' : p.status \in {"submitting", "rejected", "open", "unknown", "ended"}
  BY <1>2, <1>3 DEF ExpiryInv, ExpiryTypeOK
<1>7. \A p \in exits' : p.status # "submitting"
  <2>1. ASSUME NEW p \in exits \ {o} PROVE p.status # "submitting"
    BY <2>1 DEF ExpiryInv, OnlyAttempt, InFlight
  <2> QED BY <1>2, <1>3, <2>1
<1> QED BY <1>4, <1>5, <1>6, <1>7

LEMMA ExpiryInitInv == ExpiryInit => ExpiryInv
<1> SUFFICES ASSUME ExpiryInit PROVE ExpiryInv
  OBVIOUS
<1> USE DEF ExpiryInit
<1>1. {inTheMoney, rival} \subseteq BOOLEAN
  OBVIOUS
<1>2. ExpiryTypeOK
  BY <1>1, ExpiryBounds DEF ExpiryTypeOK, Entered
<1>3. ExitRows /\ OneStands /\ OnlyAttempt /\ PlannedIsFree
  BY DEF ExitRows, OneStands, OnlyAttempt, PlannedIsFree
<1> QED BY <1>2, <1>3 DEF ExpiryInv

(* The market and the rest of the relay leave the policy's orders alone. *)
LEMMA ElsewhereInv ==
  ASSUME ExpiryInv, PassTime \/ CrossStrike \/ EnterAgain \/ RivalExit \/ RivalEnds
  PROVE  ExpiryInv'
<1>1. UNCHANGED <<exits, attempt, outages>> /\ (attempt = "planned" => UNCHANGED entryNo)
  BY DEF PassTime, CrossStrike, EnterAgain, RivalExit, RivalEnds
<1>2. (ExitRows /\ OneStands /\ OnlyAttempt /\ PlannedIsFree)'
  BY <1>1 DEF ExpiryInv, ExitRows, OneStands, OnlyAttempt, PlannedIsFree
<1>3. ExpiryTypeOK'
  <2>1. CASE PassTime \/ RivalExit \/ RivalEnds
    <3>1. {inTheMoney, rival}' \subseteq BOOLEAN
      BY <2>1 DEF ExpiryInv, ExpiryTypeOK, PassTime, RivalExit, RivalEnds
    <3>2. /\ session' \in {"before", "window", "closed"} /\ lot' \in 0 .. Entered
          /\ UNCHANGED <<entryNo, refusals>>
      BY <2>1 DEF ExpiryInv, ExpiryTypeOK, PassTime, RivalExit, RivalEnds, Entered
    <3> QED BY <1>1, <3>1, <3>2 DEF ExpiryInv, ExpiryTypeOK
  <2>2. CASE CrossStrike
    <3>1. inTheMoney' \in BOOLEAN
      BY <2>2 DEF CrossStrike
    <3>2. refusals' \in 0 .. MaxRefusal
      BY <2>2, ExpiryBounds DEF CrossStrike, ExpiryInv, ExpiryTypeOK
    <3> QED BY <1>1, <2>2, <3>1, <3>2 DEF ExpiryInv, ExpiryTypeOK, CrossStrike
  <2>3. CASE EnterAgain
    BY <1>1, <2>3, ExpiryBounds DEF ExpiryInv, ExpiryTypeOK, EnterAgain, Entered
  <2> QED BY <2>1, <2>2, <2>3
<1> QED BY <1>2, <1>3 DEF ExpiryInv

LEMMA ReconcileExitInv ==
  ASSUME ExpiryInv, NEW o \in exits, ReconcileExit(o)
  PROVE  ExpiryInv'
<1>1. /\ UpdateExit(o, "ended") /\ attempt = "idle" /\ lot' \in 0 .. lot
      /\ o.status \in {"submitting", "open", "unknown"}
      /\ UNCHANGED <<session, inTheMoney, entryNo, rival, attempt, refusals, outages>>
  BY DEF ReconcileExit, UnresolvedExits
<1>2. /\ ExitRows' /\ OneStands'
      /\ \A p \in exits' : p.status \in {"submitting", "rejected", "open", "unknown", "ended"}
      /\ \A p \in exits' : p.status # "submitting"
  BY <1>1, UpdateKeeps
<1>3. ExpiryTypeOK'
  BY <1>1, <1>2 DEF ExpiryInv, ExpiryTypeOK, Entered
<1>4. (OnlyAttempt /\ PlannedIsFree)'
  BY <1>1, <1>2 DEF OnlyAttempt, PlannedIsFree
<1> QED BY <1>2, <1>3, <1>4 DEF ExpiryInv

(* The check finds that nothing of the entry stands. *)
LEMMA CheckInv ==
  ASSUME ExpiryInv, CheckExpiry
  PROVE  ExpiryInv'
<1>1. /\ attempt = "idle" /\ attempt' = "planned" /\ UnresolvedExits = {}
      /\ ExitsOf(entryNo) = RefusedOf(entryNo)
      /\ UNCHANGED <<session, inTheMoney, lot, entryNo, exits, rival, refusals, outages>>
  BY DEF CheckExpiry, ExitDue, NoneUnresolved, MayTry
<1>2. \A o \in exits : o.status # "submitting" /\ (o.entry = entryNo => o.status = "rejected")
  BY <1>1 DEF UnresolvedExits, ExitsOf, RefusedOf
<1>3. (ExpiryTypeOK /\ ExitRows /\ OneStands)'
  BY <1>1 DEF ExpiryInv, ExpiryTypeOK, ExitRows, OneStands
<1>4. (OnlyAttempt /\ PlannedIsFree)'
  BY <1>1, <1>2 DEF ExpiryInv, ExpiryTypeOK, OnlyAttempt, PlannedIsFree
<1> QED BY <1>3, <1>4 DEF ExpiryInv

LEMMA ReserveInv ==
  ASSUME ExpiryInv, ReserveExpiryExit
  PROVE  ExpiryInv'
<1>1. /\ attempt = "planned"
      /\ UNCHANGED <<session, inTheMoney, lot, entryNo, rival, refusals, outages>>
  BY DEF ReserveExpiryExit
<1>2. CASE attempt' = "idle" /\ UNCHANGED exits
  BY <1>1, <1>2 DEF ExpiryInv, ExpiryTypeOK, ExitRows, OneStands, OnlyAttempt, PlannedIsFree,
                    InFlight
<1>3. CASE /\ attempt' = "reserved"
           /\ exits' = exits \union {[entry |-> entryNo, attempt |-> Attempt,
                                      status |-> "submitting", sent |-> FALSE]}
  <2> DEFINE new == [entry |-> entryNo, attempt |-> Attempt, status |-> "submitting",
                     sent |-> FALSE]
  <2>1. /\ new.entry = entryNo /\ new.status = "submitting" /\ new.sent = FALSE
        /\ new = [entry |-> new.entry, attempt |-> new.attempt, status |-> new.status,
                  sent |-> new.sent]
    OBVIOUS
  <2>2. exits' = exits \union {new}
    BY <1>3
  <2> HIDE DEF new
  <2>3. \A o \in exits : o.status # "submitting" /\ (o.entry = entryNo => o.status = "rejected")
    BY <1>1 DEF ExpiryInv, PlannedIsFree
  <2>4. (ExpiryTypeOK /\ ExitRows)'
    BY <1>1, <1>3, <2>1, <2>2 DEF ExpiryInv, ExpiryTypeOK, ExitRows
  <2>5. OneStands'
    BY <2>1, <2>2, <2>3 DEF ExpiryInv, OneStands
  <2>6. (OnlyAttempt /\ PlannedIsFree)'
    BY <1>3, <2>1, <2>2, <2>3 DEF OnlyAttempt, PlannedIsFree, InFlight
  <2> QED BY <2>4, <2>5, <2>6 DEF ExpiryInv
<1> QED BY <1>2, <1>3 DEF ReserveExpiryExit

(* The last review lets the order pass, or refuses it before it is sent. *)
LEMMA ReviewInv ==
  ASSUME ExpiryInv, PassReview \/ RefuseExpiryExit
  PROVE  ExpiryInv'
<1>1. CASE PassReview
  BY <1>1 DEF PassReview, ExpiryInv, ExpiryTypeOK, ExitRows, OneStands, OnlyAttempt,
              PlannedIsFree, InFlight
<1>2. CASE RefuseExpiryExit
  <2>1. /\ attempt = "reserved" /\ attempt' = "idle"
        /\ UNCHANGED <<session, inTheMoney, lot, entryNo, rival, outages>>
    BY <1>2 DEF RefuseExpiryExit
  <2>2. PICK o \in exits : o.status = "submitting" /\ UpdateExit(o, "rejected")
    BY <1>2 DEF RefuseExpiryExit
  <2>3. ~o.sent
    BY <2>1, <2>2 DEF ExpiryInv, OnlyAttempt
  <2>4. /\ ExitRows' /\ OneStands'
        /\ \A p \in exits' : p.status \in {"submitting", "rejected", "open", "unknown", "ended"}
        /\ \A p \in exits' : p.status # "submitting"
    BY <2>2, <2>3, UpdateKeeps
  <2>5. refusals' \in 0 .. MaxRefusal
    BY <1>2, ExpiryBounds DEF RefuseExpiryExit, ExpiryInv, ExpiryTypeOK
  <2>6. ExpiryTypeOK'
    BY <2>1, <2>4, <2>5 DEF ExpiryInv, ExpiryTypeOK
  <2>7. (OnlyAttempt /\ PlannedIsFree)'
    BY <2>1, <2>4 DEF OnlyAttempt, PlannedIsFree
  <2> QED BY <2>4, <2>6, <2>7 DEF ExpiryInv
<1> QED BY <1>1, <1>2

(* The order under way is sent; no other row changes. *)
LEMMA CallInv ==
  ASSUME ExpiryInv, CallExit
  PROVE  ExpiryInv'
<1> DEFINE After(o) == IF o.status = "submitting" THEN [o EXCEPT !.sent = TRUE] ELSE o
<1>1. /\ attempt = "cleared" /\ attempt' = "called" /\ exits' = {After(o) : o \in exits}
      /\ UNCHANGED <<session, inTheMoney, lot, entryNo, rival, refusals, outages>>
  BY DEF CallExit
<1>2. ASSUME NEW o \in exits
      PROVE  /\ After(o).entry = o.entry /\ After(o).status = o.status
             /\ After(o).sent \in BOOLEAN
             /\ After(o).sent => After(o).status # "rejected"
             /\ After(o) = [entry |-> After(o).entry, attempt |-> After(o).attempt,
                            status |-> After(o).status, sent |-> After(o).sent]
  <2>1. /\ o = [entry |-> o.entry, attempt |-> o.attempt, status |-> o.status, sent |-> o.sent]
        /\ o.sent \in BOOLEAN /\ (o.sent => o.status # "rejected")
    BY DEF ExpiryInv, ExitRows
  <2>2. CASE o.status = "submitting"
    <3>1. After(o) = [entry |-> o.entry, attempt |-> o.attempt, status |-> o.status, sent |-> TRUE]
      BY <2>1, <2>2
    <3> HIDE DEF After
    <3> QED BY <2>2, <3>1
  <2>3. CASE o.status # "submitting"
    BY <2>1, <2>3
  <2> QED BY <2>2, <2>3
<1> HIDE DEF After
<1>3. (ExpiryTypeOK /\ ExitRows)'
  BY <1>1, <1>2 DEF ExpiryInv, ExpiryTypeOK, ExitRows
<1>4. OneStands'
  BY <1>1, <1>2 DEF ExpiryInv, OneStands
<1>5. (OnlyAttempt /\ PlannedIsFree)'
  BY <1>1, <1>2 DEF ExpiryInv, OnlyAttempt, PlannedIsFree, InFlight
<1> QED BY <1>3, <1>4, <1>5 DEF ExpiryInv

LEMMA AnswerInv ==
  ASSUME ExpiryInv, AnswerExpiryExit
  PROVE  ExpiryInv'
<1>1. /\ attempt = "called" /\ attempt' = "idle"
      /\ UNCHANGED <<session, inTheMoney, entryNo, rival, refusals, outages>>
  BY DEF AnswerExpiryExit
<1>2. PICK o \in exits, status \in {"ended", "open", "unknown"} :
        /\ o.status = "submitting" /\ UpdateExit(o, status)
        /\ lot' \in IF status = "unknown" THEN {lot} ELSE 0 .. lot
  BY DEF AnswerExpiryExit
<1>3. /\ ExitRows' /\ OneStands'
      /\ \A p \in exits' : p.status \in {"submitting", "rejected", "open", "unknown", "ended"}
      /\ \A p \in exits' : p.status # "submitting"
  BY <1>2, UpdateKeeps
<1>4. lot' \in 0 .. Entered
  BY <1>2 DEF ExpiryInv, ExpiryTypeOK, Entered
<1>5. ExpiryTypeOK'
  BY <1>1, <1>3, <1>4 DEF ExpiryInv, ExpiryTypeOK
<1>6. (OnlyAttempt /\ PlannedIsFree)'
  BY <1>1, <1>3 DEF OnlyAttempt, PlannedIsFree
<1> QED BY <1>3, <1>5, <1>6 DEF ExpiryInv

(* A restart takes what was being submitted for uncertain: it still stands. *)
LEMMA CrashExpiryInv ==
  ASSUME ExpiryInv, CrashExpiry
  PROVE  ExpiryInv'
<1> DEFINE After(o) == IF o.status = "submitting" THEN [o EXCEPT !.status = AfterCrash] ELSE o
<1>1. /\ attempt' = "idle" /\ exits' = {After(o) : o \in exits}
      /\ outages < MaxExpiryCrash /\ outages' = outages + 1
      /\ UNCHANGED <<session, inTheMoney, lot, entryNo, rival, refusals>>
  BY DEF CrashExpiry
<1>2. ASSUME NEW o \in exits
      PROVE  /\ After(o).entry = o.entry /\ After(o).sent = o.sent
             /\ After(o).status = IF o.status = "submitting" THEN "unknown" ELSE o.status
             /\ After(o) = [entry |-> After(o).entry, attempt |-> After(o).attempt,
                            status |-> After(o).status, sent |-> After(o).sent]
  <2>1. o = [entry |-> o.entry, attempt |-> o.attempt, status |-> o.status, sent |-> o.sent]
    BY DEF ExpiryInv, ExitRows
  <2>2. CASE o.status = "submitting"
    <3>1. After(o) = [entry |-> o.entry, attempt |-> o.attempt, status |-> "unknown",
                      sent |-> o.sent]
      BY <2>1, <2>2 DEF AfterCrash
    <3> HIDE DEF After
    <3> QED BY <2>2, <3>1
  <2>3. CASE o.status # "submitting"
    BY <2>1, <2>3
  <2> QED BY <2>2, <2>3
<1> HIDE DEF After
<1>3. ExitRows'
  BY <1>1, <1>2 DEF ExpiryInv, ExitRows
<1>4. OneStands'
  BY <1>1, <1>2 DEF ExpiryInv, OneStands
<1>5. ExpiryTypeOK'
  BY <1>1, <1>2, ExpiryBounds DEF ExpiryInv, ExpiryTypeOK
<1>6. (OnlyAttempt /\ PlannedIsFree)'
  BY <1>1, <1>2 DEF OnlyAttempt, PlannedIsFree
<1> QED BY <1>3, <1>4, <1>5, <1>6 DEF ExpiryInv

LEMMA ExpiryStepInv == ExpiryInv /\ [ExpiryNext]_expiryVars => ExpiryInv'
<1> SUFFICES ASSUME ExpiryInv, [ExpiryNext]_expiryVars PROVE ExpiryInv'
  OBVIOUS
<1>1. CASE PassTime \/ CrossStrike \/ EnterAgain \/ RivalExit \/ RivalEnds
  BY <1>1, ElsewhereInv
<1>2. CASE \E o \in exits : ReconcileExit(o)
  BY <1>2, ReconcileExitInv
<1>3. CASE CheckExpiry
  BY <1>3, CheckInv
<1>4. CASE ReserveExpiryExit
  BY <1>4, ReserveInv
<1>5. CASE PassReview \/ RefuseExpiryExit
  BY <1>5, ReviewInv
<1>6. CASE CallExit
  BY <1>6, CallInv
<1>7. CASE AnswerExpiryExit
  BY <1>7, AnswerInv
<1>8. CASE CrashExpiry
  BY <1>8, CrashExpiryInv
<1>9. CASE UNCHANGED expiryVars
  BY <1>9 DEF expiryVars, ExpiryInv, ExpiryTypeOK, ExitRows, OneStands, OnlyAttempt, PlannedIsFree
<1> QED BY <1>1, <1>2, <1>3, <1>4, <1>5, <1>6, <1>7, <1>8, <1>9 DEF ExpiryNext

(* The policy's state keeps its types, whatever the market, the operator's other orders and *)
(* restarts do.                                                                              *)
THEOREM ExpiryTypes == ExpirySpec => []ExpiryTypeOK
<1>1. ExpiryInv => ExpiryTypeOK
  BY DEF ExpiryInv
<1> QED BY ExpiryInitInv, ExpiryStepInv, <1>1, PTL DEF ExpirySpec

(* check and Store.__init__: of the expiry exits of one entry at most one is ever handed to  *)
(* the broker, however often attempts are refused, uncertain or cut off by a restart.        *)
THEOREM SentOncePerEntry == ExpirySpec => []OneExitPerEntry
<1>1. ExpiryInv => OneExitPerEntry
  BY DEF ExpiryInv, ExitRows, OneStands, OneExitPerEntry
<1> QED BY ExpiryInitInv, ExpiryStepInv, <1>1, PTL DEF ExpirySpec
==============================================================================
