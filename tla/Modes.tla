-------------------------------- MODULE Modes --------------------------------
(***************************************************************************)
(* Changing the trading mode: the dashboard's SetupManager (setup.py) and  *)
(* the worker's serve loop (service.py), two processes that share the      *)
(* configuration file, the STOP marker, the runtime status and the live    *)
(* ledger, and nothing else.                                               *)
(*                                                                         *)
(* The live ledger is one order at most, which may be at the broker, and   *)
(* whether there is a position.  A signature of the watched files is the   *)
(* number of writes to them.                                               *)
(***************************************************************************)
EXTENDS Integers

CONSTANTS
  MaxWrite,      \* bound: writes to the watched files
  MaxBreak       \* bound: failures and crashes of the worker

ASSUME ModesAssumption == {MaxWrite, MaxBreak} \subseteq Nat

VARIABLES
  config,   \* the configuration file: [mode, id], "id" is mode_change_id, 0 for none
  stop,     \* the kill switch
  runtime,  \* runtime-status.json: [mode, id, ok], ok when fresh and neither error nor stopped
  writes,   \* writes to the watched files so far
  switch,   \* set_mode past its checks: the mode to write
  worker,   \* serve: [phase, saw, mode, id]
  act,      \* the order the worker is on
  row,      \* the live ledger has an unresolved order
  out,      \* that order has reached the broker
  held,     \* the live ledger has a position
  breaks    \* failures and crashes so far

modesVars == <<config, stop, runtime, writes, switch, worker, act, row, out, held, breaks>>
orderVars == <<act, row, out, held>>

Unset == "none"
Mode == {"paper", "shadow", "live"}

Paused == stop
\* _public_trading.
ModePending ==
  config.id # 0 /\ (~runtime.ok \/ runtime.mode # config.mode \/ runtime.id # config.id)

-----------------------------------------------------------------------------
(* The dashboard, one request at a time under SetupManager._lock. *)

SetPaused ==
  /\ switch = Unset
  /\ ~stop /\ stop' = TRUE
  /\ UNCHANGED <<config, runtime, writes, switch, worker, orderVars, breaks>>

\* Not while a change is still to be loaded; live may also lack a connection.
Resume ==
  /\ switch = Unset
  /\ stop /\ ~ModePending
  /\ stop' = FALSE
  /\ UNCHANGED <<config, runtime, writes, switch, worker, orderVars, breaks>>

\* _check_mode_ledger, leaving live.
LeavesNothing == ~held /\ ~row

\* set_mode up to its write.
BeginSwitch(mode) ==
  /\ switch = Unset /\ writes < MaxWrite
  /\ Paused /\ mode # config.mode
  /\ ModePending => config.mode = "live" /\ mode = "shadow"
  /\ config.mode = "live" => LeavesNothing
  /\ switch' = mode
  /\ UNCHANGED <<config, stop, runtime, writes, worker, orderVars, breaks>>

WriteConfig(mode) ==
  /\ writes' = writes + 1
  /\ config' = [mode |-> mode, id |-> writes + 1]

EndSwitch ==
  /\ switch # Unset
  /\ WriteConfig(switch)
  /\ switch' = Unset
  /\ UNCHANGED <<stop, runtime, worker, orderVars, breaks>>

\* save_evaluation, and set_expiry_policy, which also waits for the last change.
SaveSettings ==
  /\ switch = Unset /\ writes < MaxWrite
  /\ Paused
  /\ WriteConfig(config.mode)
  /\ UNCHANGED <<stop, runtime, switch, worker, orderVars, breaks>>

\* The first sign-in to Robinhood binds the account, and leaves paper for shadow as it does,
\* paused or not, and without a change id.
BindAccount ==
  /\ switch = Unset /\ writes < MaxWrite
  /\ config.mode = "paper"
  /\ writes' = writes + 1
  /\ config' = [config EXCEPT !.mode = "shadow"]
  /\ UNCHANGED <<stop, runtime, switch, worker, orderVars, breaks>>

\* reconnect, and the settings that may be saved without a pause.
Reconnect ==
  /\ switch = Unset /\ writes < MaxWrite
  /\ writes' = writes + 1
  /\ UNCHANGED <<config, stop, runtime, switch, worker, orderVars, breaks>>

-----------------------------------------------------------------------------
(* The worker's loop. *)

SignFiles ==
  /\ worker.phase = "down"
  /\ worker' = [worker EXCEPT !.phase = "signed", !.saw = writes]
  /\ UNCHANGED <<config, stop, runtime, writes, switch, orderVars, breaks>>

Load ==
  /\ worker.phase = "signed"
  /\ worker' = [worker EXCEPT !.phase = "loaded", !.mode = config.mode, !.id = config.id]
  /\ UNCHANGED <<config, stop, runtime, writes, switch, orderVars, breaks>>

\* Mutant of Watched: the files are signed when the watch begins.
WatchedAnew == writes

\* The signature run_until_change compares with: the one from before the configuration was read.
Watched == worker.saw

\* The first status written for this configuration acknowledges it.
Acknowledge ==
  /\ worker.phase = "loaded"
  /\ worker' = [worker EXCEPT !.phase = "running", !.saw = Watched]
  /\ runtime' = [mode |-> worker.mode, id |-> worker.id, ok |-> TRUE]
  /\ UNCHANGED <<config, stop, writes, switch, orderVars, breaks>>

\* watch_changes writes a heartbeat at every look.
Heartbeat ==
  /\ worker.phase = "running" /\ worker.saw = writes
  /\ ~runtime.ok
  /\ runtime' = [runtime EXCEPT !.ok = TRUE]
  /\ UNCHANGED <<config, stop, writes, switch, worker, orderVars, breaks>>

\* The status is older than thirty seconds.
GoStale ==
  /\ runtime.ok
  /\ runtime' = [runtime EXCEPT !.ok = FALSE]
  /\ UNCHANGED <<config, stop, writes, switch, worker, orderVars, breaks>>

\* run_until_change: the operation is cancelled wherever it is.
SeeChange ==
  /\ worker.phase = "running" /\ worker.saw # writes
  /\ worker' = [worker EXCEPT !.phase = "down"]
  /\ act' = "idle"
  /\ UNCHANGED <<config, stop, runtime, writes, switch, row, out, held, breaks>>

\* Whatever serve catches; a full queue and a message that fails set the kill switch too.
Fail ==
  /\ worker.phase \notin {"down", "error"} /\ breaks < MaxBreak
  /\ breaks' = breaks + 1
  /\ worker' = [worker EXCEPT !.phase = "error"]
  /\ runtime' = [runtime EXCEPT !.ok = FALSE]
  /\ act' = "idle"
  /\ stop' \in IF worker.phase = "running" THEN {stop, TRUE} ELSE {stop}
  /\ UNCHANGED <<config, writes, switch, row, out, held>>

Retry ==
  /\ worker.phase = "error"
  /\ worker' = [worker EXCEPT !.phase = "down"]
  /\ UNCHANGED <<config, stop, runtime, writes, switch, orderVars, breaks>>

\* The process ends: the status stays as it was.
CrashWorker ==
  /\ worker.phase # "down" /\ breaks < MaxBreak
  /\ breaks' = breaks + 1
  /\ worker' = [worker EXCEPT !.phase = "down"]
  /\ act' = "idle"
  /\ UNCHANGED <<config, stop, runtime, writes, switch, row, out, held>>

-----------------------------------------------------------------------------
(* A live order, under Engine.lock. *)

Live == worker.phase = "running" /\ worker.mode = "live"

\* The first verify_dispatch.
PlanOrder ==
  /\ Live /\ act = "idle" /\ ~row
  /\ ~stop
  /\ act' = "planned"
  /\ UNCHANGED <<config, stop, runtime, writes, switch, worker, row, out, held, breaks>>

ReserveOrder ==
  /\ act = "planned"
  /\ act' = "reserved" /\ row' = TRUE
  /\ UNCHANGED <<config, stop, runtime, writes, switch, worker, out, held, breaks>>

\* Mutant of MayDispatch: the marker is only looked at before the reservation.
MayDispatchAnyway == TRUE

\* The kill switch in before_submit's verify_dispatch.
MayDispatch == ~stop

\* before_submit, after the broker's review.
ClearOrder ==
  /\ act = "reserved" /\ MayDispatch
  /\ act' = "cleared"
  /\ UNCHANGED <<config, stop, runtime, writes, switch, worker, row, out, held, breaks>>

\* A preflight hold: rejected before submission.
RefuseOrder ==
  /\ act \in {"reserved", "cleared"}
  /\ act' = "idle" /\ row' = FALSE
  /\ UNCHANGED <<config, stop, runtime, writes, switch, worker, out, held, breaks>>

PlaceOrder ==
  /\ act = "cleared"
  /\ act' = "placed" /\ out' = TRUE
  /\ UNCHANGED <<config, stop, runtime, writes, switch, worker, row, held, breaks>>

\* The answer leaves the order open or its fate unknown, or it is the end of the order.
ResultOfOrder ==
  /\ act = "placed"
  /\ act' = "idle"
  /\ \/ UNCHANGED <<row, out, held>>
     \/ row' = FALSE /\ out' = FALSE /\ held' \in BOOLEAN
  /\ UNCHANGED <<config, stop, runtime, writes, switch, worker, breaks>>

\* reconcile_orders, of an order the broker has.
ReconcileOrder ==
  /\ Live /\ act = "idle" /\ out
  /\ row' = FALSE /\ out' = FALSE /\ held' \in BOOLEAN
  /\ UNCHANGED <<config, stop, runtime, writes, switch, worker, act, breaks>>

ModesInit ==
  /\ config \in [mode: {"paper", "shadow"}, id: {0}]
  /\ stop = TRUE /\ writes = 0 /\ switch = Unset /\ breaks = 0
  /\ runtime = [mode |-> Unset, id |-> 0, ok |-> FALSE]
  /\ worker = [phase |-> "down", saw |-> 0, mode |-> Unset, id |-> 0]
  /\ act = "idle" /\ row = FALSE /\ out = FALSE /\ held = FALSE

ModesNext ==
  \/ SetPaused
  \/ Resume
  \/ \E mode \in {"shadow", "live"} : BeginSwitch(mode)
  \/ EndSwitch
  \/ SaveSettings
  \/ BindAccount
  \/ Reconnect
  \/ SignFiles
  \/ Load
  \/ Acknowledge
  \/ Heartbeat
  \/ GoStale
  \/ SeeChange
  \/ Fail
  \/ Retry
  \/ CrashWorker
  \/ PlanOrder
  \/ ReserveOrder
  \/ ClearOrder
  \/ RefuseOrder
  \/ PlaceOrder
  \/ ResultOfOrder
  \/ ReconcileOrder

\* What serve does of itself.
ModesLoop == SignFiles \/ Load \/ Acknowledge \/ Heartbeat \/ SeeChange \/ Retry

\* The loop never waits for anyone: it is looked after by the container's restart policy, and
\* looks at the files every three seconds.
ModesFairness == WF_modesVars(ModesLoop)

ModesSpec == ModesInit /\ [][ModesNext]_modesVars /\ ModesFairness

-----------------------------------------------------------------------------

ModesTypeOK ==
  /\ config \in [mode: Mode, id: 0 .. MaxWrite]
  /\ runtime \in [mode: Mode \union {Unset}, id: 0 .. MaxWrite, ok: BOOLEAN]
  /\ worker \in [phase: {"down", "signed", "loaded", "running", "error"},
                 saw: 0 .. MaxWrite, mode: Mode \union {Unset}, id: 0 .. MaxWrite]
  /\ {stop, row, out, held} \subseteq BOOLEAN
  /\ writes \in 0 .. MaxWrite /\ breaks \in 0 .. MaxBreak
  /\ switch \in {Unset, "shadow", "live"}
  /\ act \in {"idle", "planned", "reserved", "cleared", "placed"}

\* Once resumed, a worker that can act has the settings of the file and its mode, or still
\* simulates when an account has just been bound: it is never the live worker of a mode that
\* has been left, nor one with old limits.
ResumedModeRuns ==
  ~stop /\ worker.phase = "running" =>
    worker.id = config.id /\ worker.mode \in {config.mode, "paper"}

\* set_mode: when live has been left, no order of the relay is at the broker and the relay has
\* no position, whatever the worker was doing when it was paused.
NothingLiveIsLeft ==
  config.mode # "live" => ~out /\ ~held

\* Resume and set_mode: who acts is who was chosen, and nobody else's orders are about.
ChosenModeActs == ResumedModeRuns /\ NothingLiveIsLeft

\* A change is loaded and acknowledged in the end, so Resume becomes possible.
ChangeIsLoaded == ModePending ~> ~ModePending
=============================================================================
