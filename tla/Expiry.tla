------------------------------- MODULE Expiry -------------------------------
(***************************************************************************)
(* ExpiryExits (expiry.py): in the last hour of its last trading day a     *)
(* contract that is in the money is closed, every thirty seconds anew      *)
(* until an order has gone out.  Each attempt is an order of the ledger    *)
(* whose id is made of the entry and of the attempts refused so far.       *)
(*                                                                         *)
(* One contract that expires today.  Engine.lock is held from the check to *)
(* the answer, so only time, the market and a crash come in between.       *)
(***************************************************************************)
EXTENDS Integers, FiniteSets

CONSTANTS
  MaxExpiryEntry,     \* bound: entries of the contract
  MaxRefusal,         \* bound: refusals, and crossings of the strike while an attempt is under way
  MaxExpiryCrash      \* bound: restarts

ASSUME ExpiryAssumption == {MaxExpiryEntry, MaxRefusal, MaxExpiryCrash} \subseteq Nat

VARIABLES
  session,     \* the last trading day: "before", "window" or "closed"
  inTheMoney,  \* the underlying against the strike
  lot,         \* contracts owned
  entryNo,     \* the newest filled entry of the contract
  exits,       \* orders of the policy: a set of [entry, attempt, status, sent]
  rival,       \* another order of the relay is unresolved
  attempt,     \* the check: "idle", "planned", "reserved", "cleared" or "called"
  refusals, outages    \* so far

expiryVars == <<session, inTheMoney, lot, entryNo, exits, rival, attempt, refusals, outages>>

Entered == 2     \* contracts an entry buys
ExitsOf(entry) == {o \in exits : o.entry = entry}
RefusedOf(entry) == {o \in ExitsOf(entry) : o.status = "rejected"}
UnresolvedExits == {o \in exits : o.status \in {"submitting", "open", "unknown"}}
NoneUnresolved == ~rival /\ UnresolvedExits = {}

UpdateExit(o, status) == exits' = (exits \ {o}) \union {[o EXCEPT !.status = status]}

-----------------------------------------------------------------------------
(* The market, and the rest of the relay under the lock. *)

PassTime ==
  /\ session # "closed"
  /\ session' = IF session = "before" THEN "window" ELSE "closed"
  /\ UNCHANGED <<inTheMoney, lot, entryNo, exits, rival, attempt, refusals, outages>>

CrossStrike ==
  /\ inTheMoney' = ~inTheMoney
  /\ IF attempt = "idle" THEN UNCHANGED refusals
     ELSE refusals < MaxRefusal /\ refusals' = refusals + 1
  /\ UNCHANGED <<session, lot, entryNo, exits, rival, attempt, outages>>

\* A same-day entry of Discord.
EnterAgain ==
  /\ attempt = "idle" /\ NoneUnresolved /\ lot = 0 /\ entryNo < MaxExpiryEntry
  /\ lot' = Entered /\ entryNo' = entryNo + 1
  /\ UNCHANGED <<session, inTheMoney, exits, rival, attempt, refusals, outages>>

\* An exit of Discord goes out and is resolved later.
RivalExit ==
  /\ attempt = "idle" /\ NoneUnresolved /\ lot > 0
  /\ rival' = TRUE
  /\ UNCHANGED <<session, inTheMoney, lot, entryNo, exits, attempt, refusals, outages>>

RivalEnds ==
  /\ attempt = "idle" /\ rival
  /\ rival' = FALSE /\ lot' \in 0 .. lot
  /\ UNCHANGED <<session, inTheMoney, entryNo, exits, attempt, refusals, outages>>

\* reconcile reads an exit the broker has: it fills, in part perhaps, or ends.
ReconcileExit(o) ==
  /\ attempt = "idle"
  /\ o \in UnresolvedExits /\ o.sent
  /\ UpdateExit(o, "ended") /\ lot' \in 0 .. lot
  /\ UNCHANGED <<session, inTheMoney, entryNo, rival, attempt, refusals, outages>>

-----------------------------------------------------------------------------
(* check, and execute_decision with its guard. *)

\* Only an attempt that never reached the broker is safe to repeat.
MayTry == ExitsOf(entryNo) = RefusedOf(entryNo)

ExitDue == session = "window" /\ inTheMoney /\ lot > 0 /\ NoneUnresolved /\ MayTry

CheckExpiry ==
  /\ attempt = "idle" /\ ExitDue
  /\ attempt' = "planned"
  /\ UNCHANGED <<session, inTheMoney, lot, entryNo, exits, rival, refusals, outages>>

\* Mutant of Attempt: one event, and so one order id, for the entry.
AttemptOnce == 0

\* The revision of the event.
Attempt == Cardinality(RefusedOf(entryNo))

\* Nothing is reserved when the window has passed; an order id is taken once.
ReserveExpiryExit ==
  /\ attempt = "planned"
  /\ IF session = "window" /\ \A o \in ExitsOf(entryNo) : o.attempt # Attempt
     THEN /\ attempt' = "reserved"
          /\ exits' = exits \union {[entry |-> entryNo, attempt |-> Attempt,
                                     status |-> "submitting", sent |-> FALSE]}
     ELSE attempt' = "idle" /\ UNCHANGED exits
  /\ UNCHANGED <<session, inTheMoney, lot, entryNo, rival, refusals, outages>>

\* before_submit: the underlying is read again.
PassReview ==
  /\ attempt = "reserved" /\ session = "window" /\ inTheMoney
  /\ attempt' = "cleared"
  /\ UNCHANGED <<session, inTheMoney, lot, entryNo, exits, rival, refusals, outages>>

\* The final review holds the order: reject_before_submission.
RefuseExpiryExit ==
  /\ attempt = "reserved"
  /\ IF session = "window" /\ inTheMoney
     THEN refusals < MaxRefusal /\ refusals' = refusals + 1
     ELSE UNCHANGED refusals
  /\ \E o \in exits : o.status = "submitting" /\ UpdateExit(o, "rejected")
  /\ attempt' = "idle"
  /\ UNCHANGED <<session, inTheMoney, lot, entryNo, rival, outages>>

CallExit ==
  /\ attempt = "cleared"
  /\ attempt' = "called"
  /\ exits' = {IF o.status = "submitting" THEN [o EXCEPT !.sent = TRUE] ELSE o : o \in exits}
  /\ UNCHANGED <<session, inTheMoney, lot, entryNo, rival, refusals, outages>>

\* The answer: the order is over, open, or its fate unknown.
AnswerExpiryExit ==
  /\ attempt = "called"
  /\ attempt' = "idle"
  /\ \E o \in exits, status \in {"ended", "open", "unknown"} :
       /\ o.status = "submitting" /\ UpdateExit(o, status)
       /\ lot' \in IF status = "unknown" THEN {lot} ELSE 0 .. lot
  /\ UNCHANGED <<session, inTheMoney, entryNo, rival, refusals, outages>>

\* Mutant of AfterCrash: an order in flight is taken for one that was never sent.
AfterCrashRejected == "rejected"

\* Store.__init__: what was being submitted may have arrived.
AfterCrash == "unknown"

CrashExpiry ==
  /\ outages < MaxExpiryCrash
  /\ outages' = outages + 1
  /\ attempt' = "idle"
  /\ exits' = {IF o.status = "submitting" THEN [o EXCEPT !.status = AfterCrash] ELSE o : o \in exits}
  /\ UNCHANGED <<session, inTheMoney, lot, entryNo, rival, refusals>>

ExpiryInit ==
  /\ session = "before" /\ inTheMoney = FALSE
  /\ lot = 0 /\ entryNo = 0 /\ exits = {} /\ rival = FALSE
  /\ attempt = "idle" /\ refusals = 0 /\ outages = 0

ExpiryNext ==
  \/ PassTime
  \/ CrossStrike
  \/ EnterAgain
  \/ RivalExit
  \/ RivalEnds
  \/ \E o \in exits : ReconcileExit(o)
  \/ CheckExpiry
  \/ ReserveExpiryExit
  \/ PassReview
  \/ RefuseExpiryExit
  \/ CallExit
  \/ AnswerExpiryExit
  \/ CrashExpiry

\* The task wakes every thirty seconds, and the lock is fair; a check under way goes on.
ExpiryFairness ==
  /\ WF_expiryVars(CheckExpiry)
  /\ WF_expiryVars(ReserveExpiryExit \/ PassReview \/ RefuseExpiryExit \/ CallExit \/ AnswerExpiryExit)

ExpirySpec == ExpiryInit /\ [][ExpiryNext]_expiryVars /\ ExpiryFairness

-----------------------------------------------------------------------------

ExpiryTypeOK ==
  /\ session \in {"before", "window", "closed"} /\ {inTheMoney, rival} \subseteq BOOLEAN
  /\ lot \in 0 .. Entered /\ entryNo \in 0 .. MaxExpiryEntry
  /\ attempt \in {"idle", "planned", "reserved", "cleared", "called"}
  /\ \A o \in exits : o.status \in {"submitting", "rejected", "open", "unknown", "ended"}
  /\ refusals \in 0 .. MaxRefusal /\ outages \in 0 .. MaxExpiryCrash

\* expiry.py:104: "An accepted/uncertain order is never replaced blindly, including across
\* restarts": of the exits of one entry at most one was handed to the broker.
OneExitPerEntry == \A o, p \in exits : o.entry = p.entry /\ o.sent /\ p.sent => o = p

\* A contract in the money in the last hour is not left to be exercised: while nothing else
\* stands in its way an order goes out, also after an attempt was refused at the last moment.
ExpiringIsExited == ExitDue ~> ~ExitDue
=============================================================================
