------------------------------- MODULE SignIn -------------------------------
(***************************************************************************)
(* The sign-in jobs of the dashboard's SetupManager (setup.py): one thread *)
(* per provider, started and cancelled by requests that the HTTP server    *)
(* runs in threads of their own.  What is done under SetupManager._lock is *)
(* one action; a cancellation lets go of the lock while it joins the       *)
(* thread, and a pasted callback while it is forwarded.                    *)
(*                                                                         *)
(* The two jobs have their own phases and end the same way: under the lock *)
(* they install what they got, unless they have been cancelled.  Only the  *)
(* tokens of Robinhood are not for the lock to keep: the broker's login    *)
(* writes them into the token store in use, and the flag of a cancellation *)
(* is looked at every 50 ms.                                               *)
(*                                                                         *)
(* SetupManager.close, when the dashboard ends, is left out.               *)
(***************************************************************************)
EXTENDS Integers

CONSTANT MaxAttempt       \* bound: sign-ins of a provider

ASSUME SignInAssumption == MaxAttempt \in Nat \ {0}

Provider == {"codex", "robinhood"}    \* AUTH_PROVIDERS

VARIABLES
  auth,      \* _auth_state, its "state"
  job,       \* _jobs: [no, phase, thread, cancelled]
  joining,   \* cancel_auth at its join: the attempt, or 0
  pasting,   \* complete_robinhood_callback at its request: the attempt, or 0
  installed, \* the attempt whose Codex login or Robinhood account is in place, 0 for earlier ones
  stored     \* the attempt whose tokens Robinhood's token store has, 0 for earlier ones

signInVars == <<auth, job, joining, pasting, installed, stored>>

\* "phase" is of the Robinhood job.  A thread that has written its result cleans up: "leaving".
Phase == {"initialization", "authorization", "callback", "token_exchange", "account_inspection",
          "account_binding"}
Thread == {"gone", "begun", "working", "leaving"}
Alive(p) == job[p].thread # "gone"
Working(p) == job[p].thread \in {"begun", "working"}

SetAuth(p, state) == auth' = [auth EXCEPT ![p] = state]
SetPhase(phase) == job' = [job EXCEPT !["robinhood"].phase = phase]
SetThread(p, thread) == job' = [job EXCEPT ![p].thread = thread]

\* The thread of the Robinhood job is in one of these phases.
In(phases) == job["robinhood"].thread = "working" /\ job["robinhood"].phase \in phases

-----------------------------------------------------------------------------
(* Requests. *)

StartAuth(p) ==
  /\ ~Alive(p) /\ job[p].no < MaxAttempt
  /\ job' = [job EXCEPT ![p] = [no |-> @.no + 1, phase |-> "initialization", thread |-> "begun",
                               cancelled |-> FALSE]]
  /\ SetAuth(p, "starting")
  /\ UNCHANGED <<joining, pasting, installed, stored>>

\* cancel_auth up to the join; without a thread there is nothing to wait for.
BeginCancel(p) ==
  /\ joining[p] = 0 /\ auth[p] # "connected"
  /\ IF Alive(p)
     THEN /\ job' = [job EXCEPT ![p].cancelled = TRUE]
          /\ joining' = [joining EXCEPT ![p] = job[p].no]
          /\ UNCHANGED auth
     ELSE /\ SetAuth(p, IF auth[p] = "failed" THEN "failed" ELSE "cancelled")
          /\ UNCHANGED <<job, joining>>
  /\ UNCHANGED <<pasting, installed, stored>>

\* The thread has ended, or five seconds have passed.  Another attempt may have begun.
EndCancel(p) ==
  /\ joining[p] # 0
  /\ joining' = [joining EXCEPT ![p] = 0]
  /\ SetAuth(p, IF job[p].no = joining[p] /\ Alive(p) THEN "failed"
                ELSE IF auth[p] \in {"connected", "failed"} THEN auth[p]
                ELSE "cancelled")
  /\ UNCHANGED <<job, pasting, installed, stored>>

\* The address is only shown between "callback" and the answer to it.
BeginPaste ==
  LET j == job["robinhood"]
  IN  /\ pasting = 0
      /\ auth["robinhood"] = "waiting" /\ j.phase = "callback" /\ ~j.cancelled
      /\ pasting' = j.no
      /\ UNCHANGED <<auth, job, joining, installed, stored>>

\* Mutant of PasteCounts: what the job has done meanwhile is not looked at.
PasteCountsForJob(j) == j.no = pasting

PasteCounts(j) == j.no = pasting /\ j.phase = "callback"

\* The listener has answered, with success or not.
EndPaste ==
  /\ pasting # 0
  /\ pasting' = 0
  /\ \/ /\ PasteCounts(job["robinhood"])
        /\ SetPhase("token_exchange")
        /\ SetAuth("robinhood", "waiting")
     \/ UNCHANGED <<auth, job>>
  /\ UNCHANGED <<joining, installed, stored>>

-----------------------------------------------------------------------------
(* The jobs. *)

PrepareJob(p) ==
  /\ job[p].thread = "begun" /\ ~job[p].cancelled
  /\ job' = [job EXCEPT ![p].thread = "working", ![p].phase = "authorization"]
  /\ SetAuth(p, "starting")
  /\ UNCHANGED <<joining, pasting, installed, stored>>

\* Codex prints its address or code; the line was read before a cancellation.
ShowDeviceCode ==
  /\ job["codex"].thread = "working"
  /\ SetAuth("codex", "waiting")
  /\ UNCHANGED <<job, joining, pasting, installed, stored>>

ShowAuthorization ==
  /\ In({"authorization"}) /\ ~job["robinhood"].cancelled
  /\ SetPhase("callback")
  /\ SetAuth("robinhood", "waiting")
  /\ UNCHANGED <<joining, pasting, installed, stored>>

\* _OAuthStorage.set_tokens, of the login or of a refresh while the account is inspected: the
\* attempt may have been cancelled meanwhile.
StoreTokens ==
  /\ In({"authorization", "callback", "token_exchange", "account_inspection"})
  /\ stored' = job["robinhood"].no
  /\ UNCHANGED <<auth, job, joining, pasting, installed>>

\* broker_login has returned: the callback came, pasted or from the browser, or was not needed.
EndLogin ==
  /\ In({"authorization", "callback", "token_exchange"})
  /\ ~job["robinhood"].cancelled
  /\ SetPhase("account_inspection")
  /\ SetAuth("robinhood", "waiting")
  /\ UNCHANGED <<joining, pasting, installed, stored>>

EndInspection ==
  /\ In({"account_inspection"})
  /\ SetPhase("account_binding")
  /\ UNCHANGED <<auth, joining, pasting, installed, stored>>

MayInstall(p) == ~job[p].cancelled

\* The account is bound, or the verified login moved into place; the capability report may
\* fail to be, which leaves a failed sign-in with its account bound.
Install(p) ==
  /\ job[p].thread = "working"
  /\ p = "robinhood" => In({"account_binding"})
  /\ MayInstall(p)
  /\ installed' = [installed EXCEPT ![p] = job[p].no]
  /\ SetThread(p, "leaving")
  /\ \E state \in {"connected"} \union (IF p = "robinhood" THEN {"failed"} ELSE {}) : SetAuth(p, state)
  /\ UNCHANGED <<joining, pasting, stored>>

\* How a job that installs nothing reports.
Ending(p) == IF job[p].cancelled THEN "cancelled" ELSE "failed"

\* It failed, was late, was refused, or sees that it has been cancelled.
AbandonJob(p) ==
  /\ Working(p)
  /\ SetThread(p, "leaving")
  /\ SetAuth(p, Ending(p))
  /\ UNCHANGED <<joining, pasting, installed, stored>>

LeaveJob(p) ==
  /\ job[p].thread = "leaving"
  /\ SetThread(p, "gone")
  /\ UNCHANGED <<auth, joining, pasting, installed, stored>>

SignInInit ==
  /\ auth = [p \in Provider |-> "not_connected"]
  /\ job = [p \in Provider |-> [no |-> 0, phase |-> "initialization", thread |-> "gone", cancelled |-> FALSE]]
  /\ joining = [p \in Provider |-> 0] /\ pasting = 0
  /\ installed = [p \in Provider |-> 0] /\ stored = 0

\* The two sign-ins share nothing but the lock.
RobinhoodNext ==
  \/ BeginPaste
  \/ EndPaste
  \/ ShowAuthorization
  \/ StoreTokens
  \/ EndLogin
  \/ EndInspection

ProviderNext(p) ==
  \/ StartAuth(p)
  \/ BeginCancel(p)
  \/ EndCancel(p)
  \/ PrepareJob(p)
  \/ Install(p)
  \/ AbandonJob(p)
  \/ LeaveJob(p)
  \/ p = "codex" /\ ShowDeviceCode
  \/ p = "robinhood" /\ RobinhoodNext

SignInNext == \E p \in Provider : ProviderNext(p)

SignInSpec == SignInInit /\ [][SignInNext]_signInVars

-----------------------------------------------------------------------------

SignInTypeOK ==
  /\ auth \in [Provider -> {"not_connected", "starting", "waiting", "connected", "cancelled", "failed"}]
  /\ job \in [Provider -> [no: 0 .. MaxAttempt, phase: Phase, thread: Thread, cancelled: BOOLEAN]]
  /\ joining \in [Provider -> 0 .. MaxAttempt] /\ pasting \in 0 .. MaxAttempt
  /\ installed \in [Provider -> 0 .. MaxAttempt] /\ stored \in 0 .. MaxAttempt

\* A sign-in that has succeeded is shown as connected until the next one begins: no cancellation
\* and no pasted callback that was under way overwrites it, and what it got stays in place, the
\* tokens it has stored included.
ConnectedStays ==
  \A p \in Provider :
    auth[p] = "connected" /\ job'[p].no = job[p].no =>
      /\ auth'[p] = "connected" /\ installed'[p] = installed[p]
      /\ p = "robinhood" => stored' = stored

\* cancel_auth: from the moment its flag is set the attempt binds no account and installs no Codex
\* login, however far it had come.  Robinhood's tokens are not promised to stay: set_tokens does
\* not look at the flag.
CancelledInstallsNothing ==
  \A p \in Provider :
    job[p].cancelled /\ job'[p].no = job[p].no => installed'[p] = installed[p]

\* A sign-in has one outcome, the one that is shown: neither success nor cancellation is undone
\* by a thread or a request that comes late.
SignInOutcomeStands == [][ConnectedStays /\ CancelledInstallsNothing]_signInVars
=============================================================================
