----------------------------- MODULE ReadBudget -----------------------------
(***************************************************************************)
(* _BrokerReadBudget and _call_tool (broker.py): every call of the relay   *)
(* to Robinhood, whoever makes it, is admitted by one rolling window per   *)
(* account.  Background reads have a smaller window of their own, a burst  *)
(* and no turn while a foreground call waits; an order never waits.        *)
(*                                                                         *)
(* A tick is the time in which one background token comes back.            *)
(***************************************************************************)
EXTENDS Integers, Sequences

CONSTANTS
  Caller,            \* tasks that call the broker
  Window,            \* _READ_BUDGET_WINDOW_SECONDS
  Total,             \* _READ_BUDGET_TOTAL
  Background,        \* _READ_BUDGET_BACKGROUND
  Burst,             \* _BACKGROUND_BURST
  MaxTime,           \* bound: ticks
  MaxCooldown        \* bound: ticks a "too many requests" asks for

ASSUME ReadBudgetAssumption ==
  /\ {Window, Total, Background, Burst} \subseteq Nat \ {0}
  /\ {MaxTime, MaxCooldown} \subseteq Nat

VARIABLES
  clock,             \* ticks since the start
  granted,           \* when calls were admitted, all of them
  dropped,           \* how many of them the deque "requests" has dropped
  bgGranted,         \* the same for background reads
  bgDropped,
  tokens,            \* background_tokens
  cooldown,          \* cooldown_until
  calls              \* what each task is doing

budgetVars == <<clock, granted, dropped, bgGranted, bgDropped, tokens, cooldown, calls>>

NoCall == "idle"
Call == {NoCall, "foreground", "background", "calling"}

\* What the deque may have dropped once every admission that left the window is popped.
Popped(s, n, now) ==
  {m \in n .. Len(s) : /\ \A k \in n + 1 .. m : s[k] + Window <= now
                       /\ m < Len(s) => s[m + 1] + Window > now}

\* Mutant of Pruned: a call leaves the window a tick early.
PrunedEarly ==
  /\ dropped' \in Popped(granted, dropped, clock + 1)
  /\ bgDropped' \in Popped(bgGranted, bgDropped, clock + 1)

\* _prune, at the beginning of every attempt and of stats.
Pruned ==
  /\ dropped' \in Popped(granted, dropped, clock)
  /\ bgDropped' \in Popped(bgGranted, bgDropped, clock)

ForegroundWaits == \E c \in Caller : calls[c] = "foreground"

\* A call of any kind may be admitted, after Pruned.
Room == clock >= cooldown /\ Len(granted) - dropped' < Total

\* Mutant of BackgroundRoom: a burst that is used up is not noticed.
BackgroundRoomInBurst == Len(bgGranted) - bgDropped' < Background /\ ~ForegroundWaits

\* A background read may be admitted, after Pruned: it has a window and a burst of its own.
BackgroundRoom ==
  /\ Len(bgGranted) - bgDropped' < Background
  /\ tokens > 0
  /\ ~ForegroundWaits

-----------------------------------------------------------------------------

\* A read begins to wait for its turn.
Begin(c) ==
  /\ calls[c] = NoCall
  /\ \E kind \in {"foreground", "background"} : calls' = [calls EXCEPT ![c] = kind]
  /\ UNCHANGED <<clock, granted, dropped, bgGranted, bgDropped, tokens, cooldown>>

\* The attempt of a foreground read succeeds.
Admit(c) ==
  /\ calls[c] = "foreground"
  /\ Pruned /\ Room
  /\ granted' = Append(granted, clock)
  /\ calls' = [calls EXCEPT ![c] = "calling"]
  /\ UNCHANGED <<clock, bgGranted, tokens, cooldown>>

AdmitBackground(c) ==
  /\ calls[c] = "background"
  /\ Pruned /\ Room /\ BackgroundRoom
  /\ granted' = Append(granted, clock)
  /\ bgGranted' = Append(bgGranted, clock)
  /\ tokens' = tokens - 1
  /\ calls' = [calls EXCEPT ![c] = "calling"]
  /\ UNCHANGED <<clock, cooldown>>

\* An order or a cancellation is admitted at once or refused before it is sent.
Mutate(c) ==
  /\ calls[c] = NoCall
  /\ Pruned
  /\ IF Room
     THEN granted' = Append(granted, clock) /\ calls' = [calls EXCEPT ![c] = "calling"]
     ELSE UNCHANGED <<granted, calls>>
  /\ UNCHANGED <<clock, bgGranted, tokens, cooldown>>

\* stats, and an attempt that finds no room.
Stats ==
  /\ Pruned
  /\ UNCHANGED <<clock, granted, bgGranted, tokens, cooldown, calls>>

\* The task that waits is cancelled, by a deadline or a shutdown.
Cancel(c) ==
  /\ calls[c] \in {"foreground", "background"}
  /\ calls' = [calls EXCEPT ![c] = NoCall]
  /\ UNCHANGED <<clock, granted, dropped, bgGranted, bgDropped, tokens, cooldown>>

\* The call returns; "too many requests" holds everyone back for a while.
Return(c) ==
  /\ calls[c] = "calling"
  /\ calls' = [calls EXCEPT ![c] = NoCall]
  /\ \E delay \in 0 .. MaxCooldown :
       cooldown' = IF clock + delay > cooldown THEN clock + delay ELSE cooldown
  /\ UNCHANGED <<clock, granted, dropped, bgGranted, bgDropped, tokens>>

Tick ==
  /\ clock < MaxTime
  /\ clock' = clock + 1
  /\ tokens' = IF tokens < Burst THEN tokens + 1 ELSE tokens
  /\ UNCHANGED <<granted, dropped, bgGranted, bgDropped, cooldown, calls>>

BudgetInit ==
  /\ clock = 0
  /\ granted = <<>> /\ bgGranted = <<>>
  /\ dropped = 0 /\ bgDropped = 0
  /\ tokens = Burst
  /\ cooldown = 0
  /\ calls = [c \in Caller |-> NoCall]

BudgetNext ==
  \/ \E c \in Caller :
       \/ Begin(c)
       \/ Admit(c)
       \/ AdmitBackground(c)
       \/ Mutate(c)
       \/ Cancel(c)
       \/ Return(c)
  \/ Stats
  \/ Tick

BudgetSpec == BudgetInit /\ [][BudgetNext]_budgetVars

-----------------------------------------------------------------------------

BudgetTypeOK ==
  /\ clock \in Nat /\ cooldown \in Nat
  /\ granted \in Seq(Nat) /\ bgGranted \in Seq(Nat)
  /\ dropped \in 0 .. Len(granted) /\ bgDropped \in 0 .. Len(bgGranted)
  /\ tokens \in 0 .. Burst
  /\ calls \in [Caller -> Call]

\* No "limit" + 1 of the admissions in s lie within one window.
Within(s, limit) ==
  \A k \in 1 .. Len(s) : k + limit <= Len(s) => s[k + limit] >= s[k] + Window

\* acquire: no stretch of a window's length, wherever it begins, sees more calls than the
\* account may make, whoever makes them, waits or gives up.
WindowKept == Within(granted, Total)

\* acquire: nor more background reads than their share, so that what is left over is there
\* for orders and for reading what became of them.
BackgroundWindowKept == Within(bgGranted, Background)

\* acquire: both, whatever is waited for, cancelled or refused meanwhile.
WindowsAreKept == WindowKept /\ BackgroundWindowKept
=============================================================================
