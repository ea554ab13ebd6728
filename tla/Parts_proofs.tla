----------------------------- MODULE Parts_proofs -----------------------------
(***************************************************************************)
(* Proofs about the parts of the relay that share no state with each       *)
(* other, each for any value of its own constants, and about their         *)
(* composition side by side.                                               *)
(***************************************************************************)
EXTENDS MCParts, Monitor_proofs, Outbox_proofs, SequenceTheorems,
        WellFoundedInduction

-----------------------------------------------------------------------------
(* ReadBudget. *)

(* What _prune has dropped of s had left the window by now. *)
DroppedGone(s, n) == \A k \in 1 .. n : s[k] + Window <= clock

(* The inductive invariant: a window is kept because every admission that was not in the deque
   when the next one came had left it. *)
BudgetInv ==
  /\ BudgetTypeOK
  /\ DroppedGone(granted, dropped) /\ DroppedGone(bgGranted, bgDropped)
  /\ WindowKept /\ BackgroundWindowKept

-----------------------------------------------------------------------------

(* _prune drops only what has left the window, and never more than there is. *)
LEMMA PrunedDrops ==
  ASSUME NEW s \in Seq(Nat), NEW n \in 0 .. Len(s), clock \in Nat,
         DroppedGone(s, n), NEW m \in Popped(s, n, clock)
  PROVE  m \in 0 .. Len(s) /\ DroppedGone(s, m)
<1>1. m \in n .. Len(s) /\ \A k \in n + 1 .. m : s[k] + Window <= clock
  BY DEF Popped
<1>2. m \in 0 .. Len(s)
  BY <1>1
<1>3. ASSUME NEW k \in 1 .. m PROVE s[k] + Window <= clock
  <2>1. k \in 1 .. n \/ k \in n + 1 .. m
    BY <1>1
  <2> QED BY <2>1, <1>1 DEF DroppedGone
<1> QED BY <1>2, <1>3 DEF DroppedGone

(* What has left the window stays out of it. *)
LEMMA TickKeepsGone ==
  ASSUME NEW s \in Seq(Nat), NEW n \in 0 .. Len(s), clock \in Nat, DroppedGone(s, n),
         clock' = clock + 1
  PROVE  \A k \in 1 .. n : s[k] + Window <= clock'
<1>1. Window \in Nat
  BY ReadBudgetAssumption
<1>2. ASSUME NEW k \in 1 .. n PROVE s[k] + Window <= clock'
  <2>1. k \in 1 .. Len(s)
    OBVIOUS
  <2>2. s[k] \in Nat
    BY <2>1
  <2>3. s[k] + Window <= clock
    BY DEF DroppedGone
  <2> QED BY <1>1, <2>2, <2>3
<1> QED BY <1>2

(* An admission made when fewer than "limit" calls are in the deque keeps the window. *)
LEMMA AdmissionKeepsWindow ==
  ASSUME NEW s \in Seq(Nat), NEW m \in 0 .. Len(s), clock \in Nat, NEW limit \in Nat \ {0},
         DroppedGone(s, m), Len(s) - m < limit, Within(s, limit)
  PROVE  /\ Append(s, clock) \in Seq(Nat)
         /\ m \in 0 .. Len(Append(s, clock))
         /\ DroppedGone(Append(s, clock), m)
         /\ Within(Append(s, clock), limit)
<1> DEFINE t == Append(s, clock)
<1>1. t \in Seq(Nat) /\ Len(t) = Len(s) + 1 /\ t[Len(s) + 1] = clock
      /\ \A k \in 1 .. Len(s) : t[k] = s[k]
  OBVIOUS
<1>2. m \in 0 .. Len(t) /\ DroppedGone(t, m)
  BY <1>1 DEF DroppedGone
<1>3. ASSUME NEW k \in 1 .. Len(t), k + limit <= Len(t)
      PROVE  t[k + limit] >= t[k] + Window
  <2>0. Window \in Nat
    BY ReadBudgetAssumption
  <2>1. CASE k + limit <= Len(s)
    <3>1. k \in 1 .. Len(s) /\ k + limit \in 1 .. Len(s)
      BY <2>1, <1>1
    <3> QED BY <3>1, <2>1, <1>1 DEF Within
  <2>2. CASE k + limit = Len(t)
    <3>1. k \in 1 .. m /\ k \in 1 .. Len(s)
      BY <2>2, <1>1
    <3>2. s[k] + Window <= clock
      BY <3>1 DEF DroppedGone
    <3>3. t[k] = s[k] /\ t[k + limit] = clock /\ s[k] \in Nat
      BY <3>1, <1>1, <2>2
    <3> QED BY <3>2, <3>3, <2>0
  <2> QED BY <2>1, <2>2, <1>3, <1>1
<1> HIDE DEF t
<1>4. Within(t, limit)
  BY <1>3 DEF Within
<1> QED BY <1>1, <1>2, <1>4 DEF t

-----------------------------------------------------------------------------

LEMMA BudgetInitInv == BudgetInit => BudgetInv
BY ReadBudgetAssumption
   DEF BudgetInit, BudgetInv, BudgetTypeOK, DroppedGone, WindowKept, BackgroundWindowKept, Within,
       Call, NoCall

(* The deques after _prune, in every step that prunes. *)
LEMMA PrunedInv ==
  ASSUME BudgetInv, Pruned
  PROVE  /\ dropped' \in 0 .. Len(granted) /\ DroppedGone(granted, dropped')
         /\ bgDropped' \in 0 .. Len(bgGranted) /\ DroppedGone(bgGranted, bgDropped')
BY PrunedDrops DEF BudgetInv, BudgetTypeOK, Pruned

LEMMA BudgetStepInv == BudgetInv /\ [BudgetNext]_budgetVars => BudgetInv'
<1> SUFFICES ASSUME BudgetInv, [BudgetNext]_budgetVars PROVE BudgetInv'
  OBVIOUS
<1> USE DEF BudgetInv, BudgetTypeOK
<1>0. {Window, Total, Background, Burst} \subseteq Nat \ {0} /\ {MaxTime, MaxCooldown} \subseteq Nat
  BY ReadBudgetAssumption
<1>1. ASSUME NEW c \in Caller, Begin(c) PROVE BudgetInv'
  BY <1>1 DEF Begin, Call, NoCall, DroppedGone, WindowKept, BackgroundWindowKept, Within
<1>2. ASSUME NEW c \in Caller, Admit(c) PROVE BudgetInv'
  <2>1. /\ dropped' \in 0 .. Len(granted) /\ DroppedGone(granted, dropped')
        /\ bgDropped' \in 0 .. Len(bgGranted) /\ DroppedGone(bgGranted, bgDropped')
    BY <1>2, PrunedInv DEF Admit
  <2>2. granted' = Append(granted, clock) /\ Len(granted) - dropped' < Total
        /\ UNCHANGED <<clock, bgGranted, tokens, cooldown>>
    BY <1>2 DEF Admit, Room
  <2>3. granted' \in Seq(Nat) /\ dropped' \in 0 .. Len(granted')
        /\ DroppedGone(granted', dropped') /\ Within(granted', Total)
    BY <2>1, <2>2, <1>0, AdmissionKeepsWindow DEF WindowKept
  <2>4. calls' \in [Caller -> Call]
    BY <1>2 DEF Admit, Call
  <2> QED BY <2>1, <2>2, <2>3, <2>4 DEF DroppedGone, WindowKept, BackgroundWindowKept, Within
<1>3. ASSUME NEW c \in Caller, AdmitBackground(c) PROVE BudgetInv'
  <2>1. /\ dropped' \in 0 .. Len(granted) /\ DroppedGone(granted, dropped')
        /\ bgDropped' \in 0 .. Len(bgGranted) /\ DroppedGone(bgGranted, bgDropped')
    BY <1>3, PrunedInv DEF AdmitBackground
  <2>2. /\ granted' = Append(granted, clock) /\ Len(granted) - dropped' < Total
        /\ bgGranted' = Append(bgGranted, clock) /\ Len(bgGranted) - bgDropped' < Background
        /\ tokens > 0 /\ tokens' = tokens - 1
        /\ UNCHANGED <<clock, cooldown>>
    BY <1>3 DEF AdmitBackground, Room, BackgroundRoom
  <2>3. granted' \in Seq(Nat) /\ dropped' \in 0 .. Len(granted')
        /\ DroppedGone(granted', dropped') /\ Within(granted', Total)
    BY <2>1, <2>2, <1>0, AdmissionKeepsWindow DEF WindowKept
  <2>4. bgGranted' \in Seq(Nat) /\ bgDropped' \in 0 .. Len(bgGranted')
        /\ DroppedGone(bgGranted', bgDropped') /\ Within(bgGranted', Background)
    BY <2>1, <2>2, <1>0, AdmissionKeepsWindow DEF BackgroundWindowKept
  <2>5. calls' \in [Caller -> Call] /\ tokens' \in 0 .. Burst
    BY <1>3, <2>2, <1>0 DEF AdmitBackground, Call
  <2> QED BY <2>2, <2>3, <2>4, <2>5 DEF DroppedGone, WindowKept, BackgroundWindowKept, Within
<1>4. ASSUME NEW c \in Caller, Mutate(c) PROVE BudgetInv'
  <2>1. /\ dropped' \in 0 .. Len(granted) /\ DroppedGone(granted, dropped')
        /\ bgDropped' \in 0 .. Len(bgGranted) /\ DroppedGone(bgGranted, bgDropped')
    BY <1>4, PrunedInv DEF Mutate
  <2>2. UNCHANGED <<clock, bgGranted, tokens, cooldown>>
    BY <1>4 DEF Mutate
  <2>3. CASE Room
    <3>1. granted' = Append(granted, clock) /\ Len(granted) - dropped' < Total
      BY <1>4, <2>3 DEF Mutate, Room
    <3>2. granted' \in Seq(Nat) /\ dropped' \in 0 .. Len(granted')
          /\ DroppedGone(granted', dropped') /\ Within(granted', Total)
      BY <2>1, <3>1, <1>0, AdmissionKeepsWindow DEF WindowKept
    <3>3. calls' \in [Caller -> Call]
      BY <1>4, <2>3 DEF Mutate, Call
    <3> QED BY <2>1, <2>2, <3>2, <3>3 DEF DroppedGone, WindowKept, BackgroundWindowKept, Within
  <2>4. CASE ~Room
    <3>1. UNCHANGED <<granted, calls>>
      BY <1>4, <2>4 DEF Mutate
    <3> QED BY <2>1, <2>2, <3>1 DEF DroppedGone, WindowKept, BackgroundWindowKept, Within
  <2> QED BY <2>3, <2>4
<1>5. ASSUME NEW c \in Caller, Cancel(c) PROVE BudgetInv'
  BY <1>5 DEF Cancel, Call, NoCall, DroppedGone, WindowKept, BackgroundWindowKept, Within
<1>6. ASSUME NEW c \in Caller, Return(c) PROVE BudgetInv'
  <2>1. UNCHANGED <<clock, granted, dropped, bgGranted, bgDropped, tokens>>
        /\ calls' \in [Caller -> Call]
    BY <1>6 DEF Return, Call, NoCall
  <2>2. cooldown' \in Nat
    BY <1>6, <1>0 DEF Return
  <2> QED BY <2>1, <2>2 DEF DroppedGone, WindowKept, BackgroundWindowKept, Within
<1>7. ASSUME Stats PROVE BudgetInv'
  <2>1. /\ dropped' \in 0 .. Len(granted) /\ DroppedGone(granted, dropped')
        /\ bgDropped' \in 0 .. Len(bgGranted) /\ DroppedGone(bgGranted, bgDropped')
    BY <1>7, PrunedInv DEF Stats
  <2>2. UNCHANGED <<clock, granted, bgGranted, tokens, cooldown, calls>>
    BY <1>7 DEF Stats
  <2> QED BY <2>1, <2>2 DEF DroppedGone, WindowKept, BackgroundWindowKept, Within
<1>8. ASSUME Tick PROVE BudgetInv'
  <2>1. clock' = clock + 1 /\ tokens' \in 0 .. Burst
        /\ UNCHANGED <<granted, dropped, bgGranted, bgDropped, cooldown, calls>>
    BY <1>8, <1>0 DEF Tick
  <2>2. DroppedGone(granted, dropped)' /\ DroppedGone(bgGranted, bgDropped)'
    BY <2>1, TickKeepsGone DEF DroppedGone
  <2> QED BY <2>1, <2>2 DEF WindowKept, BackgroundWindowKept, Within
<1>9. CASE UNCHANGED budgetVars
  BY <1>9 DEF budgetVars, DroppedGone, WindowKept, BackgroundWindowKept, Within
<1> QED BY <1>1, <1>2, <1>3, <1>4, <1>5, <1>6, <1>7, <1>8, <1>9 DEF BudgetNext

(* Type correctness of the read budget. *)
THEOREM BudgetTypes == BudgetSpec => []BudgetTypeOK
<1>1. BudgetInv => BudgetTypeOK
  BY DEF BudgetInv
<1> QED BY BudgetInitInv, BudgetStepInv, <1>1, PTL DEF BudgetSpec

(* acquire: no stretch of a window's length, wherever it begins, sees more calls than the account
   may make, nor more background reads than their share. *)
THEOREM WindowsKept == BudgetSpec => []WindowsAreKept
<1>1. BudgetInv => WindowsAreKept
  BY DEF BudgetInv, WindowsAreKept
<1> QED BY BudgetInitInv, BudgetStepInv, <1>1, PTL DEF BudgetSpec

-----------------------------------------------------------------------------
(* Market. *)

(* What the watch market keeps, or is reading, was begun after the last order was called. *)
Recent(s) == s.gen = generation /\ s.calls = made

(* The generation counts the orders.  Nothing that is older than the last of them is kept or under
   way, and what an entry goes by is not older either. *)
MarketInv ==
  /\ MarketTypeOK
  /\ generation = made
  /\ watchSnapshot = NoSnapshot \/ Recent(watchSnapshot)
  /\ \/ refresh = NoSnapshot
     \/ Recent(refresh)
     \/ refresh.gen = generation /\ refresh.calls = NoGeneration
  /\ HandoffFollowsLastCall

-----------------------------------------------------------------------------

LEMMA MarketInitInv == MarketInit => MarketInv
<1> SUFFICES ASSUME MarketInit PROVE MarketInv
  OBVIOUS
<1>1. MaxCalls \in Nat
  BY MarketAssumption
<1>2. NoSnapshot \in MarketRead
  BY <1>1 DEF NoSnapshot, MarketRead, NoGeneration
<1>3. changed \in BOOLEAN /\ display \in {"waiting", "reading"}
      /\ engine \in {"free", "planned", "ready", "called"}
  BY DEF MarketInit
<1>4. made \in 0 .. MaxCalls /\ generation \in 0 .. MaxCalls
      /\ watchQuote \in NoGeneration .. MaxCalls /\ quoteBatch \in NoGeneration .. MaxCalls
  BY <1>1 DEF MarketInit, NoGeneration
<1>5. MarketTypeOK
  BY <1>2, <1>3, <1>4 DEF MarketInit, MarketTypeOK
<1>6. generation = made /\ watchSnapshot = NoSnapshot /\ refresh = NoSnapshot
      /\ engine \notin {"planned", "ready"}
  BY DEF MarketInit
<1> QED BY <1>5, <1>6 DEF MarketInv, HandoffFollowsLastCall, Recent, NoGeneration

LEMMA MarketStepInv == MarketInv /\ [MarketNext]_marketVars => MarketInv'
<1> SUFFICES ASSUME MarketInv, [MarketNext]_marketVars PROVE MarketInv'
  OBVIOUS
<1> USE DEF MarketInv, MarketTypeOK, HandoffFollowsLastCall, Recent, MarketRead, NoSnapshot,
            NoGeneration
<1>0. MaxCalls \in Nat
  BY MarketAssumption
<1>1. CASE BeginBatch
  <2> DEFINE new == [NoSnapshot EXCEPT !.gen = generation]
  <2>0. new = [gen |-> generation, calls |-> NoGeneration]
    OBVIOUS
  <2>1. refresh' = refresh \/ refresh' = new
    <3> HIDE DEF new
    <3>1. refresh' \in IF refresh.gen = NoGeneration THEN {refresh, new} ELSE {refresh}
      BY <1>1 DEF BeginBatch, new
    <3> QED BY <3>1
  <2>2. refresh' \in MarketRead
        /\ \/ refresh' = refresh
           \/ refresh'.gen = generation /\ refresh'.calls = NoGeneration
    BY <1>0, <2>0, <2>1
  <2>3. quoteBatch' \in NoGeneration .. MaxCalls
        /\ UNCHANGED <<made, generation, changed, watchSnapshot, watchQuote, display, sizing, engine>>
    BY <1>0, <1>1 DEF BeginBatch
  <2> QED BY <2>2, <2>3
<1>2. CASE EndBatch
  BY <1>0, <1>2 DEF EndBatch
<1>3. CASE ReadSnapshot
  <2>1. refresh' = NoSnapshot \/ refresh' = [gen |-> generation, calls |-> made]
    BY <1>3 DEF ReadSnapshot, ReadFor
  <2>2. refresh' \in MarketRead /\ (refresh' = NoSnapshot \/ Recent(refresh)')
    BY <1>0, <1>3, <2>1 DEF ReadSnapshot
  <2>3. UNCHANGED <<made, generation, changed, watchSnapshot, watchQuote, quoteBatch, display,
                    sizing, engine>>
    BY <1>3 DEF ReadSnapshot
  <2> QED BY <2>2, <2>3
<1>4. CASE StoreSnapshot
  BY <1>0, <1>4 DEF StoreSnapshot
<1>5. CASE Expire
  BY <1>0, <1>5 DEF Expire
<1>6. CASE DisplayBegins
  BY <1>0, <1>6 DEF DisplayBegins
<1>7. CASE DisplayEnds
  BY <1>0, <1>7 DEF DisplayEnds
<1>8. CASE Plan
  BY <1>0, <1>8 DEF Plan, Handed, ReadFor
<1>9. CASE PrepareOrder
  BY <1>0, <1>9 DEF PrepareOrder, ReadFor
<1>10. CASE CallOrder
  BY <1>0, <1>10 DEF CallOrder, Invalidate
<1>11. CASE HoldOrder
  <2>1. engine' = "free" /\ sizing' = NoSnapshot
        /\ UNCHANGED <<made, generation, watchSnapshot, watchQuote, refresh, quoteBatch, display>>
    BY <1>11 DEF HoldOrder
  <2>2. changed' \in BOOLEAN
    BY <1>11 DEF HoldOrder
  <2>3. sizing' \in MarketRead
    BY <1>0, <2>1
  <2> QED BY <2>1, <2>2, <2>3
<1>12. CASE AnswerOrder
  BY <1>0, <1>12 DEF AnswerOrder
<1>13. CASE UNCHANGED marketVars
  BY <1>13 DEF marketVars
<1> QED
  BY <1>1, <1>2, <1>3, <1>4, <1>5, <1>6, <1>7, <1>8, <1>9, <1>10, <1>11, <1>12, <1>13
     DEF MarketNext

(* Type correctness of Market. *)
THEOREM MarketTypes == MarketSpec => []MarketTypeOK
<1>1. MarketInv => MarketTypeOK
  BY DEF MarketInv
<1> QED BY MarketInitInv, MarketStepInv, <1>1, PTL DEF MarketSpec

(* _watch_generation: an entry never goes by a snapshot older than the relay's last order. *)
THEOREM HandoffIsCurrent == MarketSpec => []HandoffFollowsLastCall
<1>1. MarketInv => HandoffFollowsLastCall
  BY DEF MarketInv
<1> QED BY MarketInitInv, MarketStepInv, <1>1, PTL DEF MarketSpec

-----------------------------------------------------------------------------
(* Modes. *)

(* A worker that has read its configuration and has not been stopped since. *)
HasLoaded == worker.phase \in {"loaded", "running"}

(* Change ids only grow: what is shown was read, and what was read was written. *)
IdsInOrder == runtime.id <= worker.id /\ worker.id <= config.id /\ config.id <= writes

(* A worker that has read the newest configuration has its mode, or simulates. *)
ReadAsWritten == HasLoaded /\ worker.id = config.id => worker.mode \in {config.mode, "paper"}

(* Only a paused relay is behind its configuration. *)
BehindIsPaused == HasLoaded /\ worker.id # config.id => stop

SwitchIsPaused == switch # Unset => stop /\ writes < MaxWrite /\ switch # config.mode

(* Orders are the live worker's, and what has reached the broker is in the ledger. *)
OrdersAreLive ==
  /\ act # "idle" => Live
  /\ out \/ act \in {"reserved", "cleared", "placed"} => row
  /\ act \in {"planned", "reserved", "cleared"} => ~out

(* Once live is left, or about to be, an order that was planned before cannot go out any more. *)
NothingGoesOut ==
  config.mode # "live" \/ switch # Unset => ~out /\ ~held /\ act \notin {"cleared", "placed"}

ModesInv ==
  /\ ModesTypeOK
  /\ IdsInOrder /\ ReadAsWritten /\ BehindIsPaused /\ SwitchIsPaused
  /\ OrdersAreLive /\ NothingGoesOut

-----------------------------------------------------------------------------

LEMMA ModesInitInv == ModesInit => ModesInv
<1> SUFFICES ASSUME ModesInit PROVE ModesInv
  OBVIOUS
<1>1. MaxWrite \in Nat /\ MaxBreak \in Nat
  BY ModesAssumption
<1>2. /\ config.id = 0 /\ runtime.id = 0 /\ worker.id = 0 /\ writes = 0
      /\ worker.phase = "down" /\ act = "idle" /\ switch = "none" /\ ~out /\ ~held
  BY DEF ModesInit, Unset
<1>3. config \in [mode: Mode, id: 0 .. MaxWrite]
  BY <1>1 DEF ModesInit, Mode
<1>4. runtime \in [mode: Mode \union {Unset}, id: 0 .. MaxWrite, ok: BOOLEAN]
  BY <1>1 DEF ModesInit
<1>5. worker \in [phase: {"down", "signed", "loaded", "running", "error"},
                 saw: 0 .. MaxWrite, mode: Mode \union {Unset}, id: 0 .. MaxWrite]
  BY <1>1 DEF ModesInit
<1>6. ModesTypeOK
  <2>1. stop \in BOOLEAN /\ row \in BOOLEAN /\ out \in BOOLEAN /\ held \in BOOLEAN
    BY DEF ModesInit
  <2>2. writes \in 0 .. MaxWrite /\ breaks \in 0 .. MaxBreak
    BY <1>1 DEF ModesInit
  <2>3. /\ switch \in {Unset, "shadow", "live"}
        /\ act \in {"idle", "planned", "reserved", "cleared", "placed"}
    BY DEF ModesInit
  <2> QED BY <1>3, <1>4, <1>5, <2>1, <2>2, <2>3 DEF ModesTypeOK
<1> QED
  BY <1>2, <1>6 DEF ModesInv, IdsInOrder, ReadAsWritten, BehindIsPaused, SwitchIsPaused,
     OrdersAreLive, NothingGoesOut, HasLoaded, Unset

(* A relay is only resumed by the configuration it runs. *)
LEMMA ResumeKeeps == ASSUME ModesInv, Resume PROVE ModesInv'
<1>1. stop' = FALSE /\ switch = Unset
      /\ UNCHANGED <<config, runtime, writes, switch, worker, act, row, out, held, breaks>>
  BY DEF Resume, orderVars
<1>2. config.id \in Nat /\ worker.id \in Nat /\ runtime.id \in Nat
  BY ModesAssumption DEF ModesInv, ModesTypeOK
<1>3. config.id = 0 \/ runtime.id = config.id
  BY DEF Resume, ModePending
<1>4. worker.id = config.id
  BY <1>2, <1>3 DEF ModesInv, IdsInOrder
<1>5. ModesTypeOK'
  BY <1>1 DEF ModesInv, ModesTypeOK
<1>6. IdsInOrder' /\ ReadAsWritten' /\ OrdersAreLive' /\ NothingGoesOut'
  BY <1>1 DEF ModesInv, IdsInOrder, ReadAsWritten, OrdersAreLive, NothingGoesOut, HasLoaded, Live
<1>7. BehindIsPaused' /\ SwitchIsPaused'
  BY <1>1, <1>4 DEF BehindIsPaused, SwitchIsPaused, HasLoaded
<1> QED BY <1>5, <1>6, <1>7 DEF ModesInv

LEMMA ModesStepInv == ModesInv /\ [ModesNext]_modesVars => ModesInv'
<1> SUFFICES ASSUME ModesInv, [ModesNext]_modesVars PROVE ModesInv'
  OBVIOUS
<1> USE ModesAssumption
    DEF ModesInv, ModesTypeOK, IdsInOrder, ReadAsWritten, BehindIsPaused, SwitchIsPaused,
        OrdersAreLive, NothingGoesOut, HasLoaded, Unset, Mode, orderVars, Live
<1>1. CASE SetPaused
  BY <1>1 DEF SetPaused
<1>2. CASE Resume
  BY <1>2, ResumeKeeps
<1>3. ASSUME NEW to \in {"shadow", "live"}, BeginSwitch(to) PROVE ModesInv'
  BY <1>3 DEF BeginSwitch, Paused, LeavesNothing
<1>4. CASE EndSwitch
  BY <1>4 DEF EndSwitch, WriteConfig
<1>5. CASE SaveSettings
  BY <1>5 DEF SaveSettings, WriteConfig, Paused
<1>6. CASE BindAccount
  BY <1>6 DEF BindAccount
<1>7. CASE Reconnect
  BY <1>7 DEF Reconnect
<1>8. CASE SignFiles
  BY <1>8 DEF SignFiles
<1>9. CASE Load
  <2>1. worker.phase = "signed" /\ act = "idle"
    BY <1>9 DEF Load
  <2>2. /\ worker' \in [phase: {"loaded"}, saw: 0 .. MaxWrite, mode: Mode, id: 0 .. MaxWrite]
        /\ worker'.phase = "loaded" /\ worker'.mode = config.mode /\ worker'.id = config.id
        /\ UNCHANGED <<config, stop, runtime, writes, switch, act, row, out, held, breaks>>
    BY <1>9 DEF Load
  <2> QED BY <2>1, <2>2
<1>10. CASE Acknowledge
  <2>1. worker.phase = "loaded" /\ act = "idle"
    BY <1>10 DEF Acknowledge
  <2>2. /\ worker' \in [phase: {"running"}, saw: 0 .. MaxWrite, mode: Mode \union {Unset},
                         id: 0 .. MaxWrite]
        /\ worker'.phase = "running" /\ worker'.mode = worker.mode /\ worker'.id = worker.id
        /\ runtime' \in [mode: Mode \union {Unset}, id: 0 .. MaxWrite, ok: BOOLEAN]
        /\ runtime'.id = worker.id
        /\ UNCHANGED <<config, stop, writes, switch, act, row, out, held, breaks>>
    BY <1>10 DEF Acknowledge, Watched
  <2> QED BY <2>1, <2>2
<1>11. CASE Heartbeat
  <2>1. /\ runtime' \in [mode: Mode \union {Unset}, id: 0 .. MaxWrite, ok: BOOLEAN]
        /\ runtime'.mode = runtime.mode /\ runtime'.id = runtime.id
        /\ UNCHANGED <<config, stop, writes, switch, worker, act, row, out, held, breaks>>
    BY <1>11 DEF Heartbeat
  <2> QED BY <2>1
<1>12. CASE GoStale
  <2>1. /\ runtime' \in [mode: Mode \union {Unset}, id: 0 .. MaxWrite, ok: BOOLEAN]
        /\ runtime'.mode = runtime.mode /\ runtime'.id = runtime.id
        /\ UNCHANGED <<config, stop, writes, switch, worker, act, row, out, held, breaks>>
    BY <1>12 DEF GoStale
  <2> QED BY <2>1
<1>13. CASE SeeChange
  BY <1>13 DEF SeeChange
<1>14. CASE Fail
  <2>1. /\ worker' \in [phase: {"error"}, saw: 0 .. MaxWrite, mode: Mode \union {Unset},
                         id: 0 .. MaxWrite]
        /\ worker'.phase = "error" /\ worker'.id = worker.id
    BY <1>14 DEF Fail
  <2>2. /\ runtime' \in [mode: Mode \union {Unset}, id: 0 .. MaxWrite, ok: BOOLEAN]
        /\ runtime'.id = runtime.id
    BY <1>14 DEF Fail
  <2>3. /\ act' = "idle" /\ breaks' \in 0 .. MaxBreak
        /\ UNCHANGED <<config, writes, switch, row, out, held>>
    <3>1. breaks < MaxBreak /\ breaks' = breaks + 1
      BY <1>14 DEF Fail
    <3>2. act' = "idle" /\ UNCHANGED <<config, writes, switch, row, out, held>>
      BY <1>14 DEF Fail
    <3> QED BY <3>1, <3>2
  <2>4. stop' \in {stop, TRUE}
    BY <1>14 DEF Fail
  <2> QED BY <2>1, <2>2, <2>3, <2>4
<1>15. CASE Retry
  BY <1>15 DEF Retry
<1>16. CASE CrashWorker
  BY <1>16 DEF CrashWorker
<1>17. CASE PlanOrder
  BY <1>17 DEF PlanOrder, Live
<1>18. CASE ReserveOrder
  BY <1>18 DEF ReserveOrder
<1>19. CASE ClearOrder
  BY <1>19 DEF ClearOrder, MayDispatch, Live
<1>20. CASE RefuseOrder
  BY <1>20 DEF RefuseOrder
<1>21. CASE PlaceOrder
  BY <1>21 DEF PlaceOrder
<1>22. CASE ResultOfOrder
  BY <1>22 DEF ResultOfOrder
<1>23. CASE ReconcileOrder
  BY <1>23 DEF ReconcileOrder, Live
<1>24. CASE UNCHANGED modesVars
  BY <1>24 DEF modesVars
<1> QED
  BY <1>1, <1>2, <1>3, <1>4, <1>5, <1>6, <1>7, <1>8, <1>9, <1>10, <1>11, <1>12, <1>13, <1>14, <1>15, <1>16, <1>17, <1>18, <1>19, <1>20, <1>21, <1>22, <1>23, <1>24 DEF ModesNext

(* A worker that acts after Resume is the one of the configuration, and nobody else's orders are
   about: this is what the parts of the invariant are for. *)
LEMMA ModesInvActs == ModesInv => ChosenModeActs
BY DEF ModesInv, ReadAsWritten, BehindIsPaused, NothingGoesOut, HasLoaded, ChosenModeActs,
       ResumedModeRuns, NothingLiveIsLeft

(* Type correctness of Modes. *)
THEOREM ModesTypes == ModesSpec => []ModesTypeOK
<1>1. ModesInv => ModesTypeOK
  BY DEF ModesInv
<1> QED BY ModesInitInv, ModesStepInv, <1>1, PTL DEF ModesSpec

(* Resume and set_mode: a worker that acts has the configuration's settings and mode, and once
   live is left no order is out and nothing is held. *)
THEOREM OnlyChosenModeActs == ModesSpec => []ChosenModeActs
BY ModesInitInv, ModesStepInv, ModesInvActs, PTL DEF ModesSpec

-----------------------------------------------------------------------------
(* Listing. *)

(* While the lookup has not passed the day asked for, the contract of the day can only have been
   listed since it began; it goes past the day, or comes to a later one, only when it was absent
   then. *)
ListingInv ==
  /\ ListingTypeOK
  /\ lookup \in [step: {"idle", "reading", "probing", "later", "done"},
                 read: SUBSET {"calendar", "bulk"}, calendar: SUBSET Date, bulk: SUBSET NearDate,
                 left: SUBSET Date, chosen: Date \union {NoDate}, wasAbsent: BOOLEAN]
  /\ lookup.step \in {"reading", "probing"} /\ standing[0] = "absent" => lookup.wasAbsent
  /\ lookup.step = "later" => lookup.wasAbsent
  /\ NoDateIsSkipped

-----------------------------------------------------------------------------

LEMMA DatesAreNumbers == /\ LastDate \in Nat /\ NearDate \subseteq Date /\ 0 \in Date
                         /\ Date \subseteq Nat
BY ListingAssumption DEF NearDate, Date

LEMMA ListingInitInv == ListingInit => ListingInv
<1> SUFFICES ASSUME ListingInit PROVE ListingInv
  OBVIOUS
<1> QED BY DatesAreNumbers
        DEF ListingInit, ListingInv, ListingTypeOK, NotLooking, NoDate, NoDateIsSkipped

(* A lookup that ends keeps what it knows of the day asked for. *)
LEMMA EndKeepsInv ==
  ASSUME ListingInv, NEW d \in Date \union {NoDate}, d > 0 => lookup.wasAbsent,
         lookup' = EndsWith(d), UNCHANGED standing
  PROVE  ListingInv'
BY DEF ListingInv, ListingTypeOK, EndsWith, NoDateIsSkipped

LEMMA ListingStepInv == ListingInv /\ [ListingNext]_listingVars => ListingInv'
<1> SUFFICES ASSUME ListingInv, [ListingNext]_listingVars PROVE ListingInv'
  OBVIOUS
<1> USE DEF ListingInv, ListingTypeOK, NoDateIsSkipped
<1>0. /\ NoDate \in Date \union {NoDate} /\ ~(NoDate > 0) /\ 0 \in Date \union {NoDate}
      /\ NearDate \subseteq Date
  BY DatesAreNumbers DEF NoDate
<1>1. ASSUME NEW d \in Date, Relist(d) PROVE ListingInv'
  <2>1. /\ UNCHANGED lookup /\ standing' \in [Date -> Standing]
        /\ standing'[0] = "absent" => standing[0] = "absent"
    BY <1>1, DatesAreNumbers DEF Relist, Standing
  <2> QED BY <2>1
<1>2. CASE BeginLookup
  <2>1. PICK absent \in BOOLEAN :
          /\ absent <=> standing[0] = "absent"
          /\ lookup' = [NotLooking EXCEPT !.step = "reading", !.wasAbsent = absent]
    BY <1>2, Zenon DEF BeginLookup
  <2> QED BY <1>0, <1>2, <2>1 DEF BeginLookup, NotLooking
<1>3. CASE ReadCalendar
  <2>1. PICK dates \in SUBSET Date :
          lookup' = [lookup EXCEPT !.calendar = dates, !.read = @ \union {"calendar"}]
    BY <1>3 DEF ReadCalendar
  <2> QED BY <1>3, <2>1 DEF ReadCalendar
<1>4. CASE ReadBulk
  <2>1. PICK dates \in SUBSET NearDate :
          lookup' = [lookup EXCEPT !.bulk = dates, !.read = @ \union {"bulk"}]
    BY <1>4 DEF ReadBulk
  <2> QED BY <1>4, <2>1 DEF ReadBulk
<1>5. CASE Choose
  <2>1. CASE 0 \in lookup.bulk
    BY <1>0, <1>5, <2>1, EndKeepsInv DEF Choose
  <2>2. CASE 0 \notin lookup.bulk
    BY <1>5, <2>2 DEF Choose
  <2> QED BY <2>1, <2>2
<1>6. CASE Probe
  <2>1. CASE standing[0] = "tradable"
    BY <1>0, <1>6, <2>1, EndKeepsInv DEF Probe
  <2>2. CASE standing[0] = "absent"
    <3>1. (lookup.calendar \union lookup.bulk) \ {0} \in SUBSET Date
      BY <1>0
    <3>2. lookup' = [lookup EXCEPT !.step = "later",
                                   !.left = (lookup.calendar \union lookup.bulk) \ {0}]
      BY <1>6, <2>2 DEF Probe, ProvesAbsent
    <3> QED BY <1>6, <2>2, <3>1, <3>2 DEF Probe
  <2>3. CASE standing[0] \notin {"tradable", "absent"}
    BY <1>0, <1>6, <2>3, EndKeepsInv DEF Probe, ProvesAbsent
  <2> QED BY <2>1, <2>2, <2>3
<1>7. CASE TryLater
  <2> DEFINE d == CHOOSE x \in lookup.left : \A y \in lookup.left : x <= y
             trades == IF d \in NearDate THEN d \in lookup.bulk ELSE standing[d] = "tradable"
             e == IF d \in lookup.calendar THEN d ELSE NoDate
  <2>1. /\ lookup' = IF ~trades THEN [lookup EXCEPT !.left = @ \ {d}] ELSE EndsWith(e)
        /\ lookup.step = "later" /\ UNCHANGED standing
    BY <1>7 DEF TryLater
  <2>2. e \in Date \union {NoDate}
    OBVIOUS
  <2> HIDE DEF d, trades, e
  <2>3. CASE ~trades
    BY <2>1, <2>3
  <2>4. CASE trades
    BY <2>1, <2>2, <2>4, EndKeepsInv
  <2> QED BY <2>3, <2>4
<1>8. CASE GiveUpLookup
  BY <1>0, <1>8, EndKeepsInv DEF GiveUpLookup
<1>9. CASE UNCHANGED listingVars
  BY <1>9 DEF listingVars
<1> QED BY <1>1, <1>2, <1>3, <1>4, <1>5, <1>6, <1>7, <1>8, <1>9 DEF ListingNext

(* The calendar and the lookup keep their types. *)
THEOREM ListingTypes == ListingSpec => []ListingTypeOK
<1>1. ListingInv => ListingTypeOK
  BY DEF ListingInv
<1> QED BY ListingInitInv, ListingStepInv, <1>1, PTL DEF ListingSpec

(* nearest_expiry: an entry goes to a later expiry only when the day it asked for was not listed
   as the lookup began, whatever the calendar and the bulk query left out, and whatever is halted
   or listed meanwhile. *)
THEOREM DayIsNotSkipped == ListingSpec => []NoDateIsSkipped
<1>1. ListingInv => NoDateIsSkipped
  BY DEF ListingInv
<1> QED BY ListingInitInv, ListingStepInv, <1>1, PTL DEF ListingSpec

-----------------------------------------------------------------------------
(* SignIn. *)

(* A sign-in that is shown as connected has ended, was not cancelled, and is past every phase a
   pasted callback looks for; what waits for the thread of an attempt has cancelled it. *)
SignInInv ==
  /\ SignInTypeOK
  /\ \A p \in Provider : auth[p] = "connected" =>
       /\ ~Working(p) /\ ~job[p].cancelled
       /\ p = "robinhood" => job[p].phase = "account_binding"
  /\ \A p \in Provider : joining[p] # 0 /\ job[p].no = joining[p] => job[p].cancelled
  /\ \A p \in Provider : joining[p] <= job[p].no

-----------------------------------------------------------------------------

LEMMA SignInInitInv == SignInInit => SignInInv
<1> SUFFICES ASSUME SignInInit PROVE SignInInv
  OBVIOUS
<1>1. SignInTypeOK
  BY SignInAssumption DEF SignInInit, SignInTypeOK, Phase, Thread, Provider
<1> QED BY <1>1 DEF SignInInit, SignInInv, Working, Provider

(* A step of a request or of a job keeps the invariant, the outcome that is shown, and what an
   attempt that was cancelled has in place. *)
LEMMA SignInStepInv ==
  SignInInv /\ [SignInNext]_signInVars => SignInInv' /\ ConnectedStays /\ CancelledInstallsNothing
<1> SUFFICES ASSUME SignInInv, [SignInNext]_signInVars
             PROVE  SignInInv' /\ ConnectedStays /\ CancelledInstallsNothing
  OBVIOUS
<1> USE DEF SignInInv, SignInTypeOK, ConnectedStays, CancelledInstallsNothing, Alive, Working,
            SetAuth, SetThread, SetPhase, In, Thread, Phase
<1>0. MaxAttempt \in Nat \ {0} /\ "codex" \in Provider /\ "robinhood" \in Provider
  BY SignInAssumption DEF Provider
<1>1. ASSUME NEW p \in Provider, StartAuth(p)
      PROVE  SignInInv' /\ ConnectedStays /\ CancelledInstallsNothing
  BY <1>0, <1>1 DEF StartAuth
<1>2. ASSUME NEW p \in Provider, BeginCancel(p)
      PROVE  SignInInv' /\ ConnectedStays /\ CancelledInstallsNothing
  <2>1. CASE Alive(p)
    <3>1. /\ job' = [job EXCEPT ![p].cancelled = TRUE]
          /\ joining' = [joining EXCEPT ![p] = job[p].no]
          /\ auth[p] # "connected" /\ UNCHANGED <<auth, pasting, installed, stored>>
      BY <1>2, <2>1 DEF BeginCancel
    <3>2. job[p].no \in 0 .. MaxAttempt
      OBVIOUS
    <3>3. SignInTypeOK'
      <4>1. joining' \in [Provider -> 0 .. MaxAttempt]
        BY <3>1, <3>2
      <4> DEFINE J == [no: 0 .. MaxAttempt, phase: Phase, thread: Thread, cancelled: BOOLEAN]
                 j == [job[p] EXCEPT !.cancelled = TRUE]
      <4>2. job \in [Provider -> J] /\ j \in J /\ job' = [job EXCEPT ![p] = j]
        <5>1. job \in [Provider -> J] /\ job[p] \in J
          OBVIOUS
        <5> QED BY <3>1, <5>1
      <4> HIDE DEF J, j
      <4>3. job' \in [Provider -> J]
        BY <4>2
      <4> QED BY <3>1, <4>1, <4>3 DEF J
    <3>4. \A q \in Provider : q # p => job'[q] = job[q] /\ joining'[q] = joining[q]
      BY <3>1
    <3>5. joining'[p] = job'[p].no /\ job'[p].no = job[p].no
      BY <3>1
    <3>6. job'[p].cancelled
      <4>1. job'[p] = [job[p] EXCEPT !.cancelled = TRUE]
        BY <3>1
      <4>2. job[p] \in [no: 0 .. MaxAttempt, phase: Phase, thread: Thread, cancelled: BOOLEAN]
        OBVIOUS
      <4> HIDE DEF Phase, Thread
      <4> QED BY <4>1, <4>2, Zenon
    <3> QED BY <1>0, <3>1, <3>3, <3>4, <3>5, <3>6
  <2>2. CASE ~Alive(p)
    <3> DEFINE state == IF auth[p] = "failed" THEN "failed" ELSE "cancelled"
    <3>1. /\ auth' = [auth EXCEPT ![p] = state] /\ auth[p] # "connected"
          /\ UNCHANGED <<job, joining, pasting, installed, stored>>
      BY <1>2, <2>2 DEF BeginCancel
    <3>2. state \in {"cancelled", "failed"}
      OBVIOUS
    <3> HIDE DEF state
    <3> QED BY <3>1, <3>2
  <2> QED BY <2>1, <2>2
<1>3. ASSUME NEW p \in Provider, EndCancel(p)
      PROVE  SignInInv' /\ ConnectedStays /\ CancelledInstallsNothing
  BY <1>0, <1>3 DEF EndCancel
<1>4. ASSUME NEW p \in Provider, PrepareJob(p)
      PROVE  SignInInv' /\ ConnectedStays /\ CancelledInstallsNothing
  <2> DEFINE j == [job[p] EXCEPT !.thread = "working", !.phase = "authorization"]
             J == [no: 0 .. MaxAttempt, phase: Phase, thread: Thread, cancelled: BOOLEAN]
  <2>1. /\ job[p].thread = "begun" /\ ~job[p].cancelled /\ UNCHANGED <<joining, pasting, installed, stored>>
        /\ auth' = [auth EXCEPT ![p] = "starting"]
    BY <1>4 DEF PrepareJob
  <2>2. job \in [Provider -> J] /\ job[p] \in J
    OBVIOUS
  <2>3. /\ j \in J /\ j.no = job[p].no /\ j.thread = "working"
        /\ j.cancelled = job[p].cancelled
    BY <2>2
  <2>4. job' = [job EXCEPT ![p] = j]
    BY <1>4, <2>2 DEF PrepareJob
  <2> HIDE DEF j, J
  <2>5. job' \in [Provider -> J] /\ job'[p] = j /\ \A q \in Provider : q # p => job'[q] = job[q]
    BY <2>2, <2>3, <2>4
  <2>6. SignInTypeOK'
    BY <2>1, <2>5 DEF J
  <2>7. auth[p] # "connected" /\ auth'[p] # "connected"
    BY <2>1
  <2>8. \A q \in Provider : q # p => auth'[q] = auth[q]
    BY <2>1
  <2>9. ConnectedStays /\ CancelledInstallsNothing
    BY <2>1, <2>3, <2>5, <2>7, <2>8
  <2>10. \A q \in Provider : auth'[q] = "connected" =>
           /\ ~Working(q)' /\ ~job'[q].cancelled
           /\ q = "robinhood" => job'[q].phase = "account_binding"
    BY <2>5, <2>7, <2>8
  <2>11. \A q \in Provider : job'[q].no = job[q].no /\ job'[q].cancelled = job[q].cancelled
    BY <2>3, <2>5
  <2>12. /\ \A q \in Provider : joining'[q] # 0 /\ job'[q].no = joining'[q] => job'[q].cancelled
         /\ \A q \in Provider : joining'[q] <= job'[q].no
    BY <2>1, <2>11
  <2> QED BY <2>6, <2>9, <2>10, <2>12
<1>5. ASSUME NEW p \in Provider, Install(p)
      PROVE  SignInInv' /\ ConnectedStays /\ CancelledInstallsNothing
  <2>1. /\ installed' = [installed EXCEPT ![p] = job[p].no]
        /\ job' = [job EXCEPT ![p].thread = "leaving"] /\ ~job[p].cancelled
        /\ UNCHANGED <<joining, pasting, stored>>
        /\ p = "robinhood" => job[p].phase = "account_binding"
    BY <1>5 DEF Install, MayInstall
  <2>2. PICK state \in {"connected", "failed"} : auth' = [auth EXCEPT ![p] = state]
    BY <1>5 DEF Install
  <2>3. SignInTypeOK'
    <3>1. job[p].no \in 0 .. MaxAttempt
      OBVIOUS
    <3>2. installed' \in [Provider -> 0 .. MaxAttempt]
      BY <2>1, <3>1
    <3>3. job' \in [Provider -> [no: 0 .. MaxAttempt, phase: Phase, thread: Thread,
                                cancelled: BOOLEAN]]
      BY <2>1
    <3>4. auth' \in [Provider -> {"not_connected", "starting", "waiting", "connected",
                                 "cancelled", "failed"}]
      BY <2>2
    <3> QED BY <2>1, <3>2, <3>3, <3>4
  <2>4. job'[p].no = job[p].no /\ job'[p].phase = job[p].phase /\ job'[p].thread = "leaving"
    BY <2>1
  <2>5. ~job'[p].cancelled
    BY <2>1
  <2>6. \A q \in Provider : q # p => job'[q] = job[q] /\ auth'[q] = auth[q]
                                     /\ installed'[q] = installed[q]
    BY <2>1, <2>2
  <2>7. auth[p] # "connected"
    BY <1>5 DEF Install
  <2>8. ConnectedStays
    BY <2>1, <2>6, <2>7
  <2>9. CancelledInstallsNothing
    BY <2>1, <2>6
  <2>10. \A q \in Provider : auth'[q] = "connected" =>
           /\ ~Working(q)' /\ ~job'[q].cancelled
           /\ q = "robinhood" => job'[q].phase = "account_binding"
    BY <2>1, <2>4, <2>5, <2>6
  <2>11. \A q \in Provider : job'[q].no = job[q].no /\ (job'[q].cancelled <=> job[q].cancelled)
    BY <2>1, <2>4, <2>5, <2>6
  <2>12. /\ \A q \in Provider : joining'[q] # 0 /\ job'[q].no = joining'[q] => job'[q].cancelled
         /\ \A q \in Provider : joining'[q] <= job'[q].no
    BY <2>1, <2>11
  <2> QED BY <2>3, <2>8, <2>9, <2>10, <2>12
<1>6. ASSUME NEW p \in Provider, AbandonJob(p)
      PROVE  SignInInv' /\ ConnectedStays /\ CancelledInstallsNothing
  <2>1. PICK state \in {"cancelled", "failed"} : auth' = [auth EXCEPT ![p] = state]
    BY <1>6 DEF AbandonJob, Ending
  <2>2. /\ Working(p) /\ job' = [job EXCEPT ![p].thread = "leaving"]
        /\ UNCHANGED <<joining, pasting, installed, stored>>
    BY <1>6 DEF AbandonJob
  <2>3. SignInTypeOK'
    BY <2>1, <2>2
  <2>4. auth[p] # "connected" /\ auth'[p] # "connected"
    BY <2>1, <2>2
  <2>5. \A q \in Provider : q # p => job'[q] = job[q] /\ auth'[q] = auth[q]
    BY <2>1, <2>2
  <2>6. job'[p].no = job[p].no /\ (job'[p].cancelled <=> job[p].cancelled)
    BY <2>2
  <2> QED BY <2>2, <2>3, <2>4, <2>5, <2>6
<1>7. ASSUME NEW p \in Provider, LeaveJob(p)
      PROVE  SignInInv' /\ ConnectedStays /\ CancelledInstallsNothing
  BY <1>0, <1>7 DEF LeaveJob
<1>8. CASE BeginPaste
  BY <1>0, <1>8 DEF BeginPaste
<1>9. CASE EndPaste
  <2>1. pasting' = 0 /\ UNCHANGED <<joining, installed, stored>>
    BY <1>9 DEF EndPaste
  <2>2. CASE UNCHANGED <<auth, job>>
    BY <1>0, <2>1, <2>2
  <2>3. CASE /\ job["robinhood"].phase = "callback"
             /\ job' = [job EXCEPT !["robinhood"].phase = "token_exchange"]
             /\ auth' = [auth EXCEPT !["robinhood"] = "waiting"]
    BY <1>0, <2>1, <2>3
  <2> QED BY <1>9, <2>2, <2>3 DEF EndPaste, PasteCounts
<1>10. CASE ShowDeviceCode
  BY <1>0, <1>10 DEF ShowDeviceCode
<1>11. CASE ShowAuthorization
  BY <1>0, <1>11 DEF ShowAuthorization
<1>12. CASE EndLogin
  BY <1>0, <1>12 DEF EndLogin
<1>13. CASE EndInspection
  BY <1>0, <1>13 DEF EndInspection
<1>14. CASE StoreTokens
  <2>1. /\ job["robinhood"].thread = "working" /\ stored' = job["robinhood"].no
        /\ UNCHANGED <<auth, job, joining, pasting, installed>>
    BY <1>14 DEF StoreTokens
  <2>2. auth["robinhood"] # "connected"
    BY <1>0, <2>1
  <2>3. SignInTypeOK'
    BY <1>0, <2>1
  <2> QED BY <2>1, <2>2, <2>3
<1>15. CASE UNCHANGED signInVars
  BY <1>15 DEF signInVars
<1> QED BY <1>1, <1>2, <1>3, <1>4, <1>5, <1>6, <1>7, <1>8, <1>9, <1>10, <1>11, <1>12, <1>13,
           <1>14, <1>15 DEF SignInNext, ProviderNext, RobinhoodNext

(* Type correctness of the sign-in jobs. *)
THEOREM SignInTypes == SignInSpec => []SignInTypeOK
<1>1. SignInInv => SignInTypeOK
  BY DEF SignInInv
<1> QED BY SignInInitInv, SignInStepInv, <1>1, PTL DEF SignInSpec

(* cancel_auth, complete_robinhood_callback and the threads: a success that is shown is not
   overwritten by a cancellation or a pasted callback that was under way, and what it got stays, the
   stored tokens included; from the moment an attempt is cancelled it binds no account and installs
   no login.  Any number of attempts. *)
THEOREM OutcomeStands == SignInSpec => SignInOutcomeStands
<1>1. SignInInv /\ [SignInNext]_signInVars => [ConnectedStays /\ CancelledInstallsNothing]_signInVars
  BY SignInStepInv
<1> QED BY SignInInitInv, SignInStepInv, <1>1, PTL DEF SignInSpec, SignInOutcomeStands

-----------------------------------------------------------------------------
(* Access. *)

(* A request belongs to a pass. *)
PassesAndRequests ==
  /\ pass.kind = "none" => pass = NoPass
  /\ call.for = "none" => call = NoRequest
  /\ call.for # "none" => pass.kind # "none"

(* A history that says a channel is open, and is going to count, is of a channel that exists, or
   that has been deleted while the connection was down. *)
AnswerStands ==
  call.for = "history" /\ call.reply = "open" /\ ~call.outdated /\ ~pass.stale =>
    (right[call.of] = "missing" => call.of \in missed)

(* Discord's deadline is neither forgotten nor moved: it is the longest it has told. *)
AccessInv ==
  AccessTypeOK /\ PassesAndRequests /\ AnswerStands /\ penalty = imposed /\ ReadyIsNotGone

-----------------------------------------------------------------------------

LEMMA AccessBounds == FetchLimit \in Nat \ {0} /\ MaxPenalty \in Nat \ {0} /\ MaxChange \in Nat
BY AccessAssumption

LEMMA NothingAsked ==
  /\ NoRequest \in [for: {"none", "lookup", "history"}, of: Channel, again: BOOLEAN, reply: Reply,
                    wait: 0 .. MaxPenalty, outdated: BOOLEAN]
  /\ NoRequest.for = "none" /\ NoRequest.reply = "none" /\ ~NoRequest.outdated
  /\ NoPass \in [kind: PassKind \union {"none"}, todo: SUBSET Channel, read: SUBSET Channel,
                 stale: BOOLEAN]
  /\ NoPass.kind = "none" /\ ~NoPass.stale /\ NoPass.todo = {} /\ NoPass.read = {}
<1>1. (CHOOSE c \in Channel : TRUE) \in Channel
  BY AccessAssumption
<1> QED BY <1>1, AccessBounds DEF NoRequest, NoPass, Reply

LEMMA AccessInitInv == AccessInit => AccessInv
<1> SUFFICES ASSUME AccessInit PROVE AccessInv
  OBVIOUS
<1> USE DEF AccessInit
<1>1. AccessTypeOK
  <2>1. failure \in [Channel -> Failure] /\ lookups \in [Channel -> 0 .. FetchLimit]
    BY AccessBounds DEF Failure
  <2>2. right \in [Channel -> {"open", "denied", "missing"}]
    OBVIOUS
  <2>3. /\ changes \in 0 .. MaxChange /\ penalty \in 0 .. MaxPenalty /\ imposed \in 0 .. MaxPenalty
        /\ starting \in 0 .. changes
    BY AccessBounds
  <2>4. /\ pass \in [kind: PassKind \union {"none"}, todo: SUBSET Channel, read: SUBSET Channel,
                    stale: BOOLEAN]
        /\ call \in [for: {"none", "lookup", "history"}, of: Channel, again: BOOLEAN,
                    reply: Reply, wait: 0 .. MaxPenalty, outdated: BOOLEAN]
    BY NothingAsked
  <2> QED BY <2>1, <2>2, <2>3, <2>4 DEF AccessTypeOK
<1> QED BY <1>1, NothingAsked DEF AccessInv, PassesAndRequests, AnswerStands, ReadyIsNotGone

(* The pass that begins has something to read, if there is one. *)
LEMMA BegunPass ==
  ASSUME NEW kind \in PassKind, NEW channels \in SUBSET Channel, Begun(kind, channels)
  PROVE  /\ pass' \in [kind: PassKind \union {"none"}, todo: SUBSET Channel, read: SUBSET Channel,
                       stale: BOOLEAN]
         /\ pass'.kind = "none" => pass' = NoPass
         /\ pass'.kind # "none" => channels # {}
<1>1. CASE channels = {}
  BY <1>1, NothingAsked DEF Begun
<1>2. CASE channels # {}
  <2>1. pass' = [kind |-> kind, todo |-> channels, read |-> {}, stale |-> FALSE]
    BY <1>2 DEF Begun
  <2>2. kind # "none"
    BY DEF PassKind
  <2> QED BY <1>2, <2>1, <2>2
<1> QED BY <1>1, <1>2

(* What Discord and the connection do. *)
LEMMA EventInv ==
  ASSUME AccessInv,
         \/ LoseConnection \/ MakeConnection \/ ResumeConnection
         \/ \E c \in Channel : ChangeRight(c) \/ RemoveChannel(c) \/ CreateChannel(c)
  PROVE  AccessInv' /\ (call = NoRequest => call' = NoRequest)
<1> USE AccessBounds, NothingAsked DEF AccessInv
<1>1. CASE LoseConnection
  <2>1. pass' = [pass EXCEPT !.stale = pass # NoPass] /\ UNCHANGED call
    BY <1>1 DEF LoseConnection
  <2>2. pass'.kind = pass.kind /\ (pass'.stale <=> pass # NoPass)
        /\ (pass = NoPass => pass' = NoPass)
        /\ pass' \in [kind: PassKind \union {"none"}, todo: SUBSET Channel, read: SUBSET Channel,
                      stale: BOOLEAN]
    BY <2>1 DEF AccessTypeOK, NoPass
  <2>3. AccessTypeOK'
    <3>1. failure' \in [Channel -> Failure] /\ lookups' \in [Channel -> 0 .. FetchLimit]
      BY <1>1 DEF LoseConnection, Failure
    <3> QED BY <1>1, <2>2, <3>1 DEF LoseConnection, AccessTypeOK, PenaltyKept
  <2>4. PassesAndRequests' /\ AnswerStands'
    BY <1>1, <2>1, <2>2 DEF LoseConnection, PassesAndRequests, AnswerStands
  <2> QED BY <1>1, <2>1, <2>3, <2>4 DEF LoseConnection, PenaltyKept, ReadyIsNotGone
<1>2. CASE MakeConnection
  <2>1. AccessTypeOK'
    BY <1>2 DEF MakeConnection, AccessTypeOK
  <2> QED BY <1>2, <2>1 DEF MakeConnection, PassesAndRequests, AnswerStands, ReadyIsNotGone
<1>3. ASSUME NEW c \in Channel, ChangeRight(c)
      PROVE  AccessInv' /\ (call = NoRequest => call' = NoRequest)
  <2>1. /\ UNCHANGED <<link, missed, halted, known, fetched, starting, usable, penalty, imposed, pass, call>>
        /\ right' \in [Channel -> {"open", "denied", "missing"}] /\ changes' \in 0 .. MaxChange
        /\ starting' \in 0 .. changes'
        /\ \A d \in Channel : right[d] # "missing" => right'[d] # "missing"
    BY <1>3 DEF ChangeRight, AccessTypeOK
  <2>2. /\ failure' \in [Channel -> Failure] /\ lookups' \in [Channel -> 0 .. FetchLimit]
        /\ pacing' \in BOOLEAN /\ recheck' \subseteq Channel /\ owed' \subseteq Channel
    <3>1. CASE Online /\ failure[c] = "denied" /\ c \notin usable
      <4>1. /\ failure' = [failure EXCEPT ![c] = "none"] /\ lookups' = [lookups EXCEPT ![c] = 0]
            /\ pacing' = FALSE /\ recheck' \in {recheck, recheck \union {c}}
            /\ owed' = owed \union {c}
        BY <1>3, <3>1 DEF ChangeRight, Forgiven
      <4>2. failure' \in [Channel -> Failure] /\ lookups' \in [Channel -> 0 .. FetchLimit]
        BY <4>1 DEF AccessTypeOK, Failure
      <4> QED BY <4>1, <4>2 DEF AccessTypeOK
    <3>2. CASE ~(Online /\ failure[c] = "denied" /\ c \notin usable)
      BY <1>3, <3>2 DEF ChangeRight, AccessTypeOK
    <3> QED BY <3>1, <3>2
  <2>3. AccessTypeOK'
    BY <2>1, <2>2 DEF AccessTypeOK
  <2>4. AnswerStands' /\ ReadyIsNotGone'
    BY <2>1 DEF AnswerStands, ReadyIsNotGone, AccessTypeOK
  <2> QED BY <2>1, <2>3, <2>4 DEF PassesAndRequests
<1>4. ASSUME NEW c \in Channel, RemoveChannel(c)
      PROVE  AccessInv' /\ (call = NoRequest => call' = NoRequest)
  <2>1. /\ right' = [right EXCEPT ![c] = "missing"] /\ changes' = changes + 1
        /\ changes' \in 0 .. MaxChange /\ owed' \subseteq Channel
        /\ UNCHANGED <<link, halted, starting, lookups, pacing, penalty, imposed, pass, recheck>>
    BY <1>4 DEF RemoveChannel, AccessTypeOK
  <2>2. CASE ~Online
    <3>1. UNCHANGED <<usable, known, fetched, failure, call>> /\ missed' = missed \union {c}
      BY <1>4, <2>2 DEF RemoveChannel
    <3>2. AccessTypeOK'
      BY <2>1, <3>1 DEF AccessTypeOK
    <3> QED BY <2>1, <3>1, <3>2 DEF PassesAndRequests, AnswerStands, ReadyIsNotGone, AccessTypeOK
  <2>3. CASE Online
    <3>1. /\ usable' = usable \ {c} /\ known' = known \ {c} /\ fetched' = fetched \ {c}
          /\ failure' = [failure EXCEPT ![c] = "missing"] /\ missed' = missed \ {c}
          /\ call' = [call EXCEPT !.outdated = Outdated(c)]
      BY <1>4, <2>3 DEF RemoveChannel
    <3>2. PICK b \in BOOLEAN : b <=> Outdated(c)
      BY DEF Outdated, AccessTypeOK
    <3>3. call' = [call EXCEPT !.outdated = b]
      <4>1. b = Outdated(c)
        BY <3>2, Zenon DEF Outdated
      <4> QED BY <3>1, <4>1, Zenon
    <3>4. /\ call' \in [for: {"none", "lookup", "history"}, of: Channel, again: BOOLEAN,
                        reply: Reply, wait: 0 .. MaxPenalty, outdated: BOOLEAN]
          /\ call'.for = call.for /\ call'.of = call.of /\ call'.reply = call.reply
          /\ (call'.outdated <=> b)
      BY <3>3 DEF AccessTypeOK
    <3>5. call.for = "none" => call' = call
      <4> SUFFICES ASSUME call.for = "none" PROVE call' = call
        OBVIOUS
      <4>1. call = NoRequest
        BY DEF PassesAndRequests
      <4>2. b = FALSE
        BY <3>2, <4>1 DEF Outdated
      <4>3. call' = [call EXCEPT !.outdated = FALSE]
        BY <3>3, <4>2, Zenon
      <4>4. [NoRequest EXCEPT !.outdated = FALSE] = NoRequest
        BY DEF NoRequest
      <4> QED BY <4>1, <4>3, <4>4, Zenon
    <3>6. AccessTypeOK'
      BY <2>1, <3>1, <3>4 DEF AccessTypeOK, Failure, Terminal
    <3>7. PassesAndRequests'
      BY <2>1, <3>4, <3>5 DEF PassesAndRequests
    <3>8. AnswerStands' /\ ReadyIsNotGone'
      BY <2>1, <3>1, <3>2, <3>4 DEF AnswerStands, ReadyIsNotGone, Outdated, AccessTypeOK
    <3> QED BY <2>1, <3>5, <3>6, <3>7, <3>8
  <2> QED BY <2>2, <2>3
<1>5. ASSUME NEW c \in Channel, CreateChannel(c)
      PROVE  AccessInv' /\ (call = NoRequest => call' = NoRequest)
  <2>1. /\ right' = [right EXCEPT ![c] = "open"] /\ changes' \in 0 .. MaxChange
        /\ starting' \in 0 .. changes'
        /\ UNCHANGED <<link, missed, halted, fetched, starting, usable, lookups, penalty, imposed, pass,
                       call, recheck, owed>>
    BY <1>5 DEF CreateChannel, AccessTypeOK
  <2>2. known' \subseteq Channel /\ failure' \in [Channel -> Failure] /\ pacing' \in BOOLEAN
    <3>1. CASE Online
      BY <1>5, <3>1 DEF CreateChannel, AccessTypeOK, Failure
    <3>2. CASE ~Online
      BY <1>5, <3>2 DEF CreateChannel, AccessTypeOK
    <3> QED BY <3>1, <3>2
  <2>3. AccessTypeOK'
    BY <2>1, <2>2 DEF AccessTypeOK
  <2>4. AnswerStands' /\ ReadyIsNotGone'
    BY <2>1 DEF AnswerStands, ReadyIsNotGone, AccessTypeOK
  <2> QED BY <2>1, <2>3, <2>4 DEF PassesAndRequests
<1>6. CASE ResumeConnection
  <2> DEFINE again == {c \in missed : right[c] # "missing"}
  <2>1. /\ link' = "up" /\ changes' = changes + 1 /\ changes < MaxChange
        /\ starting' = starting + 1 /\ known' = (known \ missed) \union again
        /\ failure' = [c \in Channel |-> IF c \in again THEN "none"
                                        ELSE IF c \in missed THEN "missing" ELSE failure[c]]
        /\ pacing' = (pacing /\ again = {})
        /\ usable' = usable \ missed /\ fetched' = fetched \ missed /\ missed' = {}
        /\ UNCHANGED <<right, halted, lookups, penalty, imposed, pass, recheck, owed>>
    BY <1>6 DEF ResumeConnection
  <2>2. PICK b \in BOOLEAN : b <=> (call.outdated \/ \E c \in missed : Outdated(c))
    OBVIOUS
  <2>3. call' = [call EXCEPT !.outdated = b]
    <3>1. call' = [call EXCEPT !.outdated = call.outdated \/ \E c \in missed : Outdated(c)]
      BY <1>6 DEF ResumeConnection
    <3>2. b = (call.outdated \/ \E c \in missed : Outdated(c))
      BY <2>2, Zenon
    <3> QED BY <3>1, <3>2, Zenon
  <2>4. /\ call' \in [for: {"none", "lookup", "history"}, of: Channel, again: BOOLEAN,
                      reply: Reply, wait: 0 .. MaxPenalty, outdated: BOOLEAN]
        /\ call'.for = call.for /\ call'.of = call.of /\ call'.reply = call.reply
        /\ (call'.outdated <=> b)
    BY <2>3 DEF AccessTypeOK
  <2>5. call.for = "none" => call' = call
    <3> SUFFICES ASSUME call.for = "none" PROVE call' = call
      OBVIOUS
    <3>1. call = NoRequest
      BY DEF PassesAndRequests
    <3>2. b = FALSE
      BY <2>2, <3>1 DEF Outdated
    <3>3. call' = [call EXCEPT !.outdated = FALSE]
      BY <2>3, <3>2, Zenon
    <3>4. [NoRequest EXCEPT !.outdated = FALSE] = NoRequest
      BY DEF NoRequest
    <3> QED BY <3>1, <3>3, <3>4, Zenon
  <2>6. AccessTypeOK'
    <3>1. failure' \in [Channel -> Failure]
      BY <2>1 DEF AccessTypeOK, Failure, Terminal
    <3>2. known' \subseteq Channel /\ pacing' \in BOOLEAN
      BY <2>1 DEF AccessTypeOK
    <3> QED BY <2>1, <2>4, <3>1, <3>2 DEF AccessTypeOK
  <2>7. PassesAndRequests'
    BY <2>1, <2>4, <2>5 DEF PassesAndRequests
  <2>8. AnswerStands' /\ ReadyIsNotGone'
    BY <2>1, <2>2, <2>4 DEF AnswerStands, ReadyIsNotGone, Outdated
  <2> QED BY <2>1, <2>5, <2>6, <2>7, <2>8
<1> QED BY <1>1, <1>2, <1>3, <1>4, <1>5, <1>6

(* A pass begins, is resolved from the cache, gives way or ends: nothing is asked. *)
LEMMA PassInv ==
  ASSUME AccessInv,
         \/ BeginSession \/ BeginRecovery \/ BeginRecheck \/ GiveWay \/ EndPass
         \/ \E c \in Channel : ResolveFromCache(c) \/ LeaveUnresolved(c)
  PROVE  AccessInv' /\ UNCHANGED call
<1> USE AccessBounds, NothingAsked DEF AccessInv
<1>1. CASE BeginSession
  <2>1. PICK channels \in SUBSET Channel : Begun("session", channels)
    BY <1>1, Zenon DEF BeginSession
  <2>2. /\ pass' \in [kind: PassKind \union {"none"}, todo: SUBSET Channel, read: SUBSET Channel,
                      stale: BOOLEAN]
        /\ pass'.kind = "none" => pass' = NoPass
    BY <2>1, BegunPass DEF PassKind
  <2>3. /\ starting > 0 /\ pass = NoPass /\ starting' = starting - 1 /\ usable' = {} /\ owed' = {}
        /\ fetched' = {} /\ missed' \in {{}, missed}
        /\ failure' = [c \in Channel |-> "none"] /\ lookups' = [c \in Channel |-> 0]
        /\ UNCHANGED <<right, changes, link, halted, known, pacing, penalty, imposed, call, recheck>>
    BY <1>1 DEF BeginSession, Free
  <2>4. failure' \in [Channel -> Failure] /\ lookups' \in [Channel -> 0 .. FetchLimit]
    BY <2>3 DEF Failure
  <2>5. AccessTypeOK'
    BY <2>2, <2>3, <2>4 DEF AccessTypeOK
  <2>6. call = NoRequest
    BY <2>3 DEF PassesAndRequests
  <2> QED BY <2>2, <2>3, <2>5, <2>6 DEF PassesAndRequests, AnswerStands, ReadyIsNotGone
<1>2. CASE BeginRecovery
  <2>1. Begun("health", Unusable) /\ Unusable \in SUBSET Channel
    BY <1>2 DEF BeginRecovery, Unusable
  <2>2. /\ pass' \in [kind: PassKind \union {"none"}, todo: SUBSET Channel, read: SUBSET Channel,
                      stale: BOOLEAN]
        /\ pass'.kind = "none" => pass' = NoPass
    BY <2>1, BegunPass DEF PassKind
  <2>3. /\ pass = NoPass
        /\ UNCHANGED <<right, changes, link, missed, halted, known, fetched, starting, usable, failure, lookups, pacing,
                       penalty, imposed, call, recheck, owed>>
    BY <1>2 DEF BeginRecovery, Free
  <2>4. AccessTypeOK'
    BY <2>2, <2>3 DEF AccessTypeOK
  <2>5. call = NoRequest
    BY <2>3 DEF PassesAndRequests
  <2> QED BY <2>2, <2>3, <2>4, <2>5 DEF PassesAndRequests, AnswerStands, ReadyIsNotGone
<1>3. CASE BeginRecheck
  <2>1. PICK channels \in SUBSET recheck :
          /\ recheck' = recheck \ channels
          /\ Begun("recheck", IF penalty = 0 THEN channels \ usable ELSE {})
    BY <1>3 DEF BeginRecheck
  <2>2. /\ pass' \in [kind: PassKind \union {"none"}, todo: SUBSET Channel, read: SUBSET Channel,
                      stale: BOOLEAN]
        /\ pass'.kind = "none" => pass' = NoPass
    <3>1. PICK some \in SUBSET Channel : Begun("recheck", some)
      <4>1. channels \ usable \in SUBSET Channel /\ {} \in SUBSET Channel
        BY DEF AccessTypeOK
      <4> QED BY <2>1, <4>1, Zenon
    <3> QED BY <3>1, BegunPass DEF PassKind
  <2>3. /\ pass = NoPass /\ recheck' \subseteq Channel
        /\ UNCHANGED <<right, changes, link, missed, halted, known, fetched, starting, usable, failure, lookups, pacing,
                       penalty, imposed, call, owed>>
    BY <1>3, <2>1 DEF BeginRecheck, Free, AccessTypeOK
  <2>4. AccessTypeOK'
    BY <2>2, <2>3 DEF AccessTypeOK
  <2>5. call = NoRequest
    BY <2>3 DEF PassesAndRequests
  <2> QED BY <2>2, <2>3, <2>4, <2>5 DEF PassesAndRequests, AnswerStands, ReadyIsNotGone
<1>4. ASSUME GiveWay \/ EndPass PROVE AccessInv' /\ UNCHANGED call
  <2>1. /\ call = NoRequest /\ pass' = NoPass
        /\ UNCHANGED <<right, changes, link, missed, halted, known, fetched, starting, usable, lookups, pacing, penalty,
                       imposed, call, recheck, owed>>
    BY <1>4 DEF GiveWay, EndPass
  <2>2. failure' \in [Channel -> Failure]
    <3>1. CASE GiveWay
      BY <3>1 DEF GiveWay, AccessTypeOK, Failure
    <3>2. CASE EndPass
      BY <3>2 DEF EndPass, AccessTypeOK
    <3> QED BY <1>4, <3>1, <3>2
  <2>3. AccessTypeOK'
    BY <2>1, <2>2 DEF AccessTypeOK
  <2> QED BY <2>1, <2>3 DEF PassesAndRequests, AnswerStands, ReadyIsNotGone
<1>5. ASSUME NEW c \in Channel, ResolveFromCache(c) \/ LeaveUnresolved(c)
      PROVE  AccessInv' /\ UNCHANGED call
  <2>1. /\ c \in pass.todo /\ call = NoRequest /\ pacing' = TRUE
        /\ \E r \in {pass.read, pass.read \union {c}} :
             pass' = [pass EXCEPT !.todo = @ \ {c}, !.read = r]
        /\ UNCHANGED <<right, changes, link, missed, halted, known, fetched, starting, usable, lookups, penalty, imposed,
                       call, recheck, owed>>
    <3>1. CASE ResolveFromCache(c)
      BY <3>1 DEF ResolveFromCache, InPass
    <3>2. CASE LeaveUnresolved(c)
      <4>1. pass' = [pass EXCEPT !.todo = @ \ {c}]
        BY <3>2 DEF LeaveUnresolved
      <4>2. pass' = [pass EXCEPT !.todo = @ \ {c}, !.read = pass.read]
        BY <4>1 DEF AccessTypeOK
      <4> QED BY <3>2, <4>2 DEF LeaveUnresolved, InPass
    <3> QED BY <1>5, <3>1, <3>2
  <2>2. failure' \in [Channel -> Failure]
    <3>1. CASE ResolveFromCache(c)
      BY <3>1 DEF ResolveFromCache, AccessTypeOK, Failure
    <3>2. CASE LeaveUnresolved(c)
      <4>1. PICK f \in Failure : failure' = [failure EXCEPT ![c] = f]
        BY <3>2 DEF LeaveUnresolved, AccessTypeOK, Failure
      <4> QED BY <4>1 DEF AccessTypeOK
    <3> QED BY <1>5, <3>1, <3>2
  <2>3. /\ pass' \in [kind: PassKind \union {"none"}, todo: SUBSET Channel, read: SUBSET Channel,
                      stale: BOOLEAN]
        /\ pass'.kind = pass.kind /\ (pass'.stale <=> pass.stale) /\ pass.kind # "none"
    <3>1. PICK r \in {pass.read, pass.read \union {c}} :
            pass' = [pass EXCEPT !.todo = @ \ {c}, !.read = r]
      BY <2>1
    <3>2. r \in SUBSET Channel /\ pass.todo \ {c} \in SUBSET Channel
      BY <3>1 DEF AccessTypeOK
    <3>3. pass.kind # "none"
      BY <2>1 DEF PassesAndRequests
    <3> QED BY <3>1, <3>2, <3>3 DEF AccessTypeOK
  <2>4. AccessTypeOK'
    BY <2>1, <2>2, <2>3 DEF AccessTypeOK
  <2> QED BY <2>1, <2>3, <2>4 DEF PassesAndRequests, AnswerStands, ReadyIsNotGone
<1> QED BY <1>1, <1>2, <1>3, <1>4, <1>5

(* A request begins only when no deadline of Discord's lies ahead. *)
LEMMA AskInv ==
  ASSUME AccessInv, NEW c \in Channel, AskLookup(c) \/ AskHistory(c)
  PROVE  AccessInv' /\ imposed = 0
<1> USE AccessBounds, NothingAsked DEF AccessInv
<1>1. /\ penalty = 0 /\ pass.kind # "none" /\ ~pass.stale
      /\ UNCHANGED <<right, changes, link, missed, halted, known, fetched, starting, usable, failure, penalty,
                     imposed, pass, recheck>>
  BY DEF AskLookup, AskHistory, InPass, PassesAndRequests
<1>2. PICK for \in {"lookup", "history"} : call' = [NoRequest EXCEPT !.for = for, !.of = c]
  BY DEF AskLookup, AskHistory
<1>3. /\ call' \in [for: {"none", "lookup", "history"}, of: Channel, again: BOOLEAN, reply: Reply,
                    wait: 0 .. MaxPenalty, outdated: BOOLEAN]
      /\ call'.for # "none" /\ call'.reply = "none"
  BY <1>2
<1>4. owed' \subseteq Channel /\ pacing' \in BOOLEAN
  BY DEF AskLookup, AskHistory, AccessTypeOK
<1>5. lookups' \in [Channel -> 0 .. FetchLimit]
  <2>1. CASE AskLookup(c)
    <3>1. lookups' = [lookups EXCEPT ![c] = @ + 1] /\ lookups[c] < FetchLimit
          /\ lookups[c] \in 0 .. FetchLimit
      BY <2>1 DEF AskLookup, AccessTypeOK
    <3>2. lookups[c] + 1 \in 0 .. FetchLimit
      BY <3>1
    <3> QED BY <3>1, <3>2 DEF AccessTypeOK
  <2>2. CASE AskHistory(c)
    BY <2>2 DEF AskHistory, AccessTypeOK
  <2> QED BY <2>1, <2>2
<1>6. AccessTypeOK'
  BY <1>1, <1>3, <1>4, <1>5 DEF AccessTypeOK
<1> QED BY <1>1, <1>3, <1>6 DEF PassesAndRequests, AnswerStands, ReadyIsNotGone

(* Discord's answer is by the rights of the moment. *)
LEMMA RightsInv ==
  ASSUME AccessInv, DiscordAnswers
  PROVE  AccessInv' /\ call # NoRequest
<1> USE AccessBounds, NothingAsked DEF AccessInv
<1>1. /\ call.for # "none"
      /\ UNCHANGED <<right, changes, link, missed, halted, known, fetched, starting, usable, failure, lookups, pacing,
                     penalty, imposed, pass, recheck, owed>>
  BY DEF DiscordAnswers
<1>2. /\ call' \in [for: {"none", "lookup", "history"}, of: Channel, again: BOOLEAN, reply: Reply,
                    wait: 0 .. MaxPenalty, outdated: BOOLEAN]
      /\ call'.for = call.for /\ call'.of = call.of
      /\ call'.reply = "open" => right[call.of] = "open"
  <2>1. CASE \E reply \in {right[call.of], "unauthorized", "broken"} :
                call' = [call EXCEPT !.reply = reply]
    <3>1. PICK reply \in {right[call.of], "unauthorized", "broken"} :
            call' = [call EXCEPT !.reply = reply]
      BY <2>1
    <3>2. reply \in Reply
      BY <3>1 DEF Reply, AccessTypeOK
    <3> QED BY <3>1, <3>2 DEF AccessTypeOK
  <2>2. CASE \E n \in 1 .. MaxPenalty : call' = [call EXCEPT !.reply = "limited", !.wait = n]
    <3>1. PICK n \in 1 .. MaxPenalty : call' = [call EXCEPT !.reply = "limited", !.wait = n]
      BY <2>2
    <3>2. n \in 0 .. MaxPenalty /\ "limited" \in Reply
      BY DEF Reply
    <3> QED BY <3>1, <3>2 DEF AccessTypeOK
  <2> QED BY <2>1, <2>2 DEF DiscordAnswers
<1>3. AccessTypeOK'
  BY <1>1, <1>2 DEF AccessTypeOK
<1>4. PassesAndRequests' /\ AnswerStands' /\ ReadyIsNotGone'
  BY <1>1, <1>2 DEF PassesAndRequests, AnswerStands, ReadyIsNotGone
<1> QED BY <1>1, <1>3, <1>4

(* The longer of what Discord has told holds for all. *)
LEMMA PenalizedInv ==
  ASSUME AccessTypeOK, penalty = imposed, Penalized
  PROVE  penalty' \in 0 .. MaxPenalty /\ imposed' \in 0 .. MaxPenalty /\ penalty' = imposed'
<1>1. call.wait \in 0 .. MaxPenalty /\ penalty \in 0 .. MaxPenalty
  BY DEF AccessTypeOK
<1> QED BY <1>1 DEF Penalized, Larger

(* A lookup ends, and makes no channel ready. *)
LEMMA LookupInv ==
  ASSUME AccessInv, LookupEnds
  PROVE  AccessInv' /\ call' = NoRequest
<1> USE AccessBounds, NothingAsked DEF AccessInv
<1>1. /\ call.for = "lookup" /\ call.reply \notin {"none", "unauthorized"} /\ call' = NoRequest
      /\ UNCHANGED <<right, changes, link, missed, halted, known, starting, usable, lookups, pacing,
                     recheck, owed>>
  BY DEF LookupEnds
<1>2. pass.kind # "none" /\ call.of \in Channel
  BY <1>1 DEF PassesAndRequests, AccessTypeOK
<1>3. /\ pass' \in [kind: PassKind \union {"none"}, todo: SUBSET Channel, read: SUBSET Channel,
                    stale: BOOLEAN]
      /\ pass'.kind = pass.kind /\ (pass'.stale <=> pass.stale)
      /\ fetched' \subseteq Channel /\ failure' \in [Channel -> Failure]
      /\ penalty' \in 0 .. MaxPenalty /\ imposed' \in 0 .. MaxPenalty /\ penalty' = imposed'
  <2>1. CASE call.reply = "open"
    <3>1. /\ fetched' = fetched \union {call.of} /\ failure' = [failure EXCEPT ![call.of] = "none"]
          /\ pass' = [pass EXCEPT !.todo = @ \ {call.of}, !.read = @ \union {call.of}]
          /\ UNCHANGED <<penalty, imposed>>
      BY <2>1 DEF LookupEnds
    <3> QED BY <1>2, <3>1 DEF AccessTypeOK, Failure
  <2>2. CASE call.reply = "limited"
    <3>1. /\ Penalized
          /\ failure' = [d \in Channel |->
                           IF d = call.of \/ (d \in Unusable \ pass.read /\ failure[d] = "none")
                           THEN "limited" ELSE failure[d]]
          /\ pass' = [pass EXCEPT !.todo = {}]
          /\ UNCHANGED fetched
      BY <2>2 DEF LookupEnds
    <3>2. failure' \in [Channel -> Failure]
      BY <3>1 DEF AccessTypeOK, Failure
    <3>3. penalty' \in 0 .. MaxPenalty /\ imposed' \in 0 .. MaxPenalty /\ penalty' = imposed'
      BY <3>1, PenalizedInv
    <3> QED BY <3>1, <3>2, <3>3 DEF AccessTypeOK
  <2>3. CASE call.reply \notin {"open", "limited"}
    <3>1. /\ failure' = [failure EXCEPT ![call.of] = IF call.reply = "broken" THEN "lookup"
                                                     ELSE call.reply]
          /\ pass' = [pass EXCEPT !.todo = @ \ {call.of}]
          /\ UNCHANGED <<fetched, penalty, imposed>>
      BY <2>3 DEF LookupEnds
    <3>2. (IF call.reply = "broken" THEN "lookup" ELSE call.reply) \in Failure
      BY <1>1, <2>3 DEF AccessTypeOK, Reply, Failure, Terminal
    <3> QED BY <1>2, <3>1, <3>2 DEF AccessTypeOK
  <2> QED BY <2>1, <2>2, <2>3
<1>4. AccessTypeOK'
  BY <1>1, <1>3 DEF AccessTypeOK
<1> QED BY <1>1, <1>2, <1>3, <1>4 DEF PassesAndRequests, AnswerStands, ReadyIsNotGone

(* A history ends; it makes a channel ready only if it was made for the channel as it is. *)
LEMMA HistoryInv ==
  ASSUME AccessInv, HistoryEnds
  PROVE  AccessInv' /\ call # NoRequest
<1> USE AccessBounds, NothingAsked DEF AccessInv
<1>1. /\ call.for = "history" /\ call.reply \notin {"none", "unauthorized"}
      /\ UNCHANGED <<right, changes, link, missed, known, fetched, starting, lookups, pacing, recheck, owed>>
  BY DEF HistoryEnds
<1>2. pass.kind # "none" /\ call.of \in Channel
  BY <1>1 DEF PassesAndRequests, AccessTypeOK
<1> DEFINE done == pass' = [pass EXCEPT !.read = @ \ {call.of}] /\ call' = NoRequest
<1>3. ASSUME done
      PROVE  /\ pass' \in [kind: PassKind \union {"none"}, todo: SUBSET Channel,
                           read: SUBSET Channel, stale: BOOLEAN]
             /\ pass'.kind = pass.kind /\ (pass'.stale <=> pass.stale)
  BY <1>3 DEF AccessTypeOK
<1>4. CASE call.reply = "open"
  <2>1. done /\ UNCHANGED <<halted, penalty, imposed>>
    BY <1>4 DEF HistoryEnds
  <2>2. CASE pass.stale \/ call.outdated
    <3>1. UNCHANGED <<usable, failure>>
      BY <1>4, <2>2 DEF HistoryEnds, Terminal
    <3>2. AccessTypeOK'
      BY <1>1, <1>3, <2>1, <3>1 DEF AccessTypeOK
    <3> QED BY <1>1, <1>2, <1>3, <2>1, <3>1, <3>2
            DEF PassesAndRequests, AnswerStands, ReadyIsNotGone
  <2>3. CASE ~(pass.stale \/ call.outdated)
    <3>1. usable' = usable \union {call.of} /\ failure' = [failure EXCEPT ![call.of] = "none"]
      BY <1>4, <2>3 DEF HistoryEnds, Terminal
    <3>2. right[call.of] = "missing" => call.of \in missed
      BY <1>1, <1>4, <2>3 DEF AnswerStands
    <3>3. failure' \in [Channel -> Failure] /\ usable' \subseteq Channel
      BY <1>2, <3>1 DEF AccessTypeOK, Failure
    <3>4. AccessTypeOK'
      BY <1>1, <1>3, <2>1, <3>3 DEF AccessTypeOK
    <3> QED BY <1>1, <1>2, <1>3, <2>1, <3>1, <3>2, <3>4
            DEF PassesAndRequests, AnswerStands, ReadyIsNotGone
  <2> QED BY <2>2, <2>3
<1>5. CASE call.reply \in Terminal
  <2>1. /\ done /\ failure' = [failure EXCEPT ![call.of] = call.reply]
        /\ UNCHANGED <<usable, halted, penalty, imposed>>
    BY <1>5 DEF HistoryEnds, Terminal
  <2>2. failure' \in [Channel -> Failure]
    BY <1>5, <2>1 DEF AccessTypeOK, Failure
  <2>3. AccessTypeOK'
    BY <1>1, <1>3, <2>1, <2>2 DEF AccessTypeOK
  <2> QED BY <1>1, <1>2, <1>3, <2>1, <2>3 DEF PassesAndRequests, AnswerStands, ReadyIsNotGone
<1>6. CASE call.reply = "limited" /\ ~call.again
  <2>1. /\ Penalized /\ call' = [call EXCEPT !.again = TRUE, !.reply = "none", !.wait = 0]
        /\ UNCHANGED <<usable, failure, pass, halted>>
    BY <1>6 DEF HistoryEnds, Terminal
  <2>2. /\ call' \in [for: {"none", "lookup", "history"}, of: Channel, again: BOOLEAN,
                      reply: Reply, wait: 0 .. MaxPenalty, outdated: BOOLEAN]
        /\ call'.for = "history" /\ call'.reply = "none"
    <3>1. 0 \in 0 .. MaxPenalty /\ "none" \in Reply /\ TRUE \in BOOLEAN
      BY DEF Reply
    <3> QED BY <1>1, <2>1, <3>1 DEF AccessTypeOK
  <2>3. penalty' \in 0 .. MaxPenalty /\ imposed' \in 0 .. MaxPenalty /\ penalty' = imposed'
    BY <2>1, PenalizedInv
  <2>4. AccessTypeOK'
    BY <1>1, <2>1, <2>2, <2>3 DEF AccessTypeOK
  <2> QED BY <1>1, <1>2, <2>1, <2>2, <2>3, <2>4
          DEF PassesAndRequests, AnswerStands, ReadyIsNotGone
<1>7. CASE ~(call.reply = "open") /\ call.reply \notin Terminal
           /\ ~(call.reply = "limited" /\ ~call.again)
  <2>1. /\ halted' = "fatal" /\ pass' = NoPass /\ call' = NoRequest
        /\ UNCHANGED <<usable, failure, penalty, imposed>>
    BY <1>7 DEF HistoryEnds
  <2>2. AccessTypeOK'
    BY <1>1, <2>1 DEF AccessTypeOK
  <2> QED BY <1>1, <2>1, <2>2 DEF PassesAndRequests, AnswerStands, ReadyIsNotGone
<1> QED BY <1>4, <1>5, <1>6, <1>7

LEMMA AccessStepInv ==
  AccessInv /\ [AccessNext]_accessVars =>
    AccessInv' /\ (call = NoRequest /\ call' # NoRequest => imposed = 0)
<1> SUFFICES ASSUME AccessInv, [AccessNext]_accessVars
             PROVE  AccessInv' /\ (call = NoRequest /\ call' # NoRequest => imposed = 0)
  OBVIOUS
<1>1. CASE \/ LoseConnection \/ MakeConnection \/ ResumeConnection
           \/ \E c \in Channel : ChangeRight(c) \/ RemoveChannel(c) \/ CreateChannel(c)
  BY <1>1, EventInv
<1>2. CASE \/ BeginSession \/ BeginRecovery \/ BeginRecheck \/ GiveWay \/ EndPass
           \/ \E c \in Channel : ResolveFromCache(c) \/ LeaveUnresolved(c)
  BY <1>2, PassInv
<1>3. CASE \E c \in Channel : AskLookup(c) \/ AskHistory(c)
  BY <1>3, AskInv
<1>4. CASE DiscordAnswers
  BY <1>4, RightsInv
<1>5. CASE LookupEnds
  BY <1>5, LookupInv
<1>6. CASE HistoryEnds
  BY <1>6, HistoryInv
<1>7. CASE LookupIsStale
  <2>1. /\ call' = NoRequest
        /\ UNCHANGED <<right, changes, link, missed, halted, known, fetched, starting, usable, failure, lookups, pacing,
                       penalty, imposed, pass, recheck, owed>>
    BY <1>7 DEF LookupIsStale
  <2>2. AccessTypeOK'
    BY <2>1, NothingAsked DEF AccessInv, AccessTypeOK
  <2> QED BY <2>1, <2>2, NothingAsked
          DEF AccessInv, PassesAndRequests, AnswerStands, ReadyIsNotGone
<1>8. CASE SessionRejected
  <2>1. /\ call' = NoRequest /\ pass' = NoPass /\ halted' \in {"fatal", "login"}
        /\ UNCHANGED <<right, changes, link, missed, known, fetched, starting, usable, failure, lookups, pacing,
                       penalty, imposed, recheck, owed>>
    BY <1>8 DEF SessionRejected
  <2>2. AccessTypeOK'
    BY <2>1, NothingAsked DEF AccessInv, AccessTypeOK
  <2> QED BY <2>1, <2>2, NothingAsked
          DEF AccessInv, PassesAndRequests, AnswerStands, ReadyIsNotGone
<1>9. CASE PacingEnds \/ PenaltyTick
  <2>1. UNCHANGED <<right, changes, link, missed, halted, known, fetched, starting, usable, failure, lookups, pass,
                    call, recheck, owed>>
        /\ pacing' \in BOOLEAN
    BY <1>9 DEF PacingEnds, PenaltyTick, AccessInv, AccessTypeOK
  <2>2. penalty' \in 0 .. MaxPenalty /\ imposed' \in 0 .. MaxPenalty /\ penalty' = imposed'
    BY <1>9, AccessBounds DEF PacingEnds, PenaltyTick, AccessInv, AccessTypeOK
  <2>3. AccessTypeOK'
    BY <2>1, <2>2 DEF AccessInv, AccessTypeOK
  <2> QED BY <2>1, <2>2, <2>3 DEF AccessInv, PassesAndRequests, AnswerStands, ReadyIsNotGone
<1>10. CASE UNCHANGED accessVars
  <2>1. AccessTypeOK'
    BY <1>10 DEF accessVars, AccessInv, AccessTypeOK
  <2> QED BY <1>10, <2>1
          DEF accessVars, AccessInv, PassesAndRequests, AnswerStands, ReadyIsNotGone
<1> QED BY <1>1, <1>2, <1>3, <1>4, <1>5, <1>6, <1>7, <1>8, <1>9, <1>10 DEF AccessNext

(* Type correctness of the reader's access to its channels. *)
THEOREM AccessTypes == AccessSpec => []AccessTypeOK
<1>1. AccessInv => AccessTypeOK
  BY DEF AccessInv
<1> QED BY AccessInitInv, AccessStepInv, <1>1, PTL DEF AccessSpec

(* _bootstrap_channel, on_guild_channel_delete and on_disconnect: a channel that is ready and
   deleted was deleted while the connection was down, without the reader having been told and
   without a session since; a history that was asked for before the deletion makes it ready neither
   late nor after a reconnect, and no handler that waits for session_lock does. *)
THEOREM NothingGoneIsReady == AccessSpec => []ReadyIsNotGone
<1>1. AccessInv => ReadyIsNotGone
  BY DEF AccessInv
<1> QED BY AccessInitInv, AccessStepInv, <1>1, PTL DEF AccessSpec

(* provider_retry_at: no request begins before the time Discord has told, whatever reconnects,
   rechecks and changes of access come meanwhile. *)
THEOREM DeadlineIsKept == AccessSpec => RetryAfterIsKept
<1>1. AccessInv /\ [AccessNext]_accessVars =>
        [call = NoRequest /\ call' # NoRequest => imposed = 0]_accessVars
  BY AccessStepInv
<1> QED BY AccessInitInv, AccessStepInv, <1>1, PTL DEF AccessSpec, RetryAfterIsKept

-----------------------------------------------------------------------------
(* Every set of numbers up to n that is not empty has a greatest one. *)
LEMMA GreatestOf ==
  ASSUME NEW n \in Nat, NEW S, S \subseteq 0 .. n, S # {}
  PROVE  \E w \in S : \A v \in S : v <= w
<1> DEFINE T == {n - w : w \in S}
<1>1. \A w \in S : w \in Nat /\ w <= n /\ n - w \in Nat
  OBVIOUS
<1>2. T \subseteq Nat /\ T # {}
  BY <1>1
<1> HIDE DEF T
<1>3. PICK x \in T : \A y \in T : ~(<<y, x>> \in OpToRel(<, Nat))
  BY <1>2, NatLessThanWellFounded, WFMin
<1>4. \A y \in T : ~(y < x)
  BY <1>2, <1>3 DEF OpToRel
<1>5. PICK w \in S : x = n - w
  BY DEF T
<1>6. ASSUME NEW v \in S PROVE v <= w
  <2>1. n - v \in T
    BY DEF T
  <2>2. ~(n - v < x)
    BY <1>4, <2>1
  <2>3. v \in Nat /\ w \in Nat
    BY <1>1
  <2> QED BY <1>5, <2>2, <2>3
<1> QED BY <1>6

-----------------------------------------------------------------------------
(* Watch. *)

WatchEntry ==
  [option: WatchOption, asked: Asks, contract: WatchExpiry,
   prep: {"idle", "scheduled", "resolving", "warming"}, target: WatchExpiry, current: BOOLEAN]

Entry ==
  [step: {"free", "resolving", "resolved", "planned", "reviewed", "sent"},
   option: WatchOption \union {Unresolved}, asked: Asks \union {Unresolved, Today, Later},
   upTo: 0 .. MaxWatch, expiry: WatchExpiry, source: 0 .. MaxWatch]

(* A contract that is being warmed is one of a day; an entry that has its expiry asks for it by
   name from then on. *)
WatchInv ==
  /\ watch \in Seq(WatchEntry) /\ Len(watch) <= MaxWatch
  /\ \A w \in Alerts : watch[w].prep = "warming" => watch[w].target \in {Today, Later}
  /\ kept \in Seq(Nat) /\ \A i \in 1 .. Len(kept) : kept[i] \in Alerts
  /\ listed \subseteq WatchOption
  /\ warm \subseteq WatchOption \X {Today, Later}
  /\ buying \in Entry
  /\ buying.step \in {"resolved", "planned", "reviewed"} =>
       buying.asked = buying.expiry /\ buying.expiry \in {Today, Later}

-----------------------------------------------------------------------------

LEMMA KeptIsKept ==
  ASSUME WatchInv
  PROVE  Kept \subseteq Alerts /\ Alerts \subseteq 1 .. MaxWatch /\ Alerts \subseteq Nat
<1>1. Len(watch) \in Nat /\ MaxWatch \in Nat
  BY WatchAssumption DEF WatchInv
<1>2. Alerts \subseteq 1 .. MaxWatch /\ Alerts \subseteq Nat
  BY <1>1 DEF WatchInv, Alerts
<1>3. Kept \subseteq Alerts
  BY DEF WatchInv, Kept, ToSet
<1> QED BY <1>2, <1>3

(* match gives the newest watch that fits, if there is one. *)
LEMMA MatchIsNewest ==
  ASSUME WatchInv, NEW bought
  PROVE  \/ Match(bought) = 0
         \/ /\ Match(bought) \in Kept /\ Offers(Match(bought), bought)
            /\ \A v \in Kept : Offers(v, bought) => v <= Match(bought)
<1> DEFINE fits == {w \in Kept : Offers(w, bought)}
<1>1. CASE fits = {}
  BY <1>1 DEF Match
<1>2. CASE fits # {}
  <2>1. fits \subseteq 0 .. MaxWatch /\ MaxWatch \in Nat
    BY KeptIsKept, WatchAssumption
  <2>2. \E w \in fits : \A v \in fits : v <= w
    BY <1>2, <2>1, GreatestOf
  <2>3. Match(bought) = CHOOSE w \in fits : \A v \in fits : v <= w
    BY <1>2 DEF Match
  <2> HIDE DEF fits
  <2>4. Match(bought) \in fits /\ \A v \in fits : v <= Match(bought)
    BY <2>2, <2>3
  <2> QED BY <2>4 DEF fits
<1> QED BY <1>1, <1>2

LEMMA WatchInitInv == WatchInit => WatchInv
<1> SUFFICES ASSUME WatchInit PROVE WatchInv
  OBVIOUS
<1>1. NotBuying \in Entry
  BY WatchAssumption DEF NotBuying, Entry, WatchExpiry
<1>2. Len(watch) = 0 /\ Alerts = {} /\ watch \in Seq(WatchEntry) /\ kept \in Seq(Nat)
  BY DEF WatchInit, Alerts
<1> QED BY <1>1, <1>2, WatchAssumption DEF WatchInit, WatchInv, NotBuying

(* One watch is changed. *)
LEMMA SetWatch ==
  ASSUME WatchInv, NEW w \in Alerts, NEW e \in WatchEntry,
         e.prep = "warming" => e.target \in {Today, Later},
         watch' = [watch EXCEPT ![w] = e], UNCHANGED <<kept, listed, buying>>,
         warm' \subseteq WatchOption \X {Today, Later}
  PROVE  WatchInv'
<1>1. w \in 1 .. Len(watch) /\ watch \in Seq(WatchEntry)
  BY DEF WatchInv, Alerts
<1>2. watch' \in Seq(WatchEntry) /\ Len(watch') = Len(watch)
      /\ \A v \in 1 .. Len(watch) : watch'[v] = IF v = w THEN e ELSE watch[v]
  BY <1>1, ExceptSeq
<1> QED BY <1>2 DEF WatchInv, Alerts

(* Alerts come and lapse. *)
LEMMA NoteInv ==
  ASSUME WatchInv,
         Note \/ \E w \in Alerts : Lapse(w) \/ Drop(w) \/ Again(w)
  PROVE  WatchInv'
<1>1. CASE Note
  <2>1. PICK o \in WatchOption, wish \in Asks :
          watch' = Append(watch, [option |-> o, asked |-> wish, contract |-> Unresolved,
                                  prep |-> "scheduled", target |-> Unresolved,
                                  current |-> TRUE])
    BY <1>1 DEF Note
  <2> DEFINE e == [option |-> o, asked |-> wish, contract |-> Unresolved,
                   prep |-> "scheduled", target |-> Unresolved, current |-> TRUE]
  <2>2. e \in WatchEntry /\ e.prep # "warming"
    BY DEF WatchEntry, WatchExpiry
  <2>3. watch' = Append(watch, e)
    BY <2>1
  <2> HIDE DEF e
  <2>4. /\ watch' \in Seq(WatchEntry) /\ Len(watch') = Len(watch) + 1 /\ Len(watch) \in Nat
        /\ Len(watch') <= MaxWatch
        /\ \A v \in 1 .. Len(watch') : watch'[v] = IF v = Len(watch) + 1 THEN e ELSE watch[v]
    <3>1. watch \in Seq(WatchEntry) /\ Len(watch) \in Nat /\ MaxWatch \in Nat /\ Len(watch) < MaxWatch
      BY <1>1, WatchAssumption DEF Note, WatchInv
    <3> QED BY <2>2, <2>3, <3>1
  <2> DEFINE all == Append(kept, Len(watch) + 1)
  <2>5. all \in Seq(Nat) /\ \A i \in 1 .. Len(all) : all[i] \in 1 .. Len(watch')
    BY <2>4 DEF WatchInv, Alerts
  <2>6. kept' = IF Len(all) > WatchLimit THEN Tail(all) ELSE all
    BY <1>1 DEF Note
  <2>7. all # <<>>
    BY DEF WatchInv
  <2> HIDE DEF all
  <2>8. kept' \in Seq(Nat) /\ \A i \in 1 .. Len(kept') : kept'[i] \in 1 .. Len(watch')
    BY <2>5, <2>6, <2>7
  <2>9. \A v \in 1 .. Len(watch') : watch'[v].prep = "warming" => watch'[v].target \in {Today, Later}
    BY <2>2, <2>4 DEF WatchInv, Alerts
  <2> QED BY <1>1, <2>4, <2>8, <2>9 DEF Note, WatchInv, Alerts
<1>2. ASSUME NEW w \in Alerts, Lapse(w) PROVE WatchInv'
  <2>1. watch[w] \in WatchEntry /\ (watch[w].prep = "warming" => watch[w].target \in {Today, Later})
    BY DEF WatchInv, Alerts
  <2> DEFINE e == [watch[w] EXCEPT !.current = FALSE]
  <2>2. e \in WatchEntry /\ e.prep = watch[w].prep /\ e.target = watch[w].target
    BY <2>1 DEF WatchEntry
  <2>3. watch' = [watch EXCEPT ![w] = e]
    BY <1>2 DEF Lapse
  <2> HIDE DEF e
  <2> QED BY <1>2, <2>1, <2>2, <2>3, SetWatch DEF Lapse, WatchInv
<1>3. ASSUME NEW w \in Alerts, Drop(w) PROVE WatchInv'
  <2>1. PICK i \in 1 .. Len(kept) : kept' = RemoveAt(kept, i)
    BY <1>3 DEF Drop
  <2> DEFINE s == SubSeq(kept, 1, i - 1)
             t == SubSeq(kept, i + 1, Len(kept))
  <2>2. kept \in Seq(Nat) /\ \A j \in 1 .. Len(kept) : kept[j] \in Alerts
    BY DEF WatchInv
  <2>3. s \in Seq(Nat) /\ \A j \in 1 .. Len(s) : s[j] \in Alerts
    BY <2>2
  <2>4. t \in Seq(Nat) /\ \A j \in 1 .. Len(t) : t[j] \in Alerts
    BY <2>2
  <2>5. kept' = s \o t
    BY <2>1 DEF RemoveAt
  <2> HIDE DEF s, t
  <2>6. kept' \in Seq(Nat) /\ \A j \in 1 .. Len(kept') : kept'[j] \in Alerts
    BY <2>3, <2>4, <2>5
  <2> QED BY <1>3, <2>6 DEF Drop, WatchInv, Alerts
<1>4. ASSUME NEW w \in Alerts, Again(w) PROVE WatchInv'
  <2> DEFINE e == [watch[w] EXCEPT !.prep = "scheduled"]
  <2>1. e \in WatchEntry /\ e.prep # "warming"
    <3>1. watch[w] \in WatchEntry
      BY DEF WatchInv, Alerts
    <3> QED BY <3>1 DEF WatchEntry
  <2>2. watch' = [watch EXCEPT ![w] = e]
    BY <1>4 DEF Again
  <2> HIDE DEF e
  <2> QED BY <1>4, <2>1, <2>2, SetWatch DEF Again, WatchInv
<1> QED BY <1>1, <1>2, <1>3, <1>4

(* _prepare resolves a watch and warms its contract, or fails to. *)
LEMMA PrepareInv ==
  ASSUME WatchInv,
         NEW w \in Alerts, BeginPrepare(w) \/ Resolve(w) \/ Prewarm(w) \/ FailPrepare(w)
  PROVE  WatchInv'
<1>0. /\ watch[w] \in WatchEntry
      /\ watch[w].prep = "warming" => watch[w].target \in {Today, Later}
      /\ Nearest \notin {Today, Later} /\ Asks \subseteq {Nearest, Today, Later}
      /\ {Unresolved, Today, Later} = WatchExpiry
  BY WatchAssumption DEF WatchInv, Alerts, Nearest, Today, Later, WatchExpiry
<1>1. CASE BeginPrepare(w)
  <2> DEFINE f == watch[w]
             e == IF ~Current(w) THEN [f EXCEPT !.prep = "idle"]
                  ELSE IF f.asked # Nearest THEN [f EXCEPT !.prep = "warming", !.target = f.asked]
                  ELSE IF f.contract = Today THEN [f EXCEPT !.prep = "warming", !.target = Today]
                  ELSE [f EXCEPT !.prep = "resolving", !.contract = Unresolved]
  <2>1. e \in WatchEntry /\ (e.prep = "warming" => e.target \in {Today, Later})
    <3>1. CASE ~Current(w)
      BY <1>0, <3>1 DEF WatchEntry
    <3>2. CASE Current(w) /\ f.asked # Nearest
      <4>1. f.asked \in {Today, Later}
        BY <1>0, <3>2 DEF WatchEntry
      <4> QED BY <1>0, <3>2, <4>1 DEF WatchEntry
    <3>3. CASE Current(w) /\ f.asked = Nearest
      BY <1>0, <3>3 DEF WatchEntry
    <3> QED BY <3>1, <3>2, <3>3
  <2>2. watch' = [watch EXCEPT ![w] = e]
    BY <1>1 DEF BeginPrepare
  <2> HIDE DEF e
  <2> QED BY <1>1, <2>1, <2>2, SetWatch DEF BeginPrepare, WatchInv
<1>2. CASE Resolve(w)
  <2> DEFINE t == ResolvedTo(watch[w].option)
             e == [watch[w] EXCEPT !.prep = "warming", !.target = t]
  <2>1. t \in {Today, Later}
    BY DEF ResolvedTo
  <2>2. watch' = [watch EXCEPT ![w] = e]
    BY <1>2 DEF Resolve
  <2> HIDE DEF t
  <2>3. e \in WatchEntry /\ e.target \in {Today, Later}
    BY <1>0, <2>1 DEF WatchEntry
  <2> HIDE DEF e
  <2> QED BY <1>2, <2>2, <2>3, SetWatch DEF Resolve, WatchInv
<1>3. CASE Prewarm(w)
  <2> DEFINE d == [watch[w] EXCEPT !.prep = "idle", !.target = Unresolved]
             e == IF Current(w) THEN [d EXCEPT !.contract = watch[w].target] ELSE d
  <2>1. d \in WatchEntry /\ d.prep = "idle"
    BY <1>0 DEF WatchEntry
  <2>2. e \in WatchEntry /\ e.prep = "idle"
    <3>1. watch[w].target \in WatchExpiry
      BY <1>0 DEF WatchEntry
    <3> HIDE DEF d
    <3> QED BY <2>1, <3>1 DEF WatchEntry
  <2>3. watch' = [watch EXCEPT ![w] = e]
    BY <1>3 DEF Prewarm
  <2>4. warm' \subseteq WatchOption \X {Today, Later}
    <3>1. <<watch[w].option, watch[w].target>> \in WatchOption \X {Today, Later}
      BY <1>0, <1>3 DEF Prewarm, WatchEntry
    <3> QED BY <1>3, <3>1 DEF Prewarm, WatchInv
  <2> HIDE DEF e
  <2> QED BY <1>3, <2>2, <2>3, <2>4, SetWatch DEF Prewarm
<1>4. CASE FailPrepare(w)
  <2> DEFINE e == [watch[w] EXCEPT !.prep = "idle", !.target = Unresolved, !.contract = Unresolved]
  <2>1. e \in WatchEntry /\ e.prep = "idle"
    BY <1>0 DEF WatchEntry
  <2>2. watch' = [watch EXCEPT ![w] = e]
    BY <1>4 DEF FailPrepare
  <2> HIDE DEF e
  <2> QED BY <1>4, <2>1, <2>2, SetWatch DEF FailPrepare, WatchInv
<1> QED BY <1>1, <1>2, <1>3, <1>4

(* An entry takes its expiry from a watch or by itself, and is checked on the way. *)
LEMMA BuyingInv ==
  ASSUME WatchInv,
         TakeEntry \/ LookUpExpiry \/ PlanEntry \/ Review \/ SendEntry \/ EndEntry
  PROVE  WatchInv'
<1>0. /\ buying \in Entry /\ NotBuying \in Entry /\ NotBuying.step = "free"
      /\ Nearest \notin {Today, Later} /\ Asks \subseteq {Nearest, Today, Later}
      /\ Len(watch) \in 0 .. MaxWatch /\ WatchExpiry = {Unresolved, Today, Later}
      /\ Unresolved \notin {Today, Later}
  BY WatchAssumption
     DEF WatchInv, NotBuying, Entry, WatchExpiry, Nearest, Today, Later, Unresolved
<1>1. SUFFICES /\ UNCHANGED <<watch, kept, listed, warm>>
               /\ buying' \in Entry
               /\ buying'.step \in {"resolved", "planned", "reviewed"} =>
                    buying'.asked = buying'.expiry /\ buying'.expiry \in {Today, Later}
  BY DEF WatchInv, Alerts
<1>2. UNCHANGED <<watch, kept, listed, warm>>
  BY DEF TakeEntry, LookUpExpiry, PlanEntry, Review, SendEntry, EndEntry
<1>3. CASE TakeEntry
  <2>1. PICK o \in WatchOption, wish \in Asks :
          LET bought == [NotBuying EXCEPT !.option = o, !.asked = wish, !.upTo = Len(watch)]
              w == Match(bought)
              given == w # 0 /\ <<o, watch[w].contract>> \in warm IN
          buying' =
            IF wish # Nearest THEN [bought EXCEPT !.step = "resolved", !.expiry = wish]
            ELSE IF given THEN [bought EXCEPT !.step = "resolved", !.expiry = watch[w].contract,
                                           !.asked = watch[w].contract]
            ELSE [bought EXCEPT !.step = "resolving"]
    BY <1>3 DEF TakeEntry
  <2> DEFINE bought == [NotBuying EXCEPT !.option = o, !.asked = wish, !.upTo = Len(watch)]
             w == Match(bought)
             c == watch[w].contract
  <2>2. bought \in Entry
    BY <1>0 DEF Entry
  <2>3. \/ wish # Nearest /\ buying' = [bought EXCEPT !.step = "resolved", !.expiry = wish]
        \/ <<o, c>> \in warm
             /\ buying' = [bought EXCEPT !.step = "resolved", !.expiry = c, !.asked = c]
        \/ buying' = [bought EXCEPT !.step = "resolving"]
    BY <2>1
  <2>4. <<o, c>> \in warm => c \in {Today, Later}
    BY DEF WatchInv
  <2> HIDE DEF bought, w, c
  <2>5. CASE wish # Nearest /\ buying' = [bought EXCEPT !.step = "resolved", !.expiry = wish]
    <3>1. wish \in {Today, Later}
      BY <1>0, <2>5
    <3>2. bought.asked = wish
      BY <1>0 DEF bought, Entry
    <3> QED BY <1>0, <1>2, <2>2, <2>5, <3>1, <3>2 DEF Entry
  <2>6. CASE <<o, c>> \in warm
               /\ buying' = [bought EXCEPT !.step = "resolved", !.expiry = c, !.asked = c]
    BY <1>0, <1>2, <2>2, <2>4, <2>6 DEF Entry
  <2>7. CASE buying' = [bought EXCEPT !.step = "resolving"]
    BY <1>2, <2>2, <2>7 DEF Entry
  <2> QED BY <2>3, <2>5, <2>6, <2>7
<1>4. CASE LookUpExpiry
  <2> DEFINE e == ResolvedTo(buying.option)
  <2>1. e \in {Today, Later} /\ buying' = [buying EXCEPT !.step = "resolved", !.expiry = e, !.asked = e]
    BY <1>4 DEF LookUpExpiry, ResolvedTo
  <2> HIDE DEF e
  <2> QED BY <1>0, <1>2, <2>1 DEF Entry
<1>5. CASE PlanEntry
  <2>1. Match(buying) \in 0 .. MaxWatch
    <3>1. Match(buying) = 0 \/ Match(buying) \in Kept
      BY MatchIsNewest
    <3> QED BY <3>1, KeptIsKept, WatchAssumption
  <2>2. PICK w \in 0 .. MaxWatch : buying' = [buying EXCEPT !.step = "planned", !.source = w]
    <3> DEFINE w == IF Match(buying) # 0 /\ <<buying.option, buying.expiry>> \in warm
                    THEN Match(buying) ELSE 0
    <3>1. w \in 0 .. MaxWatch
      BY <2>1, WatchAssumption
    <3>2. buying' = [buying EXCEPT !.step = "planned", !.source = w]
      BY <1>5 DEF PlanEntry
    <3> HIDE DEF w
    <3> QED BY <3>1, <3>2
  <2>3. buying.asked = buying.expiry /\ buying.expiry \in {Today, Later}
    BY <1>5 DEF PlanEntry, WatchInv
  <2> QED BY <1>0, <1>2, <2>2, <2>3 DEF Entry
<1>6. CASE Review
  <2>1. buying.asked = buying.expiry /\ buying.expiry \in {Today, Later}
    BY <1>6 DEF Review, WatchInv
  <2>2. buying' = NotBuying \/ buying' = [buying EXCEPT !.step = "reviewed"]
    BY <1>6 DEF Review
  <2> QED BY <1>0, <1>2, <2>1, <2>2 DEF Entry
<1>7. CASE SendEntry
  BY <1>0, <1>2, <1>7 DEF SendEntry, Entry
<1>8. CASE EndEntry
  BY <1>0, <1>2, <1>8 DEF EndEntry
<1> QED BY <1>3, <1>4, <1>5, <1>6, <1>7, <1>8

LEMMA WatchStepInv == WatchInv /\ [WatchNext]_watchVars => WatchInv'
<1> SUFFICES ASSUME WatchInv, [WatchNext]_watchVars PROVE WatchInv'
  OBVIOUS
<1>1. CASE Note \/ \E w \in Alerts : Lapse(w) \/ Drop(w) \/ Again(w)
  BY <1>1, NoteInv
<1>2. CASE \E w \in Alerts : BeginPrepare(w) \/ Resolve(w) \/ Prewarm(w) \/ FailPrepare(w)
  BY <1>2, PrepareInv
<1>3. CASE \E o \in WatchOption : List(o)
  BY <1>3 DEF List, WatchInv, Alerts
<1>4. CASE \E c \in warm : Expires(c)
  BY <1>4 DEF Expires, WatchInv, Alerts
<1>5. CASE TakeEntry \/ LookUpExpiry \/ PlanEntry \/ Review \/ SendEntry \/ EndEntry
  BY <1>5, BuyingInv
<1>6. CASE UNCHANGED watchVars
  BY <1>6 DEF watchVars, WatchInv, Alerts
<1> QED BY <1>1, <1>2, <1>3, <1>4, <1>5, <1>6 DEF WatchNext

(* Type correctness of the watched entries. *)
THEOREM WatchTypes == WatchSpec => []WatchTypeOK
<1>1. WatchInv => WatchTypeOK
  <2> SUFFICES ASSUME WatchInv PROVE WatchTypeOK
    OBVIOUS
  <2>1. \A w \in Alerts : watch[w] \in WatchEntry
    BY DEF WatchInv, Alerts
  <2> QED BY <2>1, KeptIsKept DEF WatchInv, WatchTypeOK, WatchEntry, Entry
<1> QED BY WatchInitInv, WatchStepInv, <1>1, PTL DEF WatchSpec

(* verify_dispatch: at the moment an entry that a watch has prepared is sent, the alert stands,
   the contract is the one the watch gives and no newer watch gives it, and it is no fallback
   that is being looked up again; for any number of watches and alerts. *)
THEOREM PreparedStands == WatchSpec => PreparedEntryStands
<1>1. ASSUME WatchInv, SendEntry, buying.source # 0, NEW w, w = buying.source
      PROVE  /\ w \in Kept /\ Current(w)
             /\ watch[w].option = buying.option /\ watch[w].contract = buying.expiry
             /\ (watch[w].asked = Nearest /\ buying.expiry = Later) => watch[w].prep = "idle"
             /\ \A v \in Kept : v > w /\ v <= buying.upTo /\ Current(v) /\ ~Busy(v)
                                => ~SameContract(v, w)
  <2>1. Match(buying) = w /\ w # 0
    BY <1>1 DEF SendEntry, StillMatches
  <2>2. /\ w \in Kept /\ Offers(w, buying)
        /\ \A v \in Kept : Offers(v, buying) => v <= w
    BY <1>1, <2>1, MatchIsNewest
  <2>3. /\ buying.asked = buying.expiry /\ buying.asked # Nearest
        /\ buying.expiry # Unresolved /\ Later # Today
    BY <1>1 DEF SendEntry, WatchInv, Nearest, Today, Later, Unresolved
  <2>4. /\ watch[w].option = buying.option /\ Current(w) /\ watch[w].contract = buying.expiry
        /\ watch[w].asked = Nearest /\ buying.expiry = Later => ~Busy(w)
    BY <2>2, <2>3 DEF Offers
  <2>5. ASSUME NEW v \in Kept, v > w, v <= buying.upTo, Current(v), ~Busy(v), SameContract(v, w)
        PROVE  FALSE
    <3>1. Offers(v, buying)
      BY <2>3, <2>4, <2>5 DEF Offers, SameContract
    <3>2. v <= w /\ v \in Nat /\ w \in Nat
      BY <1>1, <2>2, <3>1, KeptIsKept
    <3> QED BY <2>5, <3>2
  <2> QED BY <2>2, <2>4, <2>5 DEF Busy
<1>2. WatchInv /\ [WatchNext]_watchVars =>
        [SendEntry /\ buying.source # 0 =>
           LET w == buying.source IN
           /\ w \in Kept /\ Current(w)
           /\ watch[w].option = buying.option /\ watch[w].contract = buying.expiry
           /\ (watch[w].asked = Nearest /\ buying.expiry = Later) => watch[w].prep = "idle"
           /\ \A v \in Kept : v > w /\ v <= buying.upTo /\ Current(v) /\ ~Busy(v)
                              => ~SameContract(v, w)]_watchVars
  BY <1>1
<1> QED BY WatchInitInv, WatchStepInv, <1>2, PTL DEF WatchSpec, PreparedEntryStands

-----------------------------------------------------------------------------
(* Browser. *)

Tracker ==
  [needs: BOOLEAN, started: BOOLEAN, high: 0 .. MaxPost, cutoff: 0 .. MaxPost, seen: [Post -> 0 .. 2]]

(* Copies and observations are of messages that were posted and connections there have been. *)
Ages ==
  /\ lastEpoch <= epoch /\ doubtful \subseteq 1 .. posted
  /\ \A m \in Post : copy[m].label # "none" => m <= posted /\ copy[m].epoch <= epoch
  /\ \A e \in handing : e.id <= posted /\ e.epoch <= epoch

(* A reader that has lost the channel, or has a page that is gone, knows it at its next poll. *)
LossIsKnown ==
  /\ lost => stalled \/ unavailable \/ tracker.needs
  /\ lastEpoch = 0 => lost
  /\ view \in Broken => lost \/ lastEpoch # epoch

(* While it follows the channel every message in doubt that still stands is behind what it has
   seen. *)
DoubtIsPast ==
  ~lost /\ epoch = lastEpoch /\ ~tracker.needs =>
    \A m \in doubtful \ removed : m <= tracker.high \/ m <= tracker.cutoff

(* Nothing that was told, or is to be told, as live on this connection is in doubt. *)
LiveIsFollowed ==
  /\ \A m \in doubtful : ~(copy[m].label = "live" /\ copy[m].epoch = epoch)
  /\ \A e \in handing : e.label = "live" /\ e.epoch = epoch => e.id \notin doubtful

BrowserInv == BrowserTypeOK /\ Ages /\ LossIsKnown /\ DoubtIsPast /\ LiveIsFollowed

-----------------------------------------------------------------------------

LEMMA BrowserBounds ==
  /\ Mounted \in Nat \ {0} /\ SeenKept \in Nat /\ SeenLimit \in Nat
  /\ MaxPost \in Nat \ {0} /\ MaxEpoch \in Nat \ {0} /\ Post \subseteq Nat
BY BrowserAssumption DEF Post

LEMMA BrowserInitInv == BrowserInit => BrowserInv
<1> SUFFICES ASSUME BrowserInit PROVE BrowserInv
  OBVIOUS
<1> USE BrowserBounds DEF BrowserInit
<1>1. BrowserTypeOK
  <2>1. tracker \in Tracker
    BY DEF NewTracker, Tracker
  <2>2. copy \in [Post -> [label: {"none", "baseline", "live", "sent"}, revision: 0 .. 2,
                           epoch: 0 .. MaxEpoch]]
    BY DEF Told
  <2>3. epoch \in 1 .. MaxEpoch /\ posted \in 0 .. MaxPost /\ lastEpoch \in 0 .. MaxEpoch
    OBVIOUS
  <2> QED BY <2>1, <2>2, <2>3 DEF BrowserTypeOK, Tracker, View
<1>2. Ages /\ LossIsKnown
  BY DEF Ages, LossIsKnown, Told, NewTracker, Broken
<1> QED BY <1>1, <1>2 DEF BrowserInv, DoubtIsPast, LiveIsFollowed

(* The rows of a page that shows the end of the channel go up to its last message. *)
LEMMA NewestReachesTheLast ==
  ASSUME BrowserTypeOK, Shown # {}
  PROVE  \E last \in Newest(Shown, Mounted) : \A m \in Shown : m <= last
<1>1. posted \in Nat /\ Shown \subseteq 0 .. posted /\ Shown \subseteq Nat
  BY BrowserBounds DEF BrowserTypeOK, Shown
<1>2. PICK last \in Shown : \A m \in Shown : m <= last
  BY <1>1, GreatestOf
<1>3. \A k \in Shown : ~(k > last)
  BY <1>1, <1>2
<1> HIDE DEF Shown
<1>4. Cardinality({k \in Shown : k > last}) < Mounted
  <2>1. {k \in Shown : k > last} = {}
    BY <1>3
  <2> QED BY <2>1, FS_EmptySet, BrowserBounds
<1> QED BY <1>2, <1>4 DEF Newest

LEMMA NewestAreSome == ASSUME NEW S, NEW n PROVE Newest(S, n) \subseteq S
BY DEF Newest

(* The tracker after a page with rows: its high mark is not below them. *)
LEMMA AfterRowsSeen ==
  ASSUME NEW t \in Tracker, NEW rows \in SUBSET Post
  PROVE  /\ AfterRows(t, rows) \in Tracker
         /\ \A m \in rows : m <= AfterRows(t, rows).high
<1> DEFINE marks == rows \union {t.high}
           seen == [m \in Post |-> IF m \in rows THEN RevisionOf(m) ELSE t.seen[m]]
<1>1. marks \subseteq 0 .. MaxPost /\ marks # {} /\ MaxPost \in Nat
  <2>1. t.high \in 0 .. MaxPost /\ MaxPost \in Nat
    BY BrowserBounds DEF Tracker
  <2>2. rows \subseteq 0 .. MaxPost
    BY <2>1 DEF Post
  <2> QED BY <2>1, <2>2
<1>2. Max(marks) \in marks /\ \A m \in marks : m <= Max(marks)
  <2>1. PICK x \in marks : \A y \in marks : y <= x
    BY <1>1, GreatestOf
  <2>2. \A y \in marks : x >= y
    BY <1>1, <2>1
  <2> HIDE DEF marks
  <2>3. Max(marks) \in marks /\ \A y \in marks : Max(marks) >= y
    BY <2>2 DEF Max
  <2> QED BY <1>1, <2>3
<1>3. Max(marks) \in 0 .. MaxPost
  BY <1>1, <1>2
<1>4. seen \in [Post -> 0 .. 2]
  BY DEF Tracker, RevisionOf
<1> HIDE DEF seen
<1>5. KeptSeen(seen) \in [Post -> 0 .. 2]
  BY <1>4 DEF KeptSeen
<1>6. (IF \E m \in rows : m > t.cutoff THEN 0 ELSE t.cutoff) \in 0 .. MaxPost
  BY BrowserBounds DEF Tracker
<1> DEFINE cutoff == IF \E m \in rows : m > t.cutoff THEN 0 ELSE t.cutoff
<1>7. AfterRows(t, rows) = [needs |-> FALSE, started |-> TRUE, high |-> Max(marks),
                            cutoff |-> cutoff, seen |-> KeptSeen(seen)]
  BY DEF AfterRows, seen
<1> HIDE DEF cutoff, marks
<1>8. cutoff \in 0 .. MaxPost
  BY <1>6 DEF cutoff
<1>9. AfterRows(t, rows) \in Tracker
  BY <1>3, <1>5, <1>7, <1>8 DEF Tracker
<1> QED BY <1>2, <1>7, <1>9 DEF marks

LEMMA AfreshNeeds ==
  ASSUME NEW t \in Tracker
  PROVE  Afresh(t) \in Tracker /\ Afresh(t).needs /\ Afresh(t).high = t.high
<1>1. 0 \in 0 .. MaxPost
  BY BrowserBounds
<1> QED BY <1>1 DEF Afresh, Tracker

(* What a poll hands on is of the rows, of this connection, and live only if the tracker follows
   the channel and has not come as far. *)
LEMMA EventsAre ==
  ASSUME BrowserTypeOK, NEW t \in Tracker, NEW rows \in SUBSET Post, NEW force \in BOOLEAN,
         NEW e \in Events(t, rows, force)
  PROVE  /\ e \in [id: Post, revision: 1 .. 2, epoch: 1 .. MaxEpoch, label: {"baseline", "live"}]
         /\ e.id \in rows /\ e.epoch = epoch
         /\ e.label = "live" =>
              ~t.needs /\ ~force /\ ~(e.id <= t.high) /\ ~(e.id <= t.cutoff)
<1>1. PICK m \in rows :
        e = [id |-> m, revision |-> RevisionOf(m), epoch |-> epoch,
             label |-> IF Contextual(t, rows, force, m) THEN "baseline" ELSE "live"]
  BY DEF Events
<1>2. RevisionOf(m) \in 1 .. 2 /\ epoch \in 1 .. MaxEpoch
  BY DEF RevisionOf, BrowserTypeOK
<1>3. e.label = "live" => ~Contextual(t, rows, force, m)
  BY <1>1
<1> QED BY <1>1, <1>2, <1>3 DEF Contextual

-----------------------------------------------------------------------------

(* Parts of the type invariant, by their names. *)
LEMMA BrowserTypes1 ==
  ASSUME BrowserTypeOK
  PROVE  /\ posted \in Nat /\ posted <= MaxPost /\ epoch \in Nat /\ epoch \in 1 .. MaxEpoch
         /\ lastEpoch \in Nat /\ tracker \in Tracker
         /\ doubtful \subseteq Post /\ Shown \subseteq Post /\ Untold \subseteq Post
BY BrowserBounds DEF BrowserTypeOK, Tracker, Shown, Untold, Post

LEMMA TrackingIs ==
  ASSUME BrowserTypeOK
  PROVE  /\ Tracking \in Tracker
         /\ ~Tracking.needs => ~StartsAfresh /\ Tracking = tracker
BY BrowserTypes1, AfreshNeeds DEF Tracking

LEMMA PostMessageInv ==
  ASSUME BrowserInv, PostMessage PROVE BrowserInv'
<1> USE DEF PostMessage, readerVars
<1>1. posted' \in 1 .. MaxPost /\ posted' = posted + 1 /\ posted \in Nat /\ posted' \in 0 .. MaxPost
      /\ lastEpoch \in Nat /\ epoch \in Nat
  BY BrowserBounds, BrowserTypes1 DEF BrowserInv
<1>2. doubtful' \subseteq doubtful \union {posted + 1} /\ doubtful' \subseteq Post
  BY <1>1 DEF BrowserInv, BrowserTypeOK, Post
<1>3. BrowserTypeOK'
  BY <1>1, <1>2 DEF BrowserInv, BrowserTypeOK
<1>4. doubtful' \subseteq 1 .. posted'
  BY <1>1, <1>2 DEF BrowserInv, Ages
<1>5. Ages'
  <2>1. \A m \in Post : copy[m].label # "none" => m <= posted' /\ copy[m].epoch <= epoch
    BY <1>1 DEF BrowserInv, Ages, Post
  <2>2. \A e \in handing : e.id <= posted' /\ e.epoch <= epoch
    <3> TAKE e \in handing
    <3>1. e.id \in Nat /\ e.id <= posted /\ e.epoch <= epoch
      BY DEF BrowserInv, Ages, BrowserTypeOK, Post
    <3> QED BY <1>1, <3>1
  <2> QED BY <1>4, <2>1, <2>2 DEF BrowserInv, Ages
<1>6. LossIsKnown'
  BY DEF BrowserInv, LossIsKnown
<1>7. DoubtIsPast'
  BY DEF BrowserInv, LossIsKnown, DoubtIsPast
<1>8. LiveIsFollowed'
  <2>1. posted + 1 \in Post /\ ~(posted + 1 <= posted)
    BY <1>1 DEF Post
  <2>2. copy[posted + 1].label = "none"
    BY <2>1 DEF BrowserInv, Ages
  <2>3. \A e \in handing : e.id # posted + 1
    BY <2>1 DEF BrowserInv, Ages
  <2> QED BY <1>2, <2>2, <2>3 DEF BrowserInv, LiveIsFollowed
<1> QED BY <1>3, <1>5, <1>6, <1>7, <1>8 DEF BrowserInv

LEMMA TouchInv ==
  ASSUME BrowserInv, NEW m \in Post, Touch(m) PROVE BrowserInv'
<1> USE DEF Touch, readerVars
<1>1. edited' \subseteq Post /\ removed' \subseteq Post /\ removed \subseteq removed'
  BY DEF BrowserInv, BrowserTypeOK
<1>2. BrowserTypeOK'
  BY <1>1 DEF BrowserInv, BrowserTypeOK
<1>3. DoubtIsPast'
  BY <1>1 DEF BrowserInv, DoubtIsPast
<1> QED BY <1>2, <1>3 DEF BrowserInv, Ages, LossIsKnown, LiveIsFollowed

LEMMA TurnPageInv ==
  ASSUME BrowserInv, NEW v \in View, TurnPage(v) \/ Reappear PROVE BrowserInv'
<1> USE DEF TurnPage, Reappear, readerVars
<1>1. view' \in View /\ view' \notin Broken
  BY DEF View, Broken
<1>2. BrowserTypeOK'
  BY <1>1 DEF BrowserInv, BrowserTypeOK
<1>3. LossIsKnown'
  BY <1>1 DEF BrowserInv, LossIsKnown
<1> QED BY <1>2, <1>3 DEF BrowserInv, Ages, DoubtIsPast, LiveIsFollowed

(* A new connection of the page: nothing is live on it yet. *)
LEMMA ReconnectsInv ==
  ASSUME BrowserInv, epoch < MaxEpoch, epoch' = epoch + 1, doubtful' = doubtful \union (1 .. posted),
         posted' = posted, copy' = copy, handing' \subseteq handing
  PROVE  /\ epoch' \in 1 .. MaxEpoch /\ doubtful' \subseteq Post /\ LiveIsFollowed'
         /\ \A k \in 0 .. epoch : k \in 0 .. MaxEpoch /\ k <= epoch' /\ k # epoch'
         /\ lastEpoch' \in 0 .. epoch => Ages'
<1>1. epoch \in Nat /\ posted \in Nat /\ epoch' \in 1 .. MaxEpoch /\ MaxEpoch \in Nat
  BY BrowserBounds, BrowserTypes1 DEF BrowserInv
<1>2. doubtful' \subseteq Post /\ doubtful' \subseteq 1 .. posted
  <2>1. 1 .. posted \subseteq Post
    BY BrowserBounds, BrowserTypes1 DEF BrowserInv, Post
  <2> QED BY <2>1 DEF BrowserInv, BrowserTypeOK, Ages
<1>3. \A k \in 0 .. epoch : k \in 0 .. MaxEpoch /\ k <= epoch' /\ k # epoch'
  BY <1>1
<1>4. \A m \in Post : copy[m].label # "none" => m <= posted /\ copy[m].epoch \in 0 .. epoch
  <2> SUFFICES ASSUME NEW m \in Post, copy[m].label # "none"
               PROVE  m <= posted /\ copy[m].epoch \in 0 .. epoch
    OBVIOUS
  <2>1. copy[m].epoch \in 0 .. MaxEpoch
    BY DEF BrowserInv, BrowserTypeOK
  <2> QED BY <1>1, <2>1 DEF BrowserInv, Ages
<1>5. \A e \in handing : e.id <= posted /\ e.epoch \in 0 .. epoch
  <2> TAKE e \in handing
  <2>1. e.epoch \in 1 .. MaxEpoch
    BY DEF BrowserInv, BrowserTypeOK
  <2> QED BY <1>1, <2>1 DEF BrowserInv, Ages
<1>6. LiveIsFollowed'
  <2>1. \A m \in doubtful' : ~(copy[m].label = "live" /\ copy[m].epoch = epoch')
    BY <1>2, <1>3, <1>4
  <2>2. \A e \in handing : e.epoch # epoch'
    BY <1>3, <1>5
  <2> QED BY <2>1, <2>2 DEF LiveIsFollowed
<1>7. ASSUME lastEpoch' \in 0 .. epoch PROVE Ages'
  BY <1>2, <1>3, <1>4, <1>5, <1>7 DEF Ages
<1> QED BY <1>1, <1>2, <1>3, <1>6, <1>7

LEMMA LastIsPast ==
  ASSUME BrowserInv PROVE lastEpoch \in 0 .. epoch
BY BrowserTypes1 DEF BrowserInv, Ages

LEMMA BreakInv ==
  ASSUME BrowserInv, NEW v \in View, Break(v) PROVE BrowserInv'
<1> USE DEF Break, Reconnects, readerVars
<1>1. /\ epoch' \in 1 .. MaxEpoch /\ doubtful' \subseteq Post /\ LiveIsFollowed' /\ Ages'
      /\ lastEpoch' # epoch'
  BY LastIsPast, ReconnectsInv
<1>2. BrowserTypeOK'
  BY <1>1 DEF BrowserInv, BrowserTypeOK
<1>3. LossIsKnown'
  BY <1>1 DEF BrowserInv, LossIsKnown
<1>4. DoubtIsPast'
  BY <1>1 DEF DoubtIsPast
<1> QED BY <1>1, <1>2, <1>3, <1>4 DEF BrowserInv

LEMMA RestartsInv ==
  ASSUME BrowserInv, Restarts PROVE BrowserInv'
<1> USE DEF Restarts, Reconnects
<1>1. 0 \in 0 .. epoch /\ 0 \in 0 .. MaxEpoch /\ 0 \in 0 .. MaxPost
  BY BrowserBounds, BrowserTypes1 DEF BrowserInv
<1>2. /\ epoch' \in 1 .. MaxEpoch /\ doubtful' \subseteq Post /\ LiveIsFollowed' /\ Ages'
      /\ lastEpoch' # epoch'
  BY <1>1, ReconnectsInv
<1>3. NewTracker \in Tracker /\ NewTracker.needs
  BY <1>1 DEF NewTracker, Tracker
<1>4. BrowserTypeOK'
  BY <1>1, <1>2, <1>3 DEF BrowserInv, BrowserTypeOK, View, Tracker
<1>5. LossIsKnown' /\ DoubtIsPast'
  BY <1>3 DEF LossIsKnown, DoubtIsPast
<1> QED BY <1>2, <1>4, <1>5 DEF BrowserInv

(* After a page without rows all that has been posted is context. *)
LEMMA AfterNothingSeen ==
  ASSUME BrowserTypeOK, NEW t \in Tracker
  PROVE  AfterNothing(t) \in Tracker /\ AfterNothing(t).cutoff = posted
<1>1. posted \in 0 .. MaxPost
  BY DEF BrowserTypeOK
<1>2. (t.needs /\ t.started) \in BOOLEAN
  BY DEF Tracker
<1> DEFINE n == t.needs /\ t.started
<1>3. AfterNothing(t) = [t EXCEPT !.needs = n, !.started = TRUE, !.cutoff = posted]
  BY DEF AfterNothing, Tracker
<1> HIDE DEF n
<1>4. n \in BOOLEAN
  BY <1>2 DEF n
<1> QED BY <1>1, <1>3, <1>4 DEF Tracker

(* A live event is of a message the reader has followed the channel to. *)
LEMMA LiveIsNotInDoubt ==
  ASSUME BrowserInv, NEW rows \in SUBSET Post, rows \subseteq Shown,
         NEW e \in Events(Tracking, rows, FALSE), e.label = "live"
  PROVE  e.id \notin doubtful
<1>1. ~StartsAfresh /\ Tracking = tracker /\ ~tracker.needs
  BY EventsAre, TrackingIs DEF BrowserInv
<1>2. e.id \in rows /\ ~(e.id <= tracker.high) /\ ~(e.id <= tracker.cutoff)
  BY <1>1, EventsAre, TrackingIs DEF BrowserInv
<1>3. ~lost /\ epoch = lastEpoch
  BY <1>1 DEF BrowserInv, LossIsKnown, StartsAfresh
<1>4. e.id \notin removed
  BY <1>2 DEF Shown
<1> QED BY <1>1, <1>2, <1>3, <1>4 DEF BrowserInv, DoubtIsPast

LEMMA EventTypes ==
  ASSUME BrowserTypeOK, NEW t \in Tracker, NEW rows \in SUBSET Post, NEW force \in BOOLEAN
  PROVE  Events(t, rows, force) \subseteq
           [id: Post, revision: 1 .. 2, epoch: 1 .. MaxEpoch, label: {"baseline", "live"}]
BY EventsAre

LEMMA ShownIsPosted ==
  ASSUME BrowserTypeOK, NEW m \in Shown PROVE m \in Post /\ m <= posted
BY BrowserTypes1 DEF Shown

(* What a poll leaves alone, and what is of this connection, keeps the ages. *)
LEMMA PollAges ==
  ASSUME BrowserInv, UNCHANGED <<posted, epoch, copy>>, lastEpoch' \in {lastEpoch, epoch},
         doubtful' \subseteq doubtful \union Untold,
         \A e \in handing' : e.id \in Shown /\ e.epoch = epoch
  PROVE  Ages'
<1>1. Untold \subseteq 1 .. posted
  BY DEF Untold
<1>2. epoch <= epoch
  BY BrowserTypes1 DEF BrowserInv
<1>3. \A e \in handing' : e.id <= posted
  BY ShownIsPosted DEF BrowserInv
<1> QED BY <1>1, <1>2, <1>3 DEF BrowserInv, Ages

LEMMA PollReadsInv ==
  ASSUME BrowserInv, PollReads PROVE BrowserInv'
<1> DEFINE rows == IF view = "blank" THEN {} ELSE Newest(Shown, Mounted)
<1>1. /\ handing = {} /\ view \notin Broken /\ UNCHANGED <<pageVars, copy, doubtful>>
      /\ lastEpoch' = epoch /\ unavailable' = FALSE /\ stalled' = FALSE /\ lost' = FALSE
  BY DEF PollReads, Broken
<1>2. \/ rows = {} /\ tracker' = AfterNothing(Tracking) /\ handing' = {}
      \/ /\ rows # {} /\ tracker' = AfterRows(Tracking, rows)
         /\ handing' = Events(Tracking, rows, FALSE)
  BY DEF PollReads
<1>3. rows \subseteq Shown /\ rows \subseteq Post /\ rows \in SUBSET Post
  BY BrowserTypes1, NewestAreSome DEF BrowserInv
<1>4. Tracking \in Tracker /\ epoch \in 0 .. MaxEpoch /\ epoch # 0
  BY TrackingIs, BrowserTypes1 DEF BrowserInv
<1>5. \A e \in handing' :
        /\ e \in [id: Post, revision: 1 .. 2, epoch: 1 .. MaxEpoch, label: {"baseline", "live"}]
        /\ e.id \in Shown /\ e.epoch = epoch
        /\ e.label = "live" => e.id \notin doubtful
  <2>1. CASE handing' = {}
    BY <2>1
  <2>2. CASE handing' = Events(Tracking, rows, FALSE)
    <3> HIDE DEF rows
    <3> TAKE e \in handing'
    <3>1. /\ e \in [id: Post, revision: 1 .. 2, epoch: 1 .. MaxEpoch, label: {"baseline", "live"}]
          /\ e.id \in rows /\ e.epoch = epoch
      BY <1>3, <1>4, <2>2, EventsAre DEF BrowserInv
    <3>2. ASSUME e.label = "live" PROVE e.id \notin doubtful
      BY <1>3, <2>2, <3>2, LiveIsNotInDoubt
    <3> QED BY <1>3, <3>1, <3>2
  <2> QED BY <1>2, <2>1, <2>2
<1>6. /\ tracker' \in Tracker
      /\ \A m \in Shown : m <= tracker'.high \/ m <= tracker'.cutoff
  <2>1. CASE tracker' = AfterNothing(Tracking)
    BY <1>4, <2>1, AfterNothingSeen, ShownIsPosted DEF BrowserInv
  <2>2. CASE rows # {} /\ tracker' = AfterRows(Tracking, rows)
    <3>1. rows = Newest(Shown, Mounted) /\ Shown # {}
      BY <2>2, NewestAreSome
    <3>2. PICK last \in rows : \A m \in Shown : m <= last
      BY <3>1, NewestReachesTheLast DEF BrowserInv
    <3> HIDE DEF rows
    <3>3. tracker' \in Tracker /\ last <= tracker'.high
      BY <1>3, <1>4, <2>2, AfterRowsSeen
    <3>4. tracker'.high \in Nat /\ last \in Nat
      BY <1>3, <3>3, BrowserBounds DEF Tracker
    <3>5. ASSUME NEW m \in Shown PROVE m <= tracker'.high
      <4>1. m \in Nat /\ m <= last
        BY <3>2, ShownIsPosted, BrowserBounds DEF BrowserInv
      <4> QED BY <3>3, <3>4, <4>1
    <3> QED BY <3>3, <3>5
  <2> QED BY <1>2, <2>1, <2>2
<1> HIDE DEF rows
<1>7. BrowserTypeOK'
  BY <1>1, <1>4, <1>5, <1>6 DEF BrowserInv, BrowserTypeOK, pageVars, Tracker
<1>8. Ages'
  BY <1>1, <1>5, PollAges DEF pageVars
<1>9. LossIsKnown'
  BY <1>1, <1>4 DEF LossIsKnown, pageVars
<1>10. DoubtIsPast'
  <2>1. doubtful \ removed \subseteq Shown
    BY DEF BrowserInv, Ages, Shown
  <2> QED BY <1>1, <1>6, <2>1 DEF DoubtIsPast, pageVars
<1>11. LiveIsFollowed'
  BY <1>1, <1>5 DEF BrowserInv, LiveIsFollowed, pageVars
<1> QED BY <1>7, <1>8, <1>9, <1>10, <1>11 DEF BrowserInv

(* Messages that become doubtful when the reader loses the channel were not told as live. *)
LEMMA LosesLiveIsFollowed ==
  ASSUME BrowserInv, UNCHANGED <<epoch, copy>>, doubtful' = doubtful \union Untold,
         handing' = handing \/ \A e \in handing' : e.label = "baseline"
  PROVE  LiveIsFollowed'
<1>1. \A m \in Untold : copy[m].label = "none" /\ \A e \in handing : e.id # m
  BY DEF Untold
<1> QED BY <1>1 DEF BrowserInv, LiveIsFollowed

LEMMA PollScrolledInv ==
  ASSUME BrowserInv, PollScrolled PROVE BrowserInv'
<1>1. /\ handing = {} /\ view \notin Broken /\ UNCHANGED <<pageVars, copy>>
      /\ lastEpoch' = epoch /\ unavailable' = TRUE /\ stalled' = FALSE
      /\ lost' = TRUE /\ doubtful' = doubtful \union Untold
  BY DEF PollScrolled, Broken, Loses
<1>2. PICK top \in Shown :
        /\ tracker' = AfterRows(Afresh(tracker), Newest({m \in Shown : m <= top}, Mounted))
        /\ handing' = Events(Afresh(tracker), Newest({m \in Shown : m <= top}, Mounted), TRUE)
  BY DEF PollScrolled
<1> DEFINE rows == Newest({m \in Shown : m <= top}, Mounted)
<1>3. rows \subseteq Shown /\ rows \in SUBSET Post
  BY BrowserTypes1, NewestAreSome DEF BrowserInv
<1>4. Afresh(tracker) \in Tracker /\ epoch \in 0 .. MaxEpoch /\ epoch # 0
  BY AfreshNeeds, BrowserTypes1 DEF BrowserInv
<1> HIDE DEF rows
<1>5. tracker' \in Tracker
  BY <1>2, <1>3, <1>4, AfterRowsSeen DEF rows
<1>6. \A e \in handing' :
        /\ e \in [id: Post, revision: 1 .. 2, epoch: 1 .. MaxEpoch, label: {"baseline", "live"}]
        /\ e.id \in Shown /\ e.epoch = epoch /\ e.label = "baseline"
  <2> TAKE e \in handing'
  <2>1. e \in Events(Afresh(tracker), rows, TRUE)
    BY <1>2 DEF rows
  <2>2. /\ e \in [id: Post, revision: 1 .. 2, epoch: 1 .. MaxEpoch, label: {"baseline", "live"}]
        /\ e.id \in rows /\ e.epoch = epoch /\ e.label # "live"
    BY <1>3, <1>4, <2>1, EventsAre DEF BrowserInv
  <2> QED BY <1>3, <2>2
<1>7. doubtful' \subseteq Post
  BY <1>1, BrowserTypes1 DEF BrowserInv
<1>8. BrowserTypeOK'
  BY <1>1, <1>4, <1>5, <1>6, <1>7 DEF BrowserInv, BrowserTypeOK, pageVars, Tracker
<1>9. Ages'
  BY <1>1, <1>6, PollAges DEF pageVars
<1>10. LossIsKnown' /\ DoubtIsPast'
  BY <1>1, <1>4 DEF LossIsKnown, DoubtIsPast, pageVars
<1>11. LiveIsFollowed'
  BY <1>1, <1>6, LosesLiveIsFollowed DEF pageVars
<1> QED BY <1>8, <1>9, <1>10, <1>11 DEF BrowserInv

LEMMA PollFailsInv ==
  ASSUME BrowserInv, PollFails PROVE BrowserInv'
<1>1. /\ handing = {} /\ tracker' = Afresh(tracker) /\ unavailable' = TRUE /\ lost' = TRUE
      /\ UNCHANGED <<posted, edited, removed, lastEpoch, stalled, handing, copy>>
  BY DEF PollFails
<1>2. tracker' \in Tracker /\ tracker'.needs
  BY <1>1, AfreshNeeds, BrowserTypes1 DEF BrowserInv
<1>3. LossIsKnown' /\ DoubtIsPast'
  BY <1>1, <1>2 DEF LossIsKnown, DoubtIsPast
<1>4. CASE /\ view' = IF view = "closed" THEN "elsewhere" ELSE view
           /\ doubtful' = doubtful \union Untold /\ UNCHANGED epoch
  <2>1. BrowserTypeOK'
    <3>1. view' \in View /\ doubtful' \subseteq Post
      BY <1>4, BrowserTypes1 DEF BrowserInv, BrowserTypeOK, View
    <3> QED BY <1>1, <1>2, <1>4, <3>1 DEF BrowserInv, BrowserTypeOK, Tracker
  <2>2. Ages'
    BY <1>1, <1>4, PollAges
  <2>3. LiveIsFollowed'
    BY <1>1, <1>4, LosesLiveIsFollowed
  <2> QED BY <1>3, <2>1, <2>2, <2>3 DEF BrowserInv
<1>5. CASE epoch < MaxEpoch /\ Reconnects("loading")
  <2>1. epoch' \in 1 .. MaxEpoch /\ doubtful' \subseteq Post /\ LiveIsFollowed' /\ Ages'
    BY <1>1, <1>5, LastIsPast, ReconnectsInv DEF Reconnects
  <2>2. BrowserTypeOK'
    BY <1>1, <1>2, <1>5, <2>1 DEF Reconnects, BrowserInv, BrowserTypeOK, View, Tracker
  <2> QED BY <1>3, <2>1, <2>2 DEF BrowserInv
<1> QED BY <1>4, <1>5 DEF PollFails

LEMMA StallInv ==
  ASSUME BrowserInv, Stall PROVE BrowserInv'
<1> USE DEF Stall, Loses, pageVars
<1>1. doubtful' \subseteq Post
  BY BrowserTypes1 DEF BrowserInv
<1>2. BrowserTypeOK'
  BY <1>1 DEF BrowserInv, BrowserTypeOK
<1>3. Untold \subseteq 1 .. posted
  BY DEF Untold
<1>4. Ages'
  BY <1>3 DEF BrowserInv, Ages
<1>5. LossIsKnown' /\ DoubtIsPast'
  BY DEF BrowserInv, LossIsKnown, DoubtIsPast
<1>6. LiveIsFollowed'
  BY LosesLiveIsFollowed
<1> QED BY <1>2, <1>4, <1>5, <1>6 DEF BrowserInv

LEMMA HandInv ==
  ASSUME BrowserInv, NEW e \in handing, Hand(e) PROVE BrowserInv'
<1>1. /\ UNCHANGED <<posted, edited, removed, view, epoch, tracker, lastEpoch, unavailable,
                     stalled, lost, doubtful>>
      /\ handing' \subseteq handing
  BY DEF Hand, pageVars
<1>2. /\ e.id \in Post /\ e.revision \in 1 .. 2 /\ e.epoch \in 1 .. MaxEpoch
      /\ e.label \in {"baseline", "live"} /\ e.id <= posted /\ e.epoch <= epoch
      /\ e.label = "live" /\ e.epoch = epoch => e.id \notin doubtful
  BY DEF BrowserInv, BrowserTypeOK, Ages, LiveIsFollowed
<1>3. 0 \in 0 .. MaxEpoch /\ 0 \in 0 .. 2 /\ epoch \in Nat /\ 0 <= epoch /\ 0 # epoch
      /\ e.revision \in 0 .. 2 /\ e.epoch \in 0 .. MaxEpoch
  BY <1>2, BrowserBounds, BrowserTypes1 DEF BrowserInv
<1> DEFINE c == IF e.label = "live"
                THEN [label |-> "live", revision |-> e.revision, epoch |-> e.epoch]
                ELSE Told(e.label)
<1>4. /\ c \in [label: {"none", "baseline", "live", "sent"}, revision: 0 .. 2,
                epoch: 0 .. MaxEpoch]
      /\ c.epoch <= epoch
      /\ c.label = "live" => e.label = "live" /\ c.epoch = e.epoch
  BY <1>2, <1>3 DEF Told
<1>5. copy' = copy \/ copy' = [copy EXCEPT ![e.id] = c]
  BY DEF Hand
<1> HIDE DEF c
<1>6. BrowserTypeOK'
  <2>1. copy' \in [Post -> [label: {"none", "baseline", "live", "sent"}, revision: 0 .. 2,
                            epoch: 0 .. MaxEpoch]]
    BY <1>2, <1>4, <1>5 DEF BrowserInv, BrowserTypeOK
  <2> QED BY <1>1, <2>1 DEF BrowserInv, BrowserTypeOK
<1>7. \A m \in Post : \/ copy'[m] = copy[m]
                      \/ m = e.id /\ copy'[m] = c
  <2>1. CASE copy' = copy
    BY <2>1
  <2>2. CASE copy' = [copy EXCEPT ![e.id] = c]
    <3>1. \A m \in Post : copy'[m] = IF m = e.id THEN c ELSE copy[m]
      BY <1>2, <2>2 DEF BrowserInv, BrowserTypeOK
    <3> QED BY <3>1
  <2> QED BY <1>5, <2>1, <2>2
<1>8. Ages'
  <2>1. \A m \in Post : copy'[m].label # "none" => m <= posted /\ copy'[m].epoch <= epoch
    BY <1>2, <1>4, <1>7 DEF BrowserInv, Ages
  <2> QED BY <1>1, <2>1 DEF BrowserInv, Ages
<1>9. LiveIsFollowed'
  <2>1. \A m \in doubtful : ~(copy'[m].label = "live" /\ copy'[m].epoch = epoch)
    BY <1>2, <1>4, <1>7 DEF BrowserInv, LiveIsFollowed, BrowserTypeOK
  <2> QED BY <1>1, <2>1 DEF BrowserInv, LiveIsFollowed
<1> QED BY <1>1, <1>6, <1>8, <1>9 DEF BrowserInv, LossIsKnown, DoubtIsPast

LEMMA VerifyInv ==
  ASSUME BrowserInv, NEW n \in Post, Verify(n) PROVE BrowserInv'
<1>1. /\ copy[n].label = "live" /\ copy' = [copy EXCEPT ![n] = Told("sent")]
      /\ UNCHANGED <<posted, edited, removed, view, epoch, tracker, lastEpoch, unavailable,
                     stalled, handing, lost, doubtful>>
  BY DEF Verify, pageVars, readerVars
<1>2. 0 \in 0 .. MaxEpoch /\ 0 \in 0 .. 2 /\ 0 <= epoch
  BY BrowserBounds, BrowserTypes1 DEF BrowserInv
<1>3. BrowserTypeOK'
  BY <1>1, <1>2 DEF BrowserInv, BrowserTypeOK, Told
<1>4. \A m \in Post : copy'[m] = IF m = n THEN Told("sent") ELSE copy[m]
  <2> HIDE DEF Told
  <2> QED BY <1>1 DEF BrowserInv, BrowserTypeOK
<1>5. Ages'
  <2>1. \A m \in Post : copy'[m].label # "none" => m <= posted /\ copy'[m].epoch <= epoch
    BY <1>1, <1>2, <1>4 DEF BrowserInv, Ages, Told
  <2> QED BY <1>1, <2>1 DEF BrowserInv, Ages
<1>6. LiveIsFollowed'
  <2>1. \A m \in doubtful : ~(copy'[m].label = "live" /\ copy'[m].epoch = epoch)
    BY <1>4 DEF BrowserInv, LiveIsFollowed, BrowserTypeOK, Told
  <2> QED BY <1>1, <2>1 DEF BrowserInv, LiveIsFollowed
<1> QED BY <1>1, <1>3, <1>5, <1>6 DEF BrowserInv, LossIsKnown, DoubtIsPast

LEMMA BrowserStep ==
  ASSUME BrowserInv, [BrowserNext]_browserVars PROVE BrowserInv'
<1>1. CASE UNCHANGED browserVars
  BY <1>1 DEF browserVars, BrowserInv, BrowserTypeOK, Ages, LossIsKnown, DoubtIsPast,
              LiveIsFollowed
<1>2. CASE BrowserNext
  <2>1. Reappear => "loading" \in View
    BY DEF View
  <2> QED BY <1>2, <2>1, PostMessageInv, TouchInv, VerifyInv, TurnPageInv, BreakInv, PollReadsInv,
             PollScrolledInv, PollFailsInv, StallInv, HandInv, RestartsInv DEF BrowserNext
<1> QED BY <1>1, <1>2

(* The reader's and the page's state is what BrowserTypeOK says (browser.py, SnapshotTracker and
   monitor). *)
THEOREM BrowserTypes == BrowserSpec => []BrowserTypeOK
<1>1. BrowserInv => BrowserTypeOK
  BY DEF BrowserInv
<1> QED BY <1>1, BrowserInitInv, BrowserStep, PTL DEF BrowserSpec

(* What the relay is told as live, and what an order is sent on, is of a message the reader has
   followed the channel to (browser.py:213, 492), however many rows the page shows and however
   many polls, outages, stalls and restarts there are. *)
THEOREM FollowedIsLive == BrowserSpec => OnlyFollowedIsLive
<1> DEFINE Step == /\ handing = {} => \A e \in handing' : e.label = "live" => e.id \notin doubtful
                   /\ \A m \in doubtful : copy'[m].label = "sent" => copy[m].label = "sent"
<1>1. BrowserInv /\ [BrowserNext]_browserVars => [Step]_browserVars
  <2> SUFFICES ASSUME BrowserInv, BrowserNext PROVE Step
    OBVIOUS
  <2>1. CASE PollReads
    <3> DEFINE rows == IF view = "blank" THEN {} ELSE Newest(Shown, Mounted)
    <3>1. UNCHANGED copy /\ (handing' = {} \/ handing' = Events(Tracking, rows, FALSE))
      BY <2>1 DEF PollReads
    <3>2. rows \subseteq Shown /\ rows \in SUBSET Post
      BY BrowserTypes1, NewestAreSome DEF BrowserInv
    <3> HIDE DEF rows
    <3>3. \A e \in handing' : e.label = "live" => e.id \notin doubtful
      BY <3>1, <3>2, LiveIsNotInDoubt
    <3> QED BY <3>1, <3>3
  <2>2. CASE PollScrolled
    <3>1. PICK top \in Shown :
            handing' = Events(Afresh(tracker), Newest({m \in Shown : m <= top}, Mounted), TRUE)
      BY <2>2 DEF PollScrolled
    <3>2. UNCHANGED copy /\ Newest({m \in Shown : m <= top}, Mounted) \in SUBSET Post
      BY <2>2, BrowserTypes1, NewestAreSome DEF BrowserInv, PollScrolled
    <3>3. \A e \in handing' : e.label # "live"
      BY <3>1, <3>2, EventsAre, AfreshNeeds, BrowserTypes1 DEF BrowserInv
    <3> QED BY <3>2, <3>3
  <2>3. CASE \E n \in Post : Verify(n)
    <3>1. PICK n \in Post : Verify(n)
      BY <2>3
    <3>2. n \notin doubtful /\ handing' = handing
      BY <3>1 DEF Verify, readerVars, BrowserInv, LiveIsFollowed
    <3>3. \A m \in doubtful : copy'[m] = copy[m]
      BY <3>1, <3>2 DEF Verify, BrowserInv, BrowserTypeOK
    <3> QED BY <3>2, <3>3
  <2>4. CASE \E e \in handing : Hand(e)
    <3>1. PICK e \in handing : Hand(e)
      BY <2>4
    <3>2. e.id \in Post /\ e.label \in {"baseline", "live"}
      BY DEF BrowserInv, BrowserTypeOK
    <3>3. \A m \in Post : copy'[m] = copy[m] \/ copy'[m].label # "sent"
      BY <3>1, <3>2 DEF Hand, Told, BrowserInv, BrowserTypeOK
    <3> QED BY <3>1, <3>3 DEF BrowserInv, BrowserTypeOK
  <2>5. CASE handing' \subseteq handing /\ UNCHANGED copy
    BY <2>5
  <2> QED BY <2>1, <2>2, <2>3, <2>4, <2>5
          DEF BrowserNext, PostMessage, Touch, TurnPage, Break, Reappear, PollFails, Stall,
              Restarts, readerVars
<1> QED BY <1>1, BrowserInitInv, BrowserStep, PTL DEF BrowserSpec, OnlyFollowedIsLive

-----------------------------------------------------------------------------
(* Sums over finite sets. *)

(* A sum as the modules write it, and its definition. *)
SumOver(f, S) == FoldFunctionOnSet(+, 0, f, S)
Chosen(s) == CHOOSE x \in s : TRUE
Sums(f, S, g) ==
  g = [s \in SUBSET S |-> IF s = {} THEN 0 ELSE f[Chosen(s)] + g[s \ {Chosen(s)}]]

LEMMA SumIs ==
  ASSUME NEW f, NEW S
  PROVE  \E g : g = (CHOOSE h : Sums(f, S, h)) /\ SumOver(f, S) = g[S]
BY DEF SumOver, FoldFunctionOnSet, MapThenFoldSet, Sums, Chosen

(* Induction: a set of numbers with a predecessor for each of its members is empty. *)
LEMMA NoLeast ==
  ASSUME NEW B, B \subseteq Nat, 0 \notin B, \A n \in Nat : n + 1 \in B => n \in B
  PROVE  B = {}
<1> SUFFICES ASSUME B # {} PROVE FALSE
  OBVIOUS
<1>1. PICK b \in B : \A y \in B : ~(<<y, b>> \in OpToRel(<, Nat))
  BY NatLessThanWellFounded, WFMin
<1>2. \A y \in B : ~(y < b)
  BY <1>1 DEF OpToRel
<1>3. b \in Nat /\ b # 0
  OBVIOUS
<1>4. b - 1 \in Nat /\ (b - 1) + 1 = b
  BY <1>3
<1>5. b - 1 \in B
  BY <1>4
<1>6. ~(b - 1 < b)
  BY <1>2, <1>5
<1> QED BY <1>3, <1>6

(* What is left of a finite set when its chosen member is taken out. *)
LEMMA WithoutOne ==
  ASSUME NEW s, IsFiniteSet(s), NEW x \in s
  PROVE  /\ IsFiniteSet(s \ {x}) /\ Cardinality(s \ {x}) = Cardinality(s) - 1
         /\ Cardinality(s) \in Nat \ {0}
BY FS_RemoveElement, FS_CardinalityType, FS_EmptySet

LEMMA ChosenIn == ASSUME NEW s, s # {} PROVE Chosen(s) \in s
BY DEF Chosen

(* There is a function that sums over all subsets. *)
LEMMA SumsExist ==
  ASSUME NEW S, IsFiniteSet(S), NEW f, \A x \in S : f[x] \in Int
  PROVE  \E g \in [SUBSET S -> Int] : Sums(f, S, g)
<1> DEFINE Sub(n) == {s \in SUBSET S : Cardinality(s) <= n}
           Next(g, s) == IF s = {} THEN 0 ELSE f[Chosen(s)] + g[s \ {Chosen(s)}]
           Good(n) == \E g \in [Sub(n) -> Int] : \A s \in Sub(n) : g[s] = Next(g, s)
           B == {n \in Nat : ~Good(n)}
<1>1. \A s \in SUBSET S : IsFiniteSet(s) /\ Cardinality(s) \in Nat
  BY FS_Subset, FS_CardinalityType
<1>2. Good(0)
  <2>1. \A s \in Sub(0) : s = {}
    BY <1>1, FS_EmptySet
  <2> DEFINE g == [s \in Sub(0) |-> 0]
  <2>2. g \in [Sub(0) -> Int]
    OBVIOUS
  <2>3. \A s \in Sub(0) : g[s] = Next(g, s)
    BY <2>1
  <2> QED BY <2>2, <2>3
<1>3. ASSUME NEW n \in Nat, Good(n) PROVE Good(n + 1)
  <2>1. PICK g \in [Sub(n) -> Int] : \A s \in Sub(n) : g[s] = Next(g, s)
    BY <1>3
  <2> DEFINE h == [s \in Sub(n + 1) |-> Next(g, s)]
  <2>2. \A s \in Sub(n + 1) : s # {} => s \ {Chosen(s)} \in Sub(n)
    <3> SUFFICES ASSUME NEW s \in Sub(n + 1), s # {} PROVE s \ {Chosen(s)} \in Sub(n)
      OBVIOUS
    <3>1. Cardinality(s \ {Chosen(s)}) = Cardinality(s) - 1
      BY <1>1, ChosenIn, WithoutOne
    <3> QED BY <1>1, <3>1
  <2>3. \A s \in Sub(n) : s \in Sub(n + 1)
    BY <1>1
  <2>4. \A s \in Sub(n + 1) : Next(g, s) \in Int
    BY <2>2, ChosenIn
  <2>5. h \in [Sub(n + 1) -> Int]
    BY <2>4
  <2>6. \A s \in Sub(n) : h[s] = g[s]
    BY <2>1, <2>3
  <2>7. \A s \in Sub(n + 1) : h[s] = Next(h, s)
    BY <2>2, <2>6
  <2> QED BY <2>5, <2>7
<1>4. B = {}
  <2> HIDE DEF Good
  <2>1. \A n \in Nat : n + 1 \in B => n \in B
    BY <1>3
  <2>2. B \subseteq Nat /\ 0 \notin B
    BY <1>2
  <2> HIDE DEF B
  <2> QED BY <2>1, <2>2, NoLeast
<1>5. Good(Cardinality(S))
  <2> HIDE DEF Good
  <2> QED BY <1>4, FS_CardinalityType
<1>6. Sub(Cardinality(S)) = SUBSET S
  BY FS_Subset
<1>7. PICK g \in [SUBSET S -> Int] : \A s \in SUBSET S : g[s] = Next(g, s)
  BY <1>5, <1>6
<1>8. g = [s \in SUBSET S |-> Next(g, s)]
  BY <1>7
<1> QED BY <1>8 DEF Sums

(* Two such functions agree where both are defined. *)
LEMMA SumsAgree ==
  ASSUME NEW S, IsFiniteSet(S), NEW T \in SUBSET S, NEW f, NEW g, Sums(f, S, g), NEW h, Sums(f, T, h)
  PROVE  g[T] = h[T]
<1> DEFINE B == {n \in Nat : \E s \in SUBSET T : Cardinality(s) = n /\ g[s] # h[s]}
<1>1. \A s \in SUBSET T : IsFiniteSet(s) /\ Cardinality(s) \in Nat
  BY FS_Subset, FS_CardinalityType
<1>2. \A s \in SUBSET T :
        /\ g[s] = IF s = {} THEN 0 ELSE f[Chosen(s)] + g[s \ {Chosen(s)}]
        /\ h[s] = IF s = {} THEN 0 ELSE f[Chosen(s)] + h[s \ {Chosen(s)}]
  BY DEF Sums
<1>3. 0 \notin B
  BY <1>1, <1>2, FS_EmptySet
<1>4. ASSUME NEW n \in Nat, n + 1 \in B PROVE n \in B
  <2>1. PICK s \in SUBSET T : Cardinality(s) = n + 1 /\ g[s] # h[s]
    BY <1>4
  <2>2. s # {} /\ g[s \ {Chosen(s)}] # h[s \ {Chosen(s)}]
    BY <1>2, <2>1
  <2>3. Cardinality(s \ {Chosen(s)}) = n
    BY <1>1, <2>1, <2>2, ChosenIn, WithoutOne
  <2> QED BY <2>2, <2>3
<1>5. B = {}
  <2> HIDE DEF B
  <2>1. B \subseteq Nat
    BY DEF B
  <2> QED BY <1>3, <1>4, <2>1, NoLeast
<1>6. Cardinality(T) \in Nat
  BY <1>1
<1> QED BY <1>5, <1>6

(* A sum is a number, nothing for the empty set, and otherwise its chosen member and the rest. *)
LEMMA SumStep ==
  ASSUME NEW S, IsFiniteSet(S), NEW f, \A x \in S : f[x] \in Int
  PROVE  /\ SumOver(f, S) \in Int
         /\ S = {} => SumOver(f, S) = 0
         /\ S # {} => SumOver(f, S) = f[Chosen(S)] + SumOver(f, S \ {Chosen(S)})
<1> DEFINE g == CHOOSE h : Sums(f, S, h)
<1>1. PICK k \in [SUBSET S -> Int] : Sums(f, S, k)
  BY SumsExist
<1>2. Sums(f, S, g)
  BY <1>1
<1>3. SumOver(f, S) = g[S]
  BY SumIs
<1> HIDE DEF g
<1>4. g[S] = k[S]
  BY <1>1, <1>2, SumsAgree
<1>5. g[S] = IF S = {} THEN 0 ELSE f[Chosen(S)] + g[S \ {Chosen(S)}]
  BY <1>2 DEF Sums
<1>6. ASSUME S # {} PROVE SumOver(f, S \ {Chosen(S)}) = g[S \ {Chosen(S)}]
  <2> DEFINE T == S \ {Chosen(S)}
             t == CHOOSE h : Sums(f, T, h)
  <2>1. T \in SUBSET S /\ IsFiniteSet(T)
    BY FS_Subset
  <2>2. \E h : Sums(f, T, h)
    <3> HIDE DEF T
    <3> QED BY <2>1, SumsExist
  <2>3. Sums(f, T, t) /\ SumOver(f, T) = t[T]
    BY <2>2, SumIs
  <2> HIDE DEF T, t
  <2>4. g[T] = t[T]
    BY <1>2, <2>1, <2>3, SumsAgree
  <2> QED BY <2>3, <2>4 DEF T
<1> QED BY <1>3, <1>4, <1>5, <1>6

(* Any member may be taken out first. *)
LEMMA SumWithout ==
  ASSUME NEW S, IsFiniteSet(S), NEW f, \A y \in S : f[y] \in Int, NEW x \in S
  PROVE  SumOver(f, S) = f[x] + SumOver(f, S \ {x})
<1> DEFINE Splits(T, z) == SumOver(f, T) = f[z] + SumOver(f, T \ {z})
           B == {n \in Nat : \E T \in SUBSET S : \E z \in T : Cardinality(T) = n /\ ~Splits(T, z)}
<1>1. \A T \in SUBSET S : IsFiniteSet(T) /\ Cardinality(T) \in Nat
  BY FS_Subset, FS_CardinalityType
<1>2. 0 \notin B
  BY <1>1, FS_EmptySet
<1>3. ASSUME NEW n \in Nat, n + 1 \in B, n \notin B PROVE FALSE
  <2>1. PICK T \in SUBSET S : \E z \in T : Cardinality(T) = n + 1 /\ ~Splits(T, z)
    BY <1>3
  <2>2. PICK z \in T : Cardinality(T) = n + 1 /\ ~Splits(T, z)
    BY <2>1
  <2>3. PICK y \in T : y = Chosen(T)
    BY <2>2, ChosenIn
  <2>4. Splits(T, y)
    BY <1>1, <2>3, SumStep
  <2>5. y # z
    BY <2>2, <2>4
  <2>6. /\ T \ {y} \in SUBSET S /\ z \in T \ {y} /\ Cardinality(T \ {y}) = n
        /\ T \ {z} \in SUBSET S /\ y \in T \ {z} /\ Cardinality(T \ {z}) = n
    BY <1>1, <2>2, <2>5, WithoutOne
  <2>7. Splits(T \ {y}, z) /\ Splits(T \ {z}, y)
    <3> HIDE DEF Splits
    <3> QED BY <1>3, <2>6
  <2>8. (T \ {y}) \ {z} = (T \ {z}) \ {y}
    OBVIOUS
  <2>9. SumOver(f, (T \ {z}) \ {y}) \in Int /\ f[y] \in Int /\ f[z] \in Int
    BY <1>1, SumStep
  <2> DEFINE rest == SumOver(f, (T \ {z}) \ {y})
  <2>10. SumOver(f, T) = f[y] + (f[z] + rest)
    BY <2>4, <2>7, <2>8
  <2>11. SumOver(f, T \ {z}) = f[y] + rest
    BY <2>7
  <2> HIDE DEF rest
  <2>12. rest \in Int /\ f[y] \in Int /\ f[z] \in Int
    BY <2>9 DEF rest
  <2>13. SumOver(f, T) = f[z] + SumOver(f, T \ {z})
    BY <2>10, <2>11, <2>12
  <2> QED BY <2>2, <2>13
<1>4. B = {}
  <2> HIDE DEF Splits
  <2>1. B \subseteq Nat
    OBVIOUS
  <2> HIDE DEF B
  <2> QED BY <1>2, <1>3, <2>1, NoLeast
<1> QED BY <1>1, <1>4

(* A sum depends on nothing but the values it adds. *)
LEMMA SumSame ==
  ASSUME NEW S, IsFiniteSet(S), NEW f, NEW g, \A x \in S : f[x] \in Int /\ g[x] = f[x]
  PROVE  SumOver(g, S) = SumOver(f, S)
<1> DEFINE B == {n \in Nat : \E T \in SUBSET S : Cardinality(T) = n /\ SumOver(g, T) # SumOver(f, T)}
<1>1. \A T \in SUBSET S : IsFiniteSet(T) /\ Cardinality(T) \in Nat
  BY FS_Subset, FS_CardinalityType
<1>2. ASSUME NEW T \in SUBSET S
      PROVE  /\ T = {} => SumOver(g, T) = 0 /\ SumOver(f, T) = 0
             /\ T # {} => /\ SumOver(g, T) = g[Chosen(T)] + SumOver(g, T \ {Chosen(T)})
                          /\ SumOver(f, T) = f[Chosen(T)] + SumOver(f, T \ {Chosen(T)})
                          /\ g[Chosen(T)] = f[Chosen(T)]
  BY <1>1, SumStep, ChosenIn
<1>3. 0 \notin B
  BY <1>1, <1>2, FS_EmptySet
<1>4. ASSUME NEW n \in Nat, n + 1 \in B PROVE n \in B
  <2>1. PICK T \in SUBSET S : Cardinality(T) = n + 1 /\ SumOver(g, T) # SumOver(f, T)
    BY <1>4
  <2>2. T # {} /\ SumOver(g, T \ {Chosen(T)}) # SumOver(f, T \ {Chosen(T)})
    BY <1>2, <2>1
  <2>3. Cardinality(T \ {Chosen(T)}) = n /\ T \ {Chosen(T)} \in SUBSET S
    BY <1>1, <2>1, <2>2, ChosenIn, WithoutOne
  <2> QED BY <2>2, <2>3
<1>5. B = {}
  <2>1. B \subseteq Nat
    OBVIOUS
  <2> HIDE DEF B
  <2> QED BY <1>3, <1>4, <2>1, NoLeast
<1> QED BY <1>1, <1>5

LEMMA SumWith ==
  ASSUME NEW S, IsFiniteSet(S), NEW x, x \notin S, NEW f, \A y \in S \union {x} : f[y] \in Int
  PROVE  SumOver(f, S \union {x}) = f[x] + SumOver(f, S)
<1>1. IsFiniteSet(S \union {x}) /\ (S \union {x}) \ {x} = S
  BY FS_AddElement
<1> DEFINE T == S \union {x}
<1>2. IsFiniteSet(T) /\ x \in T /\ T \ {x} = S /\ \A y \in T : f[y] \in Int
  BY <1>1
<1> HIDE DEF T
<1>3. SumOver(f, T) = f[x] + SumOver(f, S)
  BY <1>2, SumWithout
<1> QED BY <1>3 DEF T

LEMMA SumOne ==
  ASSUME NEW x, NEW f, f[x] \in Int PROVE SumOver(f, {x}) = f[x]
<1>1. IsFiniteSet({x}) /\ IsFiniteSet({}) /\ {x} \ {x} = {}
  BY FS_Singleton, FS_EmptySet
<1>2. SumOver(f, {x}) = f[x] + SumOver(f, {x} \ {x})
  <2>1. x \in {x} /\ \A y \in {x} : f[y] \in Int
    OBVIOUS
  <2> QED BY <1>1, <2>1, SumWithout
<1>3. PICK none : none = {}
  OBVIOUS
<1>4. SumOver(f, {x}) = f[x] + SumOver(f, none) /\ SumOver(f, none) = 0
  BY <1>1, <1>2, <1>3, SumStep
<1> QED BY <1>4

(* One value changes. *)
LEMMA SumChange ==
  ASSUME NEW S, IsFiniteSet(S), NEW f, NEW g, NEW x \in S,
         \A y \in S : f[y] \in Int /\ g[y] \in Int, \A y \in S \ {x} : g[y] = f[y]
  PROVE  SumOver(g, S) = SumOver(f, S) - f[x] + g[x]
<1>1. IsFiniteSet(S \ {x})
  BY FS_RemoveElement
<1>2. SumOver(g, S \ {x}) = SumOver(f, S \ {x})
  BY <1>1, SumSame
<1>3. SumOver(f, S) = f[x] + SumOver(f, S \ {x}) /\ SumOver(g, S) = g[x] + SumOver(g, S \ {x})
  BY SumWithout
<1>4. SumOver(f, S \ {x}) \in Int
  BY <1>1, SumStep
<1> QED BY <1>2, <1>3, <1>4

(* A sum of naturals is one, and no less than any of them. *)
LEMMA SumNatural ==
  ASSUME NEW S, IsFiniteSet(S), NEW f, \A y \in S : f[y] \in Nat
  PROVE  SumOver(f, S) \in Nat
<1> DEFINE B == {n \in Nat : \E T \in SUBSET S : Cardinality(T) = n /\ SumOver(f, T) \notin Nat}
<1>1. \A T \in SUBSET S : IsFiniteSet(T) /\ Cardinality(T) \in Nat
  BY FS_Subset, FS_CardinalityType
<1>2. 0 \notin B
  <2>1. \A T \in SUBSET S : Cardinality(T) = 0 => T = {}
    BY <1>1, FS_EmptySet
  <2>2. SumOver(f, {}) = 0
    BY <1>1, SumStep
  <2> QED BY <2>1, <2>2
<1>3. ASSUME NEW n \in Nat, n + 1 \in B PROVE n \in B
  <2>1. PICK T \in SUBSET S : Cardinality(T) = n + 1 /\ SumOver(f, T) \notin Nat
    BY <1>3
  <2>2. /\ IsFiniteSet(T) /\ T \subseteq S
        /\ \A y \in T : f[y] \in Nat
        /\ \A y \in T : f[y] \in Int
    BY <1>1
  <2>3. T # {}
    <3>1. T = {} => SumOver(f, T) = 0
      BY <2>2, SumStep
    <3> QED BY <2>1, <3>1
  <2>4. PICK c \in T : SumOver(f, T) = f[c] + SumOver(f, T \ {c})
    <3>1. SumOver(f, T) = f[Chosen(T)] + SumOver(f, T \ {Chosen(T)})
      BY <2>2, <2>3, SumStep
    <3> QED BY <2>3, <3>1, ChosenIn
  <2>5. SumOver(f, T \ {c}) \notin Nat
    BY <2>1, <2>2, <2>4
  <2>6. Cardinality(T \ {c}) = n /\ T \ {c} \in SUBSET S
    BY <2>1, <2>2, WithoutOne
  <2> QED BY <2>5, <2>6
<1>4. B = {}
  <2>1. B \subseteq Nat
    OBVIOUS
  <2> HIDE DEF B
  <2> QED BY <1>2, <1>3, <2>1, NoLeast
<1> QED BY <1>1, <1>4

LEMMA SumAtLeast ==
  ASSUME NEW S, IsFiniteSet(S), NEW f, \A y \in S : f[y] \in Nat, NEW x \in S
  PROVE  SumOver(f, S) \in Nat /\ f[x] <= SumOver(f, S)
<1>1. SumOver(f, S) = f[x] + SumOver(f, S \ {x})
  <2>1. \A y \in S : f[y] \in Int
    OBVIOUS
  <2> QED BY <2>1, SumWithout
<1>2. IsFiniteSet(S \ {x})
  BY FS_RemoveElement
<1>3. SumOver(f, S \ {x}) \in Nat
  BY <1>2, SumNatural
<1> QED BY <1>1, <1>3

-----------------------------------------------------------------------------
(* Snapshot. *)

BrokerOrder == [contract: AccountContract, side: Sides, left: 0 .. MaxLot]
OrderBooks == [WorkingOrder -> BrokerOrder]

(* Since they were read, what was free has only grown, and what is held or to be bought only
   shrunk: an order of the owner would be the only exception. *)
ReadStandsSafely ==
  snapshot = ReadingSnapshot /\ "positions" \in got /\ ~ordered =>
    \A c \in AccountContract :
      /\ positions[c].quantity - positions[c].pendingSell <= FreeContracts(c)
      /\ contracts[c] + Promised(working, "buy", c) <= positions[c].quantity + positions[c].pendingBuy

SnapshotInv ==
  /\ contracts \in [AccountContract -> Nat] /\ working \in OrderBooks /\ orders \in OrderBooks
  /\ positions \in [AccountContract -> [quantity: Nat, pendingBuy: Nat, pendingSell: Nat]]
  /\ \A c \in AccountContract : FreeContracts(c) >= 0
  /\ ordered \in BOOLEAN /\ got \subseteq {"positions", "orders"}
  /\ snapshot.state \in {"reading", "error", "read"}
  /\ ReadStandsSafely

-----------------------------------------------------------------------------

(* What an order promises to one side of a contract. *)
Share(r, side, c) == IF r.side = side /\ r.contract = c THEN r.left ELSE 0

Lefts(book) == [o \in WorkingOrder |-> book[o].left]
Of(book, side, c) == {o \in WorkingOrder : book[o].side = side /\ book[o].contract = c}

LEMMA PromisedIs ==
  ASSUME NEW book, NEW side, NEW c
  PROVE  Promised(book, side, c) = SumOver(Lefts(book), Of(book, side, c))
BY DEF Promised, SumOver, Lefts, Of

LEMMA LeftsAre ==
  ASSUME NEW book \in OrderBooks, NEW side, NEW c
  PROVE  /\ IsFiniteSet(Of(book, side, c)) /\ Of(book, side, c) \subseteq WorkingOrder
         /\ \A o \in WorkingOrder : Lefts(book)[o] \in Nat /\ Lefts(book)[o] = book[o].left
<1>1. MaxLot \in Nat /\ IsFiniteSet(WorkingOrder)
  BY SnapshotAssumption
<1>2. Of(book, side, c) \subseteq WorkingOrder
  BY DEF Of
<1>3. \A o \in WorkingOrder : Lefts(book)[o] = book[o].left /\ book[o].left \in 0 .. MaxLot
  BY DEF OrderBooks, BrokerOrder, Lefts
<1> QED BY <1>1, <1>2, <1>3, FS_Subset

(* What is promised is a number, and not less than any share of it. *)
LEMMA PromisedCovers ==
  ASSUME NEW book \in OrderBooks, NEW side, NEW c
  PROVE  /\ Promised(book, side, c) \in Nat
         /\ \A o \in WorkingOrder : Share(book[o], side, c) <= Promised(book, side, c)
<1> DEFINE S == Of(book, side, c)
           f == Lefts(book)
<1>1. IsFiniteSet(S) /\ \A o \in S : f[o] \in Nat
  BY LeftsAre
<1> HIDE DEF S, f
<1>2. SumOver(f, S) \in Nat
  BY <1>1, SumNatural
<1>3. \A o \in S : f[o] <= SumOver(f, S)
  BY <1>1, SumAtLeast
<1>4. Promised(book, side, c) = SumOver(f, S)
  BY PromisedIs DEF S, f
<1>5. ASSUME NEW o \in WorkingOrder PROVE Share(book[o], side, c) <= SumOver(f, S)
  <2>1. CASE o \in S
    BY <1>3, <2>1 DEF Share, S, f, Of, Lefts
  <2>2. CASE o \notin S
    BY <1>2, <2>2 DEF Share, S, Of
  <2> QED BY <2>1, <2>2
<1> QED BY <1>2, <1>4, <1>5

(* One order changes: its old share goes, its new share comes. *)
LEMMA PromisedChanges ==
  ASSUME NEW book \in OrderBooks, NEW next \in OrderBooks, NEW o \in WorkingOrder, NEW side, NEW c,
         \A p \in WorkingOrder \ {o} : next[p] = book[p]
  PROVE  Promised(next, side, c)
           = Promised(book, side, c) - Share(book[o], side, c) + Share(next[o], side, c)
<1> DEFINE r == next[o]
           S == Of(book, side, c) \ {o}
           f == Lefts(book)
           g == Lefts(next)
<1>1. next \in OrderBooks /\ next[o] = r /\ \A p \in WorkingOrder \ {o} : next[p] = book[p]
  OBVIOUS
<1> HIDE DEF r
<1>2. \A p \in WorkingOrder : f[p] \in Nat /\ f[p] = book[p].left
  BY LeftsAre
<1>3. \A p \in WorkingOrder : g[p] \in Nat /\ g[p] = next[p].left
  BY <1>1, LeftsAre
<1>4. IsFiniteSet(S) /\ S \subseteq WorkingOrder /\ o \notin S
  BY LeftsAre, FS_Subset
<1>5. Of(book, side, c) = IF book[o].side = side /\ book[o].contract = c THEN S \union {o} ELSE S
  BY DEF Of
<1>6. Of(next, side, c) = IF r.side = side /\ r.contract = c THEN S \union {o} ELSE S
  BY <1>1 DEF Of
<1> HIDE DEF S, f, g
<1>7. SumOver(g, S) = SumOver(f, S)
  BY <1>1, <1>2, <1>3, <1>4, SumSame
<1>8. SumOver(f, S \union {o}) = f[o] + SumOver(f, S) /\ SumOver(g, S \union {o}) = g[o] + SumOver(g, S)
  <2>1. \A p \in S \union {o} : f[p] \in Int /\ g[p] \in Int
    BY <1>2, <1>3, <1>4
  <2> QED BY <1>4, <2>1, SumWith
<1>9. SumOver(f, S) \in Nat
  BY <1>2, <1>4, SumNatural
<1>10. SumOver(f, Of(book, side, c)) = SumOver(f, S) + Share(book[o], side, c)
  BY <1>2, <1>5, <1>8, <1>9 DEF Share
<1>11. SumOver(g, Of(next, side, c)) = SumOver(f, S) + Share(r, side, c)
  BY <1>1, <1>3, <1>6, <1>7, <1>8, <1>9 DEF Share
<1>12. Promised(book, side, c) = SumOver(f, Of(book, side, c)) /\ Promised(next, side, c) = SumOver(g, Of(next, side, c))
  BY PromisedIs DEF f, g
<1>13. Share(book[o], side, c) \in Nat /\ Share(r, side, c) \in Nat
  BY <1>1, <1>2, <1>3 DEF Share
<1> QED BY <1>1, <1>9, <1>10, <1>11, <1>12, <1>13 DEF r

LEMMA BrokerOrders ==
  /\ MaxLot \in Nat \ {0} /\ 0 \in 0 .. MaxLot /\ NotPlaced \in BrokerOrder
  /\ \A r \in BrokerOrder : r.left \in Nat /\ r.side \in Sides /\ r.contract \in AccountContract
BY SnapshotAssumption DEF BrokerOrder, NotPlaced, Sides

LEMMA SnapshotInitInv == SnapshotInit => SnapshotInv
<1> SUFFICES ASSUME SnapshotInit PROVE SnapshotInv
  OBVIOUS
<1>1. \A c \in AccountContract : contracts[c] \in Nat
  BY BrokerOrders DEF SnapshotInit
<1>2. contracts \in [AccountContract -> Nat]
  BY <1>1 DEF SnapshotInit
<1>3. working = [o \in WorkingOrder |-> NotPlaced]
  BY DEF SnapshotInit
<1>4. working \in OrderBooks
  BY <1>3, BrokerOrders DEF OrderBooks
<1>5. \A c \in AccountContract :
        Promised(working, "sell", c) \in Nat /\ Promised(working, "buy", c) \in Nat
  BY <1>4, PromisedCovers
<1>6. \A c \in AccountContract : Promised(working, "sell", c) = 0
  <2> TAKE c \in AccountContract
  <2>1. Of(working, "sell", c) = {}
    BY <1>3 DEF Of, NotPlaced
  <2>2. SumOver(Lefts(working), {}) = 0
    BY FS_EmptySet, SumStep
  <2> QED BY <2>1, <2>2, PromisedIs
<1>7. positions \in [AccountContract -> [quantity: Nat, pendingBuy: Nat, pendingSell: Nat]]
  BY <1>1, <1>5 DEF SnapshotInit, Position
<1>8. \A c \in AccountContract : FreeContracts(c) >= 0
  BY <1>1, <1>6 DEF FreeContracts
<1>9. orders \in OrderBooks /\ ordered \in BOOLEAN /\ got = {} /\ snapshot.state = "error"
  BY <1>4 DEF SnapshotInit, RefusedSnapshot, Result
<1> QED BY <1>2, <1>4, <1>7, <1>8, <1>9 DEF SnapshotInv, ReadStandsSafely

(* Only the account's owner and its fills, in the order book, disturb the account. *)
LEMMA PlaceInv ==
  ASSUME SnapshotInv, NEW o \in WorkingOrder, Place(o) PROVE SnapshotInv'
<1>1. PICK d \in AccountContract, side \in Sides, n \in 1 .. MaxLot :
        /\ side = "sell" => n <= FreeContracts(d)
        /\ working' = [working EXCEPT ![o] = [contract |-> d, side |-> side, left |-> n]]
  BY DEF Place
<1> DEFINE r == [contract |-> d, side |-> side, left |-> n]
<1>2. working[o].left = 0 /\ ordered' = TRUE /\ UNCHANGED <<contracts, got, positions, orders, snapshot>>
  BY DEF Place
<1>3. n \in 0 .. MaxLot /\ n \in Nat
  BY BrokerOrders
<1>4. r \in BrokerOrder /\ r.contract = d /\ r.side = side /\ r.left = n
  BY <1>3 DEF BrokerOrder
<1> HIDE DEF r
<1>5. /\ working' \in OrderBooks
      /\ \A c : Promised(working', "sell", c) =
            Promised(working, "sell", c) - Share(working[o], "sell", c) + Share(r, "sell", c)
  <2>1. working \in OrderBooks /\ working' = [working EXCEPT ![o] = r]
    BY <1>1 DEF SnapshotInv, r
  <2>2. working \in OrderBooks /\ working' \in OrderBooks /\ working'[o] = r
        /\ \A p \in WorkingOrder \ {o} : working'[p] = working[p]
    BY <1>4, <2>1 DEF OrderBooks
  <2>3. ASSUME NEW s, NEW c
        PROVE  Promised(working', s, c)
                 = Promised(working, s, c) - Share(working[o], s, c) + Share(working'[o], s, c)
    BY <2>2, PromisedChanges
  <2> QED BY <2>2, <2>3
<1>6. ASSUME NEW c \in AccountContract PROVE FreeContracts(c)' >= 0
  <2>1. /\ contracts[c] \in Nat /\ Promised(working, "sell", c) \in Nat
        /\ contracts[c] - Promised(working, "sell", c) >= 0
    BY PromisedCovers DEF SnapshotInv, FreeContracts
  <2>2. Share(working[o], "sell", c) = 0
    BY <1>2 DEF Share
  <2>3. Share(r, "sell", c) = 0 \/ (c = d /\ side = "sell" /\ Share(r, "sell", c) = n)
    BY <1>4 DEF Share
  <2>4. Promised(working', "sell", c) = Promised(working, "sell", c) + Share(r, "sell", c)
    BY <1>3, <1>5, <2>1, <2>2, <2>3
  <2>5. contracts[c] - Promised(working', "sell", c) >= 0
    BY <1>1, <1>3, <2>1, <2>3, <2>4 DEF FreeContracts
  <2> QED BY <1>2, <2>5 DEF FreeContracts
<1> QED BY <1>2, <1>5, <1>6 DEF SnapshotInv, ReadStandsSafely

(* A fill or a cancellation makes nothing less free, and adds nothing to what is held or bought. *)
LEMMA SettleInv ==
  ASSUME SnapshotInv, NEW o \in WorkingOrder, FillOne(o) \/ CancelRest(o) PROVE SnapshotInv'
<1> DEFINE d == working[o].contract
           side == working[o].side
           n == working[o].left
<1>1. n \in Nat /\ n > 0 /\ side \in Sides /\ d \in AccountContract /\ n - 1 \in 0 .. MaxLot
      /\ working[o] \in BrokerOrder
  <2>1. working[o] \in BrokerOrder /\ n > 0
    BY DEF SnapshotInv, OrderBooks, FillOne, CancelRest
  <2>2. n \in 0 .. MaxLot
    BY <2>1 DEF BrokerOrder
  <2> QED BY <2>1, <2>2, BrokerOrders
<1>2. UNCHANGED <<ordered, got, positions, orders, snapshot>>
  BY DEF FillOne, CancelRest
<1>3. PICK m \in 0 .. MaxLot :
        /\ working' = [working EXCEPT ![o] = [working[o] EXCEPT !.left = m]]
        /\ \/ /\ m = n - 1
              /\ contracts' = [contracts EXCEPT ![d] = IF side = "buy" THEN @ + 1 ELSE @ - 1]
           \/ m = 0 /\ contracts' = contracts
  <2>1. CASE FillOne(o)
    BY <1>1, <2>1 DEF FillOne, SnapshotInv, OrderBooks
  <2>2. CASE CancelRest(o)
    BY <2>2, BrokerOrders DEF CancelRest, SnapshotInv, OrderBooks
  <2> QED BY <2>1, <2>2
<1> DEFINE r == [working[o] EXCEPT !.left = m]
<1>4. r \in BrokerOrder /\ r.left = m /\ r.side = side /\ r.contract = d
  BY <1>1 DEF BrokerOrder
<1> HIDE DEF r
<1>5. /\ working' \in OrderBooks
      /\ \A s, c : Promised(working', s, c) =
            Promised(working, s, c) - Share(working[o], s, c) + Share(r, s, c)
  <2>1. working \in OrderBooks /\ working' = [working EXCEPT ![o] = r]
    BY <1>3 DEF SnapshotInv, r
  <2>2. working \in OrderBooks /\ working' \in OrderBooks /\ working'[o] = r
        /\ \A p \in WorkingOrder \ {o} : working'[p] = working[p]
    BY <1>4, <2>1 DEF OrderBooks
  <2>3. ASSUME NEW s, NEW c
        PROVE  Promised(working', s, c)
                 = Promised(working, s, c) - Share(working[o], s, c) + Share(working'[o], s, c)
    BY <2>2, PromisedChanges
  <2> QED BY <2>2, <2>3
<1> HIDE DEF d, side, n
<1>6. ASSUME NEW c \in AccountContract
      PROVE  /\ contracts'[c] \in Nat
             /\ FreeContracts(c) <= FreeContracts(c)'
             /\ contracts'[c] + Promised(working', "buy", c)
                  <= contracts[c] + Promised(working, "buy", c)
             /\ FreeContracts(c) \in Nat /\ FreeContracts(c)' \in Nat
             /\ contracts[c] + Promised(working, "buy", c) \in Nat
             /\ contracts'[c] + Promised(working', "buy", c) \in Nat
  <2> DEFINE sells == Promised(working, "sell", c)
             buys == Promised(working, "buy", c)
  <2>1. contracts[c] \in Nat /\ sells \in Nat /\ buys \in Nat /\ contracts[c] - sells >= 0
    BY PromisedCovers DEF SnapshotInv, FreeContracts
  <2>2. Share(working[o], "sell", c) <= sells
    BY PromisedCovers DEF SnapshotInv
  <2>3. Promised(working', "sell", c) \in Nat /\ Promised(working', "buy", c) \in Nat
    BY <1>5, PromisedCovers
  <2>4. /\ Share(working[o], "sell", c) = IF side = "sell" /\ d = c THEN n ELSE 0
        /\ Share(working[o], "buy", c) = IF side = "buy" /\ d = c THEN n ELSE 0
        /\ Share(r, "sell", c) = IF side = "sell" /\ d = c THEN m ELSE 0
        /\ Share(r, "buy", c) = IF side = "buy" /\ d = c THEN m ELSE 0
    BY <1>4 DEF Share, d, side, n
  <2>5. /\ Promised(working', "sell", c) = sells - Share(working[o], "sell", c) + Share(r, "sell", c)
        /\ Promised(working', "buy", c) = buys - Share(working[o], "buy", c) + Share(r, "buy", c)
    BY <1>5
  <2>6. m \in Nat /\ m < n
    BY <1>1, <1>3, BrokerOrders DEF n
  <2>7. contracts'[c] = IF c = d /\ m = n - 1 /\ contracts' # contracts
                        THEN IF side = "buy" THEN contracts[c] + 1 ELSE contracts[c] - 1
                        ELSE contracts[c]
    <3>1. CASE contracts' = contracts
      BY <3>1
    <3>2. CASE /\ m = n - 1
               /\ contracts' = [contracts EXCEPT ![d] = IF side = "buy" THEN @ + 1 ELSE @ - 1]
      BY <3>2 DEF SnapshotInv
    <3> QED BY <1>3, <3>1, <3>2
  <2> HIDE DEF sells, buys
  <2>8. side \in {"buy", "sell"} /\ n \in Nat
    BY <1>1 DEF Sides, side, n
  <2>9. FreeContracts(c) = contracts[c] - sells
        /\ FreeContracts(c)' = contracts'[c] - Promised(working', "sell", c)
    BY DEF FreeContracts, sells
  <2>10. CASE d # c
    BY <2>1, <2>3, <2>4, <2>5, <2>7, <2>9, <2>10 DEF sells, buys
  <2>11. CASE d = c /\ side = "buy"
    BY <2>1, <2>3, <2>4, <2>5, <2>6, <2>7, <2>8, <2>9, <2>11 DEF sells, buys
  <2>12. CASE d = c /\ side = "sell"
    BY <2>1, <2>2, <2>3, <2>4, <2>5, <2>6, <2>7, <2>8, <2>9, <2>12 DEF sells, buys
  <2> QED BY <2>8, <2>10, <2>11, <2>12
<1>7. contracts' \in [AccountContract -> Nat]
  <2>1. DOMAIN contracts' = AccountContract /\ contracts' = [c \in AccountContract |-> contracts'[c]]
    BY <1>3 DEF SnapshotInv
  <2> QED BY <1>6, <2>1
<1>8. ReadStandsSafely'
  <2> SUFFICES ASSUME (snapshot = ReadingSnapshot /\ "positions" \in got /\ ~ordered)',
                      NEW c \in AccountContract
               PROVE  /\ positions[c].quantity - positions[c].pendingSell <= FreeContracts(c)'
                      /\ contracts'[c] + Promised(working', "buy", c)
                           <= positions[c].quantity + positions[c].pendingBuy
    BY <1>2 DEF ReadStandsSafely
  <2>1. /\ positions[c].quantity - positions[c].pendingSell <= FreeContracts(c)
        /\ contracts[c] + Promised(working, "buy", c) <= positions[c].quantity + positions[c].pendingBuy
    BY <1>2 DEF SnapshotInv, ReadStandsSafely, ReadingSnapshot
  <2>2. positions[c].quantity \in Nat /\ positions[c].pendingSell \in Nat /\ positions[c].pendingBuy \in Nat
    BY DEF SnapshotInv
  <2> QED BY <1>6, <2>1, <2>2
<1> QED BY <1>2, <1>5, <1>6, <1>7, <1>8 DEF SnapshotInv

LEMMA ReadingInv ==
  ASSUME SnapshotInv,
         BeginSnapshot \/ ReadPositions \/ ReadOrders \/ FailSnapshot \/ EndSnapshot
  PROVE  SnapshotInv'
<1>1. /\ UNCHANGED <<contracts, working>>
      /\ \A c \in AccountContract : FreeContracts(c)' = FreeContracts(c)
      /\ \A c, side : Promised(working, side, c)' = Promised(working, side, c)
  BY DEF BeginSnapshot, ReadPositions, ReadOrders, FailSnapshot, EndSnapshot, FreeContracts
<1>2. \A c \in AccountContract :
        /\ contracts[c] \in Nat /\ FreeContracts(c) = contracts[c] - Promised(working, "sell", c)
        /\ Promised(working, "sell", c) \in Nat /\ Promised(working, "buy", c) \in Nat
  BY PromisedCovers DEF SnapshotInv, FreeContracts
<1>3. CASE BeginSnapshot
  BY <1>1, <1>3 DEF BeginSnapshot, SnapshotInv, ReadStandsSafely, ReadingSnapshot, Result
<1>4. CASE ReadPositions
  <2>1. /\ positions' = [c \in AccountContract |-> Position(c)]
        /\ got' \subseteq {"positions", "orders"} /\ UNCHANGED <<ordered, orders, snapshot>>
    BY <1>4 DEF ReadPositions, SnapshotInv
  <2>2. positions' \in [AccountContract -> [quantity: Nat, pendingBuy: Nat, pendingSell: Nat]]
    BY <1>2, <2>1 DEF Position
  <2>3. \A c \in AccountContract :
          /\ positions'[c].quantity - positions'[c].pendingSell = FreeContracts(c)
          /\ positions'[c].quantity + positions'[c].pendingBuy = contracts[c] + Promised(working, "buy", c)
    BY <1>2, <2>1 DEF Position
  <2>4. ReadStandsSafely'
    <3> SUFFICES ASSUME NEW c \in AccountContract
                 PROVE  /\ (positions[c].quantity - positions[c].pendingSell <= FreeContracts(c))'
                        /\ (contracts[c] + Promised(working, "buy", c)
                              <= positions[c].quantity + positions[c].pendingBuy)'
      BY DEF ReadStandsSafely
    <3>1. FreeContracts(c) \in Int /\ contracts[c] + Promised(working, "buy", c) \in Int
      BY <1>2
    <3> QED BY <1>1, <2>3, <3>1
  <2> QED BY <1>1, <2>1, <2>2, <2>4 DEF SnapshotInv
<1>5. CASE ReadOrders
  BY <1>1, <1>5 DEF ReadOrders, SnapshotInv, ReadStandsSafely
<1>6. CASE FailSnapshot
  BY <1>1, <1>6 DEF FailSnapshot, SnapshotInv, ReadStandsSafely, RefusedSnapshot, ReadingSnapshot, Result
<1>7. CASE EndSnapshot
  <2>1. snapshot'.state \in {"error", "read"} /\ snapshot' # ReadingSnapshot
        /\ UNCHANGED <<ordered, got, positions, orders>>
    BY <1>7 DEF EndSnapshot, RefusedSnapshot, ReadingSnapshot, Result
  <2> QED BY <1>1, <2>1 DEF SnapshotInv, ReadStandsSafely
<1> QED BY <1>3, <1>4, <1>5, <1>6, <1>7

LEMMA SnapshotStep ==
  ASSUME SnapshotInv, [SnapshotNext]_snapshotVars PROVE SnapshotInv'
<1>1. CASE SnapshotNext
  BY <1>1, PlaceInv, SettleInv, ReadingInv DEF SnapshotNext
<1>2. CASE UNCHANGED snapshotVars
  BY <1>2 DEF snapshotVars, SnapshotInv, ReadStandsSafely, FreeContracts
<1> QED BY <1>1, <1>2

(* The account's and the snapshot's variables keep their types, and no working sell promises what
   is not held. *)
THEOREM SnapshotTypes == SnapshotSpec => []SnapshotTypeOK
<1>1. SnapshotInv => SnapshotTypeOK
  BY DEF SnapshotInv, SnapshotTypeOK, OrderBooks, BrokerOrder
<1> QED BY <1>1, SnapshotInitInv, SnapshotStep, PTL DEF SnapshotSpec

(* Whatever fills or is cancelled between the reads, a snapshot that no order overtook calls
   nothing free that is promised to a sell, and leaves out no buy of a contract it lists
   (broker.py:1970), for any number of contracts and orders. *)
THEOREM SnapshotIsSafe == SnapshotSpec => SnapshotErrsSafely
<1>1. ASSUME SnapshotInv, EndSnapshot, snapshot'.state = "read", ~ordered
      PROVE  /\ \A c \in AccountContract : snapshot'.available[c] <= FreeContracts(c)
             /\ \A c \in Listed : contracts[c] + Promised(working, "buy", c) <= snapshot'.exposure[c]
  <2>1. /\ snapshot = ReadingSnapshot /\ "positions" \in got
        /\ Consistent
        /\ snapshot'.available = [c \in AccountContract |->
              IF c \in Listed THEN positions[c].quantity - Unavailable(c) ELSE 0]
        /\ snapshot'.exposure = [c \in AccountContract |->
              positions[c].quantity + Promised(orders, "buy", c)]
    BY <1>1 DEF EndSnapshot, RefusedSnapshot, Result
  <2> SUFFICES ASSUME NEW c \in AccountContract
               PROVE  /\ snapshot'.available[c] <= FreeContracts(c)
                      /\ c \in Listed =>
                           contracts[c] + Promised(working, "buy", c) <= snapshot'.exposure[c]
    BY DEF Listed
  <2>2. /\ positions[c].quantity - positions[c].pendingSell <= FreeContracts(c)
        /\ contracts[c] + Promised(working, "buy", c) <= positions[c].quantity + positions[c].pendingBuy
    BY <1>1, <2>1 DEF SnapshotInv, ReadStandsSafely
  <2>3. /\ positions[c].quantity \in Nat /\ positions[c].pendingSell \in Nat /\ positions[c].pendingBuy \in Nat
        /\ Promised(orders, "buy", c) \in Nat /\ Promised(orders, "sell", c) \in Nat
        /\ Promised(working, "buy", c) \in Nat /\ Promised(working, "sell", c) \in Nat
        /\ contracts[c] \in Nat /\ FreeContracts(c) = contracts[c] - Promised(working, "sell", c)
        /\ FreeContracts(c) >= 0
    BY <1>1, PromisedCovers DEF SnapshotInv, FreeContracts
  <2>4. Unavailable(c) >= positions[c].pendingSell /\ Unavailable(c) \in Nat
    BY <2>3 DEF Unavailable
  <2>5. snapshot'.available[c] <= FreeContracts(c)
    <3>1. snapshot'.available[c] = IF c \in Listed THEN positions[c].quantity - Unavailable(c) ELSE 0
      BY <2>1
    <3> HIDE DEF Unavailable, FreeContracts
    <3> QED BY <2>2, <2>3, <2>4, <3>1
  <2>6. ASSUME c \in Listed
        PROVE  contracts[c] + Promised(working, "buy", c) <= snapshot'.exposure[c]
    <3>1. positions[c].pendingBuy <= Promised(orders, "buy", c)
      BY <2>1, <2>6 DEF Consistent, Represented
    <3>2. snapshot'.exposure[c] = positions[c].quantity + Promised(orders, "buy", c)
      BY <2>1
    <3> QED BY <2>2, <2>3, <3>1, <3>2
  <2> QED BY <2>5, <2>6
<1>2. SnapshotInv /\ [SnapshotNext]_snapshotVars => [AvailableIsFree /\ ExposureCoversListed]_snapshotVars
  BY <1>1 DEF AvailableIsFree, ExposureCoversListed
<1> QED BY <1>2, SnapshotInitInv, SnapshotStep, PTL DEF SnapshotSpec, SnapshotErrsSafely

-----------------------------------------------------------------------------
(* Paper. *)

(* The contracts and the cash that a filled order brings in. *)
Brings(b) == (IF b.side = "buy" THEN 1 ELSE -1) * b.quantity
Pays(b) == (IF b.side = "buy" THEN -1 ELSE 1) * PaperPrice(b) * b.quantity - PaperFee * b.quantity

Placed == [PaperOrder -> [status: PaperStatus, body: PaperBody]]
Ordered == [PaperOrder -> PaperBody]

(* What the broker and the ledger have of one order. *)
Alike(o) ==
  /\ orderBook[o].status # Unplaced => orderBook[o].body = booked[o].body
  /\ \/ orderBook[o].status = Unplaced
     \/ orderBook[o].status = "open" /\ booked[o].status \in {"reserved", "open"}
     \/ orderBook[o].status = "filled" /\ booked[o].status \in {"reserved", "filled"}
     \/ orderBook[o].status = "canceled" /\ booked[o].status \in {"reserved", "open", "canceled"}

Fills == FilledOrders(orderBook) \union FilledOrders(booked)

(* At most one fill is not in the ledger yet, and with it or without it there is no debt. *)
PaperInv ==
  /\ PaperTypeOK
  /\ \A o \in PaperOrder : Alike(o)
  /\ \A o, p \in FilledOrders(orderBook) \ FilledOrders(booked) : o = p
  /\ PaperKeepsAccounts /\ PaperSellsAreCovered /\ PaperCanRestart
  /\ bankroll >= 0
  /\ Bought(FilledOrders(booked), Bodies(booked)) >= 0

-----------------------------------------------------------------------------

LEMMA PaperBounds ==
  /\ PaperLot \in Nat \ {0} /\ PaperAsk \in Nat \ {0} /\ PaperCash \in Nat /\ PaperBid \in Nat
  /\ PaperFee \in Nat /\ PaperFee <= PaperBid /\ MaxPaperStart \in Nat /\ IsFiniteSet(PaperOrder)
BY PaperAssumption

LEMMA BringsAndPays ==
  ASSUME NEW b \in PaperBody
  PROVE  /\ b.quantity \in Nat /\ Brings(b) \in Int /\ Pays(b) \in Int
         /\ b.side = "buy" => Brings(b) = b.quantity /\ Pays(b) = -((PaperAsk + PaperFee) * b.quantity)
         /\ b.side # "buy" => Brings(b) = -b.quantity /\ Pays(b) >= 0
<1> DEFINE q == b.quantity
<1>1. q \in Nat
  BY PaperBounds DEF PaperBody
<1>2. CASE b.side = "buy"
  <2>1. Brings(b) = 1 * q /\ Pays(b) = (-1) * PaperAsk * q - PaperFee * q
    BY <1>2 DEF Brings, Pays, PaperPrice
  <2>2. (-1) * PaperAsk * q - PaperFee * q = -((PaperAsk + PaperFee) * q)
    <3> HIDE DEF q
    <3> QED BY <1>1, PaperBounds
  <2>3. (PaperAsk + PaperFee) * q \in Nat
    <3> HIDE DEF q
    <3> QED BY <1>1, PaperBounds
  <2> QED BY <1>1, <1>2, <2>1, <2>2, <2>3
<1>3. CASE b.side # "buy"
  <2>1. Brings(b) = (-1) * q /\ Pays(b) = 1 * PaperBid * q - PaperFee * q
    BY <1>3 DEF Brings, Pays, PaperPrice
  <2>2. 1 * PaperBid * q - PaperFee * q = (PaperBid - PaperFee) * q
    <3> HIDE DEF q
    <3> QED BY <1>1, PaperBounds
  <2>3. (PaperBid - PaperFee) * q \in Nat
    <3>1. PaperBid - PaperFee \in Nat
      BY PaperBounds
    <3> HIDE DEF q
    <3> QED BY <1>1, <3>1
  <2> QED BY <1>1, <1>3, <2>1, <2>2, <2>3
<1> QED BY <1>2, <1>3

Contracts(bodies) == [o \in PaperOrder |-> Brings(bodies[o])]
Cash(bodies) == [o \in PaperOrder |-> Pays(bodies[o])]

LEMMA BoughtIs ==
  ASSUME NEW os, NEW bodies
  PROVE  /\ Bought(os, bodies) = SumOver(Contracts(bodies), os)
         /\ Earned(os, bodies) = SumOver(Cash(bodies), os)
BY DEF Bought, Earned, SumOver, Contracts, Cash, Brings, Pays

LEMMA ValuesAre ==
  ASSUME NEW bodies \in Ordered
  PROVE  \A o \in PaperOrder :
           /\ Contracts(bodies)[o] = Brings(bodies[o]) /\ Contracts(bodies)[o] \in Int
           /\ Cash(bodies)[o] = Pays(bodies[o]) /\ Cash(bodies)[o] \in Int
BY BringsAndPays DEF Ordered, Contracts, Cash

(* The accounts of the same filled orders are the same. *)
LEMMA SameAccounts ==
  ASSUME NEW os \in SUBSET PaperOrder, NEW bodies \in Ordered, NEW others \in Ordered,
         \A o \in os : others[o] = bodies[o]
  PROVE  /\ Bought(os, others) = Bought(os, bodies) /\ Earned(os, others) = Earned(os, bodies)
         /\ Bought(os, bodies) \in Int /\ Earned(os, bodies) \in Int
<1>1. IsFiniteSet(os)
  BY PaperBounds, FS_Subset
<1>2. \A o \in os : /\ Contracts(bodies)[o] \in Int /\ Contracts(others)[o] = Contracts(bodies)[o]
                    /\ Cash(bodies)[o] \in Int /\ Cash(others)[o] = Cash(bodies)[o]
  BY ValuesAre
<1>3. SumOver(Contracts(others), os) = SumOver(Contracts(bodies), os)
  BY <1>1, <1>2, SumSame
<1>4. SumOver(Cash(others), os) = SumOver(Cash(bodies), os)
  BY <1>1, <1>2, SumSame
<1>5. SumOver(Contracts(bodies), os) \in Int /\ SumOver(Cash(bodies), os) \in Int
  BY <1>1, <1>2, SumStep
<1> QED BY <1>3, <1>4, <1>5, BoughtIs

(* One more filled order. *)
LEMMA OneMoreFill ==
  ASSUME NEW os \in SUBSET PaperOrder, NEW bodies \in Ordered, NEW o \in PaperOrder, o \notin os
  PROVE  /\ Bought(os \union {o}, bodies) = Bought(os, bodies) + Brings(bodies[o])
         /\ Earned(os \union {o}, bodies) = Earned(os, bodies) + Pays(bodies[o])
         /\ Bought({o}, bodies) = Brings(bodies[o]) /\ Earned({o}, bodies) = Pays(bodies[o])
<1>1. IsFiniteSet(os)
  BY PaperBounds, FS_Subset
<1>2. \A p \in os \union {o} : Contracts(bodies)[p] \in Int /\ Cash(bodies)[p] \in Int
  BY ValuesAre
<1>3. SumOver(Contracts(bodies), os \union {o}) = Contracts(bodies)[o] + SumOver(Contracts(bodies), os)
  BY <1>1, <1>2, SumWith
<1>4. SumOver(Cash(bodies), os \union {o}) = Cash(bodies)[o] + SumOver(Cash(bodies), os)
  BY <1>1, <1>2, SumWith
<1>5. SumOver(Contracts(bodies), {o}) = Contracts(bodies)[o] /\ SumOver(Cash(bodies), {o}) = Cash(bodies)[o]
  BY <1>2, SumOne
<1>6. Bought(os, bodies) \in Int /\ Earned(os, bodies) \in Int
  BY SameAccounts
<1>7. /\ Contracts(bodies)[o] = Brings(bodies[o]) /\ Brings(bodies[o]) \in Int
      /\ Cash(bodies)[o] = Pays(bodies[o]) /\ Pays(bodies[o]) \in Int
  BY ValuesAre
<1> QED BY <1>3, <1>4, <1>5, <1>6, <1>7, BoughtIs

(* The sum of the resting sells of any book. *)
Quantities(book) == [o \in PaperOrder |-> book[o].body.quantity]
Sells(book) == {o \in PaperOrder : book[o].status = "open" /\ book[o].body.side = "sell"}

LEMMA ReservedIs ==
  /\ ReservedQuantity = SumOver(Quantities(orderBook), Sells(orderBook))
  /\ (ReservedQuantity = SumOver(Quantities(orderBook), Sells(orderBook)))'
<1>1. ReservedQuantity = SumOver(Quantities(orderBook), Sells(orderBook))
  BY DEF ReservedQuantity, Reserved, SumOver, Quantities, Sells
<1> QED BY <1>1, PTL

LEMMA QuantitiesAre ==
  ASSUME NEW book \in Placed
  PROVE  /\ \A o \in PaperOrder : /\ Quantities(book)[o] = book[o].body.quantity
                                  /\ Quantities(book)[o] \in Nat
         /\ IsFiniteSet(Sells(book)) /\ Sells(book) \subseteq PaperOrder
         /\ SumOver(Quantities(book), Sells(book)) \in Nat
<1>1. \A o \in PaperOrder : Quantities(book)[o] = book[o].body.quantity /\ Quantities(book)[o] \in Nat
  BY BringsAndPays DEF Placed, Quantities
<1>2. IsFiniteSet(Sells(book)) /\ Sells(book) \subseteq PaperOrder
  BY PaperBounds, FS_Subset DEF Sells
<1>3. \A o \in Sells(book) : Quantities(book)[o] \in Nat
  BY <1>1, <1>2
<1> QED BY <1>1, <1>2, <1>3, SumNatural

(* A book whose resting sells are as before, or one less, promises no more. *)
LEMMA SellsKept ==
  ASSUME NEW book \in Placed, NEW next \in Placed, NEW o \in PaperOrder,
         \A p \in PaperOrder \ {o} : next[p] = book[p], o \notin Sells(next)
  PROVE  SumOver(Quantities(next), Sells(next)) <= SumOver(Quantities(book), Sells(book))
<1> DEFINE f == Quantities(book)
           g == Quantities(next)
           S == Sells(book)
           T == Sells(next)
<1>1. T = S \ {o}
  BY DEF Sells
<1>2. IsFiniteSet(T) /\ T \subseteq PaperOrder /\ IsFiniteSet(S) /\ S \subseteq PaperOrder
  BY QuantitiesAre
<1>3. \A p \in PaperOrder : f[p] \in Nat /\ f[p] \in Int
  BY QuantitiesAre
<1>4. \A p \in T : g[p] = f[p]
  BY <1>1, <1>2, QuantitiesAre
<1> HIDE DEF f, g, S, T
<1>5. SumOver(g, T) = SumOver(f, T)
  BY <1>2, <1>3, <1>4, SumSame
<1>6. SumOver(f, T) \in Nat
  BY <1>2, <1>3, SumNatural
<1>7. CASE o \in S
  <2>1. SumOver(f, S) = f[o] + SumOver(f, S \ {o})
    BY <1>2, <1>3, <1>7, SumWithout
  <2>2. f[o] \in Nat
    BY <1>3
  <2> QED BY <1>1, <1>5, <1>6, <2>1, <2>2 DEF f, g, S, T
<1>8. CASE o \notin S
  BY <1>1, <1>5, <1>6, <1>8 DEF f, g, S, T
<1> QED BY <1>7, <1>8

(* One more resting sell. *)
LEMMA OneMoreSell ==
  ASSUME NEW book \in Placed, NEW next \in Placed, NEW o \in PaperOrder,
         \A p \in PaperOrder \ {o} : next[p] = book[p], o \notin Sells(book), o \in Sells(next)
  PROVE  SumOver(Quantities(next), Sells(next))
           = SumOver(Quantities(book), Sells(book)) + next[o].body.quantity
<1> DEFINE f == Quantities(book)
           g == Quantities(next)
           S == Sells(book)
           T == Sells(next)
<1>1. T = S \union {o}
  BY DEF Sells
<1>2. IsFiniteSet(S) /\ S \subseteq PaperOrder /\ o \notin S
  BY QuantitiesAre
<1>3. \A p \in PaperOrder : f[p] \in Int /\ g[p] \in Int
  BY QuantitiesAre
<1>4. \A p \in S : g[p] = f[p]
  BY <1>2, QuantitiesAre
<1>5. g[o] = next[o].body.quantity
  BY QuantitiesAre
<1> HIDE DEF f, g, S, T
<1>6. SumOver(g, S) = SumOver(f, S)
  <2>1. \A p \in S : f[p] \in Int /\ g[p] = f[p]
    BY <1>2, <1>3, <1>4
  <2> QED BY <1>2, <2>1, SumSame
<1>7. SumOver(g, S \union {o}) = g[o] + SumOver(g, S)
  <2>1. \A p \in S \union {o} : g[p] \in Int
    BY <1>2, <1>3
  <2> QED BY <1>2, <2>1, SumWith
<1>8. SumOver(f, S) \in Int /\ g[o] \in Int
  BY <1>2, <1>3, SumStep
<1> QED BY <1>1, <1>5, <1>6, <1>7, <1>8 DEF f, g, S, T

LEMMA PaperTypes1 ==
  ASSUME PaperTypeOK
  PROVE  /\ orderBook \in Placed /\ booked \in Placed /\ holding \in Int /\ bankroll \in Int
         /\ Bodies(booked) \in Ordered /\ Bodies(orderBook) \in Ordered
         /\ FilledOrders(booked) \in SUBSET PaperOrder /\ FilledOrders(orderBook) \in SUBSET PaperOrder
BY DEF PaperTypeOK, Placed, Bodies, Ordered, FilledOrders

(* What PaperInv says of the accounts, with the sums by their names. *)
LEMMA AccountsAre ==
  ASSUME PaperInv
  PROVE  /\ Fills \in SUBSET PaperOrder
         /\ holding = Bought(Fills, Bodies(booked)) /\ bankroll = PaperCash + Earned(Fills, Bodies(booked))
         /\ Bought(Fills, Bodies(booked)) \in Int /\ Earned(Fills, Bodies(booked)) \in Int
         /\ Bought(FilledOrders(booked), Bodies(booked)) \in Int
         /\ Earned(FilledOrders(booked), Bodies(booked)) \in Int
         /\ RestoredCash = PaperCash + Earned(FilledOrders(booked), Bodies(booked))
<1>1. Fills \in SUBSET PaperOrder /\ Bodies(booked) \in Ordered
      /\ FilledOrders(booked) \in SUBSET PaperOrder
  BY PaperTypes1 DEF PaperInv, Fills
<1>2. holding = Bought(Fills, Bodies(booked)) /\ bankroll = PaperCash + Earned(Fills, Bodies(booked))
  BY DEF PaperInv, PaperKeepsAccounts, Fills
<1> QED BY <1>1, <1>2, SameAccounts DEF RestoredCash

LEMMA PaperInitInv == PaperInit => PaperInv
<1> SUFFICES ASSUME PaperInit PROVE PaperInv
  OBVIOUS
<1> DEFINE nothing == CHOOSE body \in PaperBody : TRUE
<1>1. nothing \in PaperBody
  <2>1. [side |-> "buy", cross |-> TRUE, quantity |-> 1] \in PaperBody
    BY PaperBounds DEF PaperBody
  <2> QED BY <2>1
<1> HIDE DEF nothing
<1>2. /\ holding = 0 /\ bankroll = PaperCash /\ starts = 0 /\ orderBook = booked
      /\ booked = [o \in PaperOrder |-> [status |-> Unplaced, body |-> nothing]]
  BY DEF PaperInit, nothing
<1>3. PaperTypeOK
  BY <1>1, <1>2, PaperBounds DEF PaperTypeOK, PaperStatus
<1>4. \A o \in PaperOrder : booked[o].status = Unplaced
  BY <1>2
<1>5. \A o \in PaperOrder : Alike(o)
  BY <1>2, <1>4 DEF Alike
<1>6. FilledOrders(booked) = {} /\ FilledOrders(orderBook) = {} /\ Sells(orderBook) = {}
  BY <1>2, <1>4 DEF FilledOrders, Sells, Unplaced
<1>7. \A f : SumOver(f, {}) = 0
  <2> TAKE f
  <2>1. IsFiniteSet({}) /\ \A x \in {} : f[x] \in Int
    BY FS_EmptySet
  <2> QED BY <2>1, SumStep
<1>8. Bought({}, Bodies(booked)) = 0 /\ Earned({}, Bodies(booked)) = 0
  BY <1>7, BoughtIs
<1>9. ReservedQuantity = 0
  BY <1>6, <1>7, ReservedIs
<1>10. PaperKeepsAccounts /\ PaperCanRestart /\ PaperSellsAreCovered
  BY <1>2, <1>6, <1>8, <1>9, PaperBounds
     DEF PaperKeepsAccounts, PaperCanRestart, RestoredCash, PaperSellsAreCovered
<1> QED BY <1>2, <1>3, <1>5, <1>6, <1>8, <1>10, PaperBounds DEF PaperInv

(* Steps that fill nothing leave the accounts alone. *)
LEMMA AccountsStay ==
  ASSUME PaperInv, PaperTypeOK', UNCHANGED <<holding, bankroll>>,
         FilledOrders(booked)' = FilledOrders(booked),
         Fills' = Fills, \A o \in Fills : Bodies(booked)'[o] = Bodies(booked)[o],
         ReservedQuantity' <= ReservedQuantity
  PROVE  /\ (PaperKeepsAccounts /\ PaperSellsAreCovered /\ PaperCanRestart /\ bankroll >= 0)'
         /\ (Bought(FilledOrders(booked), Bodies(booked)) >= 0)'
<1>1. /\ Bodies(booked) \in Ordered /\ Bodies(booked)' \in Ordered /\ Fills \in SUBSET PaperOrder
      /\ FilledOrders(booked) \in SUBSET PaperOrder /\ FilledOrders(booked) \subseteq Fills
      /\ holding \in Int /\ bankroll \in Int
  <2>1. Bodies(booked)' \in Ordered
    BY DEF PaperTypeOK, Bodies, Ordered
  <2>2. /\ Bodies(booked) \in Ordered /\ holding \in Int /\ bankroll \in Int
        /\ FilledOrders(booked) \in SUBSET PaperOrder /\ Fills \in SUBSET PaperOrder
    BY PaperTypes1, AccountsAre DEF PaperInv
  <2>3. FilledOrders(booked) \subseteq Fills
    BY DEF Fills
  <2> QED BY <2>1, <2>2, <2>3
<1>2. PICK next : next = Bodies(booked)'
  OBVIOUS
<1>3. next \in Ordered /\ \A o \in Fills : next[o] = Bodies(booked)[o]
  BY <1>1, <1>2
<1>4. Bought(Fills, next) = Bought(Fills, Bodies(booked)) /\ Earned(Fills, next) = Earned(Fills, Bodies(booked))
  BY <1>1, <1>3, SameAccounts
<1>5. \A o \in FilledOrders(booked) : next[o] = Bodies(booked)[o]
  BY <1>1, <1>3
<1>6. /\ Bought(FilledOrders(booked), next) = Bought(FilledOrders(booked), Bodies(booked))
      /\ Earned(FilledOrders(booked), next) = Earned(FilledOrders(booked), Bodies(booked))
  BY <1>1, <1>3, <1>5, SameAccounts
<1>7. PaperKeepsAccounts'
  <2>1. holding = Bought(Fills', next) /\ bankroll = PaperCash + Earned(Fills', next)
    BY <1>4, AccountsAre
  <2> QED BY <1>2, <2>1 DEF PaperKeepsAccounts, Fills
<1>8. PaperCanRestart'
  BY <1>2, <1>6 DEF PaperInv, PaperCanRestart, RestoredCash
<1>9. PaperSellsAreCovered'
  <2>1. ReservedQuantity \in Nat /\ ReservedQuantity' \in Nat
    <3>1. orderBook \in Placed /\ orderBook' \in Placed
      BY DEF PaperInv, PaperTypeOK, Placed
    <3> QED BY <3>1, ReservedIs, QuantitiesAre
  <2> QED BY <1>1, <2>1 DEF PaperInv, PaperSellsAreCovered
<1>10. (Bought(FilledOrders(booked), Bodies(booked)) >= 0)'
  BY <1>2, <1>6 DEF PaperInv
<1> QED BY <1>7, <1>8, <1>9, <1>10 DEF PaperInv

LEMMA ReservePaperInv ==
  ASSUME PaperInv, NEW o \in PaperOrder, NEW body \in PaperBody, Reserve(o, body) PROVE PaperInv'
<1>1. /\ booked[o].status = Unplaced /\ UNCHANGED <<holding, bankroll, orderBook, starts>>
      /\ booked' = [booked EXCEPT ![o] = [status |-> "reserved", body |-> body]]
  BY DEF Reserve
<1>2. PaperTypeOK'
  BY <1>1 DEF PaperInv, PaperTypeOK, PaperStatus
<1>3. \A p \in PaperOrder \ {o} : booked'[p] = booked[p]
  BY <1>1 DEF PaperInv, PaperTypeOK
<1>4. booked'[o].status = "reserved" /\ orderBook[o].status = Unplaced
  BY <1>1 DEF PaperInv, PaperTypeOK, Alike, Unplaced
<1>5. \A p \in PaperOrder : Alike(p)'
  BY <1>1, <1>3, <1>4 DEF PaperInv, Alike, Unplaced
<1>6. FilledOrders(booked)' = FilledOrders(booked) /\ FilledOrders(orderBook)' = FilledOrders(orderBook)
      /\ o \notin Fills
  BY <1>1, <1>3, <1>4 DEF FilledOrders, Fills, Unplaced
<1>7. \A p \in Fills : Bodies(booked)'[p] = Bodies(booked)[p]
  BY <1>3, <1>6 DEF Bodies, Fills, FilledOrders
<1>8. ReservedQuantity' = ReservedQuantity /\ ReservedQuantity \in Nat
  BY <1>1, PaperTypes1, ReservedIs, QuantitiesAre DEF PaperInv
<1>9. ReservedQuantity' <= ReservedQuantity /\ Fills' = Fills
  BY <1>6, <1>8 DEF Fills
<1> QED BY <1>1, <1>2, <1>5, <1>6, <1>7, <1>9, AccountsStay DEF PaperInv

LEMMA CancelPaperInv ==
  ASSUME PaperInv, NEW o \in PaperOrder, CancelPaper(o) PROVE PaperInv'
<1>1. /\ orderBook[o].status = "open" /\ UNCHANGED <<holding, bankroll, booked, starts>>
      /\ orderBook' = [orderBook EXCEPT ![o] = [orderBook[o] EXCEPT !.status = "canceled"]]
  BY DEF CancelPaper
<1>2. PaperTypeOK'
  BY <1>1 DEF PaperInv, PaperTypeOK, PaperStatus
<1>3. /\ \A p \in PaperOrder \ {o} : orderBook'[p] = orderBook[p]
      /\ orderBook'[o].status = "canceled" /\ orderBook'[o].body = orderBook[o].body
      /\ orderBook \in Placed /\ orderBook' \in Placed
  BY <1>1, <1>2 DEF PaperInv, PaperTypeOK, Placed
<1>4. \A p \in PaperOrder : Alike(p)'
  <2>1. Alike(o)'
    BY <1>1, <1>3 DEF PaperInv, Alike, Unplaced
  <2>2. ASSUME NEW p \in PaperOrder \ {o} PROVE Alike(p)'
    BY <1>1, <1>3 DEF PaperInv, Alike
  <2> QED BY <2>1, <2>2
<1>5. FilledOrders(booked)' = FilledOrders(booked) /\ FilledOrders(orderBook)' = FilledOrders(orderBook)
      /\ Bodies(booked)' = Bodies(booked)
  BY <1>1, <1>3 DEF FilledOrders, Bodies
<1>6. ReservedQuantity' <= ReservedQuantity
  <2>1. o \notin Sells(orderBook')
    BY <1>3 DEF Sells
  <2> QED BY <1>3, <2>1, SellsKept, ReservedIs
<1>7. Fills' = Fills
  BY <1>5 DEF Fills
<1> QED BY <1>1, <1>2, <1>4, <1>5, <1>6, <1>7, AccountsStay DEF PaperInv

(* The ledger takes an answer: of a fill, it has them all. *)
LEMMA BookInv ==
  ASSUME PaperInv, NEW o \in PaperOrder, Book(o) PROVE PaperInv'
<1>1. /\ orderBook[o].status \notin {Unplaced, booked[o].status}
      /\ UNCHANGED <<holding, bankroll, orderBook, starts>>
      /\ booked' = [booked EXCEPT ![o] = [booked[o] EXCEPT !.status = orderBook[o].status]]
  BY DEF Book, Unbooked
<1>2. orderBook[o].status \in PaperStatus
  BY DEF PaperInv, PaperTypeOK
<1>3. PaperTypeOK'
  BY <1>1, <1>2 DEF PaperInv, PaperTypeOK
<1>4. /\ \A p \in PaperOrder \ {o} : booked'[p] = booked[p]
      /\ booked'[o].status = orderBook[o].status /\ booked'[o].body = booked[o].body
  BY <1>1 DEF PaperInv, PaperTypeOK
<1>5. \A p \in PaperOrder : Alike(p)'
  <2>1. Alike(o)'
    BY <1>1, <1>4 DEF PaperInv, Alike, Unplaced
  <2>2. ASSUME NEW p \in PaperOrder \ {o} PROVE Alike(p)'
    BY <1>1, <1>4 DEF PaperInv, Alike
  <2> QED BY <2>1, <2>2
<1>6. Bodies(booked)' = Bodies(booked)
  BY <1>4 DEF Bodies
<1>7. FilledOrders(orderBook)' = FilledOrders(orderBook) /\ ReservedQuantity' = ReservedQuantity
  <2>1. FilledOrders(orderBook)' = FilledOrders(orderBook)
    BY <1>1 DEF FilledOrders
  <2>2. ReservedQuantity' = ReservedQuantity
    BY <1>1, ReservedIs
  <2> QED BY <2>1, <2>2
<1>8. booked[o].status # "filled"
  BY <1>1 DEF PaperInv, Alike, Unplaced
<1>9. CASE orderBook[o].status = "filled"
  <2>1. FilledOrders(booked)' = FilledOrders(booked) \union {o}
    BY <1>4, <1>9 DEF FilledOrders
  <2>2. o \in FilledOrders(orderBook) \ FilledOrders(booked)
    BY <1>8, <1>9 DEF FilledOrders
  <2>3. FilledOrders(booked)' = Fills /\ Fills' = Fills
    BY <1>7, <2>1, <2>2 DEF PaperInv, Fills
  <2>4. PaperKeepsAccounts' /\ PaperCanRestart'
    BY <1>1, <1>6, <1>7, <2>3, AccountsAre
       DEF PaperInv, PaperKeepsAccounts, PaperCanRestart, RestoredCash, Fills
  <2>5. PaperSellsAreCovered'
    BY <1>1, <1>7 DEF PaperInv, PaperSellsAreCovered
  <2>6. holding >= 0
    <3>1. ReservedQuantity \in Nat /\ holding \in Int
      BY PaperTypes1, ReservedIs, QuantitiesAre DEF PaperInv
    <3> QED BY <3>1 DEF PaperInv, PaperSellsAreCovered
  <2>7. (Bought(FilledOrders(booked), Bodies(booked)) >= 0)'
    BY <1>6, <2>3, <2>6, AccountsAre
  <2>8. (\A p, q \in FilledOrders(orderBook) \ FilledOrders(booked) : p = q)'
    BY <1>7, <2>3 DEF Fills
  <2> QED BY <1>1, <1>3, <1>5, <2>4, <2>5, <2>7, <2>8 DEF PaperInv
<1>10. CASE orderBook[o].status # "filled"
  <2>1. FilledOrders(booked)' = FilledOrders(booked)
    BY <1>4, <1>8, <1>10 DEF FilledOrders
  <2>2. Fills' = Fills
    BY <1>7, <2>1 DEF Fills
  <2>3. ReservedQuantity' <= ReservedQuantity
    <3>1. ReservedQuantity \in Nat
      BY PaperTypes1, ReservedIs, QuantitiesAre DEF PaperInv
    <3> QED BY <1>7, <3>1
  <2> QED BY <1>1, <1>3, <1>5, <1>6, <1>7, <2>1, <2>2, <2>3, AccountsStay DEF PaperInv
<1> QED BY <1>9, <1>10

(* An order is only sent when the ledger has all answers, so the accounts are the ledger's. *)
LEMMA SubmitPaperInv ==
  ASSUME PaperInv, NEW o \in PaperOrder, SubmitPaper(o) PROVE PaperInv'
<1> DEFINE body == booked[o].body
           bodies == Bodies(booked)
<1>1. /\ booked[o].status = "reserved" /\ orderBook[o].status = Unplaced /\ Unbooked = {}
      /\ UNCHANGED <<booked, starts>>
      /\ orderBook' = [orderBook EXCEPT ![o] = [status |-> IF body.cross THEN "filled" ELSE "open",
                                                body |-> body]]
      /\ body.side = "sell" => body.quantity + ReservedQuantity <= holding
      /\ body.side = "buy" /\ body.cross => (PaperAsk + PaperFee) * body.quantity <= bankroll
      /\ IF body.cross
         THEN /\ holding' = holding + Bought({o}, Bodies(orderBook'))
              /\ bankroll' = bankroll + Earned({o}, Bodies(orderBook'))
         ELSE UNCHANGED <<holding, bankroll>>
  BY DEF SubmitPaper, Covered, Affordable
<1>2. body \in PaperBody /\ orderBook \in Placed /\ booked \in Placed /\ bodies \in Ordered
      /\ holding \in Int /\ bankroll \in Int /\ bodies[o] = body
  BY PaperTypes1 DEF PaperInv, Placed, Bodies
<1>3. body.cross \in BOOLEAN /\ body.side \in {"buy", "sell"} /\ body.quantity \in Nat
  BY <1>2, BringsAndPays DEF PaperBody
<1>4. FilledOrders(orderBook) \subseteq FilledOrders(booked) /\ Fills = FilledOrders(booked)
  BY <1>1 DEF Unbooked, FilledOrders, Fills, Unplaced
<1>5. o \notin Fills
  BY <1>1, <1>4 DEF FilledOrders
<1>6. holding >= 0 /\ bankroll >= 0 /\ ReservedQuantity \in Nat /\ ReservedQuantity <= holding
  BY <1>2, <1>4, AccountsAre, ReservedIs, QuantitiesAre DEF PaperInv, PaperSellsAreCovered
<1>7. /\ Brings(body) \in Int /\ Pays(body) \in Int
      /\ body.side = "buy" => Brings(body) = body.quantity /\ Pays(body) = -((PaperAsk + PaperFee) * body.quantity)
      /\ body.side # "buy" => Brings(body) = -body.quantity /\ Pays(body) >= 0
  BY <1>2, BringsAndPays
<1>8. /\ \A p \in PaperOrder \ {o} : orderBook'[p] = orderBook[p]
      /\ orderBook'[o].status = IF body.cross THEN "filled" ELSE "open"
      /\ orderBook'[o].body = body /\ orderBook' \in Placed
  <2> DEFINE st == IF body.cross THEN "filled" ELSE "open"
  <2>1. st \in PaperStatus
    BY DEF PaperStatus
  <2> HIDE DEF st, body
  <2>2. orderBook' = [orderBook EXCEPT ![o] = [status |-> st, body |-> body]]
    BY <1>1 DEF st
  <2>3. orderBook' \in Placed /\ orderBook'[o] = [status |-> st, body |-> body]
        /\ \A p \in PaperOrder \ {o} : orderBook'[p] = orderBook[p]
    BY <1>2, <2>1, <2>2 DEF Placed
  <2> QED BY <2>3 DEF st
<1>9. \A p \in PaperOrder : Alike(p)'
  <2>1. Alike(o)'
    BY <1>1, <1>8 DEF Alike
  <2>2. ASSUME NEW p \in PaperOrder \ {o} PROVE Alike(p)'
    BY <1>1, <1>8 DEF PaperInv, Alike
  <2> QED BY <2>1, <2>2
<1> HIDE DEF body
<1>10. /\ UNCHANGED <<FilledOrders(booked), Bodies(booked), RestoredCash>>
       /\ PaperCanRestart' /\ (Bought(FilledOrders(booked), Bodies(booked)) >= 0)'
  BY <1>1 DEF PaperInv, FilledOrders, Bodies, RestoredCash, PaperCanRestart
<1>11. o \notin Sells(orderBook)
  BY <1>1 DEF Sells, Unplaced
<1>12. CASE body.cross
  <2>1. FilledOrders(orderBook)' = FilledOrders(orderBook) \union {o}
    BY <1>8, <1>12 DEF FilledOrders
  <2>2. Fills' = Fills \union {o}
    BY <1>10, <2>1 DEF Fills
  <2>3. holding' = holding + Brings(body) /\ bankroll' = bankroll + Pays(body)
    <3>1. PICK placed : placed = Bodies(orderBook')
      OBVIOUS
    <3>2. placed \in Ordered /\ placed[o] = body
      BY <1>8, <3>1 DEF Bodies, Ordered, Placed
    <3>3. Bought({o}, placed) = Brings(body) /\ Earned({o}, placed) = Pays(body)
      <4>1. {} \in SUBSET PaperOrder /\ o \notin {}
        OBVIOUS
      <4> QED BY <3>2, <4>1, OneMoreFill
    <3> QED BY <1>1, <1>12, <3>1, <3>3
  <2>4. PaperKeepsAccounts'
    <3>1. /\ Bought(Fills \union {o}, bodies) = Bought(Fills, bodies) + Brings(body)
          /\ Earned(Fills \union {o}, bodies) = Earned(Fills, bodies) + Pays(body)
      BY <1>2, <1>5, OneMoreFill, AccountsAre
    <3>2. holding' = Bought(Fills \union {o}, bodies) /\ bankroll' = PaperCash + Earned(Fills \union {o}, bodies)
      <4>1. /\ holding = Bought(Fills, bodies) /\ bankroll = PaperCash + Earned(Fills, bodies)
            /\ Earned(Fills, bodies) \in Int /\ PaperCash \in Int
        BY AccountsAre, PaperBounds
      <4> HIDE DEF bodies
      <4> QED BY <1>7, <2>3, <3>1, <4>1
    <3> QED BY <1>10, <2>2, <3>2 DEF PaperKeepsAccounts, Fills
  <2>5. bankroll' >= 0 /\ bankroll' \in Int /\ holding' \in Int
    <3>1. CASE body.side = "buy"
      <4> DEFINE cost == (PaperAsk + PaperFee) * body.quantity
      <4>1. cost \in Nat
        <5>1. PaperAsk + PaperFee \in Nat
          BY PaperBounds
        <5> QED BY <1>3, <5>1
      <4>2. cost <= bankroll
        BY <1>1, <1>12, <3>1 DEF body
      <4>3. bankroll' = bankroll + (-cost) /\ holding' = holding + body.quantity
        BY <1>7, <2>3, <3>1
      <4> HIDE DEF cost
      <4> QED BY <1>2, <1>3, <4>1, <4>2, <4>3
    <3>2. CASE body.side # "buy"
      BY <1>2, <1>6, <1>7, <2>3, <3>2
    <3> QED BY <3>1, <3>2
  <2>6. PaperSellsAreCovered'
    <3>1. o \notin Sells(orderBook')
      BY <1>8, <1>12 DEF Sells
    <3>2. ReservedQuantity' <= ReservedQuantity
      BY <1>2, <1>8, <3>1, SellsKept, ReservedIs
    <3>3. ReservedQuantity' \in Nat
      BY <1>8, ReservedIs, QuantitiesAre
    <3>4. ReservedQuantity <= holding'
      <4>1. CASE body.side = "buy"
        BY <1>2, <1>3, <1>6, <1>7, <2>3, <4>1 DEF body
      <4>2. CASE body.side # "buy"
        <5>1. body.quantity + ReservedQuantity <= holding /\ body.quantity \in Nat
          BY <1>1, <1>3, <4>2 DEF body
        <5> QED BY <1>2, <1>6, <1>7, <2>3, <4>2, <5>1
      <4> QED BY <4>1, <4>2
    <3> QED BY <1>6, <2>5, <3>2, <3>3, <3>4 DEF PaperSellsAreCovered
  <2>7. (\A p, q \in FilledOrders(orderBook) \ FilledOrders(booked) : p = q)'
    BY <1>4, <1>10, <2>1
  <2>8. PaperTypeOK'
    BY <1>1, <1>2, <1>8, <2>5 DEF PaperInv, PaperTypeOK, Placed
  <2> QED BY <1>9, <1>10, <2>4, <2>5, <2>6, <2>7, <2>8 DEF PaperInv
<1>13. CASE ~body.cross
  <2>1. FilledOrders(orderBook)' = FilledOrders(orderBook) /\ UNCHANGED <<holding, bankroll>>
    <3>1. orderBook'[o].status = "open"
      BY <1>8, <1>13
    <3> QED BY <1>1, <1>8, <1>13, <3>1 DEF FilledOrders, Unplaced
  <2>2. Fills' = Fills
    BY <1>10, <2>1 DEF Fills
  <2>3. PaperKeepsAccounts'
    BY <1>10, <2>1, <2>2, AccountsAre DEF PaperKeepsAccounts, Fills
  <2>4. PaperSellsAreCovered'
    <3>1. ReservedQuantity' \in Nat
      BY <1>8, ReservedIs, QuantitiesAre
    <3>2. CASE o \in Sells(orderBook')
      <4>1. body.side = "sell"
        BY <1>8, <3>2 DEF Sells
      <4>2. ReservedQuantity' = ReservedQuantity + body.quantity
        BY <1>2, <1>8, <1>11, <3>2, OneMoreSell, ReservedIs
      <4>3. body.quantity + ReservedQuantity <= holding /\ body.quantity \in Nat
        BY <1>1, <1>3, <4>1 DEF body
      <4> QED BY <1>2, <1>6, <2>1, <4>2, <4>3 DEF PaperSellsAreCovered
    <3>3. CASE o \notin Sells(orderBook')
      <4>1. ReservedQuantity' <= ReservedQuantity
        BY <1>2, <1>8, <3>3, SellsKept, ReservedIs
      <4> QED BY <1>2, <1>6, <2>1, <3>1, <4>1 DEF PaperSellsAreCovered
    <3> QED BY <3>2, <3>3
  <2>5. (\A p, q \in FilledOrders(orderBook) \ FilledOrders(booked) : p = q)'
    BY <1>4, <1>10, <2>1
  <2>6. PaperTypeOK'
    BY <1>1, <1>2, <1>8, <2>1 DEF PaperInv, PaperTypeOK, Placed
  <2> QED BY <1>6, <1>9, <1>10, <2>1, <2>3, <2>4, <2>5, <2>6 DEF PaperInv
<1> QED BY <1>3, <1>12, <1>13 DEF body

LEMMA RestartPaperInv ==
  ASSUME PaperInv, RestartPaper PROVE PaperInv'
<1>1. /\ starts < MaxPaperStart /\ starts' = starts + 1
      /\ holding' = Bought(FilledOrders(booked), Bodies(booked)) /\ bankroll' = RestoredCash
      /\ orderBook' = [p \in PaperOrder |-> [orderBook[p] EXCEPT !.status = Unplaced]]
      /\ booked' = [p \in PaperOrder |->
                     IF booked[p].status = "reserved" THEN [booked[p] EXCEPT !.status = "unknown"]
                     ELSE booked[p]]
      /\ RestoredCash >= 0
  BY DEF RestartPaper
<1>2. /\ \A p \in PaperOrder : /\ orderBook'[p].status = Unplaced
                               /\ orderBook'[p] \in [status: PaperStatus, body: PaperBody]
                               /\ booked'[p] \in [status: PaperStatus, body: PaperBody]
                               /\ booked'[p].body = booked[p].body
                               /\ booked'[p].status = "filled" <=> booked[p].status = "filled"
  BY <1>1 DEF PaperInv, PaperTypeOK, PaperStatus, Unplaced
<1>3. /\ FilledOrders(booked)' = FilledOrders(booked) /\ Bodies(booked)' = Bodies(booked)
      /\ FilledOrders(orderBook)' = {}
  BY <1>2 DEF FilledOrders, Bodies, Unplaced
<1>4. holding' \in Int /\ bankroll' \in Int
  BY <1>1, AccountsAre, PaperBounds
<1>5. PaperTypeOK'
  <2>1. starts' \in 0 .. MaxPaperStart
    BY <1>1, PaperBounds DEF PaperInv, PaperTypeOK
  <2>2. {orderBook', booked'} \subseteq [PaperOrder -> [status: PaperStatus, body: PaperBody]]
    <3>1. orderBook' = [p \in PaperOrder |-> orderBook'[p]] /\ booked' = [p \in PaperOrder |-> booked'[p]]
      BY <1>1
    <3> QED BY <1>2, <3>1
  <2> QED BY <1>4, <2>1, <2>2 DEF PaperTypeOK
<1>6. \A p \in PaperOrder : Alike(p)'
  BY <1>2 DEF Alike
<1>7. ReservedQuantity' = 0
  <2>1. Sells(orderBook') = {}
    BY <1>2 DEF Sells, Unplaced
  <2>2. SumOver(Quantities(orderBook'), {}) = 0
    <3>1. IsFiniteSet({}) /\ \A x \in {} : Quantities(orderBook')[x] \in Int
      BY FS_EmptySet
    <3> QED BY <3>1, SumStep
  <2> QED BY <2>1, <2>2, ReservedIs
<1>8. PaperKeepsAccounts'
  BY <1>1, <1>3 DEF PaperKeepsAccounts, RestoredCash
<1>9. PaperCanRestart' /\ (Bought(FilledOrders(booked), Bodies(booked)) >= 0)'
  BY <1>1, <1>3 DEF PaperInv, PaperCanRestart, RestoredCash
<1>10. PaperSellsAreCovered'
  BY <1>1, <1>4, <1>7 DEF PaperInv, PaperSellsAreCovered
<1> QED BY <1>1, <1>3, <1>5, <1>6, <1>8, <1>9, <1>10 DEF PaperInv

LEMMA PaperStep ==
  ASSUME PaperInv, [PaperNext]_paperVars PROVE PaperInv'
<1>1. CASE PaperNext
  BY <1>1, ReservePaperInv, SubmitPaperInv, CancelPaperInv, BookInv, RestartPaperInv DEF PaperNext
<1>2. CASE UNCHANGED paperVars
  <2>1. UNCHANGED <<holding, bankroll, orderBook, booked, starts>>
    BY <1>2 DEF paperVars
  <2>2. UNCHANGED ReservedQuantity
    BY <2>1, ReservedIs
  <2>3. UNCHANGED <<PaperSellsAreCovered, PaperKeepsAccounts, PaperCanRestart>>
    BY <2>1, <2>2 DEF PaperSellsAreCovered, PaperKeepsAccounts, PaperCanRestart, RestoredCash,
                      FilledOrders, Bodies
  <2> QED BY <2>1, <2>3 DEF PaperInv, PaperTypeOK, Alike, FilledOrders, Bodies
<1> QED BY <1>1, <1>2

(* The paper broker's and the ledger's variables keep their types. *)
THEOREM PaperTypes == PaperSpec => []PaperTypeOK
<1>1. PaperInv => PaperTypeOK
  BY DEF PaperInv
<1> QED BY <1>1, PaperInitInv, PaperStep, PTL DEF PaperSpec

(* The paper account is sound (cli.py:46): its position and cash are those of the ledger and the
   fill it has not taken yet, its resting sells are covered, and it can be restored at any
   moment; for any number of orders, any prices a sale can pay its fee at, and any restarts. *)
THEOREM PaperStaysSound == PaperSpec => []PaperIsSound
<1>1. PaperInv => PaperIsSound
  BY DEF PaperInv, PaperIsSound
<1> QED BY <1>1, PaperInitInv, PaperStep, PTL DEF PaperSpec

-----------------------------------------------------------------------------
(* Router. *)

(* The evaluation that Codex works on is the first of the line. *)
RouterInv ==
  /\ RouterTypeOK
  /\ \A a \in Question : At(a) = "codex" => line # <<>> /\ line[1] = a

LEMMA LeastOf ==
  ASSUME NEW I, I \subseteq Nat, I # {}
  PROVE  Min(I) \in I
<1>1. PICK x \in I : \A y \in I : ~(<<y, x>> \in OpToRel(<, Nat))
  BY NatLessThanWellFounded, WFMin
<1>2. \A y \in I : ~(y < x)
  BY <1>1 DEF OpToRel
<1>3. \A y \in I : x <= y
  BY <1>2
<1> QED BY <1>3 DEF Min

(* One that leaves a line leaves the others in theirs. *)
LEMMA OutOfSeq ==
  ASSUME NEW S, NEW s \in Seq(S), NEW e
  PROVE  /\ RemoveFirst(s, e) \in Seq(S)
         /\ s # <<>> /\ s[1] # e => RemoveFirst(s, e) # <<>> /\ RemoveFirst(s, e)[1] = s[1]
<1>1. CASE \E i \in 1 .. Len(s) : s[i] = e
  <2> DEFINE I == {i \in 1 .. Len(s) : s[i] = e}
  <2>1. PICK k : k = Min(I)
    OBVIOUS
  <2>2. k \in 1 .. Len(s) /\ s[k] = e
    <3>1. I \subseteq Nat /\ I # {}
      BY <1>1
    <3> QED BY <2>1, <3>1, LeastOf
  <2>3. RemoveFirst(s, e) = SubSeq(s, 1, k - 1) \o SubSeq(s, k + 1, Len(s))
    BY <1>1, <2>1 DEF RemoveFirst, RemoveAt, SelectInSeq
  <2> DEFINE front == SubSeq(s, 1, k - 1)
             back == SubSeq(s, k + 1, Len(s))
  <2>4. front \in Seq(S) /\ back \in Seq(S) /\ Len(front) = k - 1
        /\ (k > 1 => front[1] = s[1])
    BY <2>2
  <2> HIDE DEF front, back
  <2>5. /\ front \o back \in Seq(S)
        /\ k > 1 => front \o back # <<>> /\ (front \o back)[1] = s[1]
    BY <2>2, <2>4
  <2>6. s[1] # e => k > 1
    BY <2>2
  <2> QED BY <2>3, <2>5, <2>6 DEF front, back
<1>2. CASE ~\E i \in 1 .. Len(s) : s[i] = e
  BY <1>2 DEF RemoveFirst
<1> QED BY <1>1, <1>2

LEMMA RouterBounds ==
  /\ Callback \subseteq Question /\ JevPool \in Nat /\ MaxPause \in Nat \ {0} /\ MaxOrphan \in Nat
  /\ LongPause \in 0 .. MaxPause
BY RouterAssumption DEF LongPause

LEMMA RouterInitInv == RouterInit => RouterInv
BY RouterBounds DEF RouterInit, RouterInv, RouterTypeOK, AskState, Ended, JevState, At

(* One question goes on, to a place that is not Codex, and the line as it was or longer. *)
GoesOn(a) ==
  /\ UNCHANGED mode /\ orphans' \in 0 .. MaxOrphan /\ backoff' \in 0 .. MaxPause
  /\ asks' \in [Question -> [at: AskState, attempts: 0 .. 2]]
  /\ \A b \in Question \ {a} : asks'[b] = asks[b]
  /\ jev' \in [Question -> JevState]
  /\ line' \in Seq(Question)

LEMMA WentKeeps ==
  ASSUME RouterInv, NEW a \in Question, NEW at \in AskState, Went(a, at)
  PROVE  /\ asks' \in [Question -> [at: AskState, attempts: 0 .. 2]]
         /\ \A b \in Question \ {a} : asks'[b] = asks[b]
         /\ asks'[a].at = at
<1>1. asks \in [Question -> [at: AskState, attempts: 0 .. 2]]
  BY DEF RouterInv, RouterTypeOK
<1>2. asks' = [asks EXCEPT ![a] = [asks[a] EXCEPT !.at = at]]
  BY DEF Went
<1>3. [asks[a] EXCEPT !.at = at] \in [at: AskState, attempts: 0 .. 2]
      /\ [asks[a] EXCEPT !.at = at].at = at
  BY <1>1
<1> QED BY <1>1, <1>2, <1>3

LEMMA JoinKeeps ==
  ASSUME RouterInv, NEW a \in Question, line' = Append(line, a)
  PROVE  /\ line' \in Seq(Question)
         /\ line # <<>> => line' # <<>> /\ line'[1] = line[1]
<1>1. line \in Seq(Question) /\ Len(line) \in Nat
  BY DEF RouterInv, RouterTypeOK
<1>2. /\ line' \in Seq(Question) /\ line' # <<>>
      /\ \A i \in 1 .. Len(line) : line'[i] = line[i]
  BY <1>1, AppendProperties
<1>3. line # <<>> => 1 \in 1 .. Len(line)
  BY <1>1
<1> QED BY <1>2, <1>3

(* The others keep the first of the line. *)
LEMMA GoesOnInv ==
  ASSUME RouterInv, NEW a \in Question, GoesOn(a), At(a)' # "codex",
         line # <<>> => \A b \in Question \ {a} : line[1] = b /\ At(b) = "codex" => line' # <<>> /\ line'[1] = b
  PROVE  RouterInv'
<1>1. \A b \in Question : At(b)' = "codex" => b # a /\ At(b) = "codex"
  BY DEF GoesOn, At
<1>2. \A b \in Question : At(b)' = "codex" => line' # <<>> /\ line'[1] = b
  BY <1>1 DEF RouterInv
<1> QED BY <1>2 DEF GoesOn, RouterInv, RouterTypeOK, At

LEMMA QuestionInv ==
  ASSUME RouterInv, NEW a \in Question,
         AnswerDirectly(a) \/ AskCodex(a) \/ AskJev(a) \/ AskBoth(a) \/ Collect(a)
  PROVE  RouterInv'
<1>0. {"answered", "waiting", "jev"} \subseteq AskState /\ {"none", "queued"} \subseteq JevState
  BY DEF AskState, Ended, JevState
<1>1. orphans \in 0 .. MaxOrphan /\ backoff \in 0 .. MaxPause /\ line \in Seq(Question)
      /\ jev \in [Question -> JevState] /\ asks \in [Question -> [at: AskState, attempts: 0 .. 2]]
  BY DEF RouterInv, RouterTypeOK
<1>2. CASE AnswerDirectly(a)
  <2>1. UNCHANGED <<mode, jev, line, orphans, backoff>> /\ Went(a, "answered")
    BY <1>2 DEF AnswerDirectly
  <2>2. GoesOn(a) /\ At(a)' # "codex"
    BY <1>0, <1>1, <2>1, WentKeeps DEF GoesOn, At
  <2> QED BY <2>1, <2>2, GoesOnInv
<1>3. CASE AskCodex(a)
  <2>1. UNCHANGED <<mode, jev, orphans, backoff>> /\ Went(a, "waiting") /\ line' = Append(line, a)
    BY <1>3 DEF AskCodex
  <2>2. GoesOn(a) /\ At(a)' # "codex"
    BY <1>0, <1>1, <2>1, WentKeeps, JoinKeeps DEF GoesOn, At
  <2> QED BY <2>1, <2>2, GoesOnInv, JoinKeeps
<1>4. CASE AskJev(a)
  <2>1. UNCHANGED <<mode, line, orphans, backoff>> /\ Went(a, "jev") /\ jev' = [jev EXCEPT ![a] = "queued"]
    BY <1>4 DEF AskJev
  <2>2. jev' \in [Question -> JevState]
    BY <1>0, <1>1, <2>1
  <2>3. GoesOn(a) /\ At(a)' # "codex"
    BY <1>0, <1>1, <2>1, <2>2, WentKeeps DEF GoesOn, At
  <2> QED BY <2>1, <2>3, GoesOnInv
<1>5. CASE AskBoth(a)
  <2>1. /\ UNCHANGED <<mode, orphans, backoff>> /\ Went(a, "waiting") /\ line' = Append(line, a)
        /\ jev' = [jev EXCEPT ![a] = "queued"]
    BY <1>5 DEF AskBoth
  <2>2. jev' \in [Question -> JevState]
    BY <1>0, <1>1, <2>1
  <2>3. GoesOn(a) /\ At(a)' # "codex"
    BY <1>0, <1>1, <2>1, <2>2, WentKeeps, JoinKeeps DEF GoesOn, At
  <2> QED BY <2>1, <2>3, GoesOnInv, JoinKeeps
<1>6. CASE Collect(a)
  <2>1. /\ UNCHANGED <<mode, line, orphans, backoff>>
        /\ asks' = [asks EXCEPT ![a] = [at |-> "none", attempts |-> 0]]
        /\ jev' = [jev EXCEPT ![a] = "none"]
    BY <1>6 DEF Collect
  <2>2. jev' \in [Question -> JevState]
    BY <1>0, <1>1, <2>1
  <2>3. [at |-> "none", attempts |-> 0] \in [at: AskState, attempts: 0 .. 2]
    BY DEF AskState, Ended
  <2>4. GoesOn(a) /\ At(a)' # "codex"
    BY <1>1, <2>1, <2>2, <2>3 DEF GoesOn, At
  <2> QED BY <2>1, <2>4, GoesOnInv
<1> QED BY <1>2, <1>3, <1>4, <1>5, <1>6

(* Falling back asks Codex at the end of the line, or leaves the line alone. *)
LEMMA FallBackKeeps ==
  ASSUME RouterInv, NEW a \in Question, FallBack(a)
  PROVE  /\ asks' \in [Question -> [at: AskState, attempts: 0 .. 2]]
         /\ jev' \in [Question -> JevState] /\ line' \in Seq(Question)
         /\ \A b \in Question : At(b)' = "codex" => At(b) = "codex"
         /\ line # <<>> => line' # <<>> /\ line'[1] = line[1]
<1>0. {"answered", "waiting"} \subseteq AskState /\ "failed" \in JevState
  BY DEF AskState, Ended, JevState
<1>1. line \in Seq(Question) /\ jev \in [Question -> JevState]
      /\ asks \in [Question -> [at: AskState, attempts: 0 .. 2]]
  BY DEF RouterInv, RouterTypeOK
<1>2. jev' = [jev EXCEPT ![a] = "failed"]
  BY DEF FallBack
<1>3. jev' \in [Question -> JevState]
  BY <1>0, <1>1, <1>2
<1>4. \/ Went(a, "waiting") /\ line' = Append(line, a)
      \/ Went(a, "answered") /\ UNCHANGED line
      \/ UNCHANGED <<asks, line>>
  BY DEF FallBack
<1>5. CASE Went(a, "waiting") /\ line' = Append(line, a)
  BY <1>0, <1>3, <1>5, WentKeeps, JoinKeeps DEF At
<1>6. CASE Went(a, "answered") /\ UNCHANGED line
  BY <1>0, <1>1, <1>3, <1>6, WentKeeps DEF At
<1>7. CASE UNCHANGED <<asks, line>>
  BY <1>1, <1>3, <1>7 DEF At
<1> QED BY <1>4, <1>5, <1>6, <1>7

(* What JEV does leaves who works with Codex at the head of the line. *)
LEMMA JevInv ==
  ASSUME RouterInv, NEW a \in Question,
         JevBegins(a) \/ JevAnswers(a) \/ JevRefuses(a) \/ JevFails(a) \/ JevIsLate(a)
  PROVE  RouterInv'
<1>0. {"asking", "decided"} \subseteq JevState /\ "answered" \in AskState
  BY DEF AskState, Ended, JevState
<1>1. line \in Seq(Question) /\ jev \in [Question -> JevState] /\ backoff \in 0 .. MaxPause
      /\ asks \in [Question -> [at: AskState, attempts: 0 .. 2]]
  BY DEF RouterInv, RouterTypeOK
<1>2. UNCHANGED <<mode, orphans>>
  BY DEF JevBegins, JevAnswers, JevRefuses, JevFails, JevIsLate
<1>3. backoff' \in 0 .. MaxPause
  <2>1. \/ UNCHANGED backoff \/ backoff' = LongPause \/ backoff' \in LongPause .. MaxPause
        \/ backoff' \in {0, LongPause}
    BY DEF JevBegins, JevAnswers, JevRefuses, JevFails, JevIsLate, BriefBackoff
  <2> QED BY <1>1, <2>1, RouterBounds
<1>4. \/ FallBack(a)
      \/ UNCHANGED <<asks, line>> /\ jev' = [jev EXCEPT ![a] = "asking"]
      \/ UNCHANGED line /\ (Went(a, "answered") \/ UNCHANGED asks) /\ jev' = [jev EXCEPT ![a] = "decided"]
  BY DEF JevBegins, JevAnswers, JevRefuses, JevFails, JevIsLate
<1>5. /\ asks' \in [Question -> [at: AskState, attempts: 0 .. 2]]
      /\ jev' \in [Question -> JevState] /\ line' \in Seq(Question)
      /\ \A b \in Question : At(b)' = "codex" => At(b) = "codex"
      /\ line # <<>> => line' # <<>> /\ line'[1] = line[1]
  <2>1. CASE FallBack(a)
    BY <2>1, FallBackKeeps
  <2>2. CASE UNCHANGED <<asks, line>> /\ jev' = [jev EXCEPT ![a] = "asking"]
    BY <1>0, <1>1, <2>2 DEF At
  <2>3. CASE /\ UNCHANGED line /\ (Went(a, "answered") \/ UNCHANGED asks)
             /\ jev' = [jev EXCEPT ![a] = "decided"]
    <3>1. jev' \in [Question -> JevState]
      BY <1>0, <1>1, <2>3
    <3> QED BY <1>0, <1>1, <2>3, <3>1, WentKeeps DEF At
  <2> QED BY <1>4, <2>1, <2>2, <2>3
<1>6. \A b \in Question : At(b)' = "codex" => line' # <<>> /\ line'[1] = b
  BY <1>5 DEF RouterInv
<1> QED BY <1>2, <1>3, <1>5, <1>6 DEF RouterInv, RouterTypeOK

(* Codex is asked by the first of the line, which leaves it as it has its answer. *)
LEMMA CodexInv ==
  ASSUME RouterInv, NEW a \in Question,
         CodexBegins(a) \/ CodexRetries(a) \/ CodexAnswers(a) \/ CodexFails(a)
  PROVE  RouterInv'
<1>0. {"answered", "shadow", "failed", "codex"} \subseteq AskState /\ "none" \in JevState
  BY DEF AskState, Ended, JevState
<1>1. orphans \in 0 .. MaxOrphan /\ backoff \in 0 .. MaxPause /\ line \in Seq(Question)
      /\ jev \in [Question -> JevState] /\ asks \in [Question -> [at: AskState, attempts: 0 .. 2]]
  BY DEF RouterInv, RouterTypeOK
<1>2. CASE CodexBegins(a) \/ CodexRetries(a)
  <2>1. UNCHANGED <<mode, jev, line, orphans, backoff>> /\ line # <<>> /\ line[1] = a
    BY <1>1, <1>2 DEF CodexBegins, CodexRetries, RouterInv
  <2>2. PICK r : asks' = [asks EXCEPT ![a] = r] /\ r \in [at: AskState, attempts: 0 .. 2]
    <3>1. CASE CodexBegins(a)
      <4>1. [at |-> "codex", attempts |-> 1] \in [at: AskState, attempts: 0 .. 2]
        BY <1>0
      <4> QED BY <3>1, <4>1 DEF CodexBegins
    <3>2. CASE CodexRetries(a)
      <4>1. asks' = [asks EXCEPT ![a] = [asks[a] EXCEPT !.attempts = 2]]
        BY <3>2 DEF CodexRetries
      <4>2. [asks[a] EXCEPT !.attempts = 2] \in [at: AskState, attempts: 0 .. 2]
        BY <1>1
      <4> QED BY <4>1, <4>2
    <3> QED BY <1>2, <3>1, <3>2
  <2>3. asks' \in [Question -> [at: AskState, attempts: 0 .. 2]]
        /\ \A b \in Question \ {a} : asks'[b] = asks[b]
    BY <1>1, <2>2
  <2>4. \A b \in Question : At(b)' = "codex" => line' # <<>> /\ line'[1] = b
    <3>1. \A b \in Question \ {a} : At(b) # "codex"
      BY <2>1 DEF RouterInv
    <3> QED BY <2>1, <2>3, <3>1 DEF At
  <2> QED BY <1>1, <2>1, <2>3, <2>4 DEF RouterInv, RouterTypeOK
<1>3. CASE CodexAnswers(a) \/ CodexFails(a)
  <2>1. /\ line # <<>> /\ line[1] = a /\ line' = Tail(line)
        /\ UNCHANGED <<mode, orphans, backoff>>
    BY <1>3 DEF CodexAnswers, CodexFails, RouterInv
  <2>2. line' \in Seq(Question)
    BY <1>1, <2>1, HeadTailProperties
  <2>3. PICK at \in AskState : at # "codex" /\ Went(a, at)
    BY <1>0, <1>3 DEF CodexAnswers, CodexFails
  <2>4. jev' \in [Question -> JevState]
    <3>1. UNCHANGED jev \/ jev' = [jev EXCEPT ![a] = ShadowLeft(a)]
      BY <1>3 DEF CodexAnswers, CodexFails
    <3>2. ShadowLeft(a) \in JevState
      BY <1>0, <1>1 DEF ShadowLeft
    <3> QED BY <1>1, <3>1, <3>2
  <2>5. GoesOn(a) /\ At(a)' # "codex"
    BY <1>1, <2>1, <2>2, <2>3, <2>4, WentKeeps DEF GoesOn, At
  <2> QED BY <2>1, <2>5, GoesOnInv
<1> QED BY <1>2, <1>3

(* Who is cancelled while it waits leaves the others in the line. *)
LEMMA CancelCallbackInv ==
  ASSUME RouterInv, NEW a \in Question, CancelCallback(a) PROVE RouterInv'
<1>1. orphans \in 0 .. MaxOrphan /\ backoff \in 0 .. MaxPause /\ line \in Seq(Question)
      /\ jev \in [Question -> JevState]
  BY DEF RouterInv, RouterTypeOK
<1>2. /\ line' = RemoveFirst(line, a) /\ Went(a, "cancelled") /\ UNCHANGED <<mode, jev, backoff>>
      /\ At(a) = "codex" => orphans < MaxOrphan
      /\ orphans' = IF At(a) = "codex" THEN orphans + 1 ELSE orphans
  BY DEF CancelCallback, OutOfLine
<1>3. orphans' \in 0 .. MaxOrphan
  BY <1>1, <1>2, RouterBounds
<1>4. /\ line' \in Seq(Question)
      /\ line # <<>> /\ line[1] # a => line' # <<>> /\ line'[1] = line[1]
  BY <1>1, <1>2, OutOfSeq
<1>5. "cancelled" \in AskState
  BY DEF AskState, Ended
<1>6. GoesOn(a) /\ At(a)' # "codex"
  BY <1>1, <1>2, <1>3, <1>4, <1>5, WentKeeps DEF GoesOn, At
<1> QED BY <1>4, <1>6, GoesOnInv

LEMMA RouterStep ==
  ASSUME RouterInv, [RouterNext]_routerVars PROVE RouterInv'
<1>1. ASSUME NEW a \in Question,
             \/ AnswerDirectly(a) \/ AskCodex(a) \/ AskJev(a) \/ AskBoth(a) \/ Collect(a)
      PROVE  RouterInv'
  BY <1>1, QuestionInv
<1>2. ASSUME NEW a \in Question,
             \/ JevBegins(a) \/ JevAnswers(a) \/ JevRefuses(a) \/ JevFails(a) \/ JevIsLate(a)
      PROVE  RouterInv'
  BY <1>2, JevInv
<1>3. ASSUME NEW a \in Question,
             \/ CodexBegins(a) \/ CodexRetries(a) \/ CodexAnswers(a) \/ CodexFails(a)
             \/ CancelCallback(a)
      PROVE  RouterInv'
  BY <1>3, CodexInv, CancelCallbackInv
<1>4. CASE OrphanEnds \/ RouterTick \/ UNCHANGED routerVars
  <2>1. UNCHANGED <<mode, asks, jev, line>>
    BY <1>4 DEF OrphanEnds, RouterTick, routerVars
  <2>2. orphans' \in 0 .. MaxOrphan /\ backoff' \in 0 .. MaxPause
    BY <1>4, RouterBounds DEF OrphanEnds, RouterTick, routerVars, RouterInv, RouterTypeOK
  <2> QED BY <2>1, <2>2 DEF RouterInv, RouterTypeOK, At
<1> QED BY <1>1, <1>2, <1>3, <1>4 DEF RouterNext

(* The evaluations, their JEV halves, the line and the cool-down keep their types. *)
THEOREM RouterTypes == RouterSpec => []RouterTypeOK
<1>1. RouterInv => RouterTypeOK
  BY DEF RouterInv
<1> QED BY <1>1, RouterInitInv, RouterStep, PTL DEF RouterSpec

(* _codex_lock (evaluation.py:102): no two evaluations that are waited for are at Codex at once,
   whoever is cancelled before, in or after its turn. *)
THEOREM OneAtCodex ==
  RouterSpec => [](\A a, b \in Question : At(a) = "codex" /\ At(b) = "codex" => a = b)
<1>1. RouterInv => \A a, b \in Question : At(a) = "codex" /\ At(b) = "codex" => a = b
  BY DEF RouterInv
<1> QED BY <1>1, RouterInitInv, RouterStep, PTL DEF RouterSpec

-----------------------------------------------------------------------------
(* Rotation. *)

(* A watch is ranked behind fewer others than there are. *)
LEMMA RanksTyped ==
  ASSUME NEW times \in [Hot -> Nat]
  PROVE  Ranks(times) \in [Hot -> 0 .. Cardinality(Hot)]
<1>1. IsFiniteSet(Hot) /\ Cardinality(Hot) \in Nat
  BY RotationAssumption, FS_CardinalityType
<1>2. ASSUME NEW w \in Hot
      PROVE  Cardinality({times[v] : v \in {u \in Hot : 0 < times[u] /\ times[u] < times[w]}})
               \in 0 .. Cardinality(Hot) - 1
  <2> DEFINE lower == {u \in Hot : 0 < times[u] /\ times[u] < times[w]}
             values == {times[v] : v \in lower}
  <2>1. lower \subseteq Hot \ {w}
    OBVIOUS
  <2>2. IsFiniteSet(Hot \ {w}) /\ Cardinality(Hot \ {w}) = Cardinality(Hot) - 1
    BY <1>1, FS_RemoveElement
  <2>3. IsFiniteSet(lower) /\ Cardinality(lower) \in Nat
        /\ Cardinality(lower) <= Cardinality(Hot \ {w})
    <3> HIDE DEF lower
    <3> QED BY <2>1, <2>2, FS_Subset, FS_CardinalityType
  <2>4. IsFiniteSet(values) /\ Cardinality(values) <= Cardinality(lower)
    <3> DEFINE f == [v \in lower |-> times[v]]
    <3>1. f \in Surjection(lower, values)
      <4>1. f \in [lower -> values] /\ \A t \in values : \E v \in lower : f[v] = t
        OBVIOUS
      <4> HIDE DEF f, lower, values
      <4> QED BY <4>1 DEF Surjection
    <3> HIDE DEF f, lower, values
    <3> QED BY <2>3, <3>1, FS_Surjection
  <2>5. Cardinality(values) \in Nat
    BY <2>4, FS_CardinalityType
  <2> HIDE DEF lower, values
  <2>6. Cardinality(values) \in 0 .. Cardinality(Hot) - 1
    BY <1>1, <2>2, <2>3, <2>4, <2>5
  <2> QED BY <2>6 DEF values, lower
<1> DEFINE behind(w) ==
             Cardinality({times[v] : v \in {u \in Hot : 0 < times[u] /\ times[u] < times[w]}})
<1>3. Ranks(times) = [w \in Hot |-> IF times[w] = 0 THEN 0 ELSE 1 + behind(w)]
  BY DEF Ranks
<1>4. \A w \in Hot : behind(w) \in 0 .. Cardinality(Hot) - 1
  BY <1>2
<1> HIDE DEF behind
<1> QED BY <1>1, <1>3, <1>4

(* The turn of a watch that may be polled is one of the last polls. *)
LEMMA TurnTyped ==
  ASSUME RotationTypeOK, NEW w \in Candidates
  PROVE  Turn(w) \in Nat
<1> DEFINE S == {polled[v] : v \in Sharing(w)}
<1>1. Cardinality(Hot) \in Nat
  BY RotationAssumption, FS_CardinalityType
<1>2. S \subseteq 0 .. Cardinality(Hot) /\ S # {}
  BY DEF RotationTypeOK, Candidates, Sharing
<1>3. Turn(w) = Largest(S)
  BY DEF Turn
<1> HIDE DEF S
<1>4. \E n \in S : \A k \in S : k <= n
  BY <1>1, <1>2, GreatestOf
<1>5. Largest(S) \in S
  BY <1>4 DEF Largest
<1>6. S \subseteq Nat
  <2>1. 0 .. Cardinality(Hot) \subseteq Nat
    BY <1>1
  <2> QED BY <1>2, <2>1
<1>7. Largest(S) \in Nat
  BY <1>5, <1>6
<1> QED BY <1>3, <1>7

LEMMA RotationStep ==
  ASSUME RotationTypeOK, [RotationNext]_rotationVars PROVE RotationTypeOK'
<1> DEFINE Rank == 0 .. Cardinality(Hot)
<1>1. Cardinality(Hot) \in Nat
  BY RotationAssumption, FS_CardinalityType
<1>2. polled \in [Hot -> Rank] /\ ready \subseteq Hot \ gone /\ gone \subseteq Hot /\ asked \subseteq Hot
  BY DEF RotationTypeOK
<1>3. ASSUME NEW w \in Hot, GetReady(w) \/ Unready(w) PROVE RotationTypeOK'
  BY <1>2, <1>3 DEF GetReady, Unready, RotationTypeOK
<1>4. ASSUME NEW w \in Hot, LeaveWatches(w) PROVE RotationTypeOK'
  <2>1. [polled EXCEPT ![w] = 0] \in [Hot -> Nat]
    BY <1>1, <1>2
  <2>2. polled' \in [Hot -> Rank]
    BY <1>4, <2>1, RanksTyped DEF LeaveWatches
  <2> QED BY <1>2, <1>4, <2>2 DEF LeaveWatches, RotationTypeOK
<1>5. CASE BeginQuotes
  <2>1. [w \in Hot |-> IF w \in Candidates THEN Turn(w) ELSE polled[w]] \in [Hot -> Nat]
    BY <1>1, <1>2, TurnTyped
  <2>2. polled' \in [Hot -> Rank]
    BY <1>5, <2>1, RanksTyped DEF BeginQuotes
  <2>3. NextBatch \subseteq Hot
    BY <1>2 DEF NextBatch, Candidates
  <2> QED BY <1>2, <1>5, <2>2, <2>3 DEF BeginQuotes, RotationTypeOK
<1>6. CASE EndQuotes
  <2>1. PICK answered \in SUBSET asked :
          polled' = Ranks([w \in Hot |-> IF w \in gone THEN 0
                                         ELSE IF Polled(w, answered) THEN Cardinality(Hot) + 1
                                         ELSE polled[w]])
    BY <1>6 DEF EndQuotes
  <2>2. [w \in Hot |-> IF w \in gone THEN 0
                       ELSE IF Polled(w, answered) THEN Cardinality(Hot) + 1
                       ELSE polled[w]] \in [Hot -> Nat]
    BY <1>1, <1>2
  <2>3. polled' \in [Hot -> Rank]
    BY <2>1, <2>2, RanksTyped
  <2> QED BY <1>2, <1>6, <2>3 DEF EndQuotes, RotationTypeOK
<1>7. CASE UNCHANGED rotationVars
  BY <1>7 DEF rotationVars, RotationTypeOK
<1> QED BY <1>3, <1>4, <1>5, <1>6, <1>7 DEF RotationNext

LEMMA RotationInitInv == RotationInit => RotationTypeOK
<1>1. Cardinality(Hot) \in Nat
  BY RotationAssumption, FS_CardinalityType
<1> QED BY <1>1 DEF RotationInit, RotationTypeOK

(* The watches that may be polled, the last polls by their ranks and the batch keep their types. *)
THEOREM RotationTypes == RotationSpec => []RotationTypeOK
BY RotationInitInv, RotationStep, PTL DEF RotationSpec

(* The candidates are in one line: the turns order them, and their numbers those of one turn. *)
LEMMA TurnsOrder ==
  ASSUME RotationTypeOK
  PROVE  /\ \A v, w \in Candidates : v # w => EarlierTurn(v, w) \/ EarlierTurn(w, v)
         /\ \A u, v, w \in Candidates : EarlierTurn(u, v) /\ EarlierTurn(v, w) => EarlierTurn(u, w)
         /\ \A w \in Candidates : ~EarlierTurn(w, w)
<1>1. \A w \in Candidates : w \in Nat /\ Turn(w) \in Nat
  BY TurnTyped, RotationAssumption DEF Candidates, RotationTypeOK
<1> QED BY <1>1 DEF EarlierTurn

(* A batch is no larger than its limit: its last watch has the others before it. *)
LEMMA BatchIsLimited ==
  ASSUME RotationTypeOK
  PROVE  IsFiniteSet(NextBatch) /\ Cardinality(NextBatch) <= BatchLimit
<1> DEFINE ahead(w) == {v \in Candidates : EarlierTurn(v, w)}
           within(w) == {v \in NextBatch : EarlierTurn(v, w)}
<1>1. IsFiniteSet(Hot) /\ Cardinality(Hot) \in Nat /\ BatchLimit \in Nat \ {0}
  BY RotationAssumption, FS_CardinalityType
<1>2. NextBatch \subseteq Candidates /\ Candidates \subseteq Hot
  BY DEF NextBatch, Candidates, RotationTypeOK
<1>3. \A S \in SUBSET Hot : IsFiniteSet(S) /\ Cardinality(S) \in 0 .. Cardinality(Hot)
  BY <1>1, FS_Subset, FS_CardinalityType
<1>4. IsFiniteSet(NextBatch) /\ Cardinality(NextBatch) \in Nat
  BY <1>2, <1>3
<1>5. CASE NextBatch = {}
  BY <1>1, <1>5, FS_EmptySet
<1>6. CASE NextBatch # {}
  <2> DEFINE P == {Cardinality(within(w)) : w \in NextBatch}
  <2>1. \A w \in NextBatch : within(w) \in SUBSET Hot
    BY <1>2
  <2>2. P \subseteq 0 .. Cardinality(Hot) /\ P # {}
    BY <1>3, <1>6, <2>1
  <2>3. PICK p \in P : \A q \in P : q <= p
    <3> HIDE DEF P
    <3> QED BY <1>1, <2>2, GreatestOf
  <2>4. PICK w \in NextBatch : \A v \in NextBatch : Cardinality(within(v)) <= Cardinality(within(w))
    BY <2>3
  <2>5. ASSUME NEW v \in NextBatch, v # w PROVE v \in within(w)
    <3>1. SUFFICES ASSUME EarlierTurn(w, v) PROVE FALSE
      BY <1>2, <2>5, TurnsOrder
    <3>2. within(w) \union {w} \subseteq within(v) /\ w \notin within(w)
      BY <1>2, <3>1, TurnsOrder
    <3>3. IsFiniteSet(within(w)) /\ IsFiniteSet(within(v)) /\ Cardinality(within(w)) \in Nat
          /\ Cardinality(within(v)) \in Nat
      BY <1>3, <2>1
    <3> HIDE DEF within
    <3>4. Cardinality(within(w) \union {w}) = Cardinality(within(w)) + 1
      BY <3>2, <3>3, FS_AddElement
    <3>5. Cardinality(within(w) \union {w}) <= Cardinality(within(v))
      BY <3>2, <3>3, FS_Subset
    <3>6. Cardinality(within(v)) <= Cardinality(within(w))
      BY <2>4
    <3>7. IsFiniteSet(within(w) \union {w})
      BY <3>3, FS_AddElement
    <3> QED BY <3>3, <3>4, <3>5, <3>6
  <2>6. NextBatch \ {w} \subseteq ahead(w)
    BY <1>2, <2>5
  <2>7. IsFiniteSet(ahead(w)) /\ Cardinality(ahead(w)) \in Nat /\ Cardinality(ahead(w)) < BatchLimit
    <3>1. ahead(w) \in SUBSET Hot
      BY <1>2
    <3>2. Cardinality(ahead(w)) < BatchLimit
      BY DEF NextBatch
    <3> HIDE DEF ahead
    <3> QED BY <1>3, <3>1, <3>2
  <2> HIDE DEF ahead, within
  <2>8. Cardinality(NextBatch \ {w}) <= Cardinality(ahead(w))
    BY <2>6, <2>7, FS_Subset
  <2>9. Cardinality(NextBatch \ {w}) = Cardinality(NextBatch) - 1
    BY <1>4, FS_RemoveElement
  <2> QED BY <1>1, <1>4, <2>7, <2>8, <2>9
<1> QED BY <1>5, <1>6

(* _refresh_market_batch: whichever watches are ready, share a contract or have waited equally long,
   one request for quotes never asks for more of them than the broker answers. *)
THEOREM BatchFits == RotationSpec => [](Cardinality(asked) <= BatchLimit)
<1> DEFINE Inv == RotationTypeOK /\ Cardinality(asked) <= BatchLimit
<1>1. RotationInit => Inv
  BY RotationInitInv, RotationAssumption, FS_EmptySet DEF RotationInit
<1>2. Inv /\ [RotationNext]_rotationVars => Inv'
  <2> SUFFICES ASSUME Inv, [RotationNext]_rotationVars PROVE Inv'
    OBVIOUS
  <2>1. RotationTypeOK'
    BY RotationStep
  <2>2. asked' = asked \/ asked' = NextBatch \/ asked' = {}
    BY DEF RotationNext, GetReady, Unready, LeaveWatches, BeginQuotes, EndQuotes, rotationVars
  <2> QED BY <2>1, <2>2, BatchIsLimited, RotationAssumption, FS_EmptySet
<1> QED BY <1>1, <1>2, PTL DEF RotationSpec

-----------------------------------------------------------------------------
(* The parts side by side. *)

(* A step of one part leaves every other alone. *)
LEMMA PartsStep ==
  ASSUME [PartsNext]_partsVars
  PROVE  /\ [MonitorNext]_monitorVars /\ [OutboxNext]_outboxVars /\ [BudgetNext]_budgetVars
         /\ [MarketNext]_marketVars /\ [WatchNext]_watchVars /\ [RotationNext]_rotationVars
         /\ [SnapshotNext]_snapshotVars /\ [ListingNext]_listingVars /\ [PaperNext]_paperVars
         /\ [ModesNext]_modesVars /\ [SignInNext]_signInVars /\ [ExpiryNext]_expiryVars
         /\ [RouterNext]_routerVars /\ [AccessNext]_accessVars /\ [BrowserNext]_browserVars
         /\ part' = part
<1>1. CASE part \in Provider /\ ProviderNext(part) /\ Rests(part)
  <2>1. PICK p \in Provider : p = part
    BY <1>1
  <2>2. ProviderNext(p) /\ Rests(p)
    BY <1>1, <2>1, Zenon
  <2>3. SignInNext
    BY <2>2 DEF SignInNext
  <2>4. p = "codex" \/ p = "robinhood"
    BY DEF Provider
  <2> QED BY <2>2, <2>3, <2>4 DEF Rests
<1>2. CASE UNCHANGED partsVars
  BY <1>2 DEF partsVars
<1>3. CASE PartsNext /\ ~(part \in Provider /\ ProviderNext(part) /\ Rests(part))
  <2>1. \A p \in {"monitor", "outbox", "budget", "market", "watch", "rotation", "snapshot", "listing",
                 "paper", "modes", "expiry", "router", "access", "browser"} : p \notin Provider
    BY DEF Provider
  <2> QED BY <1>3, <2>1 DEF PartsNext, Rests
<1> QED BY <1>1, <1>2, <1>3

LEMMA PartsStart ==
  ASSUME PartsInit
  PROVE  /\ MonitorInit /\ OutboxInit /\ BudgetInit /\ MarketInit /\ WatchInit /\ RotationInit
         /\ SnapshotInit /\ ListingInit /\ PaperInit /\ ModesInit /\ SignInInit /\ ExpiryInit
         /\ RouterInit /\ AccessInit /\ BrowserInit /\ part \in Part
BY DEF PartsInit

(* The composition implements each of its parts, with the part's own fairness; of Modes, which is
   only fair while it runs, it implements the steps. *)
THEOREM PartsImplement ==
  PartsSpec =>
    /\ MonitorSpec /\ OutboxSpec /\ BudgetSpec /\ MarketSpec /\ WatchSpec /\ RotationSpec
    /\ SnapshotSpec /\ ListingSpec /\ PaperSpec /\ SignInSpec /\ ExpirySpec /\ RouterSpec
    /\ AccessSpec /\ BrowserSpec
    /\ ModesInit /\ [][ModesNext]_modesVars
<1>1. PartsSpec => MonitorSpec
  BY PartsStart, PartsStep, PTL DEF PartsSpec, PartsFairness, MonitorSpec
<1>2. PartsSpec => OutboxSpec
  BY PartsStart, PartsStep, PTL DEF PartsSpec, PartsFairness, OutboxSpec
<1>3. PartsSpec => BudgetSpec
  BY PartsStart, PartsStep, PTL DEF PartsSpec, BudgetSpec
<1>4. PartsSpec => MarketSpec
  BY PartsStart, PartsStep, PTL DEF PartsSpec, MarketSpec
<1>5. PartsSpec => WatchSpec
  BY PartsStart, PartsStep, PTL DEF PartsSpec, WatchSpec
<1>6. PartsSpec => RotationSpec
  BY PartsStart, PartsStep, PTL DEF PartsSpec, PartsFairness, RotationSpec
<1>7. PartsSpec => SnapshotSpec
  BY PartsStart, PartsStep, PTL DEF PartsSpec, SnapshotSpec
<1>8. PartsSpec => ListingSpec
  BY PartsStart, PartsStep, PTL DEF PartsSpec, ListingSpec
<1>9. PartsSpec => PaperSpec
  BY PartsStart, PartsStep, PTL DEF PartsSpec, PaperSpec
<1>10. PartsSpec => SignInSpec
  BY PartsStart, PartsStep, PTL DEF PartsSpec, SignInSpec
<1>11. PartsSpec => ExpirySpec
  BY PartsStart, PartsStep, PTL DEF PartsSpec, PartsFairness, ExpirySpec
<1>12. PartsSpec => RouterSpec
  BY PartsStart, PartsStep, PTL DEF PartsSpec, PartsFairness, RouterSpec
<1>13. PartsSpec => AccessSpec
  BY PartsStart, PartsStep, PTL DEF PartsSpec, PartsFairness, AccessSpec
<1>14. PartsSpec => BrowserSpec
  BY PartsStart, PartsStep, PTL DEF PartsSpec, BrowserSpec
<1>15. PartsSpec => ModesInit /\ [][ModesNext]_modesVars
  BY PartsStart, PartsStep, PTL DEF PartsSpec
<1> QED BY <1>1, <1>2, <1>3, <1>4, <1>5, <1>6, <1>7, <1>8, <1>9, <1>10, <1>11, <1>12, <1>13,
           <1>14, <1>15

(* Every variable of every part has its type whichever parts run. *)
THEOREM PartsTypes == PartsSpec => []PartsTypeOK
<1>1. PartsSpec => [](part \in Part)
  <2>1. part \in Part /\ [PartsNext]_partsVars => (part \in Part)'
    BY PartsStep
  <2> QED BY <2>1, PartsStart, PTL DEF PartsSpec
<1>2. PartsSpec => []ModesTypeOK
  <2>1. ModesInv => ModesTypeOK
    BY DEF ModesInv
  <2> QED BY <2>1, PartsImplement, ModesInitInv, ModesStepInv, PTL
<1>3. PartsSpec => /\ []MonitorTypeOK /\ []OutboxTypeOK /\ []BudgetTypeOK /\ []MarketTypeOK
                   /\ []WatchTypeOK /\ []RotationTypeOK /\ []SnapshotTypeOK /\ []ListingTypeOK
  BY PartsImplement, MonitorTypes, OutboxTypes, BudgetTypes, MarketTypes, WatchTypes,
     RotationTypes, SnapshotTypes, ListingTypes
<1>4. PartsSpec => /\ []PaperTypeOK /\ []SignInTypeOK /\ []ExpiryTypeOK /\ []RouterTypeOK
                   /\ []AccessTypeOK /\ []BrowserTypeOK
  BY PartsImplement, PaperTypes, SignInTypes, ExpiryTypes, RouterTypes, AccessTypes, BrowserTypes
<1> QED BY <1>1, <1>2, <1>3, <1>4, PTL DEF PartsTypeOK

(* All that is proved of a part holds of it beside the others: one entry, instruction, window,
   lookup, account or channel is not more exposed because the rest of the relay is there. *)
THEOREM PartsAreSafe ==
  PartsSpec =>
    /\ []OneInstructionWatches /\ []MonitorSellsItsOwn /\ TellsWhatIsOwed
    /\ []WindowsAreKept /\ []HandoffFollowsLastCall /\ PreparedEntryStands /\ SnapshotErrsSafely
    /\ []NoDateIsSkipped /\ []PaperIsSound /\ []ChosenModeActs /\ SignInOutcomeStands
    /\ []OneExitPerEntry /\ []ReadyIsNotGone /\ RetryAfterIsKept /\ OnlyFollowedIsLive
<1>1. PartsSpec => []ChosenModeActs
  BY PartsImplement, ModesInitInv, ModesStepInv, ModesInvActs, PTL
<1>2. PartsSpec => /\ []OneInstructionWatches /\ []MonitorSellsItsOwn /\ TellsWhatIsOwed
                   /\ []WindowsAreKept /\ []HandoffFollowsLastCall
                   /\ PreparedEntryStands /\ SnapshotErrsSafely
  BY PartsImplement, NewestWatches, SellsItsOwnOnce, Tells, WindowsKept, HandoffIsCurrent,
     PreparedStands, SnapshotIsSafe
<1>3. PartsSpec => /\ []NoDateIsSkipped /\ []PaperIsSound /\ SignInOutcomeStands
                   /\ []OneExitPerEntry /\ []ReadyIsNotGone /\ RetryAfterIsKept
                   /\ OnlyFollowedIsLive
  BY PartsImplement, DayIsNotSkipped, PaperStaysSound, OutcomeStands, SentOncePerEntry,
     NothingGoneIsReady, DeadlineIsKept, FollowedIsLive
<1> QED BY <1>1, <1>2, <1>3
=============================================================================
