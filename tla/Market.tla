------------------------------- MODULE Market -------------------------------
(***************************************************************************)
(* The market data RobinhoodBroker keeps while a contract is on watch      *)
(* (broker.py): a shared account snapshot and quotes, refreshed in the     *)
(* background, and their handoff to an entry, whose execution scope keeps  *)
(* what it read until the order is sent.  The account cache (account.py)   *)
(* shares the event that tells of a change.                                *)
(*                                                                         *)
(* A snapshot is known by how many of the relay's orders had been called   *)
(* when it was read.  One contract, one batch.                             *)
(***************************************************************************)
EXTENDS Integers

CONSTANT MaxCalls    \* bound: orders placed or cancelled

ASSUME MarketAssumption == MaxCalls \in Nat

VARIABLES
  made,           \* orders and cancellations called so far
  generation,     \* _watch_generation
  changed,        \* account_changed
  watchSnapshot,  \* _watch_snapshot
  watchQuote,     \* _watch_quotes of the contract: its generation
  refresh,        \* _watch_snapshot_task
  quoteBatch,     \* refresh_watch_market_batch: its generation
  display,        \* AccountCache.run
  sizing,         \* the entry under Engine.lock: the snapshot it goes by
  engine          \* what the holder of Engine.lock is doing

marketVars == <<made, generation, changed, watchSnapshot, watchQuote, refresh, quoteBatch, display, sizing, engine>>

NoGeneration == -1
NoSnapshot == [gen |-> NoGeneration, calls |-> NoGeneration]
MarketRead == [gen: NoGeneration .. MaxCalls, calls: NoGeneration .. MaxCalls]

\* A snapshot read now.  "gen" is NoGeneration for one that is not from the watch cache.
ReadFor(gen) == [gen |-> gen, calls |-> made]

-----------------------------------------------------------------------------
(* Background refreshes. *)

\* A batch is asked for; a snapshot is due, or it is not.
BeginBatch ==
  /\ quoteBatch = NoGeneration
  /\ quoteBatch' = generation
  /\ refresh' \in IF refresh.gen = NoGeneration THEN {refresh, [NoSnapshot EXCEPT !.gen = generation]}
                  ELSE {refresh}
  /\ UNCHANGED <<made, generation, changed, watchSnapshot, watchQuote, display, sizing, engine>>

\* The quotes come: they are dropped when the account has changed.
EndBatch ==
  /\ quoteBatch # NoGeneration
  /\ watchQuote' \in IF quoteBatch = generation THEN {watchQuote, quoteBatch} ELSE {watchQuote}
  /\ quoteBatch' = NoGeneration
  /\ UNCHANGED <<made, generation, changed, watchSnapshot, refresh, display, sizing, engine>>

\* The account is read for the task, or the reads fail, or the task is late.
ReadSnapshot ==
  /\ refresh.gen # NoGeneration /\ refresh.calls = NoGeneration
  /\ refresh' \in IF refresh.gen = generation THEN {NoSnapshot, ReadFor(generation)} ELSE {NoSnapshot}
  /\ UNCHANGED <<made, generation, changed, watchSnapshot, watchQuote, quoteBatch, display, sizing, engine>>

\* Stored, unless the account has changed since.
StoreSnapshot ==
  /\ refresh.calls # NoGeneration
  /\ watchSnapshot' = IF refresh.gen = generation /\ ~changed THEN refresh ELSE watchSnapshot
  /\ refresh' = NoSnapshot
  /\ UNCHANGED <<made, generation, changed, watchQuote, quoteBatch, display, sizing, engine>>

\* Ten seconds after the read began.
Expire ==
  /\ \/ watchSnapshot # NoSnapshot /\ watchSnapshot' = NoSnapshot /\ UNCHANGED watchQuote
     \/ watchQuote # NoGeneration /\ watchQuote' = NoGeneration /\ UNCHANGED watchSnapshot
  /\ UNCHANGED <<made, generation, changed, refresh, quoteBatch, display, sizing, engine>>

\* Mutant of Invalidate: the caches are emptied, what is under way goes on.
InvalidateCached ==
  /\ watchSnapshot' = NoSnapshot /\ watchQuote' = NoGeneration
  /\ UNCHANGED <<refresh, generation>>

\* _invalidate_watch_market, as an order is called.
Invalidate ==
  /\ generation' = generation + 1
  /\ watchSnapshot' = NoSnapshot /\ watchQuote' = NoGeneration
  /\ refresh' = NoSnapshot

-----------------------------------------------------------------------------
(* The account cache waits for the event, clears it and reads; it also reads now and then. *)

DisplayBegins ==
  /\ display = "waiting"
  /\ display' = "reading"
  /\ changed' = FALSE
  /\ UNCHANGED <<made, generation, watchSnapshot, watchQuote, refresh, quoteBatch, sizing, engine>>

DisplayEnds ==
  /\ display = "reading"
  /\ display' = "waiting"
  /\ UNCHANGED <<made, generation, changed, watchSnapshot, watchQuote, refresh, quoteBatch, sizing, engine>>

-----------------------------------------------------------------------------
(* The engine, one at a time under Engine.lock. *)

\* watch_entry_snapshot.
Handed == watchSnapshot # NoSnapshot /\ watchQuote # NoGeneration /\ ~changed
          /\ watchSnapshot.gen = generation /\ watchQuote = generation

\* An entry is planned, with the warmed snapshot or a fresh one.
Plan ==
  /\ engine = "free"
  /\ engine' = "planned"
  /\ sizing' \in (IF Handed THEN {watchSnapshot} ELSE {}) \union {ReadFor(NoGeneration)}
  /\ UNCHANGED <<made, generation, changed, watchSnapshot, watchQuote, refresh, quoteBatch, display>>

\* _execution_snapshot: the scope still answers for the account.
Scoped == ~changed /\ (sizing.gen = NoGeneration \/ sizing.gen = generation)

\* submit takes the snapshot of the scope, or reads again when that is too old.
PrepareOrder ==
  /\ engine = "planned"
  /\ engine' = "ready"
  /\ sizing' \in (IF Scoped THEN {sizing} ELSE {}) \union {ReadFor(NoGeneration)}
  /\ UNCHANGED <<made, generation, changed, watchSnapshot, watchQuote, refresh, quoteBatch, display>>

\* The order is called: by an entry, or by work that needs no snapshot.
CallOrder ==
  /\ engine \in {"ready", "free"} /\ made < MaxCalls
  /\ engine' = "called"
  /\ made' = made + 1
  /\ sizing' = NoSnapshot
  /\ Invalidate
  /\ UNCHANGED <<changed, quoteBatch, display>>

\* An entry ends before it is sent; the read budget refuses it at the last moment.
HoldOrder ==
  /\ engine \in {"planned", "ready"}
  /\ engine' = "free"
  /\ sizing' = NoSnapshot
  /\ changed' \in IF engine = "ready" THEN {changed, TRUE} ELSE {changed}
  /\ UNCHANGED <<made, generation, watchSnapshot, watchQuote, refresh, quoteBatch, display>>

\* The answer, or the failure of a call that had no effect.
AnswerOrder ==
  /\ engine = "called"
  /\ engine' = "free"
  /\ changed' = TRUE
  /\ UNCHANGED <<made, generation, watchSnapshot, watchQuote, refresh, quoteBatch, display, sizing>>

MarketInit ==
  /\ made = 0 /\ generation = 0 /\ changed = FALSE
  /\ watchSnapshot = NoSnapshot /\ watchQuote = NoGeneration /\ refresh = NoSnapshot /\ quoteBatch = NoGeneration
  /\ display = "waiting"
  /\ sizing = NoSnapshot /\ engine = "free"

MarketNext ==
  \/ BeginBatch
  \/ EndBatch
  \/ ReadSnapshot
  \/ StoreSnapshot
  \/ Expire
  \/ DisplayBegins
  \/ DisplayEnds
  \/ Plan
  \/ PrepareOrder
  \/ CallOrder
  \/ HoldOrder
  \/ AnswerOrder

MarketSpec == MarketInit /\ [][MarketNext]_marketVars

-----------------------------------------------------------------------------

MarketTypeOK ==
  /\ {made, generation} \subseteq 0 .. MaxCalls
  /\ changed \in BOOLEAN
  /\ {watchSnapshot, refresh, sizing} \subseteq MarketRead
  /\ {watchQuote, quoteBatch} \subseteq NoGeneration .. MaxCalls
  /\ display \in {"waiting", "reading"}
  /\ engine \in {"free", "planned", "ready", "called"}

\* _watch_generation: an entry never goes by a snapshot that was read before the relay's
\* last order was called, through the watch cache, the refresh that fills it or the scope.
HandoffFollowsLastCall ==
  engine \in {"planned", "ready"} => sizing.calls = made
=============================================================================
