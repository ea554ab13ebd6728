------------------------------- MODULE Router -------------------------------
(***************************************************************************)
(* EvaluationRouter (evaluation.py) with the two evaluators behind it: the *)
(* JEV adapter (jev.py), which may answer two messages at a time and backs *)
(* off when it is refused, and Codex (interpreter.py), one call at a time  *)
(* under a lock, each in a thread and a process of its own.                *)
(*                                                                         *)
(* A question is "direct" when the rules of entry_rules and                *)
(* management_rules may answer it; which does, and what the evaluators     *)
(* make of a message, is anything.  One tick is at most 60 s.              *)
(***************************************************************************)
EXTENDS Integers, FiniteSets, Sequences, SequencesExt

CONSTANTS
  Question,      \* evaluations that may be under way: slots of the dispatcher, monitors
  Callback,      \* those of them that are a monitor's
  JevPool,       \* permits of _jev_lock
  MaxPause,      \* bound: ticks of a Retry-After
  MaxOrphan      \* bound: Codex processes whose caller has been cancelled

ASSUME RouterAssumption ==
  /\ Callback \subseteq Question /\ IsFiniteSet(Question)
  /\ JevPool \in Nat \ {0} /\ MaxPause \in Nat \ {0} /\ MaxOrphan \in Nat

VARIABLES
  mode,       \* evaluation.mode
  asks,       \* the evaluation of each question
  jev,        \* and what JEV does for it
  line,       \* _codex_lock: the holder, then who waits
  orphans,    \* Codex processes nobody waits for
  backoff     \* cooldown_until, in ticks from now

routerVars == <<mode, asks, jev, line, orphans, backoff>>

Ended == {"none", "answered", "failed", "cancelled"}
AskState == Ended \union {"jev", "waiting", "codex", "shadow"}
JevState == {"none", "queued", "asking", "decided", "failed"}

Idle(a) == asks[a] = [at |-> "none", attempts |-> 0]
At(a) == asks[a].at
Went(a, at) == asks' = [asks EXCEPT ![a].at = at]
Asking == {a \in Question : jev[a] = "asking"}
LongPause == 1

-----------------------------------------------------------------------------
(* EvaluationRouter.interpret, assess_recovery, assess_monitor. *)

\* The rules answer at once, except in shadow mode.
AnswerDirectly(a) ==
  /\ Idle(a) /\ a \notin Callback /\ mode # "jev_shadow"
  /\ Went(a, "answered")
  /\ UNCHANGED <<mode, jev, line, orphans, backoff>>

\* A message in mode "codex"; a monitor and a recovery whatever the mode.
AskCodex(a) ==
  /\ Idle(a)
  /\ Went(a, "waiting") /\ line' = Append(line, a)
  /\ UNCHANGED <<mode, jev, orphans, backoff>>

AskJev(a) ==
  /\ Idle(a) /\ a \notin Callback /\ mode = "jev"
  /\ Went(a, "jev") /\ jev' = [jev EXCEPT ![a] = "queued"]
  /\ UNCHANGED <<mode, line, orphans, backoff>>

AskBoth(a) ==
  /\ Idle(a) /\ a \notin Callback /\ mode = "jev_shadow"
  /\ Went(a, "waiting") /\ line' = Append(line, a)
  /\ jev' = [jev EXCEPT ![a] = "queued"]
  /\ UNCHANGED <<mode, orphans, backoff>>

\* The caller has its answer and may ask again.
Collect(a) ==
  /\ At(a) \in Ended \ {"none"}
  /\ asks' = [asks EXCEPT ![a] = [at |-> "none", attempts |-> 0]]
  /\ jev' = [jev EXCEPT ![a] = "none"]
  /\ UNCHANGED <<mode, line, orphans, backoff>>

-----------------------------------------------------------------------------
(* JEV. *)

\* What a failure of JEV does to its evaluation: Codex is asked, or had been.
FallBack(a) ==
  /\ jev' = [jev EXCEPT ![a] = "failed"]
  /\ CASE At(a) = "jev" -> Went(a, "waiting") /\ line' = Append(line, a)
       [] At(a) = "shadow" -> Went(a, "answered") /\ UNCHANGED line
       [] OTHER -> UNCHANGED <<asks, line>>

\* cooldown_until after a failure that is none of the provider's refusals.
BriefBackoff == IF backoff = 0 THEN {0, LongPause} ELSE {backoff}

\* A permit is free, and so is the provider: the key is read, the candidates prepared, the
\* request sent.  Cooling down, or without a candidate, JEV gives up without asking.
JevBegins(a) ==
  /\ jev[a] = "queued" /\ Cardinality(Asking) < JevPool
  /\ \/ /\ backoff = 0
        /\ jev' = [jev EXCEPT ![a] = "asking"]
        /\ UNCHANGED <<asks, line, backoff>>
     \/ FallBack(a) /\ UNCHANGED backoff
     \/ backoff = 0 /\ FallBack(a) /\ backoff' = LongPause
  /\ UNCHANGED <<mode, orphans>>

JevAnswers(a) ==
  /\ jev[a] = "asking"
  /\ \/ /\ jev' = [jev EXCEPT ![a] = "decided"]
        /\ IF At(a) \in {"jev", "shadow"} THEN Went(a, "answered") ELSE UNCHANGED asks
        /\ UNCHANGED line
     \/ FallBack(a)
  /\ UNCHANGED <<mode, orphans, backoff>>

\* 429 with the Retry-After it names, a minute at least; 401 and 403.
JevRefuses(a) ==
  /\ jev[a] = "asking"
  /\ FallBack(a)
  /\ backoff' \in LongPause .. MaxPause
  /\ UNCHANGED <<mode, orphans>>

\* No answer, an answer that cannot be read, or none in time: five seconds.
JevFails(a) ==
  /\ jev[a] = "asking"
  /\ FallBack(a)
  /\ backoff' \in BriefBackoff
  /\ UNCHANGED <<mode, orphans>>

\* The deadline of the router passes, while JEV is asked or a permit is awaited.
JevIsLate(a) ==
  /\ jev[a] \in {"queued", "asking"}
  /\ FallBack(a)
  /\ UNCHANGED <<mode, orphans, backoff>>

RouterTick ==
  /\ backoff > 0
  /\ backoff' = backoff - 1
  /\ UNCHANGED <<mode, asks, jev, line, orphans>>

-----------------------------------------------------------------------------
(* Codex. *)

\* _interpret starts in a thread.
CodexBegins(a) ==
  /\ At(a) = "waiting" /\ line # <<>> /\ Head(line) = a
  /\ asks' = [asks EXCEPT ![a] = [at |-> "codex", attempts |-> 1]]
  /\ UNCHANGED <<mode, jev, line, orphans, backoff>>

\* The process is killed after its timeout at the latest.  A failure that may pass, or evidence
\* that does not hold, is tried once more under the same lock.
CodexRetries(a) ==
  /\ At(a) = "codex" /\ asks[a].attempts = 1
  /\ asks' = [asks EXCEPT ![a].attempts = 2]
  /\ UNCHANGED <<mode, jev, line, orphans, backoff>>

CodexAnswers(a) ==
  /\ At(a) = "codex"
  /\ line' = Tail(line)
  /\ Went(a, IF jev[a] \in {"queued", "asking"} THEN "shadow" ELSE "answered")
  /\ UNCHANGED <<mode, jev, orphans, backoff>>

\* _cancel_shadow_task: JEV is not left at work for an evaluation that has failed.
ShadowLeft(a) == IF jev[a] \in {"queued", "asking"} THEN "none" ELSE jev[a]

CodexFails(a) ==
  /\ At(a) = "codex"
  /\ line' = Tail(line)
  /\ Went(a, "failed") /\ jev' = [jev EXCEPT ![a] = ShadowLeft(a)]
  /\ UNCHANGED <<mode, orphans, backoff>>

\* Mutant of OutOfLine: the one that is cancelled keeps its place.
StaysInLine(a) == line

\* Who waits for the lock, or holds it, lets go of it.
OutOfLine(a) == RemoveFirst(line, a)

\* PositionMonitors.run cancels an evaluation when messages come in, the monitor has ended or
\* the kill switch is set.  The thread it waits for goes on.
CancelCallback(a) ==
  /\ a \in Callback /\ At(a) \in {"waiting", "codex"}
  /\ At(a) = "codex" => orphans < MaxOrphan
  /\ line' = OutOfLine(a)
  /\ orphans' = IF At(a) = "codex" THEN orphans + 1 ELSE orphans
  /\ Went(a, "cancelled")
  /\ UNCHANGED <<mode, jev, backoff>>

OrphanEnds ==
  /\ orphans > 0
  /\ orphans' = orphans - 1
  /\ UNCHANGED <<mode, asks, jev, line, backoff>>

-----------------------------------------------------------------------------
RouterInit ==
  /\ mode \in {"codex", "jev", "jev_shadow"}
  /\ asks = [a \in Question |-> [at |-> "none", attempts |-> 0]]
  /\ jev = [a \in Question |-> "none"]
  /\ line = <<>> /\ orphans = 0 /\ backoff = 0

RouterNext ==
  \/ \E a \in Question :
       \/ AnswerDirectly(a)
       \/ AskCodex(a)
       \/ AskJev(a)
       \/ AskBoth(a)
       \/ Collect(a)
       \/ JevBegins(a)
       \/ JevAnswers(a)
       \/ JevRefuses(a)
       \/ JevFails(a)
       \/ JevIsLate(a)
       \/ CodexBegins(a)
       \/ CodexRetries(a)
       \/ CodexAnswers(a)
       \/ CodexFails(a)
       \/ CancelCallback(a)
  \/ OrphanEnds
  \/ RouterTick

\* JEV and Codex end by their deadlines, and a lock that is free wakes the first who waits.
RouterFairness ==
  \A a \in Question :
    /\ WF_routerVars(JevIsLate(a))
    /\ WF_routerVars(CodexBegins(a))
    /\ WF_routerVars(CodexAnswers(a) \/ CodexFails(a))

RouterSpec == RouterInit /\ [][RouterNext]_routerVars /\ RouterFairness

-----------------------------------------------------------------------------
(* Properties. *)

RouterTypeOK ==
  /\ mode \in {"codex", "jev", "jev_shadow"}
  /\ asks \in [Question -> [at: AskState, attempts: 0 .. 2]]
  /\ jev \in [Question -> JevState]
  /\ line \in Seq(Question) /\ orphans \in 0 .. MaxOrphan
  /\ backoff \in 0 .. MaxPause

\* evaluation.py:102: every evaluation ends, whichever evaluator fails and whoever is cancelled.
EvaluationEnds == \A a \in Question : (At(a) \notin Ended) ~> (At(a) \in Ended)
=============================================================================
