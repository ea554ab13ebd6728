------------------------------ MODULE Telling ------------------------------
(***************************************************************************)
(* What the notification worker promises, with its tables, its crashes and *)
(* its retries left out.  It serves one destination at a time.  What it    *)
(* owes stays owed until it is settled or another destination is taken up; *)
(* it is settled only once it has been heard, is told only while it is     *)
(* owed, and what is settled is not owed again.  What was old when the     *)
(* worker last took up its destination is never owed.                      *)
(* Outbox implements this specification.                                   *)
(***************************************************************************)

CONSTANTS
  Matter,        \* what can be told
  Destination,   \* where
  Nowhere        \* no destination yet

VARIABLES
  serving,       \* the destination
  old,           \* what it need not be told
  owed,          \* what it is still to be told
  settled,       \* what it has been told for good
  heard          \* what has been heard, and where

\* A destination is taken up, or taken up again; another one is owed nothing of what the last was.
TakeUp(d) ==
  /\ serving' = d /\ old' \subseteq Matter
  /\ IF d = serving THEN UNCHANGED <<owed, settled>> ELSE owed' = {} /\ settled' = {}
  /\ UNCHANGED heard

Owe ==
  /\ serving # Nowhere
  /\ owed \subseteq owed' /\ owed' \subseteq Matter
  /\ (owed' \ owed) \intersect (old \union settled) = {}
  /\ UNCHANGED <<serving, old, settled, heard>>

Tell(n) ==
  /\ heard' = heard \union {<<n, serving>>}
  /\ UNCHANGED <<serving, old, owed, settled>>

Settle(n) ==
  /\ <<n, serving>> \in heard
  /\ owed' = owed \ {n} /\ settled' = settled \union {n}
  /\ UNCHANGED <<serving, old, heard>>

Init ==
  /\ serving = Nowhere
  /\ old = {} /\ owed = {} /\ settled = {} /\ heard = {}

Next ==
  \/ \E d \in Destination : TakeUp(d)
  \/ Owe
  \/ \E n \in owed : Tell(n) \/ Settle(n)

Spec == Init /\ [][Next]_<<serving, old, owed, settled, heard>>
=============================================================================
