----------------------------- MODULE MCSignals ------------------------------
(* Instances of Signals for TLC. *)
EXTENDS Signals

EntryThenExits == [m \in Message |-> IF m = 1 THEN {"OPEN"} ELSE {"EXIT"}]
=============================================================================
