------------------------------ MODULE Custody ------------------------------
(***************************************************************************)
(* What order execution promises about the account, with everything the    *)
(* relay does to keep the promise left out: contracts are held, and of     *)
(* each holding at most one order is out at a time.  A sell is sent for no *)
(* more than is held, an entry only into a flat holding.  Execution        *)
(* implements this specification.                                          *)
(***************************************************************************)
EXTENDS Integers

CONSTANTS
  Holding,   \* what can be held: (source_group, contract) pairs
  OrderId,   \* names of orders
  MaxQty     \* contracts in one entry

VARIABLES
  held,      \* contracts held of each holding
  out        \* orders that can still trade

\* A new order goes out; nothing else of its holding may be out.
Send(t) ==
  /\ \A u \in out : u.holding # t.holding /\ u.id # t.id
  /\ t.buy => held[t.holding] = 0
  /\ out' = out \union {t}
  /\ UNCHANGED held

\* One contract trades.
Trade(t) ==
  /\ t \in out
  /\ held' = [held EXCEPT ![t.holding] = IF t.buy THEN @ + 1 ELSE @ - 1]
  /\ out' = (out \ {t}) \union
            (IF t.left > 1 THEN {[t EXCEPT !.left = @ - 1]} ELSE {})

\* An order is lost, refused, cancelled or ended.
End(t) ==
  /\ t \in out
  /\ out' = out \ {t}
  /\ UNCHANGED held

Init ==
  /\ held = [h \in Holding |-> 0]
  /\ out = {}

Next == \/ \E t \in out : Trade(t) \/ End(t)
        \/ \E o \in OrderId, h \in Holding, b \in BOOLEAN :
             \E n \in 1 .. (IF b THEN MaxQty ELSE held[h]) :
               Send([id |-> o, holding |-> h, buy |-> b, left |-> n])

Spec == Init /\ [][Next]_<<held, out>>
=============================================================================
