------------------------------ MODULE MCSizing ------------------------------
EXTENDS Sizing

\* Both sides of the cutoff, on it and across it; one quote is too wide.
MCQuotes == {[bid |-> 4, ask |-> 4], [bid |-> 3, ask |-> 4], [bid |-> 10, ask |-> 10],
             [bid |-> 5, ask |-> 10]}

\* Enough for several contracts, for one, for none; one with the budget of others used up.
MCAccounts ==
  {[equity |-> 100, power |-> 100, exposure |-> 0, elsewhere |-> 0, available |-> 2],
   [equity |-> 100, power |-> 70, exposure |-> 0, elsewhere |-> 0, available |-> 0],
   [equity |-> 100, power |-> 100, exposure |-> 0, elsewhere |-> 45, available |-> 2]}
=============================================================================
