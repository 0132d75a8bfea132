--------------------------- MODULE MCBudgetLedger ---------------------------
(* The ledger on small instances: the requests of one key, and the limits  *)
(* an administrator sets.                                                  *)
EXTENDS BudgetLedger, TLC

CONSTANTS k1, r1, r2, r3

OneKey == [r \in Requests |-> k1]

\* The requests are interchangeable.
Symmetry == Permutations(Requests)

Limited == {[daily |-> 1, weekly |-> 2]}
LimitedOrNot == {[daily |-> 0, weekly |-> 0], [daily |-> 1, weekly |-> 2]}

=============================================================================
