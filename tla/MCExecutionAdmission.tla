------------------------ MODULE MCExecutionAdmission ------------------------
(* Client admission on small instances.                                    *)
EXTENDS ExecutionAdmission

CONSTANTS k1, r1, r2, r3

OneKey == [r \in Waiters |-> k1]
One == [k \in Keys |-> 1]
=============================================================================
