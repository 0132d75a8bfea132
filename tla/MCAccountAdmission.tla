-------------------------- MODULE MCAccountAdmission --------------------------
(* Account admission on small instances.                                   *)
EXTENDS AccountAdmission

CONSTANTS a1, a2, r1, r2, r3

\* The third request is pinned to the second account.
ScopeOf == [w \in Waiters |-> IF w = r3 THEN {a2} ELSE Keys]
OneEach == [a \in Keys |-> 1]
=============================================================================
