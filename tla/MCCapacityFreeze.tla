--------------------------- MODULE MCCapacityFreeze ---------------------------
(* The cooldown of one account on small instances.                         *)
EXTENDS CapacityFreeze

CONSTANTS q1, w1
=============================================================================
