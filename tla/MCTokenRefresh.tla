---------------------------- MODULE MCTokenRefresh ----------------------------
(* The refresh of one credential on small instances.                       *)
EXTENDS TokenRefresh

CONSTANTS w1, w2, m1, q1
=============================================================================
