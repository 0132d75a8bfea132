-------------------------- MODULE MCConnectionPool --------------------------
(* The connection pool on a small instance: two calls of one conversation, *)
(* one key, and as many connections and tasks as two calls need when one   *)
(* connection was taken from its holder and another opened.                *)
EXTENDS ConnectionPool

CONSTANTS w1, w2, k1, o1, o2, c1, c2
=============================================================================
