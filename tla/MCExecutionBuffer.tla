------------------------- MODULE MCExecutionBuffer --------------------------
(* The buffer on small instances: a chain that breaks after two attempts,  *)
(* and a request that may make up for it.                                  *)
EXTENDS ExecutionBuffer

CONSTANTS r1, r2

BreaksThenSucceeds == [r \in Requests |->
    IF r = r1
    THEN [attempts |-> 2, sends |-> {"Ambiguous"},
          endings |-> {"RecoveryRequired", "WebsocketLost"}]
    ELSE [attempts |-> 1, sends |-> {"Sent"}, endings |-> {"SucceededHttp", "Failed"}]]
=============================================================================
