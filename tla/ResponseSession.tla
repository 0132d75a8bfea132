-------------------------- MODULE ResponseSession --------------------------
(***************************************************************************)
(* What the rest of the gateway relies on of response sessions, however    *)
(* they select, replay and hide their attempts: attempts begin one after   *)
(* the other until a response is committed to the client, what is known to *)
(* have been sent upstream is never taken back, and a session ends once.   *)
(* The buffered store writes what they tell to the rows, admission gives   *)
(* the slot back at the end, and the settlement charges the outcome.       *)
(***************************************************************************)
EXTENDS Naturals

CONSTANT Sessions

VARIABLE tale       \* per session, what it has told so far

Level == [NotSent |-> 0, Ambiguous |-> 1, Sent |-> 2]

SessionsInit ==
    tale = [s \in Sessions |-> [attempts |-> 0, send |-> "NotSent", committed |-> FALSE,
                                ending |-> "running"]]

\* An attempt begins: never after a response was committed.
Begin(s) ==
    /\ ~tale[s].committed
    /\ tale' = [tale EXCEPT ![s].attempts = @ + 1]

\* More is known to have been sent.
Rise(s) ==
    \E send \in {tale'[s].send} :
        /\ Level[send] > Level[tale[s].send]
        /\ tale' = [tale EXCEPT ![s].send = send]

\* The response of an attempt is committed downstream.
Commit(s) ==
    /\ tale[s].attempts > 0
    /\ ~tale[s].committed
    /\ tale' = [tale EXCEPT ![s].committed = TRUE]

\* Success is told only of a response that was sent and committed, and no end
\* takes back what was sent.
End(s) ==
    \E tail \in {tale'[s]} :
        /\ tail.ending \in {"succeeded", "failed"}
        /\ tail.ending = "succeeded" => tale[s].committed /\ tail.send = "Sent"
        /\ Level[tail.send] >= Level[tale[s].send]
        /\ tale' = [tale EXCEPT ![s] = [attempts  |-> @.attempts,  send   |-> tail.send,
                                        committed |-> @.committed, ending |-> tail.ending]]

\* After its end a session tells nothing more.
SessionsNext ==
    \E s \in Sessions :
        /\ tale[s].ending = "running"
        /\ Begin(s) \/ Rise(s) \/ Commit(s) \/ End(s)

SessionsSpec == SessionsInit /\ [][SessionsNext]_tale
=============================================================================
