-------------------------- MODULE ModelRequestRow ---------------------------
(***************************************************************************)
(* The row of model_requests as the statements of                          *)
(* gateway-store/src/postgres/execution.rs change it.  A statement whose   *)
(* condition does not hold updates no row.  Columns that only copy what a  *)
(* request or a response was like, and the status told to the client, are  *)
(* left out.                                                               *)
(***************************************************************************)
EXTENDS Naturals, FiniteSets

SendStates == {"NotSent", "Ambiguous", "Sent"}
Level == [NotSent |-> 0, Ambiguous |-> 1, Sent |-> 2]

\* How a session ends.  A success is told apart by its transport, a failure by
\* the error kinds that a later request of the conversation may recover from.
Successes == {"SucceededHttp", "SucceededWebsocket"}
Failures == {"Failed", "RecoveryRequired", "WebsocketLost"}
Endings == Successes \cup Failures

\* ending is "absent" without a row, "running" until the row is closed, and
\* "Interrupted" when a recovery closed it.
NoRow == [ending |-> "absent", attempts |-> 0, send |-> "NotSent",
          committed |-> FALSE, recoveredBy |-> {}]

Running(row) == row.ending = "running"

\* insert_model_request, and insert_model_request_with_first_attempt: the id is
\* the primary key.
Insert(row, attempts) ==
    IF row.ending = "absent"
    THEN [NoRow EXCEPT !.ending = "running", !.attempts = attempts]
    ELSE row

\* Mutant: an attempt resets the send state of the attempt before.
BeginAttemptAfresh(row, attempts) ==
    IF Running(row) /\ ~row.committed /\ attempts = row.attempts + 1
    THEN [row EXCEPT !.attempts = attempts, !.send = "NotSent"]
    ELSE row

\* begin_model_request_attempt
BeginAttempt(row, attempts) ==
    IF Running(row) /\ ~row.committed /\ attempts = row.attempts + 1
    THEN [row EXCEPT !.attempts = attempts]
    ELSE row

\* mark_upstream_send_state
MarkSend(row, send) ==
    IF Running(row) /\ row.attempts > 0 THEN [row EXCEPT !.send = send] ELSE row

\* mark_downstream_committed
MarkCommitted(row) ==
    IF Running(row) /\ ~row.committed THEN [row EXCEPT !.committed = TRUE] ELSE row

\* Mutant: the terminal write keeps the count of the attempts it finds.
CloseKeepingCount(row, told) ==
    [row EXCEPT !.ending = told.ending, !.send = told.send,
                !.committed = told.committed]

\* The update of finalize_model_request: it tells the whole story again.
Close(row, told) ==
    [row EXCEPT !.ending = told.ending, !.send = told.send, !.attempts = told.attempts,
                !.committed = told.committed]

\* recover_expired_model_requests
Interrupt(row) == [row EXCEPT !.ending = "Interrupted"]

-----------------------------------------------------------------------------
(* Later requests of a conversation that make up for a failure.            *)

Waiting(rows, recent, kind) ==
    {p \in recent : rows[p].ending = kind /\ rows[p].recoveredBy = {}}

\* Mutant: whoever ends, failed or not, makes up for what waits.
RecoversAnyway(rows, r, told, recent, chained, completed) ==
    Waiting(rows, recent, "RecoveryRequired")

\* The rows that count as recovered by r once it is closed as told: of the
\* requests recent that completed within 30 seconds before r started, the last
\* that lost its continuation, and those that lost their WebSocket.
Recovers(rows, r, told, recent, chained, completed) ==
    LET lost == Waiting(rows, recent, "RecoveryRequired") \cap chained
        last == {p \in lost : \A q \in lost : completed[q] <= completed[p]}
        cut  == {p \in Waiting(rows, recent, "WebsocketLost") :
                   rows[p].send = "Ambiguous" /\ ~rows[p].committed}
    IN  (IF told.ending \in Successes /\ r \notin chained THEN last ELSE {})
          \cup (IF told.ending = "SucceededHttp" THEN cut ELSE {})

\* finalize_model_request, one statement: nothing happens to any row unless
\* that of r is running.
Finalize(rows, r, told, recent, chained, completed) ==
    LET recovered == Recovers(rows, r, told, recent, chained, completed) IN
    IF Running(rows[r])
    THEN [p \in DOMAIN rows |->
            IF p = r THEN Close(rows[r], told)
            ELSE IF p \in recovered THEN [rows[p] EXCEPT !.recoveredBy = {r}]
            ELSE rows[p]]
    ELSE rows
=============================================================================
