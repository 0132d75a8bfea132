-------------------------- MODULE ExecutionBuffer ---------------------------
(***************************************************************************)
(* The model_requests rows of one process: sessions hand what they observe *)
(* to a bounded queue (BufferedExecutionStore), one writer applies it to   *)
(* PostgreSQL in order, and every write may be dropped on the way.  A      *)
(* periodic task closes the rows whose deadline passed.  The process may   *)
(* shut down, with a drain that has a time limit, or crash; when it starts *)
(* again it closes expired rows and restores the admission slots of Redis  *)
(* from the rows that are still running, before it serves.                 *)
(*                                                                         *)
(* A session is what AttemptCoordinator makes of it: a ResponseSession,    *)
(* with attempts one after the other, a send state that only rises, one    *)
(* delivery after which no attempt starts, and one end.  The requests are  *)
(* of one client key and one conversation.                                 *)
(***************************************************************************)
EXTENDS ModelRequestRow, Sequences

CONSTANTS
    Requests,
    Chained,        \* the requests that ask for a continuation
    Course,         \* per request, bounds on what its session does
    Capacity,       \* of the channel
    MaxRestarts     \* bound on the times the process goes down

ASSUME BufferAssumption ==
    /\ IsFiniteSet(Requests)
    /\ Chained \subseteq Requests
    /\ Course \in [Requests -> [attempts : Nat, sends : SUBSET SendStates,
                               endings : SUBSET Endings]]
    /\ Capacity \in Nat /\ MaxRestarts \in Nat

VARIABLES
    session,        \* per request, what the session knows and where it is
    recent,         \* per request, those that completed up to 30 s before it started
    completed,      \* per request, the order in which the sessions ended
    queue,          \* the channel
    closed,         \* the queue was closed by a shutdown
    rows,           \* model_requests
    late,           \* requests whose deadline passed
    slots,          \* requests with an admission slot in Redis
    process,        \* "serving", "down" or "starting"
    restarts

vars == <<session, recent, completed, queue, closed, rows, late, slots,
          process, restarts>>

sessionVars == <<session, recent, completed>>
queueVars   == <<queue, closed>>
hostVars    == <<late, slots, process, restarts>>

\* A write carries what the session tells with it.
Write(op, r, value) == [op |-> op, request |-> r, value |-> value]

NewSession == [at |-> "new", attempts |-> 0, send |-> "NotSent",
               committed |-> FALSE, ending |-> "running"]

Init ==
    /\ session = [r \in Requests |-> NewSession]
    /\ recent = [r \in Requests |-> {}]
    /\ completed = [r \in Requests |-> 0]
    /\ queue = <<>>
    /\ closed = FALSE
    /\ rows = [r \in Requests |-> NoRow]
    /\ late = {}
    /\ slots = {}
    /\ process = "serving"
    /\ restarts = 0

-----------------------------------------------------------------------------
(* The sessions.                                                           *)

Over == {r \in Requests : session[r].at = "over"}

\* enqueue never waits: a write that finds the channel full or closed is dropped.
\* One that finds too many bytes reserved is dropped too; to the rows that is the
\* same as a write that fails later, which may happen to any of them.
Enqueued(write, writes) ==
    IF ~closed /\ Len(writes) < Capacity THEN Append(writes, write) ELSE writes

\* The session of r goes on with facts and hands a write over.
Continue(r, facts, write) ==
    /\ session' = [session EXCEPT ![r] = facts]
    /\ queue' = Enqueued(write, queue)
    /\ UNCHANGED <<recent, closed, rows>>

Live(r) == session[r].at = "open"

\* The request is admitted, and holds a slot.  Of the requests that ended
\* before, the older ones may be more than 30 seconds past.
Start(r) ==
    /\ process = "serving"
    /\ session[r].at = "new"
    /\ session' = [session EXCEPT ![r].at = "open"]
    /\ \E since \in {0} \cup {completed[p] : p \in Over} :
         recent' = [recent EXCEPT ![r] = {p \in Over : completed[p] > since}]
    /\ slots' = slots \cup {r}
    /\ UNCHANGED <<completed, queueVars, rows, late, process, restarts>>

\* The stream of an attempt is owned by the session, then the row is written.
BeginStream(r) ==
    /\ Live(r)
    /\ ~session[r].committed
    /\ session[r].attempts < Course[r].attempts
    /\ LET facts == [session[r] EXCEPT !.attempts = @ + 1]
           op == IF facts.attempts = 1 THEN "createWithAttempt" ELSE "attempt"
       IN  Continue(r, facts, Write(op, r, facts.attempts))
    /\ UNCHANGED <<completed, hostVars>>

\* mark_send_observed, or the error of a stream: the watermark rises.  A mark
\* that repeats the state is left out.
ObserveSend(r) ==
    /\ Live(r)
    /\ session[r].attempts > 0
    /\ \E send \in Course[r].sends :
         /\ Level[send] > Level[session[r].send]
         /\ LET facts == [session[r] EXCEPT !.send = send]
            IN  Continue(r, facts, Write("send", r, send))
    /\ UNCHANGED <<completed, hostVars>>

\* commit_downstream
CommitDownstream(r) ==
    /\ Live(r)
    /\ session[r].send = "Sent"
    /\ ~session[r].committed
    /\ Continue(r, [session[r] EXCEPT !.committed = TRUE], Write("committed", r, TRUE))
    /\ UNCHANGED <<completed, hostVars>>

\* persist_finalization.  Without an attempt the row is created now.  The lease
\* gives the slot back.
EndSession(r) ==
    /\ Live(r)
    /\ \E ending \in Course[r].endings :
         /\ ending \in Successes => session[r].committed
         /\ ending = "WebsocketLost" => session[r].attempts > 0
         /\ LET facts == [session[r] EXCEPT !.at = "over", !.ending = ending] IN
              /\ session' = [session EXCEPT ![r] = facts]
              /\ LET writes == IF facts.attempts = 0
                              THEN Enqueued(Write("create", r, 0), queue) ELSE queue
                 IN  queue' = Enqueued(Write("finalize", r, facts), writes)
    /\ completed' = [completed EXCEPT ![r] = Cardinality(Over) + 1]
    /\ slots' = slots \ {r}
    /\ UNCHANGED <<recent, closed, rows, late, process, restarts>>

-----------------------------------------------------------------------------
(* The writer.                                                             *)

OnRow(r, row) == [rows EXCEPT ![r] = row]

\* What PostgreSQL makes of a write, when it is committed.
Applied(write) ==
    LET r == write.request  row == rows[r] IN
    CASE write.op = "create"            -> OnRow(r, Insert(row, 0))
      [] write.op = "createWithAttempt" -> OnRow(r, Insert(row, 1))
      [] write.op = "attempt"           -> OnRow(r, BeginAttempt(row, write.value))
      [] write.op = "send"              -> OnRow(r, MarkSend(row, write.value))
      [] write.op = "committed"         -> OnRow(r, MarkCommitted(row))
      [] write.op = "finalize"          -> Finalize(rows, r, write.value, recent[r], Chained, completed)

\* The writer takes the next write and PostgreSQL commits it; the statement may
\* find its condition false.
Persist ==
    /\ queue # <<>>
    /\ rows' = Applied(Head(queue))
    /\ queue' = Tail(queue)
    /\ UNCHANGED <<sessionVars, closed, hostVars>>

\* The write fails, or the writer dies with it and is restarted: nothing is tried
\* again, since a failed write may have been committed.
PersistFails ==
    /\ queue # <<>>
    /\ queue' = Tail(queue)
    /\ UNCHANGED <<sessionVars, closed, rows, hostVars>>

\* drain_on_shutdown: the queue is closed, and what is in it still written until
\* two seconds are over; then the rest is dropped and the process ends (GoDown).
CloseQueue ==
    /\ process = "serving"
    /\ restarts < MaxRestarts
    /\ ~closed
    /\ closed' = TRUE
    /\ UNCHANGED <<sessionVars, queue, rows, hostVars>>

-----------------------------------------------------------------------------
(* Deadlines, recovery, and the process.                                   *)

\* The deadline of a request passes.
Deadline(r) ==
    /\ session[r].at = "open" \/ Running(rows[r]) \/ r \in slots
    /\ r \notin late
    /\ late' = late \cup {r}
    /\ UNCHANGED <<sessionVars, queueVars, rows, slots, process, restarts>>

Expired == {r \in late : Running(rows[r])}
Recovered == [r \in Requests |-> IF r \in Expired THEN Interrupt(rows[r]) ELSE rows[r]]

\* StaleModelRequestRecoveryTask, every 30 seconds.
RecoverExpired ==
    /\ process = "serving"
    /\ Expired # {}
    /\ rows' = Recovered
    /\ UNCHANGED <<sessionVars, queueVars, hostVars>>

\* The slots of Redis expire with the deadline.
SlotExpires(r) ==
    /\ r \in slots \cap late
    /\ slots' = slots \ {r}
    /\ UNCHANGED <<sessionVars, queueVars, rows, late, process, restarts>>

\* The process exits after the drain, or crashes at any time.  Redis may have been
\* lost with the host.
GoDown ==
    /\ process # "down"
    /\ restarts < MaxRestarts
    /\ process' = "down"
    /\ restarts' = restarts + 1
    /\ session' = [r \in Requests |->
                     IF session[r].at = "open" THEN [session[r] EXCEPT !.at = "gone"] ELSE session[r]]
    /\ queue' = <<>>
    /\ closed' = FALSE
    /\ slots' \in {slots, {}}
    /\ UNCHANGED <<recent, completed, rows, late>>

\* Mutant: the host serves while slots are still to be restored.
StartUpServing ==
    /\ process = "down"
    /\ process' = "serving"
    /\ rows' = Recovered
    /\ UNCHANGED <<sessionVars, queueVars, late, slots, restarts>>

\* restore_client_admission_startup, first step: recover_expired.
StartUp ==
    /\ process = "down"
    /\ process' = "starting"
    /\ rows' = Recovered
    /\ UNCHANGED <<sessionVars, queueVars, late, slots, restarts>>

\* load_recovery: the running rows; RESTORE_SCRIPT: unless they expired since.
Restorable == {r \in Requests : Running(rows[r]) /\ r \notin late}

\* Its second step: the slots of running rows are restored, and the host serves.
Restore ==
    /\ process = "starting"
    /\ process' = "serving"
    /\ slots' = slots \cup Restorable
    /\ UNCHANGED <<sessionVars, queueVars, rows, late, restarts>>

-----------------------------------------------------------------------------
SessionStep(r) ==
    \/ Start(r) \/ BeginStream(r) \/ ObserveSend(r) \/ CommitDownstream(r)
    \/ EndSession(r)

Next ==
    \/ \E r \in Requests :
          SessionStep(r) \/ Deadline(r) \/ SlotExpires(r)
    \/ Persist \/ PersistFails
    \/ CloseQueue \/ RecoverExpired \/ GoDown \/ StartUp \/ Restore

Spec == Init /\ [][Next]_vars

\* Time passes, the recovery task runs, and the host is started again.
FairSpec ==
    /\ Spec
    /\ \A r \in Requests : WF_vars(Deadline(r))
    /\ WF_vars(RecoverExpired)
    /\ WF_vars(StartUp)
    /\ WF_vars(Restore)

-----------------------------------------------------------------------------
(* Properties.                                                             *)

Session == [at : {"new", "open", "over", "gone"}, attempts : Nat, send : SendStates,
            committed : BOOLEAN, ending : Endings \cup {"running"}]
Row == [ending : Endings \cup {"absent", "running", "Interrupted"}, attempts : Nat,
        send : SendStates, committed : BOOLEAN, recoveredBy : SUBSET Requests]
Writes ==
    [op : {"create", "createWithAttempt", "attempt"}, request : Requests, value : Nat]
      \cup [op : {"send"}, request : Requests, value : SendStates]
      \cup [op : {"committed"}, request : Requests, value : BOOLEAN]
      \cup [op : {"finalize"}, request : Requests, value : Session]

\* The queue is as long as the channel is, and every variable has its type.
TypeOK ==
    /\ session \in [Requests -> Session]
    /\ recent \in [Requests -> SUBSET Requests]
    /\ completed \in [Requests -> Nat]
    /\ queue \in Seq(Writes) /\ Len(queue) <= Capacity
    /\ closed \in BOOLEAN
    /\ rows \in [Requests -> Row]
    /\ late \subseteq Requests /\ slots \subseteq Requests
    /\ process \in {"serving", "down", "starting"}
    /\ restarts \in Nat

\* Whatever writes were dropped, a row never claims what did not happen
\* (execution.rs:593-595): while it is running it is behind its session, and once
\* the session closed it, it tells exactly what the session knew at its end; a row
\* that tells nothing of the end was closed only after the deadline.
RowTellsTheTruth ==
    \A r \in Requests :
        LET row == rows[r]  told == session[r] IN
        /\ row.attempts <= told.attempts
        /\ Level[row.send] <= Level[told.send]
        /\ row.committed => told.committed
        /\ row.ending \in Endings =>
              /\ told.at = "over"
              /\ row.ending = told.ending /\ row.attempts = told.attempts
              /\ row.send = told.send /\ row.committed = told.committed
        /\ row.ending = "Interrupted" => r \in late

\* A lost continuation or connection counts as recovered by one request only: one
\* that started after it had failed, and that succeeded (execution.rs:784-865).
RecoveredByLaterSuccess ==
    \A p \in Requests : \A r \in rows[p].recoveredBy :
        /\ rows[p].recoveredBy = {r}
        /\ rows[p].ending \in {"RecoveryRequired", "WebsocketLost"}
        /\ rows[r].ending \in Successes
        /\ p \in recent[r]

\* While the host serves, a request whose row is still running has a slot until
\* its deadline, also when its process or Redis was lost: what may still be
\* running upstream counts (lib.rs:138-147).
LostRequestsHoldSlots ==
    process = "serving" =>
        \A r \in Requests :
            session[r].at = "gone" /\ Running(rows[r]) => r \in slots \cup late

\* Sessions tell what response sessions tell; one lost with its process falls silent.
TaleOf(told) ==
    [attempts |-> told.attempts, send |-> told.send, committed |-> told.committed,
     ending   |-> CASE told.ending = "running"    -> "running"
                    [] told.ending \in Successes -> "succeeded"
                    [] OTHER                     -> "failed"]

Tales == INSTANCE ResponseSession
           WITH Sessions <- Requests, tale <- [r \in Requests |-> TaleOf(session[r])]

\* The rows are a row lifecycle, and every row that is opened is closed.
StoryOf(row) ==
    [phase     |-> CASE row.ending = "absent"  -> "absent"
                     [] row.ending = "running" -> "open"
                     [] OTHER                  -> "closed",
     marks     |-> [attempts |-> row.attempts, sent |-> Level[row.send],
                    committed |-> row.committed],
     recovered |-> row.recoveredBy # {}]

Lifecycle == INSTANCE RowLifecycle WITH story <- [r \in Requests |-> StoryOf(rows[r])]

RowsHaveALifecycle == Lifecycle!RowLifecycleSpec
=============================================================================
