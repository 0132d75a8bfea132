---------------------------- MODULE RowLifecycle ----------------------------
(***************************************************************************)
(* What readers of model_requests rely on, whatever becomes of the writes: *)
(* a request has one row, which is opened once, only grows while it is     *)
(* open, and is closed once and for good, by the outcome of its session or *)
(* by a recovery.  Console pages, statistics, the recovery of admissions   *)
(* at a start and the recovery of expired rows all read rows this way.     *)
(***************************************************************************)
EXTENDS Naturals

CONSTANT Requests

VARIABLE story      \* per request, what its row says

Marks == [attempts : Nat, sent : 0 .. 2, committed : BOOLEAN]
Story == [phase : {"absent", "open", "closed"}, marks : Marks, recovered : BOOLEAN]

\* What a row says that knows of n attempts only.
FirstMarks(n) == [attempts |-> n, sent |-> 0, committed |-> FALSE]

\* The row knows no less than before.
Grows(old, new) ==
    /\ new.attempts >= old.attempts
    /\ new.sent >= old.sent
    /\ old.committed => new.committed

LifecycleInit ==
    story = [r \in Requests |-> [phase |-> "absent", marks |-> FirstMarks(0), recovered |-> FALSE]]

\* The row of r appears, with its first attempt or with none.
Open(r) ==
    /\ story[r].phase = "absent"
    /\ \E n \in {0, 1} :
         story' = [story EXCEPT ![r] = [phase |-> "open", recovered |-> FALSE,
                                        marks |-> FirstMarks(n)]]

\* An attempt is counted, a send state or the delivery is noted.
Grow(r) ==
    /\ story[r].phase = "open"
    /\ \E marks \in {story'[r].marks} :
         /\ Grows(story[r].marks, marks)
         /\ marks.attempts <= story[r].marks.attempts + 1
         /\ story' = [story EXCEPT ![r].marks = marks]

\* No session told how rows of S end: their deadlines passed.
Expire(S) ==
    /\ \A r \in S : story[r].phase = "open"
    /\ story' = [r \in Requests |->
                   IF r \in S THEN [story[r] EXCEPT !.phase = "closed"] ELSE story[r]]

\* The session of r tells how it ended; closed rows of S count as recovered by it.
Close(r, S) ==
    /\ story[r].phase = "open"
    /\ \A p \in S : story[p].phase = "closed" /\ ~story[p].recovered
    /\ \E marks \in {story'[r].marks} :
         /\ Grows(story[r].marks, marks)
         /\ story' = [q \in Requests |->
                        IF q = r THEN [phase |-> "closed", marks |-> marks,
                                       recovered |-> story[q].recovered]
                        ELSE IF q \in S THEN [story[q] EXCEPT !.recovered = TRUE]
                        ELSE story[q]]

LifecycleNext ==
    \/ \E r \in Requests : Open(r) \/ Grow(r)
    \/ \E S \in SUBSET Requests : Expire(S)
    \/ \E r \in Requests, S \in SUBSET Requests : Close(r, S)

\* Every row that was opened is closed in the end.
RowsClose == <>[](\A r \in Requests : story[r].phase # "open")

LifecycleSafety == LifecycleInit /\ [][LifecycleNext]_story

RowLifecycleSpec == LifecycleSafety /\ RowsClose
=============================================================================
