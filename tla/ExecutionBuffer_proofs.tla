------------------------ MODULE ExecutionBuffer_proofs ------------------------
(* What is proved of ExecutionBuffer.                                      *)
EXTENDS ExecutionBuffer, FiniteSetTheorems, TLAPS

\* What a write tells is known to its session, which lives or has ended.
Told(w, knows) ==
    /\ knows.at \in {"open", "over"}
    /\ w.op = "createWithAttempt" => knows.attempts >= 1
    /\ w.op = "attempt" => w.value <= knows.attempts
    /\ w.op = "send" => Level[w.value] <= Level[knows.send]
    /\ w.op = "committed" => knows.committed
    /\ w.op = "finalize" => knows.at = "over" /\ knows.ending \in Endings /\ w.value = knows
QueueTrue == \A i \in 1 .. Len(queue) : Told(queue[i], session[queue[i].request])

\* The send states on their way to a row rise, from what the row says now.
AboveRow(w) == w.op = "send" /\ Running(rows[w.request]) =>
                  Level[rows[w.request].send] <= Level[w.value]
InOrder(v, w) == v.op = "send" /\ w.op = "send" /\ v.request = w.request =>
                    Level[v.value] <= Level[w.value]
SendsRise ==
    /\ \A i \in 1 .. Len(queue) : AboveRow(queue[i])
    /\ \A i, j \in 1 .. Len(queue) : i < j => InOrder(queue[i], queue[j])

IInv ==
    /\ TypeOK
    /\ RowTellsTheTruth
    /\ QueueTrue
    /\ SendsRise
    /\ RecoveredByLaterSuccess
    /\ LostRequestsHoldSlots

-----------------------------------------------------------------------------
(* The operators.                                                          *)

LEMMA Levels == \A s \in SendStates : Level[s] \in 0 .. 2
BY DEF Level, SendStates

LEMMA LowestLevel == "NotSent" \in SendStates /\ Level["NotSent"] = 0
BY DEF Level, SendStates

\* A write is handed over at the end of the queue or not at all.
LEMMA EnqueuedLast ==
  ASSUME NEW w \in Writes, NEW q \in Seq(Writes), Len(q) <= Capacity
  PROVE  /\ Enqueued(w, q) \in Seq(Writes)
         /\ Len(Enqueued(w, q)) <= Capacity
         /\ Len(Enqueued(w, q)) \in {Len(q), Len(q) + 1}
         /\ \A i \in 1 .. Len(Enqueued(w, q)) :
               \/ i \in 1 .. Len(q) /\ Enqueued(w, q)[i] = q[i]
               \/ i = Len(q) + 1 /\ Enqueued(w, q)[i] = w
<1> HIDE DEF Writes
<1>1. CASE Enqueued(w, q) = q
  BY <1>1
<1>2. CASE Enqueued(w, q) = Append(q, w) /\ Len(q) < Capacity
  BY <1>2, BufferAssumption
<1> QED
  BY <1>1, <1>2 DEF Enqueued

LEMMA QueueRest ==
  ASSUME NEW q \in Seq(Writes), q # <<>>
  PROVE  /\ Head(q) = q[1] /\ Head(q) \in Writes
         /\ Tail(q) \in Seq(Writes) /\ Len(Tail(q)) = Len(q) - 1
         /\ 1 \in 1 .. Len(q)
         /\ \A i \in 1 .. Len(Tail(q)) : Tail(q)[i] = q[i + 1] /\ i + 1 \in 1 .. Len(q)
<1> HIDE DEF Writes
<1> QED
  OBVIOUS

-----------------------------------------------------------------------------
(* The sessions.                                                           *)

\* The session of r goes on or ends: it knows no less than before.
Forward(r) ==
    /\ session' \in [Requests -> Session]
    /\ \A q \in Requests \ {r} : session'[q] = session[q]
    /\ session[r].at \in {"new", "open"}
    /\ session'[r].at \in {"open", "over"}
    /\ session[r].attempts <= session'[r].attempts
    /\ Level[session[r].send] <= Level[session'[r].send]
    /\ session[r].committed => session'[r].committed

LEMMA RowsStayTrue ==
  ASSUME TypeOK, RowTellsTheTruth, NEW r \in Requests, Forward(r),
         rows' = rows, late' = late
  PROVE  RowTellsTheTruth'
<1> SUFFICES ASSUME NEW q \in Requests
             PROVE  /\ rows[q].attempts <= session'[q].attempts
                    /\ Level[rows[q].send] <= Level[session'[q].send]
                    /\ rows[q].committed => session'[q].committed
                    /\ rows[q].ending \in Endings =>
                          /\ session'[q].at = "over"
                          /\ rows[q].ending = session'[q].ending
                          /\ rows[q].attempts = session'[q].attempts
                          /\ rows[q].send = session'[q].send
                          /\ rows[q].committed = session'[q].committed
                    /\ rows[q].ending = "Interrupted" => q \in late
  BY DEF RowTellsTheTruth
<1>1. CASE q # r
  BY <1>1 DEF RowTellsTheTruth, Forward
<1>2. CASE q = r
  <2>1. /\ rows[r].attempts <= session[r].attempts
        /\ Level[rows[r].send] <= Level[session[r].send]
        /\ rows[r].committed => session[r].committed
        /\ rows[r].ending \notin Endings
        /\ rows[r].ending = "Interrupted" => r \in late
    BY DEF RowTellsTheTruth, Forward
  <2>2. /\ rows[r].attempts \in Nat /\ session[r].attempts \in Nat
        /\ session'[r].attempts \in Nat
        /\ rows[r].send \in SendStates /\ session[r].send \in SendStates
        /\ session'[r].send \in SendStates
    BY DEF TypeOK, Forward, Session, Row
  <2>3. rows[r].attempts <= session'[r].attempts
    BY <2>1, <2>2 DEF Forward
  <2>4. Level[rows[r].send] <= Level[session'[r].send]
    <3>1. /\ Level[rows[r].send] \in 0 .. 2 /\ Level[session[r].send] \in 0 .. 2
          /\ Level[session'[r].send] \in 0 .. 2
      BY <2>2, Levels
    <3> QED
      BY <3>1, <2>1 DEF Forward
  <2> QED
    BY <1>2, <2>1, <2>3, <2>4 DEF Forward
<1> QED
  BY <1>1, <1>2

LEMMA WritesStayTrue ==
  ASSUME TypeOK, NEW w \in Writes, Told(w, session[w.request]),
         NEW r \in Requests, Forward(r)
  PROVE  Told(w, session'[w.request])
<1>1. w.request \in Requests
  BY DEF Writes
<1>2. CASE w.request # r
  BY <1>1, <1>2 DEF Told, Forward
<1>3. CASE w.request = r
  <2>1. session[r].at = "open" /\ w.op # "finalize"
    BY <1>3 DEF Told, Forward
  <2>2. session[r].attempts \in Nat /\ session'[r].attempts \in Nat
    BY DEF TypeOK, Forward, Session
  <2>3. w.op = "createWithAttempt" => session'[r].attempts >= 1
    BY <1>3, <2>2 DEF Told, Forward
  <2>4. w.op = "attempt" => w.value <= session'[r].attempts
    <3>1. w.op = "attempt" => w.value \in Nat
      BY DEF Writes
    <3> QED
      BY <1>3, <2>2, <3>1 DEF Told, Forward
  <2>5. w.op = "send" => Level[w.value] <= Level[session'[r].send]
    <3>1. w.op = "send" => w.value \in SendStates
      BY DEF Writes
    <3>2. session[r].send \in SendStates /\ session'[r].send \in SendStates
      BY DEF TypeOK, Forward, Session
    <3>3. /\ w.op = "send" => Level[w.value] \in 0 .. 2
          /\ Level[session[r].send] \in 0 .. 2 /\ Level[session'[r].send] \in 0 .. 2
      BY <3>1, <3>2, Levels
    <3> QED
      BY <1>3, <3>3 DEF Told, Forward
  <2> QED
    BY <1>3, <2>1, <2>3, <2>4, <2>5 DEF Told, Forward
<1> QED
  BY <1>2, <1>3
\* A true write that comes after what is queued keeps the queue true and in order.
LEMMA QueueWithOneMore ==
  ASSUME NEW q \in Seq(Writes), Len(q) <= Capacity,
         \A i \in 1 .. Len(q) : Told(q[i], session'[q[i].request]) /\ AboveRow(q[i]),
         \A i, j \in 1 .. Len(q) : i < j => InOrder(q[i], q[j]),
         NEW w \in Writes, Told(w, session'[w.request]), AboveRow(w),
         \A i \in 1 .. Len(q) : InOrder(q[i], w)
  PROVE  /\ \A i \in 1 .. Len(Enqueued(w, q)) :
               Told(Enqueued(w, q)[i], session'[Enqueued(w, q)[i].request]) /\ AboveRow(Enqueued(w, q)[i])
         /\ \A i, j \in 1 .. Len(Enqueued(w, q)) :
               i < j => InOrder(Enqueued(w, q)[i], Enqueued(w, q)[j])
<1> DEFINE more == Enqueued(w, q)
<1>1. /\ Len(q) \in Nat
      /\ Len(more) \in {Len(q), Len(q) + 1}
      /\ \A i \in 1 .. Len(more) :
            \/ i \in 1 .. Len(q) /\ more[i] = q[i]
            \/ i = Len(q) + 1 /\ more[i] = w
  BY EnqueuedLast
<1> HIDE DEF more
<1>2. ASSUME NEW i \in 1 .. Len(more)
      PROVE  Told(more[i], session'[more[i].request]) /\ AboveRow(more[i])
  BY <1>1
<1>3. ASSUME NEW i \in 1 .. Len(more), NEW j \in 1 .. Len(more), i < j
      PROVE  InOrder(more[i], more[j])
  <2>1. i \in 1 .. Len(q) /\ more[i] = q[i]
    BY <1>1, <1>3
  <2> QED
    BY <1>1, <1>3, <2>1
<1> QED
  BY <1>2, <1>3 DEF more

\* What a session hands over comes after what it handed over before.
LEMMA SessionWrites ==
  ASSUME TypeOK, RowTellsTheTruth, QueueTrue, SendsRise,
         NEW r \in Requests, Forward(r), rows' = rows,
         NEW w \in Writes, w.request = r, Told(w, session'[w.request]),
         w.op = "send" => Level[session[r].send] <= Level[w.value]
  PROVE  /\ \A i \in 1 .. Len(queue) : Told(queue[i], session'[queue[i].request]) /\ AboveRow(queue[i])
         /\ \A i, j \in 1 .. Len(queue) : i < j => InOrder(queue[i], queue[j])
         /\ AboveRow(w)
         /\ \A i \in 1 .. Len(queue) : InOrder(queue[i], w)
<1>1. ASSUME NEW i \in 1 .. Len(queue) PROVE queue[i] \in Writes /\ Told(queue[i], session[queue[i].request])
  BY <1>1 DEF TypeOK, QueueTrue
<1>3. ASSUME NEW v \in Writes, Told(v, session[v.request]) PROVE Told(v, session'[v.request])
  BY <1>3, WritesStayTrue
<1>4. rows[r].send \in SendStates /\ session[r].send \in SendStates
  BY DEF TypeOK, Row, Session
<1>5. w.op = "send" => w.value \in SendStates
  BY DEF Writes
<1>6. /\ Level[rows[r].send] \in 0 .. 2 /\ Level[session[r].send] \in 0 .. 2
      /\ w.op = "send" => Level[w.value] \in 0 .. 2
  BY <1>4, <1>5, Levels
<1>7. AboveRow(w)
  <2>1. Level[rows[r].send] <= Level[session[r].send]
    BY DEF RowTellsTheTruth
  <2> QED
    BY <1>6, <2>1 DEF AboveRow
<1>8. ASSUME NEW i \in 1 .. Len(queue) PROVE InOrder(queue[i], w)
  <2> DEFINE v == queue[i]
  <2>1. v \in Writes /\ Told(v, session[v.request])
    BY <1>1
  <2> HIDE DEF v
  <2>2. SUFFICES ASSUME v.op = "send", w.op = "send", v.request = r
                 PROVE  Level[v.value] <= Level[w.value]
    BY DEF InOrder, v
  <2>3. v.value \in SendStates
    BY <2>1, <2>2 DEF Writes
  <2>4. Level[v.value] \in 0 .. 2
    BY <2>3, Levels
  <2>5. Level[v.value] <= Level[session[r].send]
    BY <2>1, <2>2 DEF Told
  <2> QED
    BY <1>6, <2>2, <2>4, <2>5
<1>9. \A i \in 1 .. Len(queue) : Told(queue[i], session'[queue[i].request])
  BY <1>1, <1>3
<1> QED
  BY <1>7, <1>8, <1>9 DEF SendsRise

\* A call that hands one write over keeps what is known of rows and queue.
LEMMA OneWrite ==
  ASSUME TypeOK, RowTellsTheTruth, QueueTrue, SendsRise,
         NEW r \in Requests, Forward(r), rows' = rows,
         NEW w \in Writes, w.request = r, Told(w, session'[w.request]),
         w.op = "send" => Level[session[r].send] <= Level[w.value],
         queue' = Enqueued(w, queue)
  PROVE  queue' \in Seq(Writes) /\ Len(queue') <= Capacity /\ QueueTrue' /\ SendsRise'
<1> DEFINE more == Enqueued(w, queue)
<1>1. queue \in Seq(Writes) /\ Len(queue) <= Capacity
  BY DEF TypeOK
<1>2. more \in Seq(Writes) /\ Len(more) <= Capacity
  BY <1>1, EnqueuedLast
<1>3. /\ \A i \in 1 .. Len(more) : Told(more[i], session'[more[i].request]) /\ AboveRow(more[i])
      /\ \A i, j \in 1 .. Len(more) : i < j => InOrder(more[i], more[j])
  <2>1. /\ \A i \in 1 .. Len(queue) : Told(queue[i], session'[queue[i].request]) /\ AboveRow(queue[i])
        /\ \A i, j \in 1 .. Len(queue) : i < j => InOrder(queue[i], queue[j])
        /\ AboveRow(w)
        /\ \A i \in 1 .. Len(queue) : InOrder(queue[i], w)
    BY SessionWrites
  <2> QED
    BY <1>1, <2>1, QueueWithOneMore
<1>4. queue' = more
  OBVIOUS
<1> HIDE DEF more
<1>5. QueueTrue'
  BY <1>3, <1>4 DEF QueueTrue
<1>6. SendsRise'
  BY <1>3, <1>4 DEF SendsRise, AboveRow, InOrder
<1> QED
  BY <1>2, <1>4, <1>5, <1>6
\* A session that goes on takes nothing from others: neither what they made up
\* for nor their slots.
LEMMA OthersKept ==
  ASSUME IInv, NEW r \in Requests, Forward(r),
         rows' = rows, late' = late, process' = process,
         \A q \in Requests \ {r} : recent'[q] = recent[q] /\ (q \in slots => q \in slots')
  PROVE  RecoveredByLaterSuccess' /\ LostRequestsHoldSlots'
<1>1. ASSUME NEW p \in Requests, NEW q \in rows[p].recoveredBy
      PROVE  /\ rows[p].recoveredBy = {q}
             /\ rows[p].ending \in {"RecoveryRequired", "WebsocketLost"}
             /\ rows[q].ending \in Successes
             /\ p \in recent'[q]
  <2>1. q \in Requests
    BY DEF IInv, TypeOK, Row
  <2>2. /\ rows[p].recoveredBy = {q}
        /\ rows[p].ending \in {"RecoveryRequired", "WebsocketLost"}
        /\ rows[q].ending \in Successes
        /\ p \in recent[q]
    BY DEF IInv, RecoveredByLaterSuccess
  <2>3. session[q].at = "over"
    BY <2>1, <2>2 DEF IInv, RowTellsTheTruth, Endings
  <2>4. q # r
    BY <2>3 DEF Forward
  <2> QED
    BY <2>1, <2>2, <2>4
<1>2. RecoveredByLaterSuccess'
  BY <1>1 DEF RecoveredByLaterSuccess
<1>3. ASSUME NEW q \in Requests, process = "serving", session'[q].at = "gone",
             Running(rows[q])
      PROVE  q \in slots' \cup late
  <2>1. q # r /\ session[q].at = "gone"
    BY <1>3 DEF Forward
  <2>2. q \in slots \cup late
    BY <1>3, <2>1 DEF IInv, LostRequestsHoldSlots
  <2> QED
    BY <2>1, <2>2
<1>4. LostRequestsHoldSlots'
  BY <1>3 DEF LostRequestsHoldSlots, Running
<1> QED
  BY <1>2, <1>4

LEMMA StartKeeps ==
  ASSUME IInv, NEW r \in Requests, Start(r)
  PROVE  IInv'
<1>1. /\ session[r].at = "new"
      /\ session' = [session EXCEPT ![r].at = "open"]
      /\ recent' = [recent EXCEPT ![r] = recent'[r]] /\ recent'[r] \subseteq Requests
      /\ slots' = slots \cup {r}
      /\ UNCHANGED <<completed, queue, closed, rows, late, process, restarts>>
  BY DEF Start, queueVars, Over, IInv, TypeOK
<1>2. Forward(r)
  <2>1. session[r] \in Session /\ session' \in [Requests -> Session]
    <3>1. session \in [Requests -> Session] BY DEF IInv, TypeOK
    <3>2. session[r] \in Session BY <3>1
    <3>3. [session[r] EXCEPT !.at = "open"] \in Session BY <3>2 DEF Session
    <3>4. session' = [session EXCEPT ![r] = [session[r] EXCEPT !.at = "open"]] BY <1>1
    <3> QED BY <3>1, <3>2, <3>3, <3>4
  <2>2. session'[r] = [session[r] EXCEPT !.at = "open"]
    <3>1. session \in [Requests -> Session] BY DEF IInv, TypeOK
    <3> QED BY <1>1, <3>1
  <2>3. /\ session'[r].at = "open" /\ session'[r].attempts = session[r].attempts
        /\ session'[r].send = session[r].send /\ session'[r].committed = session[r].committed
    BY <2>1, <2>2 DEF Session
  <2>4. session[r].attempts \in Nat /\ Level[session[r].send] \in 0 .. 2
    BY <2>1, Levels DEF Session
  <2>5. session[r].attempts <= session[r].attempts /\ Level[session[r].send] <= Level[session[r].send]
    BY <2>4
  <2>6. \A q \in Requests \ {r} : session'[q] = session[q]
    BY <1>1 DEF IInv, TypeOK
  <2> QED
    BY <1>1, <2>1, <2>3, <2>5, <2>6 DEF Forward
<1>3. TypeOK'
  <2>1. recent' \in [Requests -> SUBSET Requests]
    BY <1>1 DEF IInv, TypeOK
  <2> QED
    BY <1>1, <1>2, <2>1 DEF IInv, TypeOK, Forward
<1>4. RowTellsTheTruth'
  BY <1>1, <1>2, RowsStayTrue DEF IInv
<1>5. QueueTrue'
  <2>1. ASSUME NEW i \in 1 .. Len(queue)
        PROVE  Told(queue[i], session'[queue[i].request])
    <3>1. queue[i] \in Writes /\ Told(queue[i], session[queue[i].request])
      BY DEF IInv, TypeOK, QueueTrue
    <3> QED
      BY <1>2, <3>1, WritesStayTrue DEF IInv
  <2> QED
    BY <1>1, <2>1 DEF QueueTrue
<1>6. SendsRise'
  BY <1>1 DEF IInv, SendsRise, AboveRow, InOrder
<1>7. RecoveredByLaterSuccess' /\ LostRequestsHoldSlots'
  <2>1. ASSUME NEW q \in Requests \ {r}
        PROVE  recent'[q] = recent[q] /\ (q \in slots => q \in slots')
    BY <1>1 DEF IInv, TypeOK
  <2> QED
    BY <1>1, <1>2, <2>1, OthersKept
<1> QED
  BY <1>3, <1>4, <1>5, <1>6, <1>7 DEF IInv

\* A call that hands one write over.
LEMMA ContinueKeeps ==
  ASSUME IInv, NEW r \in Requests, NEW facts \in Session, NEW w \in Writes,
         Continue(r, facts, w), UNCHANGED <<completed, hostVars>>,
         session[r].at = "open", facts.at = "open",
         session[r].attempts <= facts.attempts,
         Level[session[r].send] <= Level[facts.send],
         session[r].committed => facts.committed,
         w.request = r, Told(w, facts),
         w.op = "send" => Level[session[r].send] <= Level[w.value]
  PROVE  IInv'
<1>1. /\ session' = [session EXCEPT ![r] = facts]
      /\ queue' = Enqueued(w, queue)
      /\ UNCHANGED <<recent, completed, closed, rows, late, slots, process, restarts>>
  BY DEF Continue, hostVars
<1>2. Forward(r) /\ session'[r] = facts
  BY <1>1 DEF Forward, IInv, TypeOK
<1>3. RowTellsTheTruth'
  BY <1>1, <1>2, RowsStayTrue DEF IInv
<1>4. queue' \in Seq(Writes) /\ Len(queue') <= Capacity /\ QueueTrue' /\ SendsRise'
  BY <1>1, <1>2, OneWrite DEF IInv
<1>5. TypeOK'
  BY <1>1, <1>2, <1>4 DEF IInv, TypeOK, Forward
<1>6. RecoveredByLaterSuccess' /\ LostRequestsHoldSlots'
  BY <1>1, <1>2, OthersKept
<1> QED
  BY <1>3, <1>4, <1>5, <1>6 DEF IInv

LEMMA BeginStreamKeeps ==
  ASSUME IInv, NEW r \in Requests, BeginStream(r)
  PROVE  IInv'
<1> DEFINE facts == [session[r] EXCEPT !.attempts = session[r].attempts + 1]
           op == IF facts.attempts = 1 THEN "createWithAttempt" ELSE "attempt"
           w == Write(op, r, facts.attempts)
<1>1. Continue(r, facts, w) /\ UNCHANGED <<completed, hostVars>> /\ session[r].at = "open"
  BY DEF BeginStream, Live
<1>2. session[r] \in Session
  BY DEF IInv, TypeOK
<1>3. /\ facts \in Session /\ facts.at = "open"
      /\ session[r].attempts <= facts.attempts /\ facts.attempts >= 1
      /\ facts.send = session[r].send /\ facts.committed = session[r].committed
  BY <1>1, <1>2 DEF Session
<1>4. w \in Writes /\ w.request = r /\ w.op \in {"createWithAttempt", "attempt"}
      /\ w.value = facts.attempts
  BY <1>3 DEF Write, Writes, Session
<1>5. Level[facts.send] \in 0 .. 2
  BY <1>3, Levels DEF Session
<1>6. facts.attempts \in Nat
  BY <1>3 DEF Session
<1> HIDE DEF facts, w
<1>7. Told(w, facts)
  BY <1>3, <1>4, <1>6 DEF Told
<1> QED
  BY <1>1, <1>3, <1>4, <1>5, <1>7, ContinueKeeps

LEMMA ObserveSendKeeps ==
  ASSUME IInv, NEW r \in Requests, ObserveSend(r)
  PROVE  IInv'
<1>1. PICK send \in Course[r].sends :
         /\ Level[send] > Level[session[r].send]
         /\ Continue(r, [session[r] EXCEPT !.send = send], Write("send", r, send))
  BY DEF ObserveSend
<1>2. session[r].at = "open" /\ UNCHANGED <<completed, hostVars>>
  BY DEF ObserveSend, Live
<1> DEFINE facts == [session[r] EXCEPT !.send = send]
           w == Write("send", r, send)
<1>3. session[r] \in Session /\ send \in SendStates
  BY BufferAssumption DEF IInv, TypeOK
<1>4. /\ facts \in Session /\ facts.at = "open"
      /\ facts.attempts = session[r].attempts
      /\ facts.send = send /\ facts.committed = session[r].committed
  BY <1>2, <1>3 DEF Session
<1>5. w \in Writes /\ w.request = r /\ w.op = "send" /\ w.value = send
  BY <1>3 DEF Write, Writes
<1>6. /\ Level[session[r].send] \in 0 .. 2 /\ Level[send] \in 0 .. 2
      /\ session[r].attempts \in Nat
  BY <1>3, Levels DEF Session
<1>7. Continue(r, facts, w)
  BY <1>1
<1> HIDE DEF facts, w
<1>8. Told(w, facts)
  BY <1>4, <1>5, <1>6 DEF Told
<1> QED
  BY <1>1, <1>2, <1>4, <1>5, <1>6, <1>7, <1>8, ContinueKeeps

LEMMA CommitDownstreamKeeps ==
  ASSUME IInv, NEW r \in Requests, CommitDownstream(r)
  PROVE  IInv'
<1> DEFINE facts == [session[r] EXCEPT !.committed = TRUE]
           w == Write("committed", r, TRUE)
<1>1. Continue(r, facts, w) /\ UNCHANGED <<completed, hostVars>> /\ session[r].at = "open"
  BY DEF CommitDownstream, Live
<1>2. session[r] \in Session
  BY DEF IInv, TypeOK
<1>3. /\ facts \in Session /\ facts.at = "open"
      /\ facts.attempts = session[r].attempts
      /\ facts.send = session[r].send /\ facts.committed
  BY <1>1, <1>2 DEF Session
<1>4. w \in Writes /\ w.request = r /\ w.op = "committed"
  BY DEF Write, Writes
<1>5. Level[session[r].send] \in 0 .. 2 /\ session[r].attempts \in Nat
  BY <1>2, Levels DEF Session
<1> HIDE DEF facts, w
<1>6. Told(w, facts)
  BY <1>3, <1>4 DEF Told
<1> QED
  BY <1>1, <1>3, <1>4, <1>5, <1>6, ContinueKeeps
LEMMA EndSessionKeeps ==
  ASSUME IInv, NEW r \in Requests, EndSession(r)
  PROVE  IInv'
<1>1. PICK ending \in Course[r].endings :
         LET facts == [session[r] EXCEPT !.at = "over", !.ending = ending]
             writes == IF facts.attempts = 0
                         THEN Enqueued(Write("create", r, 0), queue) ELSE queue
         IN  /\ session' = [session EXCEPT ![r] = facts]
             /\ queue' = Enqueued(Write("finalize", r, facts), writes)
  BY DEF EndSession
<1>2. /\ session[r].at = "open"
      /\ completed' = [completed EXCEPT ![r] = Cardinality(Over) + 1]
      /\ slots' = slots \ {r}
      /\ UNCHANGED <<recent, closed, rows, late, process, restarts>>
  BY DEF EndSession, Live
<1> DEFINE facts == [session[r] EXCEPT !.at = "over", !.ending = ending]
           create == Write("create", r, 0)
           final == Write("finalize", r, facts)
           writes == IF facts.attempts = 0 THEN Enqueued(create, queue) ELSE queue
<1>3. session[r] \in Session /\ ending \in Endings
  BY BufferAssumption DEF IInv, TypeOK
<1>4. /\ facts \in Session /\ facts.at = "over" /\ facts.ending \in Endings
      /\ facts.attempts = session[r].attempts
      /\ facts.send = session[r].send /\ facts.committed = session[r].committed
  BY <1>3 DEF Session
<1>5. /\ create \in Writes /\ create.request = r /\ create.op = "create"
      /\ final \in Writes /\ final.request = r /\ final.op = "finalize"
      /\ final.value = facts
  BY <1>4 DEF Write, Writes
<1>6. session' = [session EXCEPT ![r] = facts] /\ queue' = Enqueued(final, writes)
  BY <1>1
<1>7. writes \in {queue, Enqueued(create, queue)}
  OBVIOUS
<1> HIDE DEF facts, create, final, writes
<1>8. Level[session[r].send] \in 0 .. 2 /\ session[r].attempts \in Nat
  BY <1>3, Levels DEF Session
<1>9. Forward(r) /\ session'[r] = facts
  BY <1>2, <1>4, <1>6, <1>8 DEF Forward, IInv, TypeOK
<1>10. Told(create, facts) /\ Told(final, facts)
  BY <1>4, <1>5 DEF Told
<1>11. /\ queue \in Seq(Writes) /\ Len(queue) <= Capacity
       /\ TypeOK /\ RowTellsTheTruth /\ QueueTrue /\ SendsRise /\ rows' = rows
  BY <1>2 DEF IInv, TypeOK
<1>12. /\ \A i \in 1 .. Len(queue) :
             Told(queue[i], session'[queue[i].request]) /\ AboveRow(queue[i])
       /\ \A i, j \in 1 .. Len(queue) : i < j => InOrder(queue[i], queue[j])
       /\ AboveRow(create)
       /\ \A i \in 1 .. Len(queue) : InOrder(queue[i], create)
  BY <1>5, <1>9, <1>10, <1>11, SessionWrites
<1>13. /\ writes \in Seq(Writes) /\ Len(writes) <= Capacity
       /\ \A i \in 1 .. Len(writes) :
             Told(writes[i], session'[writes[i].request]) /\ AboveRow(writes[i])
       /\ \A i, j \in 1 .. Len(writes) : i < j => InOrder(writes[i], writes[j])
  <2>1. CASE writes = queue
    BY <2>1, <1>11, <1>12
  <2>2. CASE writes = Enqueued(create, queue)
    <3>1. Told(create, session'[create.request])
      BY <1>5, <1>9, <1>10
    <3>2. /\ \A i \in 1 .. Len(Enqueued(create, queue)) :
                 /\ Told(Enqueued(create, queue)[i],
                         session'[Enqueued(create, queue)[i].request])
                 /\ AboveRow(Enqueued(create, queue)[i])
          /\ \A i, j \in 1 .. Len(Enqueued(create, queue)) :
                 i < j => InOrder(Enqueued(create, queue)[i], Enqueued(create, queue)[j])
      BY <1>5, <1>11, <1>12, <3>1, QueueWithOneMore
    <3>3. Enqueued(create, queue) \in Seq(Writes) /\ Len(Enqueued(create, queue)) <= Capacity
      BY <1>5, <1>11, EnqueuedLast
    <3> QED
      BY <2>2, <3>2, <3>3
  <2> QED
    BY <1>7, <2>1, <2>2
<1>14. AboveRow(final) /\ \A i \in 1 .. Len(writes) : InOrder(writes[i], final)
  BY <1>5 DEF AboveRow, InOrder
<1> DEFINE more == Enqueued(final, writes)
<1>15. more \in Seq(Writes) /\ Len(more) <= Capacity
  BY <1>5, <1>13, EnqueuedLast
<1>16. /\ \A i \in 1 .. Len(more) : Told(more[i], session'[more[i].request]) /\ AboveRow(more[i])
       /\ \A i, j \in 1 .. Len(more) : i < j => InOrder(more[i], more[j])
  <2>1. Told(final, session'[final.request])
    BY <1>5, <1>9, <1>10
  <2> QED
    BY <1>5, <1>13, <1>14, <2>1, QueueWithOneMore
<1>17. queue' = more
  BY <1>6
<1> HIDE DEF more
<1>18. QueueTrue'
  BY <1>16, <1>17 DEF QueueTrue
<1>19. SendsRise'
  BY <1>11, <1>16, <1>17 DEF SendsRise, AboveRow, InOrder
<1>20. completed' \in [Requests -> Nat]
  <2>1. Cardinality(Over) \in Nat
    <3>1. IsFiniteSet(Over)
      BY BufferAssumption, FS_Subset DEF Over
    <3> QED
      BY <3>1, FS_CardinalityType
  <2> QED
    BY <1>2, <2>1 DEF IInv, TypeOK
<1>21. TypeOK'
  BY <1>2, <1>9, <1>15, <1>17, <1>20 DEF IInv, TypeOK, Forward
<1>22. RowTellsTheTruth'
  BY <1>2, <1>9, <1>11, RowsStayTrue
<1>23. RecoveredByLaterSuccess' /\ LostRequestsHoldSlots'
  BY <1>2, <1>9, OthersKept
<1> QED
  BY <1>18, <1>19, <1>21, <1>22, <1>23 DEF IInv

-----------------------------------------------------------------------------
(* The writer.                                                             *)

\* Without its head the queue is as true and as ordered.
LEMMA QueueShorter ==
  ASSUME IInv, queue # <<>>, queue' = Tail(queue), session' = session
  PROVE  /\ queue' \in Seq(Writes) /\ Len(queue') <= Capacity
         /\ QueueTrue'
         /\ \A i \in 1 .. Len(queue') : AboveRow(queue'[i]) /\ InOrder(Head(queue), queue'[i])
         /\ \A i, j \in 1 .. Len(queue') : i < j => InOrder(queue'[i], queue'[j])
         /\ Head(queue) \in Writes
         /\ Told(Head(queue), session[Head(queue).request])
         /\ AboveRow(Head(queue))
<1>1. queue \in Seq(Writes) /\ Len(queue) \in Nat /\ Len(queue) <= Capacity
  BY DEF IInv, TypeOK
<1>2. /\ Head(queue) = queue[1] /\ Head(queue) \in Writes
      /\ queue' \in Seq(Writes) /\ Len(queue') = Len(queue) - 1
      /\ 1 \in 1 .. Len(queue)
      /\ \A i \in 1 .. Len(queue') : queue'[i] = queue[i + 1] /\ i + 1 \in 1 .. Len(queue)
  BY <1>1, QueueRest
<1>3. Told(Head(queue), session[Head(queue).request]) /\ AboveRow(Head(queue))
  BY <1>2 DEF IInv, QueueTrue, SendsRise
<1>4. QueueTrue'
  BY <1>2 DEF IInv, QueueTrue
<1>5. ASSUME NEW i \in 1 .. Len(queue')
      PROVE  AboveRow(queue'[i]) /\ InOrder(Head(queue), queue'[i])
  <2>1. queue'[i] = queue[i + 1] /\ i + 1 \in 1 .. Len(queue) /\ 1 < i + 1
    BY <1>2
  <2> QED
    BY <1>2, <2>1 DEF IInv, SendsRise
<1>6. ASSUME NEW i \in 1 .. Len(queue'), NEW j \in 1 .. Len(queue'), i < j
      PROVE  InOrder(queue'[i], queue'[j])
  <2>1. /\ queue'[i] = queue[i + 1] /\ i + 1 \in 1 .. Len(queue)
        /\ queue'[j] = queue[j + 1] /\ j + 1 \in 1 .. Len(queue)
        /\ i + 1 < j + 1
    BY <1>2, <1>6
  <2> QED
    BY <2>1 DEF IInv, SendsRise
<1> QED
  <2>1. Len(queue') <= Capacity
    BY <1>1, <1>2, BufferAssumption
  <2> QED
    BY <1>2, <1>3, <1>4, <1>5, <1>6, <2>1

\* The row of r appears, with n attempts.
Opened(r, n) ==
    /\ rows[r].ending = "absent"
    /\ n <= session[r].attempts
    /\ rows' = [rows EXCEPT ![r] = [NoRow EXCEPT !.ending = "running", !.attempts = n]]

\* The running row of r becomes one that knows no less, and no more than its session.
Grown(r, new) ==
    /\ Running(rows[r]) /\ Running(new)
    /\ new.recoveredBy = rows[r].recoveredBy
    /\ new.attempts \in {rows[r].attempts, rows[r].attempts + 1}
    /\ new.attempts <= session[r].attempts
    /\ Level[rows[r].send] <= Level[new.send]
    /\ Level[new.send] <= Level[session[r].send]
    /\ rows[r].committed => new.committed
    /\ new.committed => session[r].committed
    /\ rows' = [rows EXCEPT ![r] = new]

\* The running row of r is closed, and the failures of S count as recovered by it.
ClosedWith(r, S) ==
    /\ Running(rows[r])
    /\ session[r].at = "over" /\ session[r].ending \in Endings
    /\ S \subseteq Requests \ {r}
    /\ \A p \in S : /\ rows[p].ending \in {"RecoveryRequired", "WebsocketLost"}
                    /\ rows[p].recoveredBy = {}
                    /\ p \in recent[r]
    /\ S # {} => session[r].ending \in Successes
    /\ rows' = [p \in Requests |-> IF p = r THEN Close(rows[r], session[r])
                                   ELSE IF p \in S THEN [rows[p] EXCEPT !.recoveredBy = {r}]
                                   ELSE rows[p]]

\* What a committed write does to the rows: nothing, or one of these.
LEMMA WritesToRows ==
  ASSUME IInv, Persist
  PROVE  LET w == Head(queue)  r == w.request IN
         /\ r \in Requests
         /\ session[r].at \in {"open", "over"}
         /\ \/ rows' = rows
            \/ \E n \in {0, 1} : Opened(r, n)
            \/ /\ w.op = "send"
               /\ \E new \in Row : Grown(r, new) /\ new.send = w.value
            \/ \E new \in Row : Grown(r, new) /\ new.send = rows[r].send
            \/ \E S \in SUBSET Requests : ClosedWith(r, S)
<1> DEFINE w == Head(queue)  r == w.request  row == rows[r]
<1>1. rows' = Applied(w) /\ queue # <<>> /\ queue' = Tail(queue) /\ session' = session
  BY DEF Persist, sessionVars
<1>2. w \in Writes /\ Told(w, session[r]) /\ AboveRow(w)
  BY <1>1, QueueShorter
<1>3. r \in Requests /\ session[r].at \in {"open", "over"}
  BY <1>2 DEF Writes, Told
<1>4. row \in Row /\ session[r] \in Session
  BY <1>3 DEF IInv, TypeOK
<1>5. /\ row.attempts <= session[r].attempts
      /\ Level[row.send] <= Level[session[r].send]
      /\ row.committed => session[r].committed
  BY <1>3 DEF IInv, RowTellsTheTruth
<1>6. /\ Level[row.send] \in 0 .. 2
      /\ row.attempts \in Nat /\ session[r].attempts \in Nat
  BY <1>4, Levels DEF Row, Session
<1>7. rows' = OnRow(r, row) => rows' = rows
  BY <1>3 DEF OnRow, IInv, TypeOK
<1> HIDE DEF w, r, row
<1>8. CASE w.op \in {"create", "createWithAttempt"}
  <2>1. PICK n \in {0, 1} : n <= session[r].attempts /\ Applied(w) = OnRow(r, Insert(row, n))
    BY <1>2, <1>6, <1>8 DEF Applied, Told, r, row
  <2>2. CASE row.ending = "absent"
    BY <1>1, <1>3, <2>1, <2>2 DEF Opened, Insert, OnRow, row, r, w
  <2>3. CASE row.ending # "absent"
    BY <1>1, <1>3, <1>7, <2>1, <2>3 DEF Insert, r, w
  <2> QED
    BY <2>2, <2>3
<1>9. CASE w.op = "attempt"
  <2>1. Applied(w) = OnRow(r, BeginAttempt(row, w.value)) /\ w.value \in Nat
        /\ w.value <= session[r].attempts
    BY <1>2, <1>9 DEF Applied, Told, Writes, r, row
  <2>2. CASE Running(row) /\ ~row.committed /\ w.value = row.attempts + 1
    <3> DEFINE new == [row EXCEPT !.attempts = w.value]
    <3>1. new \in Row /\ new.attempts = w.value /\ new.send = row.send
          /\ new.committed = row.committed /\ new.recoveredBy = row.recoveredBy
          /\ Running(new)
      BY <1>4, <2>1, <2>2 DEF Row, Running
    <3>2. rows' = [rows EXCEPT ![r] = new]
      BY <1>1, <2>1, <2>2 DEF BeginAttempt, OnRow
    <3> HIDE DEF new
    <3>3. Grown(r, new)
      BY <1>5, <1>6, <2>1, <2>2, <3>1, <3>2 DEF Grown, row
    <3> QED
      BY <1>3, <3>1, <3>3 DEF r, w, row
  <2>3. CASE ~(Running(row) /\ ~row.committed /\ w.value = row.attempts + 1)
    BY <1>1, <1>3, <1>7, <2>1, <2>3 DEF BeginAttempt, r, w
  <2> QED
    BY <2>2, <2>3
<1>10. CASE w.op = "send"
  <2>1. Applied(w) = OnRow(r, MarkSend(row, w.value)) /\ w.value \in SendStates
        /\ Level[w.value] <= Level[session[r].send]
    BY <1>2, <1>10 DEF Applied, Told, Writes, r, row
  <2>2. CASE Running(row) /\ row.attempts > 0
    <3> DEFINE new == [row EXCEPT !.send = w.value]
    <3>1. new \in Row /\ new.attempts = row.attempts /\ new.send = w.value
          /\ new.committed = row.committed /\ new.recoveredBy = row.recoveredBy
          /\ Running(new)
      BY <1>4, <2>1, <2>2 DEF Row, Running
    <3>2. rows' = [rows EXCEPT ![r] = new]
      BY <1>1, <2>1, <2>2 DEF MarkSend, OnRow
    <3>3. Level[row.send] <= Level[w.value]
      BY <1>2, <1>10, <2>2 DEF AboveRow, row, r
    <3> HIDE DEF new
    <3>4. Grown(r, new)
      BY <1>5, <1>6, <2>1, <2>2, <3>1, <3>2, <3>3 DEF Grown, row
    <3> QED
      BY <1>3, <1>10, <3>1, <3>4 DEF r, w
  <2>3. CASE ~(Running(row) /\ row.attempts > 0)
    BY <1>1, <1>3, <1>7, <2>1, <2>3 DEF MarkSend, r, w
  <2> QED
    BY <2>2, <2>3
<1>11. CASE w.op = "committed"
  <2>1. Applied(w) = OnRow(r, MarkCommitted(row)) /\ session[r].committed
    BY <1>2, <1>11 DEF Applied, Told, r, row
  <2>2. CASE Running(row) /\ ~row.committed
    <3> DEFINE new == [row EXCEPT !.committed = TRUE]
    <3>1. new \in Row /\ new.attempts = row.attempts /\ new.send = row.send
          /\ new.committed /\ new.recoveredBy = row.recoveredBy
          /\ Running(new)
      BY <1>4, <2>2 DEF Row, Running
    <3>2. rows' = [rows EXCEPT ![r] = new]
      BY <1>1, <2>1, <2>2 DEF MarkCommitted, OnRow
    <3> HIDE DEF new
    <3>3. Grown(r, new)
      BY <1>5, <1>6, <2>1, <2>2, <3>1, <3>2 DEF Grown, row
    <3> QED
      BY <1>3, <3>1, <3>3 DEF r, w, row
  <2>3. CASE ~(Running(row) /\ ~row.committed)
    BY <1>1, <1>3, <1>7, <2>1, <2>3 DEF MarkCommitted, r, w
  <2> QED
    BY <2>2, <2>3
<1>12. CASE w.op = "finalize"
  <2> DEFINE told == session[r]
             recovered == Recovers(rows, r, told, recent[r], Chained, completed)
             S == {p \in recovered : p # r}
  <2>1. /\ rows' = Finalize(rows, r, told, recent[r], Chained, completed)
        /\ told.at = "over" /\ told.ending \in Endings
    BY <1>1, <1>2, <1>12 DEF Applied, Told, r
  <2>2. CASE Running(row)
    <3>1. \A p \in recovered :
             /\ p \in recent[r]
             /\ rows[p].ending \in {"RecoveryRequired", "WebsocketLost"}
             /\ rows[p].recoveredBy = {}
             /\ told.ending \in Successes
      BY DEF Recovers, Waiting, Successes
    <3>2. recent[r] \subseteq Requests /\ DOMAIN rows = Requests
      BY <1>3 DEF IInv, TypeOK
    <3> HIDE DEF recovered
    <3>3. rows' = [p \in Requests |->
                    IF p = r THEN Close(rows[r], told)
                    ELSE IF p \in S THEN [rows[p] EXCEPT !.recoveredBy = {r}]
                    ELSE rows[p]]
      <4>1. rows' = [p \in DOMAIN rows |->
                      IF p = r THEN Close(rows[r], told)
                      ELSE IF p \in recovered THEN [rows[p] EXCEPT !.recoveredBy = {r}]
                      ELSE rows[p]]
        BY <2>1, <2>2 DEF Finalize, row, recovered
      <4> QED
        BY <3>2, <4>1
    <3>4. ClosedWith(r, S)
      BY <2>1, <2>2, <3>1, <3>2, <3>3 DEF ClosedWith, row
    <3> QED
      BY <1>3, <3>1, <3>2, <3>4 DEF r, w
  <2>3. CASE ~Running(row)
    BY <1>3, <2>1, <2>3 DEF Finalize, row, r, w
  <2> QED
    BY <2>2, <2>3
<1> QED
  BY <1>2, <1>8, <1>9, <1>10, <1>11, <1>12 DEF Writes
\* Rows that changed for r, and are as true as before.
RowsFollow(r) ==
    /\ rows' \in [Requests -> Row]
    /\ RowTellsTheTruth'
    /\ RecoveredByLaterSuccess'
    /\ \A q \in Requests \ {r} :
          Running(rows'[q]) => Running(rows[q]) /\ rows'[q].send = rows[q].send

\* A row as it is inserted.
LEMMA RowAtFirst ==
  ASSUME NEW n \in {0, 1}
  PROVE  LET new == [NoRow EXCEPT !.ending = "running", !.attempts = n] IN
         /\ new \in Row /\ new.ending = "running" /\ new.attempts = n
         /\ new.send = "NotSent" /\ new.committed = FALSE /\ new.recoveredBy = {}
<1> DEFINE new == [NoRow EXCEPT !.ending = "running", !.attempts = n]
<1>1. /\ NoRow \in Row /\ NoRow.send = "NotSent" /\ NoRow.recoveredBy = {}
  BY DEF NoRow, Row, SendStates
<1>2. NoRow.committed = FALSE
  BY DEF NoRow
<1>3. n \in Nat /\ "running" \in Endings \cup {"absent", "running", "Interrupted"}
  OBVIOUS
<1>4. \A base \in Row : [base EXCEPT !.ending = "running", !.attempts = n] \in Row
  BY <1>3 DEF Row
<1>5. new \in Row
  BY <1>1, <1>4
<1>6. new.ending = "running" /\ new.attempts = n
  BY <1>1 DEF Row
<1>7. new.send = NoRow.send /\ new.recoveredBy = NoRow.recoveredBy
  BY <1>1 DEF Row
<1>8. new.committed = NoRow.committed
  BY <1>1 DEF Row
<1> QED
  BY <1>1, <1>2, <1>5, <1>6, <1>7, <1>8

LEMMA OpenedFollows ==
  ASSUME IInv, UNCHANGED <<session, recent, late>>,
         NEW r \in Requests, NEW n \in {0, 1}, Opened(r, n)
  PROVE  RowsFollow(r) /\ rows'[r].send = "NotSent"
<1> DEFINE new == [NoRow EXCEPT !.ending = "running", !.attempts = n]
<1>1. /\ new \in Row /\ new.ending = "running" /\ new.attempts = n
      /\ new.send = "NotSent" /\ ~new.committed /\ new.recoveredBy = {}
  BY RowAtFirst
<1>2. rows \in [Requests -> Row] /\ rows' = [rows EXCEPT ![r] = new]
      /\ rows[r].ending = "absent" /\ n <= session[r].attempts
  BY DEF IInv, TypeOK, Opened
<1> HIDE DEF new
<1>3. rows' \in [Requests -> Row] /\ rows'[r] = new
      /\ \A q \in Requests \ {r} : rows'[q] = rows[q]
  BY <1>1, <1>2
<1>4. Level[session[r].send] \in 0 .. 2
  BY Levels DEF IInv, TypeOK, Session
<1>5. RowTellsTheTruth'
  <2>1. ASSUME NEW q \in Requests
        PROVE  /\ rows'[q].attempts <= session[q].attempts
               /\ Level[rows'[q].send] <= Level[session[q].send]
               /\ rows'[q].committed => session[q].committed
               /\ rows'[q].ending \in Endings =>
                     /\ session[q].at = "over"
                     /\ rows'[q].ending = session[q].ending
                     /\ rows'[q].attempts = session[q].attempts
                     /\ rows'[q].send = session[q].send
                     /\ rows'[q].committed = session[q].committed
               /\ rows'[q].ending = "Interrupted" => q \in late
    <3>1. CASE q = r
      BY <1>1, <1>2, <1>3, <1>4, <3>1, LowestLevel DEF Endings, Successes, Failures
    <3>2. CASE q # r
      BY <1>3, <3>2 DEF IInv, RowTellsTheTruth
    <3> QED
      BY <3>1, <3>2
  <2> QED
    BY <2>1 DEF RowTellsTheTruth
<1>6. RecoveredByLaterSuccess'
  <2>1. ASSUME NEW p \in Requests, NEW q \in rows'[p].recoveredBy
        PROVE  /\ rows'[p].recoveredBy = {q}
               /\ rows'[p].ending \in {"RecoveryRequired", "WebsocketLost"}
               /\ rows'[q].ending \in Successes
               /\ p \in recent[q]
    <3>1. p # r /\ rows'[p] = rows[p]
      BY <1>1, <1>3
    <3>2. q \in Requests
      BY <1>2, <3>1 DEF Row
    <3>3. /\ rows[p].recoveredBy = {q}
          /\ rows[p].ending \in {"RecoveryRequired", "WebsocketLost"}
          /\ rows[q].ending \in Successes
          /\ p \in recent[q]
      BY <3>1 DEF IInv, RecoveredByLaterSuccess
    <3>4. q # r
      BY <1>2, <3>3 DEF Successes
    <3> QED
      BY <1>3, <3>1, <3>2, <3>3, <3>4
  <2> QED
    BY <2>1 DEF RecoveredByLaterSuccess
<1> QED
  BY <1>1, <1>3, <1>5, <1>6 DEF RowsFollow

LEMMA GrownFollows ==
  ASSUME IInv, UNCHANGED <<session, recent, late>>,
         NEW r \in Requests, NEW new \in Row, Grown(r, new)
  PROVE  RowsFollow(r) /\ rows'[r] = new /\ Running(rows[r])
<1>1. rows \in [Requests -> Row] /\ rows' = [rows EXCEPT ![r] = new]
      /\ rows[r].ending = "running" /\ new.ending = "running"
      /\ new.recoveredBy = rows[r].recoveredBy
  BY DEF IInv, TypeOK, Grown, Running
<1>2. rows' \in [Requests -> Row] /\ rows'[r] = new
      /\ \A q \in Requests \ {r} : rows'[q] = rows[q]
  BY <1>1
<1>3. RowTellsTheTruth'
  BY <1>1, <1>2 DEF IInv, RowTellsTheTruth, Grown, Endings, Successes, Failures
<1>4. RecoveredByLaterSuccess'
  <2>1. ASSUME NEW p \in Requests, NEW q \in rows'[p].recoveredBy
        PROVE  /\ rows'[p].recoveredBy = {q}
               /\ rows'[p].ending \in {"RecoveryRequired", "WebsocketLost"}
               /\ rows'[q].ending \in Successes
               /\ p \in recent[q]
    <3>1. q \in rows[p].recoveredBy /\ rows'[p].recoveredBy = rows[p].recoveredBy
          /\ rows'[p].ending = rows[p].ending
      BY <1>1, <1>2
    <3>2. q \in Requests
      BY <1>1, <3>1 DEF Row
    <3>3. /\ rows[p].recoveredBy = {q}
          /\ rows[p].ending \in {"RecoveryRequired", "WebsocketLost"}
          /\ rows[q].ending \in Successes
          /\ p \in recent[q]
      BY <3>1 DEF IInv, RecoveredByLaterSuccess
    <3>4. q # r
      BY <1>1, <3>3 DEF Successes
    <3> QED
      BY <1>2, <3>1, <3>2, <3>3, <3>4
  <2> QED
    BY <2>1 DEF RecoveredByLaterSuccess
<1> QED
  BY <1>1, <1>2, <1>3, <1>4 DEF RowsFollow, Running

\* What the row of r says once its session closed it.
LEMMA ClosedRow ==
  ASSUME NEW row \in Row, NEW told \in Session, told.ending \in Endings
  PROVE  /\ Close(row, told) \in Row
         /\ Close(row, told).ending = told.ending
         /\ Close(row, told).attempts = told.attempts
         /\ Close(row, told).send = told.send
         /\ Close(row, told).committed = told.committed
         /\ Close(row, told).recoveredBy = row.recoveredBy
BY DEF Close, Row, Session

LEMMA ClosedFollows ==
  ASSUME IInv, UNCHANGED <<session, recent, late>>,
         NEW r \in Requests, NEW S \in SUBSET Requests, ClosedWith(r, S)
  PROVE  RowsFollow(r) /\ ~Running(rows'[r])
<1>1. rows \in [Requests -> Row] /\ session[r] \in Session /\ rows[r].ending = "running"
      /\ session[r].at = "over" /\ session[r].ending \in Endings
  BY DEF IInv, TypeOK, ClosedWith, Running
<1> DEFINE new == Close(rows[r], session[r])
<1>2. /\ new \in Row /\ new.ending = session[r].ending
      /\ new.attempts = session[r].attempts /\ new.send = session[r].send
      /\ new.committed = session[r].committed /\ new.recoveredBy = rows[r].recoveredBy
  BY <1>1, ClosedRow
<1>3. /\ r \notin S
      /\ \A p \in S : /\ rows[p].ending \in {"RecoveryRequired", "WebsocketLost"}
                      /\ rows[p].recoveredBy = {}
                      /\ p \in recent[r]
      /\ S # {} => session[r].ending \in Successes
      /\ rows' = [p \in Requests |-> IF p = r THEN new
                                     ELSE IF p \in S THEN [rows[p] EXCEPT !.recoveredBy = {r}]
                                     ELSE rows[p]]
  BY DEF ClosedWith
<1> HIDE DEF new
<1>4. \A p \in S : /\ rows'[p] \in Row
                  /\ rows'[p].ending = rows[p].ending /\ rows'[p].attempts = rows[p].attempts
                  /\ rows'[p].send = rows[p].send /\ rows'[p].committed = rows[p].committed
                  /\ rows'[p].recoveredBy = {r}
  BY <1>1, <1>3 DEF Row
<1>5. rows'[r] = new /\ \A q \in Requests \ (S \cup {r}) : rows'[q] = rows[q]
  BY <1>3
<1>6. rows' \in [Requests -> Row]
  <2>1. \A q \in Requests : rows'[q] \in Row
    BY <1>1, <1>2, <1>4, <1>5
  <2>2. rows' = [q \in Requests |-> rows'[q]]
    BY <1>3
  <2> QED
    BY <2>1, <2>2
<1>7. \A q \in Requests \ {r} :
         /\ rows'[q].ending = rows[q].ending /\ rows'[q].attempts = rows[q].attempts
         /\ rows'[q].send = rows[q].send /\ rows'[q].committed = rows[q].committed
  BY <1>4, <1>5
<1>8. RowTellsTheTruth'
  <2>1. session[r].attempts \in Nat /\ Level[session[r].send] \in 0 .. 2
        /\ session[r].ending # "Interrupted"
    BY <1>1, Levels DEF Session, Endings, Successes, Failures
  <2>2. ASSUME NEW q \in Requests
        PROVE  /\ rows'[q].attempts <= session[q].attempts
               /\ Level[rows'[q].send] <= Level[session[q].send]
               /\ rows'[q].committed => session[q].committed
               /\ rows'[q].ending \in Endings =>
                     /\ session[q].at = "over"
                     /\ rows'[q].ending = session[q].ending
                     /\ rows'[q].attempts = session[q].attempts
                     /\ rows'[q].send = session[q].send
                     /\ rows'[q].committed = session[q].committed
               /\ rows'[q].ending = "Interrupted" => q \in late
    <3>1. CASE q = r
      BY <1>1, <1>2, <1>5, <2>1, <3>1
    <3>2. CASE q # r
      BY <1>7, <3>2 DEF IInv, RowTellsTheTruth
    <3> QED
      BY <3>1, <3>2
  <2> QED
    BY <2>2 DEF RowTellsTheTruth
<1>9. RecoveredByLaterSuccess'
  <2>1. ASSUME NEW p \in Requests, NEW q \in rows'[p].recoveredBy
        PROVE  /\ rows'[p].recoveredBy = {q}
               /\ rows'[p].ending \in {"RecoveryRequired", "WebsocketLost"}
               /\ rows'[q].ending \in Successes
               /\ p \in recent[q]
    <3>1. CASE p \in S
      <4>1. q = r /\ S # {}
        BY <1>4, <3>1
      <4> QED
        BY <1>2, <1>3, <1>4, <1>5, <3>1, <4>1
    <3>2. CASE p \notin S
      <4>1. rows'[p].recoveredBy = rows[p].recoveredBy
        BY <1>2, <1>5, <3>2
      <4>2. q \in Requests
        BY <1>1, <4>1 DEF Row
      <4>3. /\ rows[p].recoveredBy = {q}
            /\ rows[p].ending \in {"RecoveryRequired", "WebsocketLost"}
            /\ rows[q].ending \in Successes
            /\ p \in recent[q]
        BY <4>1 DEF IInv, RecoveredByLaterSuccess
      <4>4. p # r /\ q # r
        BY <1>1, <4>3 DEF Successes
      <4> QED
        BY <1>7, <4>1, <4>2, <4>3, <4>4
    <3> QED
      BY <3>1, <3>2
  <2> QED
    BY <2>1 DEF RecoveredByLaterSuccess
<1>10. ~Running(rows'[r])
  BY <1>1, <1>2, <1>5 DEF Running, Endings, Successes, Failures
<1> QED
  BY <1>6, <1>7, <1>8, <1>9, <1>10 DEF RowsFollow, Running

LEMMA PersistKeeps ==
  ASSUME IInv, Persist
  PROVE  IInv'
<1> DEFINE w == Head(queue)  r == w.request
<1>1. /\ queue # <<>> /\ queue' = Tail(queue)
      /\ UNCHANGED <<session, recent, completed, closed, late, slots, process, restarts>>
  BY DEF Persist, sessionVars, hostVars
<1>2. /\ queue' \in Seq(Writes) /\ Len(queue') <= Capacity
      /\ QueueTrue'
      /\ \A i \in 1 .. Len(queue') : AboveRow(queue'[i]) /\ InOrder(w, queue'[i])
      /\ \A i, j \in 1 .. Len(queue') : i < j => InOrder(queue'[i], queue'[j])
      /\ w \in Writes /\ Told(w, session[r])
  BY <1>1, QueueShorter
<1>3. /\ r \in Requests
      /\ session[r].at \in {"open", "over"}
      /\ \/ rows' = rows
         \/ \E n \in {0, 1} : Opened(r, n)
         \/ /\ w.op = "send"
            /\ \E new \in Row : Grown(r, new) /\ new.send = w.value
         \/ \E new \in Row : Grown(r, new) /\ new.send = rows[r].send
         \/ \E S \in SUBSET Requests : ClosedWith(r, S)
  BY WritesToRows
<1> HIDE DEF w, r
<1>4. UNCHANGED <<session, recent, late>>
  BY <1>1
<1>5. /\ RowsFollow(r)
      /\ Running(rows'[r]) =>
            \/ rows'[r].send = "NotSent"
            \/ (Running(rows[r]) /\ rows'[r].send = rows[r].send)
            \/ (w.op = "send" /\ rows'[r].send = w.value)
  <2>1. CASE rows' = rows
    <3>1. RowTellsTheTruth' /\ RecoveredByLaterSuccess'
      BY <1>4, <2>1 DEF IInv, RowTellsTheTruth, RecoveredByLaterSuccess
    <3> QED
      BY <2>1, <3>1 DEF RowsFollow, IInv, TypeOK
  <2>2. CASE \E n \in {0, 1} : Opened(r, n)
    BY <1>3, <1>4, <2>2, OpenedFollows
  <2>3. CASE w.op = "send" /\ \E new \in Row : Grown(r, new) /\ new.send = w.value
    BY <1>3, <1>4, <2>3, GrownFollows
  <2>4. CASE \E new \in Row : Grown(r, new) /\ new.send = rows[r].send
    BY <1>3, <1>4, <2>4, GrownFollows
  <2>5. CASE \E S \in SUBSET Requests : ClosedWith(r, S)
    BY <1>3, <1>4, <2>5, ClosedFollows
  <2> QED
    BY <1>3, <2>1, <2>2, <2>3, <2>4, <2>5
<1>6. ASSUME NEW i \in 1 .. Len(queue'), queue'[i].op = "send",
             Running(rows'[queue'[i].request])
      PROVE  Level[rows'[queue'[i].request].send] <= Level[queue'[i].value]
  <2> DEFINE v == queue'[i]  q == v.request
  <2>1. v \in Writes /\ AboveRow(v) /\ InOrder(w, v)
    BY <1>2
  <2> HIDE DEF v
  <2>2. q \in Requests /\ v.value \in SendStates /\ v.op = "send" /\ Running(rows'[q])
    BY <1>6, <2>1 DEF Writes, v
  <2>3. Level[v.value] \in 0 .. 2
    BY <2>2, Levels
  <2>4. CASE q # r
    <3>1. Running(rows[q]) /\ rows'[q].send = rows[q].send
      BY <1>5, <2>2, <2>4 DEF RowsFollow
    <3> QED
      BY <2>1, <2>2, <3>1 DEF AboveRow, v
  <2>5. CASE q = r
    <3>1. CASE rows'[r].send = "NotSent"
      BY <2>3, <2>5, <3>1, LowestLevel DEF v
    <3>2. CASE Running(rows[r]) /\ rows'[r].send = rows[r].send
      BY <2>1, <2>2, <2>5, <3>2 DEF AboveRow, v
    <3>3. CASE w.op = "send" /\ rows'[r].send = w.value
      BY <2>1, <2>2, <2>5, <3>3 DEF InOrder, v, r
    <3> QED
      BY <1>5, <2>2, <2>5, <3>1, <3>2, <3>3
  <2> QED
    BY <2>4, <2>5
<1>7. SendsRise'
  BY <1>2, <1>6 DEF SendsRise, AboveRow, InOrder
<1>8. LostRequestsHoldSlots'
  <2>1. ASSUME NEW q \in Requests, process = "serving", session[q].at = "gone",
               Running(rows'[q])
        PROVE  q \in slots \cup late
    <3>1. q # r
      BY <1>3, <2>1
    <3>2. Running(rows[q])
      BY <1>5, <2>1, <3>1 DEF RowsFollow
    <3> QED
      BY <2>1, <3>2 DEF IInv, LostRequestsHoldSlots
  <2> QED
    BY <1>1, <2>1 DEF LostRequestsHoldSlots, Running
<1>9. TypeOK'
  BY <1>1, <1>2, <1>5 DEF IInv, TypeOK, RowsFollow
<1> QED
  BY <1>2, <1>5, <1>7, <1>8, <1>9 DEF IInv, RowsFollow

LEMMA PersistFailsKeeps ==
  ASSUME IInv, PersistFails
  PROVE  IInv'
<1>1. /\ queue # <<>> /\ queue' = Tail(queue)
      /\ UNCHANGED <<session, recent, completed, closed, rows, late, slots, process, restarts>>
  BY DEF PersistFails, sessionVars, hostVars
<1>2. /\ queue' \in Seq(Writes) /\ Len(queue') <= Capacity
      /\ QueueTrue'
      /\ \A i \in 1 .. Len(queue') : AboveRow(queue'[i])
      /\ \A i, j \in 1 .. Len(queue') : i < j => InOrder(queue'[i], queue'[j])
  BY <1>1, QueueShorter
<1>3. SendsRise'
  BY <1>1, <1>2 DEF SendsRise, AboveRow, InOrder
<1>4. RowTellsTheTruth' /\ RecoveredByLaterSuccess' /\ LostRequestsHoldSlots'
  BY <1>1 DEF IInv, RowTellsTheTruth, RecoveredByLaterSuccess, LostRequestsHoldSlots
<1>5. TypeOK'
  BY <1>1, <1>2 DEF IInv, TypeOK
<1> QED
  BY <1>2, <1>3, <1>4, <1>5 DEF IInv
-----------------------------------------------------------------------------
(* Recovery, slots and the process.                                        *)

\* Closing the rows whose deadline passed keeps everything but the slots.
LEMMA RecoveryKeeps ==
  ASSUME IInv, rows' = Recovered, UNCHANGED <<session, recent, completed, queue, late>>
  PROVE  /\ rows' \in [Requests -> Row] /\ RowTellsTheTruth' /\ QueueTrue' /\ SendsRise'
         /\ RecoveredByLaterSuccess'
         /\ \A q \in Requests : Running(rows'[q]) => Running(rows[q]) /\ q \notin late
<1>1. rows \in [Requests -> Row] /\ queue \in Seq(Writes)
  BY DEF IInv, TypeOK
<1>2. ASSUME NEW q \in Requests
      PROVE  /\ rows'[q] \in Row
             /\ rows'[q].attempts = rows[q].attempts /\ rows'[q].send = rows[q].send
             /\ rows'[q].committed = rows[q].committed
             /\ rows'[q].recoveredBy = rows[q].recoveredBy
             /\ \/ rows'[q] = rows[q] /\ ~(Running(rows[q]) /\ q \in late)
                \/ /\ q \in late /\ rows[q].ending = "running"
                   /\ rows'[q].ending = "Interrupted"
  <2>1. CASE q \in Expired
    BY <1>1, <2>1 DEF Recovered, Expired, Interrupt, Row, Running
  <2>2. CASE q \notin Expired
    BY <1>1, <2>2 DEF Recovered, Expired, IInv, TypeOK
  <2> QED
    BY <2>1, <2>2
<1>3. rows' \in [Requests -> Row]
  <2>1. rows' = [q \in Requests |-> rows'[q]]
    BY DEF Recovered
  <2> QED
    BY <1>2, <2>1
<1>4. RowTellsTheTruth'
  <2>1. ASSUME NEW q \in Requests
        PROVE  /\ rows'[q].attempts <= session[q].attempts
               /\ Level[rows'[q].send] <= Level[session[q].send]
               /\ rows'[q].committed => session[q].committed
               /\ rows'[q].ending \in Endings =>
                     /\ session[q].at = "over"
                     /\ rows'[q].ending = session[q].ending
                     /\ rows'[q].attempts = session[q].attempts
                     /\ rows'[q].send = session[q].send
                     /\ rows'[q].committed = session[q].committed
               /\ rows'[q].ending = "Interrupted" => q \in late
    BY <1>2 DEF IInv, RowTellsTheTruth, Endings, Successes, Failures
  <2> QED
    BY <2>1 DEF RowTellsTheTruth
<1>5. QueueTrue'
  BY DEF IInv, QueueTrue
<1>6. SendsRise'
  <2>1. ASSUME NEW i \in 1 .. Len(queue), queue[i].op = "send",
               Running(rows'[queue[i].request])
        PROVE  Level[rows'[queue[i].request].send] <= Level[queue[i].value]
    <3>1. queue[i] \in Writes /\ AboveRow(queue[i])
      BY <1>1 DEF IInv, SendsRise
    <3>2. queue[i].request \in Requests
      BY <3>1 DEF Writes
    <3> QED
      BY <1>2, <2>1, <3>1, <3>2 DEF AboveRow, Running
  <2> QED
    BY <2>1 DEF IInv, SendsRise, AboveRow, InOrder
<1>7. RecoveredByLaterSuccess'
  <2>1. ASSUME NEW p \in Requests, NEW q \in rows'[p].recoveredBy
        PROVE  /\ rows'[p].recoveredBy = {q}
               /\ rows'[p].ending \in {"RecoveryRequired", "WebsocketLost"}
               /\ rows'[q].ending \in Successes
               /\ p \in recent[q]
    <3>1. q \in rows[p].recoveredBy /\ rows'[p].recoveredBy = rows[p].recoveredBy
      BY <1>2
    <3>2. q \in Requests
      BY <1>1, <3>1 DEF Row
    <3>3. /\ rows[p].recoveredBy = {q}
          /\ rows[p].ending \in {"RecoveryRequired", "WebsocketLost"}
          /\ rows[q].ending \in Successes
          /\ p \in recent[q]
      BY <3>1 DEF IInv, RecoveredByLaterSuccess
    <3>4. rows'[p].ending = rows[p].ending /\ rows'[q].ending = rows[q].ending
      BY <1>2, <3>2, <3>3 DEF Successes
    <3> QED
      BY <3>1, <3>3, <3>4
  <2> QED
    BY <2>1 DEF RecoveredByLaterSuccess
<1>8. ASSUME NEW q \in Requests, Running(rows'[q])
      PROVE  Running(rows[q]) /\ q \notin late
  BY <1>2, <1>8 DEF Running
<1> QED
  BY <1>3, <1>4, <1>5, <1>6, <1>7, <1>8

LEMMA RecoverExpiredKeeps ==
  ASSUME IInv, RecoverExpired
  PROVE  IInv'
<1>1. rows' = Recovered
      /\ UNCHANGED <<session, recent, completed, queue, closed, late, slots, process, restarts>>
  BY DEF RecoverExpired, sessionVars, queueVars, hostVars
<1>2. /\ rows' \in [Requests -> Row] /\ RowTellsTheTruth' /\ QueueTrue' /\ SendsRise'
      /\ RecoveredByLaterSuccess'
      /\ \A q \in Requests : Running(rows'[q]) => Running(rows[q]) /\ q \notin late
  BY <1>1, RecoveryKeeps
<1>3. TypeOK'
  BY <1>1, <1>2 DEF IInv, TypeOK
<1>4. LostRequestsHoldSlots'
  <2>1. ASSUME NEW q \in Requests, process = "serving", session[q].at = "gone",
               Running(rows'[q])
        PROVE  q \in slots \cup late
    BY <1>2, <2>1 DEF IInv, LostRequestsHoldSlots
  <2> QED
    BY <1>1, <2>1 DEF LostRequestsHoldSlots, Running
<1> QED
  BY <1>2, <1>3, <1>4 DEF IInv

LEMMA StartUpKeeps ==
  ASSUME IInv, StartUp
  PROVE  IInv'
<1>1. rows' = Recovered /\ process' = "starting"
      /\ UNCHANGED <<session, recent, completed, queue, closed, late, slots, restarts>>
  BY DEF StartUp, sessionVars, queueVars
<1>2. /\ rows' \in [Requests -> Row] /\ RowTellsTheTruth' /\ QueueTrue' /\ SendsRise'
      /\ RecoveredByLaterSuccess'
  BY <1>1, RecoveryKeeps
<1>3. TypeOK'
  BY <1>1, <1>2 DEF IInv, TypeOK
<1>4. LostRequestsHoldSlots'
  BY <1>1 DEF LostRequestsHoldSlots
<1> QED
  BY <1>2, <1>3, <1>4 DEF IInv

LEMMA RestoreKeeps ==
  ASSUME IInv, Restore
  PROVE  IInv'
<1>1. slots' = slots \cup Restorable /\ process' = "serving"
      /\ UNCHANGED <<session, recent, completed, queue, closed, rows, late, restarts>>
  BY DEF Restore, sessionVars, queueVars
<1>2. TypeOK'
  BY <1>1 DEF IInv, TypeOK, Restorable
<1>3. RowTellsTheTruth' /\ RecoveredByLaterSuccess'
  BY <1>1 DEF IInv, RowTellsTheTruth, RecoveredByLaterSuccess
<1>4. QueueTrue' /\ SendsRise'
  BY <1>1 DEF IInv, QueueTrue, SendsRise, AboveRow, InOrder
<1>5. LostRequestsHoldSlots'
  <2>1. ASSUME NEW q \in Requests, Running(rows[q])
        PROVE  q \in slots' \cup late
    BY <1>1, <2>1 DEF Restorable
  <2> QED
    BY <1>1, <2>1 DEF LostRequestsHoldSlots
<1> QED
  BY <1>2, <1>3, <1>4, <1>5 DEF IInv

LEMMA GoDownKeeps ==
  ASSUME IInv, GoDown
  PROVE  IInv'
<1>1. /\ process' = "down" /\ restarts' = restarts + 1 /\ queue' = <<>> /\ closed' = FALSE
      /\ session' = [r \in Requests |->
                       IF session[r].at = "open" THEN [session[r] EXCEPT !.at = "gone"]
                       ELSE session[r]]
      /\ slots' \in {slots, {}}
      /\ UNCHANGED <<recent, completed, rows, late>>
  BY DEF GoDown
<1>2. ASSUME NEW r \in Requests
      PROVE  /\ session'[r] \in Session
             /\ session'[r].attempts = session[r].attempts
             /\ session'[r].send = session[r].send
             /\ session'[r].committed = session[r].committed
             /\ session'[r].ending = session[r].ending
             /\ session[r].at = "over" => session'[r].at = "over"
  <2>1. session[r] \in Session
    BY DEF IInv, TypeOK
  <2>2. CASE session[r].at = "open"
    BY <1>1, <2>1, <2>2 DEF Session
  <2>3. CASE session[r].at # "open"
    BY <1>1, <2>1, <2>3
  <2> QED
    BY <2>2, <2>3
<1>3. TypeOK'
  <2>1. session' \in [Requests -> Session]
    <3>1. session' = [r \in Requests |-> session'[r]]
      BY <1>1
    <3> QED
      BY <1>2, <3>1
  <2>2. <<>> \in Seq(Writes) /\ Len(<<>>) <= Capacity
    BY BufferAssumption
  <2>3. queue' \in Seq(Writes) /\ Len(queue') <= Capacity
    BY <1>1, <2>2
  <2>4. slots' \subseteq Requests /\ restarts' \in Nat
    BY <1>1 DEF IInv, TypeOK
  <2>5. closed' \in BOOLEAN
    BY <1>1
  <2> QED
    BY <1>1, <2>1, <2>3, <2>4, <2>5 DEF IInv, TypeOK
<1>4. RowTellsTheTruth'
  BY <1>1, <1>2 DEF IInv, RowTellsTheTruth
<1>5. QueueTrue' /\ SendsRise'
  BY <1>1 DEF QueueTrue, SendsRise
<1>6. RecoveredByLaterSuccess' /\ LostRequestsHoldSlots'
  BY <1>1 DEF IInv, RecoveredByLaterSuccess, LostRequestsHoldSlots
<1> QED
  BY <1>3, <1>4, <1>5, <1>6 DEF IInv

\* Deadlines, expiring slots and a closing queue.
LEMMA TimeKeeps ==
  ASSUME IInv, CloseQueue \/ \E r \in Requests : Deadline(r) \/ SlotExpires(r)
  PROVE  IInv'
<1>1. /\ UNCHANGED <<session, recent, completed, queue, rows, process, restarts>>
      /\ closed' \in BOOLEAN
      /\ late \subseteq late' /\ late' \subseteq Requests
      /\ slots' \subseteq slots /\ slots \subseteq slots' \cup late'
  <2>1. CASE CloseQueue
    <3>1. closed' = TRUE /\ UNCHANGED <<session, recent, completed, queue, rows, late, slots,
                                       process, restarts>>
      BY <2>1 DEF CloseQueue, sessionVars, hostVars
    <3> QED
      BY <3>1 DEF IInv, TypeOK
  <2>2. CASE \E r \in Requests : Deadline(r)
    <3>1. PICK r \in Requests :
            late' = late \cup {r} /\ UNCHANGED <<session, recent, completed, queue, closed, rows,
                                                slots, process, restarts>>
      BY <2>2 DEF Deadline, sessionVars, queueVars
    <3> QED
      BY <3>1 DEF IInv, TypeOK
  <2>3. CASE \E r \in Requests : SlotExpires(r)
    <3>1. PICK r \in late :
            slots' = slots \ {r} /\ UNCHANGED <<session, recent, completed, queue, closed, rows,
                                               late, process, restarts>>
      BY <2>3 DEF SlotExpires, sessionVars, queueVars
    <3> QED
      BY <3>1 DEF IInv, TypeOK
  <2> QED
    BY <2>1, <2>2, <2>3
<1>2. TypeOK'
  BY <1>1 DEF IInv, TypeOK
<1>3. RowTellsTheTruth' /\ RecoveredByLaterSuccess'
  BY <1>1 DEF IInv, RowTellsTheTruth, RecoveredByLaterSuccess
<1>4. QueueTrue' /\ SendsRise'
  BY <1>1 DEF IInv, QueueTrue, SendsRise, AboveRow, InOrder
<1>5. LostRequestsHoldSlots'
  BY <1>1 DEF IInv, LostRequestsHoldSlots
<1> QED
  BY <1>2, <1>3, <1>4, <1>5 DEF IInv
-----------------------------------------------------------------------------
(* The invariant.                                                          *)

LEMMA InitHolds == Init => IInv
<1> SUFFICES ASSUME Init PROVE IInv
  OBVIOUS
<1>1. NewSession \in Session
  BY DEF NewSession, Session, SendStates
<1>2. NoRow \in Row
  BY DEF NoRow, Row, SendStates
<1>3. TypeOK
  <2>1. <<>> \in Seq(Writes) /\ Len(<<>>) <= Capacity
    BY BufferAssumption
  <2>2. session \in [Requests -> Session] /\ rows \in [Requests -> Row]
        /\ recent \in [Requests -> SUBSET Requests] /\ completed \in [Requests -> Nat]
    BY <1>1, <1>2 DEF Init
  <2>3. closed \in BOOLEAN
    BY DEF Init
  <2> QED
    BY <2>1, <2>2, <2>3 DEF Init, TypeOK
<1>4. QueueTrue /\ SendsRise
  BY DEF Init, QueueTrue, SendsRise
<1>5. RowTellsTheTruth /\ RecoveredByLaterSuccess
  <2>1. ASSUME NEW r \in Requests
        PROVE  rows[r] = NoRow /\ session[r] = NewSession
    BY DEF Init
  <2> QED
    BY <2>1, LowestLevel DEF RowTellsTheTruth, RecoveredByLaterSuccess, NoRow, NewSession,
       Endings, Successes, Failures
<1>6. LostRequestsHoldSlots
  BY DEF Init, LostRequestsHoldSlots, NewSession
<1> QED
  BY <1>3, <1>4, <1>5, <1>6 DEF IInv

LEMMA StutterKeeps ==
  ASSUME IInv, UNCHANGED vars
  PROVE  IInv'
BY DEF vars, IInv, TypeOK, RowTellsTheTruth, QueueTrue, SendsRise, AboveRow, InOrder,
   RecoveredByLaterSuccess, LostRequestsHoldSlots

LEMMA NextKeeps == IInv /\ [Next]_vars => IInv'
<1> SUFFICES ASSUME IInv, [Next]_vars PROVE IInv'
  OBVIOUS
<1>1. ASSUME NEW r \in Requests, SessionStep(r) PROVE IInv'
  BY <1>1, StartKeeps, BeginStreamKeeps, ObserveSendKeeps, CommitDownstreamKeeps,
     EndSessionKeeps DEF SessionStep
<1>2. ASSUME CloseQueue \/ \E r \in Requests : Deadline(r) \/ SlotExpires(r) PROVE IInv'
  BY <1>2, TimeKeeps
<1>3. CASE Persist
  BY <1>3, PersistKeeps
<1>4. CASE PersistFails
  BY <1>4, PersistFailsKeeps
<1>5. CASE RecoverExpired
  BY <1>5, RecoverExpiredKeeps
<1>6. CASE GoDown
  BY <1>6, GoDownKeeps
<1>7. CASE StartUp
  BY <1>7, StartUpKeeps
<1>8. CASE Restore
  BY <1>8, RestoreKeeps
<1>9. CASE UNCHANGED vars
  BY <1>9, StutterKeeps
<1> QED
  BY <1>1, <1>2, <1>3, <1>4, <1>5, <1>6, <1>7, <1>8, <1>9 DEF Next

LEMMA Invariance == Spec => []IInv
<1>1. Init => IInv
  BY InitHolds
<1>2. IInv /\ [Next]_vars => IInv'
  BY NextKeeps
<1> QED
  BY <1>1, <1>2, PTL DEF Spec

\* Sessions, queue and rows have their types, and the channel never holds more
\* than its capacity.
THEOREM TypeCorrect == Spec => []TypeOK
<1>1. IInv => TypeOK
  BY DEF IInv
<1> QED
  BY <1>1, Invariance, PTL

\* A row never claims what its session did not do, whichever writes were dropped
\* and however often the process went down (execution.rs:593-595).
THEOREM RowsTellTheTruth == Spec => []RowTellsTheTruth
<1>1. IInv => RowTellsTheTruth
  BY DEF IInv
<1> QED
  BY <1>1, Invariance, PTL

\* A failure counts as recovered by one later request only, and that one
\* succeeded (execution.rs:784-865).
THEOREM RecoveredOnce == Spec => []RecoveredByLaterSuccess
<1>1. IInv => RecoveredByLaterSuccess
  BY DEF IInv
<1> QED
  BY <1>1, Invariance, PTL

\* While the host serves, requests that were lost with their process and whose row
\* still runs count against the limit until their deadline (lib.rs:138-147).
THEOREM SlotsRestored == Spec => []LostRequestsHoldSlots
<1>1. IInv => LostRequestsHoldSlots
  BY DEF IInv
<1> QED
  BY <1>1, Invariance, PTL

-----------------------------------------------------------------------------
(* The rows implement the abstract lifecycle, but for its liveness.        *)

Tale == [r \in Requests |-> StoryOf(rows[r])]

\* The step of the queue, seen by a reader of rows.
LEMMA PersistMaps ==
  ASSUME IInv, Persist
  PROVE  Lifecycle!LifecycleNext \/ UNCHANGED Tale
<1> DEFINE w == Head(queue)  r == w.request
<1>1. /\ r \in Requests
      /\ \/ rows' = rows
         \/ \E n \in {0, 1} : Opened(r, n)
         \/ \E new \in Row : Grown(r, new)
         \/ \E S \in SUBSET Requests : ClosedWith(r, S)
  BY WritesToRows
<1> HIDE DEF w, r
<1>2. rows \in [Requests -> Row] /\ session \in [Requests -> Session]
  BY DEF IInv, TypeOK
<1>3. CASE rows' = rows
  BY <1>3 DEF Tale, StoryOf
<1>4. ASSUME NEW n \in {0, 1}, Opened(r, n)
      PROVE  Lifecycle!Open(r)
  <2> DEFINE new == [NoRow EXCEPT !.ending = "running", !.attempts = n]
  <2>1. rows' = [rows EXCEPT ![r] = new] /\ rows[r].ending = "absent"
    BY <1>4 DEF Opened
  <2>2. /\ new.ending = "running" /\ new.attempts = n /\ new.send = "NotSent"
        /\ new.committed = FALSE /\ new.recoveredBy = {}
    BY RowAtFirst
  <2>3. StoryOf(rows[r]).phase = "absent"
    BY <2>1 DEF StoryOf
  <2> HIDE DEF new
  <2>4. StoryOf(new).phase = "open" /\ StoryOf(new).recovered = FALSE
    BY <2>2 DEF StoryOf
  <2>5. StoryOf(new).marks = [attempts |-> n, sent |-> 0, committed |-> FALSE]
    BY <2>2, LowestLevel DEF StoryOf
  <2>6. StoryOf(new) = [phase |-> "open", marks |-> StoryOf(new).marks,
                        recovered |-> FALSE]
    BY <2>4 DEF StoryOf
  <2>7. StoryOf(new) = [phase |-> "open", recovered |-> FALSE,
                        marks |-> Lifecycle!FirstMarks(n)]
    BY <2>5, <2>6 DEF Lifecycle!FirstMarks
  <2>8. [q \in Requests |-> StoryOf(rows'[q])] =
          [[q \in Requests |-> StoryOf(rows[q])] EXCEPT ![r] = StoryOf(new)]
    BY <1>1, <1>2, <2>1
  <2> QED
    BY <1>1, <2>3, <2>7, <2>8 DEF Lifecycle!Open
<1>5. ASSUME NEW new \in Row, Grown(r, new)
      PROVE  Lifecycle!Grow(r)
  <2>1. /\ rows' = [rows EXCEPT ![r] = new] /\ rows[r].ending = "running"
        /\ new.ending = "running" /\ new.recoveredBy = rows[r].recoveredBy
    BY <1>5 DEF Grown, Running
  <2>2. rows[r] \in Row
    BY <1>1, <1>2
  <2> DEFINE old == StoryOf(rows[r])  now == StoryOf(new)
  <2>3. /\ old.phase = "open" /\ now.phase = "open"
        /\ now.recovered = old.recovered
    BY <2>1 DEF StoryOf
  <2>4. /\ old = [phase |-> old.phase, marks |-> old.marks, recovered |-> old.recovered]
        /\ now = [phase |-> now.phase, marks |-> now.marks, recovered |-> now.recovered]
    BY DEF StoryOf
  <2>5. /\ now.marks.attempts >= old.marks.attempts
        /\ now.marks.attempts <= old.marks.attempts + 1
        /\ now.marks.sent >= old.marks.sent
        /\ old.marks.committed => now.marks.committed
    <3>1. /\ old.marks.attempts = rows[r].attempts /\ now.marks.attempts = new.attempts
          /\ old.marks.sent = Level[rows[r].send] /\ now.marks.sent = Level[new.send]
          /\ old.marks.committed = rows[r].committed /\ now.marks.committed = new.committed
      BY DEF StoryOf
    <3>2. /\ rows[r].attempts \in Nat
          /\ Level[rows[r].send] \in 0 .. 2 /\ Level[new.send] \in 0 .. 2
      BY <2>2, Levels DEF Row
    <3> HIDE DEF old, now
    <3> QED
      BY <1>5, <3>1, <3>2 DEF Grown
  <2>6. [q \in Requests |-> StoryOf(rows'[q])] =
          [[q \in Requests |-> StoryOf(rows[q])] EXCEPT ![r] = now]
    BY <1>1, <1>2, <2>1
  <2> HIDE DEF old, now
  <2>7. now = [old EXCEPT !.marks = now.marks]
    BY <2>3, <2>4
  <2> DEFINE before == [q \in Requests |-> StoryOf(rows[q])]
             after == [q \in Requests |-> StoryOf(rows'[q])]
  <2>8. before[r] = old /\ after[r] = now /\ before \in [Requests -> {before[q] : q \in Requests}]
    BY <1>1, <2>6 DEF old
  <2>9. after = [before EXCEPT ![r].marks = now.marks]
    BY <2>6, <2>7, <2>8
  <2>10. /\ before[r].phase = "open"
         /\ Lifecycle!Grows(before[r].marks, now.marks)
         /\ now.marks.attempts <= before[r].marks.attempts + 1
         /\ now.marks \in {after[r].marks}
    BY <2>3, <2>5, <2>8 DEF Lifecycle!Grows
  <2> QED
    BY <2>9, <2>10 DEF Lifecycle!Grow
<1>6. ASSUME NEW S \in SUBSET Requests, ClosedWith(r, S)
      PROVE  Lifecycle!Close(r, S)
  <2> DEFINE new == Close(rows[r], session[r])
             before == [q \in Requests |-> StoryOf(rows[q])]
             after == [q \in Requests |-> StoryOf(rows'[q])]
  <2>1. /\ rows[r].ending = "running" /\ r \notin S
        /\ session[r].ending \in Endings
        /\ \A p \in S : /\ rows[p].ending \in {"RecoveryRequired", "WebsocketLost"}
                        /\ rows[p].recoveredBy = {}
        /\ rows' = [p \in Requests |-> IF p = r THEN new
                                       ELSE IF p \in S THEN [rows[p] EXCEPT !.recoveredBy = {r}]
                                       ELSE rows[p]]
    BY <1>6 DEF ClosedWith, Running
  <2>2. rows[r] \in Row /\ session[r] \in Session
    BY <1>1, <1>2
  <2>3. /\ new.ending = session[r].ending
        /\ new.attempts = session[r].attempts /\ new.send = session[r].send
        /\ new.committed = session[r].committed /\ new.recoveredBy = rows[r].recoveredBy
    BY <2>1, <2>2, ClosedRow
  <2>4. /\ rows[r].attempts <= session[r].attempts
        /\ Level[rows[r].send] <= Level[session[r].send]
        /\ rows[r].committed => session[r].committed
    BY <1>1 DEF IInv, RowTellsTheTruth
  <2>5. /\ rows[r].attempts \in Nat /\ session[r].attempts \in Nat
        /\ Level[rows[r].send] \in 0 .. 2 /\ Level[session[r].send] \in 0 .. 2
    BY <2>2, Levels DEF Row, Session
  <2> HIDE DEF new
  <2>6. rows'[r] = new /\ \A q \in Requests \ (S \cup {r}) : rows'[q] = rows[q]
    BY <1>1, <2>1
  <2>7. \A p \in S : /\ rows'[p].ending = rows[p].ending /\ rows'[p].attempts = rows[p].attempts
                    /\ rows'[p].send = rows[p].send /\ rows'[p].committed = rows[p].committed
                    /\ rows'[p].recoveredBy = {r}
    BY <1>2, <2>1 DEF Row
  <2>8. /\ before[r].phase = "open"
        /\ after[r] = StoryOf(new)
        /\ \A p \in S : before[p].phase = "closed" /\ ~before[p].recovered
    BY <1>1, <2>1, <2>6 DEF StoryOf
  <2>9. Lifecycle!Grows(before[r].marks, after[r].marks)
    <3>1. /\ before[r].marks.attempts = rows[r].attempts
          /\ after[r].marks.attempts = session[r].attempts
          /\ before[r].marks.sent = Level[rows[r].send]
          /\ after[r].marks.sent = Level[session[r].send]
          /\ before[r].marks.committed = rows[r].committed
          /\ after[r].marks.committed = session[r].committed
      BY <1>1, <2>3, <2>6 DEF StoryOf
    <3> HIDE DEF before, after
    <3> QED
      BY <2>4, <2>5, <3>1 DEF Lifecycle!Grows
  <2>10. ASSUME NEW q \in Requests
         PROVE  StoryOf(rows'[q]) =
                  IF q = r THEN [phase |-> "closed", marks |-> after[r].marks,
                                 recovered |-> before[q].recovered]
                  ELSE IF q \in S THEN [before[q] EXCEPT !.recovered = TRUE]
                  ELSE before[q]
    <3>1. CASE q = r
      <4>1. new.ending \notin {"absent", "running"}
        BY <2>1, <2>3 DEF Endings, Successes, Failures
      <4>2. StoryOf(new) = [phase |-> "closed", marks |-> StoryOf(new).marks,
                            recovered |-> (rows[r].recoveredBy # {})]
        BY <2>3, <4>1 DEF StoryOf
      <4>3. before[r].recovered = (rows[r].recoveredBy # {})
        BY <1>1 DEF StoryOf
      <4>4. StoryOf(rows'[q]) = StoryOf(new) /\ StoryOf(new).marks = after[r].marks
        BY <2>6, <2>8, <3>1
      <4> QED
        BY <3>1, <4>2, <4>3, <4>4
    <3>2. CASE q \in S
      <4>1. /\ rows'[q].ending = rows[q].ending /\ rows'[q].attempts = rows[q].attempts
            /\ rows'[q].send = rows[q].send /\ rows'[q].committed = rows[q].committed
            /\ rows'[q].recoveredBy # {} /\ rows[q].recoveredBy = {}
        BY <2>1, <2>7, <3>2
      <4>2. /\ StoryOf(rows'[q]).phase = StoryOf(rows[q]).phase
            /\ StoryOf(rows'[q]).marks = StoryOf(rows[q]).marks
            /\ StoryOf(rows'[q]).recovered = TRUE
        BY <4>1 DEF StoryOf
      <4>3. StoryOf(rows'[q]) = [phase |-> StoryOf(rows'[q]).phase,
                                 marks |-> StoryOf(rows'[q]).marks,
                                 recovered |-> StoryOf(rows'[q]).recovered]
        BY DEF StoryOf
      <4>4. before[q] = [phase |-> before[q].phase, marks |-> before[q].marks,
                         recovered |-> before[q].recovered]
        BY DEF StoryOf
      <4>5. before[q] = StoryOf(rows[q])
        OBVIOUS
      <4> HIDE DEF before, after
      <4> QED
        BY <2>1, <3>2, <4>2, <4>3, <4>4, <4>5
    <3>3. CASE q # r /\ q \notin S
      BY <2>6, <3>3
    <3> QED
      BY <3>1, <3>2, <3>3
  <2>11. after = [q \in Requests |->
                   IF q = r THEN [phase |-> "closed", marks |-> after[r].marks,
                                 recovered |-> before[q].recovered]
                   ELSE IF q \in S THEN [before[q] EXCEPT !.recovered = TRUE]
                   ELSE before[q]]
    BY <2>10
  <2> QED
    BY <2>8, <2>9, <2>11 DEF Lifecycle!Close
<1> QED
  BY <1>1, <1>3, <1>4, <1>5, <1>6 DEF Lifecycle!LifecycleNext

LEMMA RecoveryMaps ==
  ASSUME IInv, rows' = Recovered
  PROVE  Lifecycle!LifecycleNext
<1> DEFINE before == [q \in Requests |-> StoryOf(rows[q])]
           after == [q \in Requests |-> StoryOf(rows'[q])]
<1>1. rows \in [Requests -> Row] /\ Expired \subseteq Requests
  BY DEF IInv, TypeOK, Expired
<1>2. ASSUME NEW q \in Expired PROVE before[q].phase = "open"
  BY <1>1, <1>2 DEF Expired, StoryOf, Running
<1>3. ASSUME NEW q \in Requests
      PROVE  StoryOf(rows'[q]) =
               IF q \in Expired THEN [before[q] EXCEPT !.phase = "closed"] ELSE before[q]
  <2>1. CASE q \in Expired
    <3>1. rows'[q] = Interrupt(rows[q]) /\ rows[q] \in Row
      BY <1>1, <2>1 DEF Recovered
    <3>2. /\ rows'[q].ending = "Interrupted" /\ rows'[q].attempts = rows[q].attempts
          /\ rows'[q].send = rows[q].send /\ rows'[q].committed = rows[q].committed
          /\ rows'[q].recoveredBy = rows[q].recoveredBy
      BY <3>1 DEF Interrupt, Row
    <3>3. StoryOf(rows'[q]) = [phase |-> "closed", marks |-> StoryOf(rows[q]).marks,
                               recovered |-> (rows[q].recoveredBy # {})]
      BY <3>2 DEF StoryOf
    <3>4. before[q] = [phase |-> before[q].phase, marks |-> before[q].marks,
                       recovered |-> (rows[q].recoveredBy # {})]
      BY DEF StoryOf
    <3>5. before[q] = StoryOf(rows[q])
      OBVIOUS
    <3> HIDE DEF before
    <3> QED
      BY <2>1, <3>3, <3>4, <3>5
  <2>2. CASE q \notin Expired
    BY <2>2 DEF Recovered
  <2> QED
    BY <2>1, <2>2
<1>4. after = [q \in Requests |->
                IF q \in Expired THEN [before[q] EXCEPT !.phase = "closed"] ELSE before[q]]
  BY <1>3
<1>5. Lifecycle!Expire(Expired)
  BY <1>2, <1>4 DEF Lifecycle!Expire
<1> QED
  BY <1>1, <1>5 DEF Lifecycle!LifecycleNext

LEMMA NextMaps ==
  IInv /\ [Next]_vars => Lifecycle!LifecycleNext \/ UNCHANGED Tale
<1> SUFFICES ASSUME IInv, [Next]_vars PROVE Lifecycle!LifecycleNext \/ UNCHANGED Tale
  OBVIOUS
<1>1. CASE Persist
  BY <1>1, PersistMaps
<1>2. CASE RecoverExpired \/ StartUp
  BY <1>2, RecoveryMaps DEF RecoverExpired, StartUp
<1>3. CASE rows' = rows
  BY <1>3 DEF Tale, StoryOf
<1>4. ASSUME NEW r \in Requests, SessionStep(r) \/ Deadline(r) \/ SlotExpires(r)
      PROVE  rows' = rows
  BY <1>4 DEF SessionStep, Start, BeginStream, ObserveSend, CommitDownstream, EndSession,
     Continue, Deadline, SlotExpires
<1>5. CASE PersistFails \/ CloseQueue \/ GoDown \/ Restore \/ UNCHANGED vars
  BY <1>3, <1>5 DEF PersistFails, CloseQueue, GoDown, Restore, vars
<1> QED
  BY <1>1, <1>2, <1>3, <1>4, <1>5 DEF Next

\* The rows are an implementation of RowLifecycle, whatever the queue, the writer,
\* the recovery and the process do to the writes: a row is opened once, only grows,
\* and is closed once.  (That every row is closed in the end is checked by TLC.)
THEOREM RowsImplementLifecycle == Spec => Lifecycle!LifecycleSafety
<1>1. Init => Lifecycle!LifecycleInit
  <2>1. StoryOf(NoRow).phase = "absent" /\ StoryOf(NoRow).recovered = FALSE
    BY DEF StoryOf, NoRow
  <2>2. StoryOf(NoRow).marks = [attempts |-> 0, sent |-> 0, committed |-> FALSE]
    BY LowestLevel DEF StoryOf, NoRow
  <2>3. StoryOf(NoRow) = [phase |-> "absent", marks |-> Lifecycle!FirstMarks(0),
                          recovered |-> FALSE]
    <3>1. StoryOf(NoRow) = [phase |-> StoryOf(NoRow).phase, marks |-> StoryOf(NoRow).marks,
                            recovered |-> StoryOf(NoRow).recovered]
      BY DEF StoryOf
    <3> QED
      BY <2>1, <2>2, <3>1 DEF Lifecycle!FirstMarks
  <2> QED
    BY <2>3 DEF Init, Lifecycle!LifecycleInit
<1>2. IInv /\ [Next]_vars => Lifecycle!LifecycleNext \/ UNCHANGED Tale
  BY NextMaps
<1> QED
  BY <1>1, <1>2, Invariance, PTL DEF Spec, Lifecycle!LifecycleSafety, Tale

-----------------------------------------------------------------------------
(* The sessions implement the abstract response session.                   *)

\* A session has an ending once it is over; it is committed only when it was sent,
\* which takes an attempt.
Sound(told) ==
    /\ told.at # "over" => told.ending = "running"
    /\ told.committed => told.send = "Sent"
    /\ told.send # "NotSent" => told.attempts > 0
SessionsSound == \A r \in Requests : Sound(session[r])

\* What the sessions tell.
Heard == [r \in Requests |-> TaleOf(session[r])]

\* The tale of a session that runs.
LEMMA RunningTale ==
  ASSUME NEW told, told.ending = "running"
  PROVE  TaleOf(told) = [attempts |-> told.attempts, send |-> told.send,
                         committed |-> told.committed, ending |-> "running"]
BY DEF TaleOf, Successes

\* Where it is alone does not tell.
LEMMA PlaceIsNotTold ==
  ASSUME NEW told \in Session, NEW at
  PROVE  LET moved == [told EXCEPT !.at = at] IN
         /\ TaleOf(moved) = TaleOf(told)
         /\ moved.at = at /\ moved.ending = told.ending /\ moved.committed = told.committed
         /\ moved.send = told.send /\ moved.attempts = told.attempts
BY DEF TaleOf, Session

\* An attempt begins, and the abstract session of r says so.
LEMMA BeginTold ==
  ASSUME IInv, SessionsSound, NEW r \in Requests, BeginStream(r)
  PROVE  Tales!SessionsNext /\ SessionsSound'
<1> DEFINE told == session[r]
           new == [told EXCEPT !.attempts = told.attempts + 1]
<1>1. session' = [session EXCEPT ![r] = new] /\ ~told.committed /\ told.at = "open"
  BY DEF BeginStream, Live, Continue
<1>2. session \in [Requests -> Session] /\ told \in Session
  BY DEF IInv, TypeOK
<1>3. Sound(told) /\ told.ending = "running" BY <1>1 DEF SessionsSound, Sound
<1>4. /\ new.at = "open" /\ new.ending = "running" /\ new.attempts = told.attempts + 1
      /\ new.send = told.send /\ new.committed = told.committed /\ told.attempts \in Nat
  BY <1>1, <1>2, <1>3 DEF Session
<1> HIDE DEF new, told
<1>5. Sound(new) BY <1>3, <1>4 DEF Sound
<1>6. SessionsSound' BY <1>1, <1>2, <1>5 DEF SessionsSound
<1>7. Heard' = [Heard EXCEPT ![r] = TaleOf(new)] BY <1>1, <1>2 DEF Heard
<1>8. Heard[r] = TaleOf(told) BY DEF Heard, told
<1>9. TaleOf(new) = [TaleOf(told) EXCEPT !.attempts = @ + 1]
  BY <1>3, <1>4, RunningTale
<1>10. Heard[r].ending = "running" /\ ~Heard[r].committed
  BY <1>1, <1>3, <1>8, RunningTale
<1>11. Tales!Begin(r) BY <1>7, <1>8, <1>9, <1>10 DEF Tales!Begin, Heard
<1> QED BY <1>6, <1>10, <1>11 DEF Tales!SessionsNext, Heard

\* More is known to have been sent.
LEMMA RiseTold ==
  ASSUME IInv, SessionsSound, NEW r \in Requests, ObserveSend(r)
  PROVE  Tales!SessionsNext /\ SessionsSound'
<1> DEFINE told == session[r]
<1>1. PICK send \in Course[r].sends :
        /\ Level[send] > Level[told.send] /\ told.attempts > 0
        /\ session' = [session EXCEPT ![r] = [told EXCEPT !.send = send]]
        /\ told.at = "open"
  BY DEF ObserveSend, Live, Continue
<1> DEFINE new == [told EXCEPT !.send = send]
<1>2. session \in [Requests -> Session] /\ told \in Session /\ send \in SendStates
  BY BufferAssumption DEF IInv, TypeOK
<1>3. Sound(told) /\ told.ending = "running" BY <1>1 DEF SessionsSound, Sound
<1>4. /\ new.at = "open" /\ new.ending = "running" /\ new.attempts = told.attempts
      /\ new.send = send /\ new.committed = told.committed /\ told.send \in SendStates
  BY <1>1, <1>2, <1>3 DEF Session
<1>5. session' = [session EXCEPT ![r] = new] BY <1>1
<1> HIDE DEF new, told
<1>6. ~told.committed
  BY <1>1, <1>2, <1>3, <1>4 DEF Sound, Level, SendStates
<1>7. Sound(new) BY <1>1, <1>3, <1>4, <1>6 DEF Sound
<1>8. SessionsSound' BY <1>2, <1>5, <1>7 DEF SessionsSound
<1>9. Heard' = [Heard EXCEPT ![r] = TaleOf(new)] BY <1>2, <1>5 DEF Heard
<1>10. Heard[r] = TaleOf(told) BY DEF Heard, told
<1>11. TaleOf(new) = [TaleOf(told) EXCEPT !.send = send] BY <1>3, <1>4, RunningTale
<1>12. Heard[r].ending = "running" /\ Heard[r].send = told.send
  BY <1>3, <1>10, RunningTale
<1>13. Heard'[r].send = send BY <1>4, <1>9, RunningTale DEF Heard
<1>14. Heard' = [Heard EXCEPT ![r].send = send] BY <1>9, <1>10, <1>11
<1>15. Tales!Level[send] > Tales!Level[Heard[r].send]
  BY <1>1, <1>12 DEF Level, Tales!Level
<1>16. Tales!Rise(r) BY <1>13, <1>14, <1>15 DEF Tales!Rise, Heard
<1> QED BY <1>8, <1>12, <1>16 DEF Tales!SessionsNext, Heard

\* The response of an attempt is committed.
LEMMA CommitTold ==
  ASSUME IInv, SessionsSound, NEW r \in Requests, CommitDownstream(r)
  PROVE  Tales!SessionsNext /\ SessionsSound'
<1> DEFINE told == session[r]
           new == [told EXCEPT !.committed = TRUE]
<1>1. /\ session' = [session EXCEPT ![r] = new]
      /\ ~told.committed /\ told.send = "Sent" /\ told.at = "open"
  BY DEF CommitDownstream, Live, Continue
<1>2. session \in [Requests -> Session] /\ told \in Session
  BY DEF IInv, TypeOK
<1>3. Sound(told) /\ told.ending = "running" /\ told.attempts > 0
  BY <1>1 DEF SessionsSound, Sound
<1>4. /\ new.at = "open" /\ new.ending = "running" /\ new.attempts = told.attempts
      /\ new.send = told.send /\ new.committed = TRUE
  BY <1>1, <1>2, <1>3 DEF Session
<1> HIDE DEF new, told
<1>5. Sound(new) BY <1>1, <1>3, <1>4 DEF Sound
<1>6. SessionsSound' BY <1>1, <1>2, <1>5 DEF SessionsSound
<1>7. Heard' = [Heard EXCEPT ![r] = TaleOf(new)] BY <1>1, <1>2 DEF Heard
<1>8. Heard[r] = TaleOf(told) BY DEF Heard, told
<1>9. TaleOf(new) = [TaleOf(told) EXCEPT !.committed = TRUE]
  BY <1>3, <1>4, RunningTale
<1>10. Heard[r].ending = "running" /\ ~Heard[r].committed /\ Heard[r].attempts > 0
  BY <1>1, <1>3, <1>8, RunningTale
<1>11. Heard' = [Heard EXCEPT ![r].committed = TRUE] BY <1>7, <1>8, <1>9
<1>12. Tales!Commit(r) BY <1>10, <1>11 DEF Tales!Commit, Heard
<1> QED BY <1>6, <1>10, <1>12 DEF Tales!SessionsNext, Heard

\* The session ends, with a success only of what was committed.
LEMMA EndTold ==
  ASSUME IInv, SessionsSound, NEW r \in Requests, EndSession(r)
  PROVE  Tales!SessionsNext /\ SessionsSound'
<1> DEFINE told == session[r]
<1>1. PICK ending \in Course[r].endings :
        /\ ending \in Successes => told.committed
        /\ session' = [session EXCEPT ![r] = [told EXCEPT !.at = "over", !.ending = ending]]
        /\ told.at = "open"
  BY DEF EndSession, Live
<1> DEFINE new == [told EXCEPT !.at = "over", !.ending = ending]
<1>2. session \in [Requests -> Session] /\ told \in Session /\ ending \in Endings
  BY BufferAssumption DEF IInv, TypeOK
<1>3. Sound(told) /\ told.ending = "running" BY <1>1 DEF SessionsSound, Sound
<1>4. /\ new.at = "over" /\ new.ending = ending /\ new.attempts = told.attempts
      /\ new.send = told.send /\ new.committed = told.committed
  BY <1>1, <1>2 DEF Session
<1>5. session' = [session EXCEPT ![r] = new] BY <1>1
<1> HIDE DEF new, told
<1>6. Sound(new) BY <1>3, <1>4 DEF Sound
<1>7. SessionsSound' BY <1>2, <1>5, <1>6 DEF SessionsSound
<1> DEFINE tail == IF ending \in Successes THEN "succeeded" ELSE "failed"
<1>8. ending # "running" BY <1>2 DEF Endings, Successes, Failures
<1>9. TaleOf(new) = [attempts |-> told.attempts, send |-> told.send,
                     committed |-> told.committed, ending |-> tail]
  BY <1>4, <1>8 DEF TaleOf
<1>10. Heard[r] = [attempts |-> told.attempts, send |-> told.send,
                   committed |-> told.committed, ending |-> "running"]
  BY <1>3, RunningTale DEF Heard, told
<1>11. Heard' = [Heard EXCEPT ![r] = TaleOf(new)] BY <1>2, <1>5 DEF Heard
<1>12. Heard'[r] = TaleOf(new) BY <1>11 DEF Heard
<1>13. tail = "succeeded" => told.committed /\ told.send = "Sent"
  BY <1>1, <1>3 DEF Sound
<1>14. tail \in {"succeeded", "failed"} OBVIOUS
<1> HIDE DEF tail
<1>15. Heard' = [Heard EXCEPT ![r] = [attempts |-> @.attempts, send |-> Heard'[r].send,
                                      committed |-> @.committed,
                                      ending |-> Heard'[r].ending]]
  <2>1. TaleOf(new) = [attempts |-> Heard[r].attempts, send |-> Heard'[r].send,
                       committed |-> Heard[r].committed, ending |-> Heard'[r].ending]
    BY <1>9, <1>10, <1>12
  <2> QED BY <1>11, <2>1
<1>16. Tales!Level[Heard'[r].send] >= Tales!Level[Heard[r].send]
  <2>1. Heard'[r].send = told.send /\ Heard[r].send = told.send BY <1>9, <1>10, <1>12
  <2>2. told.send \in SendStates BY <1>2 DEF Session
  <2> QED BY <2>1, <2>2 DEF Tales!Level, SendStates
<1>17. Tales!End(r)
  BY <1>9, <1>10, <1>12, <1>13, <1>14, <1>15, <1>16 DEF Tales!End, Heard
<1> QED BY <1>7, <1>10, <1>17 DEF Tales!SessionsNext, Heard

\* A session is admitted, or goes with its process: it tells nothing.
LEMMA MoveTold ==
  ASSUME IInv, SessionsSound, GoDown \/ \E r \in Requests : Start(r)
  PROVE  UNCHANGED Heard /\ SessionsSound'
<1>1. session \in [Requests -> Session] BY DEF IInv, TypeOK
<1>2. \A r \in Requests :
        \/ session'[r] = session[r]
        \/ \E at \in {"open", "gone"} :
             session[r].at # "over" /\ session'[r] = [session[r] EXCEPT !.at = at]
  <2>1. CASE GoDown BY <1>1, <2>1 DEF GoDown
  <2>2. ASSUME NEW r \in Requests, Start(r)
        PROVE  /\ session[r].at = "new"
               /\ session' = [session EXCEPT ![r] = [session[r] EXCEPT !.at = "open"]]
    BY <2>2 DEF Start
  <2> QED BY <1>1, <2>1, <2>2
<1>3. ASSUME NEW r \in Requests
      PROVE  TaleOf(session'[r]) = TaleOf(session[r]) /\ Sound(session'[r])
  <2>1. Sound(session[r]) BY DEF SessionsSound
  <2>2. session[r] \in Session BY <1>1
  <2>3. CASE session'[r] = session[r] BY <2>1, <2>3
  <2>4. ASSUME NEW at \in {"open", "gone"}, session[r].at # "over",
               session'[r] = [session[r] EXCEPT !.at = at]
        PROVE  TaleOf(session'[r]) = TaleOf(session[r]) /\ Sound(session'[r])
    <3> DEFINE moved == [session[r] EXCEPT !.at = at]
    <3>1. /\ TaleOf(moved) = TaleOf(session[r])
          /\ moved.ending = session[r].ending /\ moved.committed = session[r].committed
          /\ moved.send = session[r].send /\ moved.attempts = session[r].attempts
      BY <2>2, PlaceIsNotTold
    <3>2. session'[r] = moved BY <2>4
    <3> HIDE DEF moved
    <3> QED BY <2>1, <2>4, <3>1, <3>2 DEF Sound
  <2> QED BY <1>2, <2>3, <2>4
<1> QED BY <1>3 DEF Heard, SessionsSound

\* Every step tells one thing of one session, or nothing.
LEMMA NextTold ==
  IInv /\ SessionsSound /\ [Next]_vars
    => (Tales!SessionsNext \/ UNCHANGED Heard) /\ SessionsSound'
<1> SUFFICES ASSUME IInv, SessionsSound, [Next]_vars
             PROVE  (Tales!SessionsNext \/ UNCHANGED Heard) /\ SessionsSound'
  OBVIOUS
<1>1. ASSUME UNCHANGED session PROVE UNCHANGED Heard /\ SessionsSound'
  BY <1>1 DEF Heard, SessionsSound
<1>2. ASSUME NEW r \in Requests, SessionStep(r)
      PROVE  (Tales!SessionsNext \/ UNCHANGED Heard) /\ SessionsSound'
  BY <1>2, BeginTold, RiseTold, CommitTold, EndTold, MoveTold DEF SessionStep
<1>3. ASSUME NEW r \in Requests, Deadline(r) \/ SlotExpires(r) PROVE UNCHANGED session
  BY <1>3 DEF Deadline, SlotExpires, sessionVars
<1>4. CASE Persist \/ PersistFails \/ CloseQueue \/ RecoverExpired \/ StartUp \/ Restore
  BY <1>1, <1>4 DEF Persist, PersistFails, CloseQueue, RecoverExpired, StartUp, Restore,
                    sessionVars
<1>5. CASE GoDown BY <1>5, MoveTold
<1>6. CASE UNCHANGED vars BY <1>1, <1>6 DEF vars, sessionVars
<1> QED BY <1>1, <1>2, <1>3, <1>4, <1>5, <1>6 DEF Next

\* The sessions that hand their writes to the buffer are response sessions, however
\* often the process goes down under them: the same that the coordinator implements.
THEOREM SessionsImplemented == Spec => Tales!SessionsSpec
<1>1. Init => SessionsSound /\ Tales!SessionsInit
  <2> SUFFICES ASSUME Init PROVE SessionsSound /\ Tales!SessionsInit OBVIOUS
  <2>1. session = [r \in Requests |-> NewSession] BY DEF Init
  <2>2. Sound(NewSession) BY DEF Sound, NewSession
  <2>3. TaleOf(NewSession) = [attempts |-> 0, send |-> "NotSent", committed |-> FALSE,
                              ending |-> "running"]
    <3>1. /\ NewSession.ending = "running" /\ NewSession.attempts = 0
          /\ NewSession.send = "NotSent" /\ NewSession.committed = FALSE
      BY DEF NewSession
    <3> QED BY <3>1, RunningTale
  <2> QED BY <2>1, <2>2, <2>3 DEF SessionsSound, Tales!SessionsInit
<1>2. IInv /\ SessionsSound /\ [Next]_vars => (Tales!SessionsNext \/ UNCHANGED Heard)
  BY NextTold
<1>3. IInv /\ SessionsSound /\ [Next]_vars => SessionsSound'
  BY NextTold
<1> QED BY <1>1, <1>2, <1>3, Invariance, PTL DEF Spec, Tales!SessionsSpec, Heard
=============================================================================
