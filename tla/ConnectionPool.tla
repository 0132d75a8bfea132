--------------------------- MODULE ConnectionPool ---------------------------
(***************************************************************************)
(* The pool of upstream WebSocket connections of the OpenAI transport:     *)
(* transport/websocket/pool, the calls that use it (coordinator.rs,        *)
(* exchange/stream.rs) and the tasks that open connections for them, with  *)
(* the circuit of OriginBreaker.                                           *)
(*                                                                         *)
(* A call finds an idle connection, joins an opening, or starts one.  The  *)
(* opening runs in a task of its own and outlives a call that ran out of   *)
(* its 800 ms or was dropped.  Calls and tasks hold leases of a slot; the  *)
(* pool may take the slot from them at any time (eviction of the account,  *)
(* maintenance, shutdown), and finds out by the identity of the            *)
(* reservation when the lease comes back.                                  *)
(*                                                                         *)
(* The keys are those of one conversation and account: they differ in the  *)
(* connection profile or the downstream connection.  A reservation is      *)
(* named by the connection it holds and a connect lease by its task, which *)
(* identify it as its UUID does: a connection has one reservation at a     *)
(* time and returns to the pool only from one that still holds its slot.   *)
(*                                                                         *)
(* The response ids, which say what connection an exact continuation wants *)
(* (here any), and the tombstones, which only word its refusal, are left   *)
(* out, and so are the calls without a pool.                               *)
(***************************************************************************)
EXTENDS OriginBreaker

CONSTANTS
    Calls,          \* requests of the provider, each again and again
    Keys,           \* CodexWebSocketPoolKey
    Conns,          \* connections that exist at the same time
    NoConn,
    MaxConnecting   \* permits of connect_semaphore

ASSUME PoolAssumption ==
    /\ Keys # {}
    /\ NoConn \notin Conns
    /\ MaxConnecting \in Nat

VARIABLES
    slot,           \* WebSocketPoolState.slots
    down,           \* how far shutdown() is
    call,           \* the calls and what they hold
    task,           \* the tasks that open connections, with their connect leases
    closed,         \* connections whose pump has ended
    aged,           \* connections older than max_age
    revoked         \* history: reservations whose slot the pool has taken

slotVars == <<slot, revoked>>
connVars == <<closed, aged>>
poolVars == <<circuitVars, slotVars, call, task, connVars, down>>

\* A "leased" call holds a connect lease, a "joined" one waits for the opening
\* of another until it is "told", a "delivered" one has a connection in its
\* channel that it has not received.
CallPlaces == {"idle", "leased", "opening", "joined", "told", "delivered", "prepared",
               "streaming", "completed"}
Works == {"free", "leased", "connecting", "connected", "failing"}

\* Timed requests (a new chain, a persisted continuation) may fall back to HTTP
\* after 800 ms, those with an external continuation wait, and strict ones
\* (which need a WebSocket) wait for no opening but their own.
CallKinds == {"timed", "patient", "strict"}

Slot(what, c, o) == [what |-> what, conn |-> c, job |-> o]
Empty == Slot("none", NoConn, NoOpening)
Idle(c) == Slot("idle", c, NoOpening)
Busy(c) == Slot("busy", c, NoOpening)
Connecting(o) == Slot("connecting", NoConn, o)

AnyKey == CHOOSE k \in Keys : TRUE
Out == [at |-> "idle", kind |-> "timed", key |-> AnyKey, job |-> NoOpening,
        conn |-> NoConn, permit |-> "none"]
Fresh == [does |-> "free", key |-> AnyKey, conn |-> NoConn, permit |-> "none",
          cancelled |-> FALSE]

PoolInit ==
    /\ BreakerInit
    /\ slot = [k \in Keys |-> Empty]
    /\ down = "no"
    /\ call = [w \in Calls |-> Out]
    /\ task = [o \in Openings |-> Fresh]
    /\ closed = {}
    /\ aged = {}
    /\ revoked = {}

-----------------------------------------------------------------------------
(* What holds what.                                                        *)

ShuttingDown == down \in {"drained", "stopped"}

\* Calls with a lease of a slot and its connection.
InHand(w) == call[w].at \in {"delivered", "prepared", "streaming", "completed"}

\* Connect leases, each with a permit of the semaphore.
Leasing == {o \in Openings : task[o].does \in {"leased", "connecting", "failing"}}
Unused == {o \in Openings : task[o].does = "free"}

Pooled == Conns \cap {slot[k].conn : k \in Keys}
Held == Conns \cap ({call[w].conn : w \in Calls} \cup {task[o].conn : o \in Openings})

Fit(c) == c \notin closed \cup aged
OwnsReservation(k, c) == slot[k].what = "busy" /\ slot[k].conn = c
OwnsConnect(o) == slot[task[o].key].what = "connecting" /\ slot[task[o].key].job = o

Assign(k, s) == slot' = [slot EXCEPT ![k] = s]

\* Mutant: a connection comes back whoever has the slot by now.
PutBackBlindly(k, c) == Assign(k, IF c \in aged \/ ShuttingDown THEN Empty ELSE Idle(c))

\* put_reserved: back into the slot if the reservation still has it.
PutBack(k, c) ==
    IF ~OwnsReservation(k, c) THEN UNCHANGED slot
    ELSE Assign(k, IF c \in aged \/ ShuttingDown THEN Empty ELSE Idle(c))

\* discard_reserved, when a lease is dropped or its exchange fails.
Discard(k, c) == IF OwnsReservation(k, c) THEN Assign(k, Empty) ELSE UNCHANGED slot

\* fail_connect.
FailConnect(o) == IF OwnsConnect(o) THEN Assign(task[o].key, Empty) ELSE UNCHANGED slot

\* Mutant: those who joined an opening are told nothing.
ToldNobody(o) == call

\* The watch channel of a connect lease: those who joined the opening are told.
Told(o) ==
    [w \in Calls |->
       IF call[w].at = "joined" /\ call[w].job = o
       THEN [Out EXCEPT !.at = "told"] ELSE call[w]]

\* The call that waits for an opening of its own gets an error.
Refuse(o) ==
    call' = [w \in Calls |->
               IF call[w].at = "opening" /\ call[w].job = o THEN Out ELSE call[w]]

\* A connection nobody holds any more is closed and gone.
CloseUnheld ==
    LET kept == (Pooled \cup Held)' IN
    /\ closed' = closed \cap kept
    /\ aged' = aged \cap kept
    /\ revoked' = revoked \cap kept

-----------------------------------------------------------------------------
(* acquire.                                                                *)

\* An idle connection that is alive and young is reserved.
Reuse(w, k) ==
    /\ slot[k].what = "idle" /\ Fit(slot[k].conn)
    /\ Assign(k, Busy(slot[k].conn))
    /\ call' = [call EXCEPT ![w] = [Out EXCEPT !.at = "prepared", !.key = k,
                                               !.conn = slot[k].conn]]
    /\ UNCHANGED <<circuitVars, revoked, task, connVars, down>>

\* Someone is opening a connection for the key.
Join(w, k, kd) ==
    /\ slot[k].what = "connecting" /\ kd # "strict"
    /\ call' = [call EXCEPT ![w] = [Out EXCEPT !.at = "joined", !.kind = kd,
                                               !.job = slot[k].job]]
    /\ UNCHANGED <<circuitVars, slotVars, task, connVars, down>>

\* There is no connection, or one that cannot be used: a new one, if fewer
\* than MaxConnecting are being opened.
Reserve(w, k, kd) ==
    /\ slot[k].what = "none" \/ (slot[k].what = "idle" /\ ~Fit(slot[k].conn))
    /\ IF Cardinality(Leasing) < MaxConnecting /\ Unused # {}
       THEN LET o == CHOOSE o \in Unused : TRUE IN
            /\ Assign(k, Connecting(o))
            /\ task' = [task EXCEPT ![o] = [Fresh EXCEPT !.does = "leased", !.key = k,
                                                         !.cancelled = down # "no"]]
            /\ call' = [call EXCEPT ![w] = [Out EXCEPT !.at = "leased", !.job = o,
                                              !.kind = IF kd = "timed" THEN kd ELSE "patient"]]
       ELSE Assign(k, Empty) /\ UNCHANGED <<task, call>>
    /\ CloseUnheld
    /\ UNCHANGED <<circuitVars, down>>

Acquire(w) ==
    /\ call[w].at = "idle" /\ ~ShuttingDown
    /\ \E k \in Keys : Reuse(w, k) \/ \E kd \in CallKinds : Join(w, k, kd) \/ Reserve(w, k, kd)

\* An exact continuation finds its connection under whatever key.  It does not
\* open another: one that is dead or old is removed, and lost.
AcquireExact(w) ==
    /\ call[w].at = "idle" /\ ~ShuttingDown
    /\ \E k \in Keys :
         \/ Reuse(w, k)
         \/ /\ slot[k].what = "idle" /\ ~Fit(slot[k].conn)
            /\ Assign(k, Empty)
            /\ UNCHANGED <<circuitVars, call, task, down>>
            /\ CloseUnheld

-----------------------------------------------------------------------------
(* The call.                                                               *)

\* A connect lease that was not used is given up.
GiveUpLease(w, o) ==
    /\ FailConnect(o)
    /\ task' = [task EXCEPT ![o] = Fresh]
    /\ call' = [Told(o) EXCEPT ![w] = Out]
    /\ UNCHANGED revoked

\* The permit, and the task.
StartConnect(w) ==
    LET o == call[w].job IN
    /\ call[w].at = "leased"
    /\ \/ \E p \in Permits :
            /\ IF call[w].kind = "timed" THEN TryAcquire(o, p)
               ELSE p = "none" /\ UNCHANGED circuitVars
            /\ task' = [task EXCEPT ![o] = [@ EXCEPT !.does = "connecting", !.permit = p]]
            /\ call' = [call EXCEPT ![w].at = "opening"]
            /\ UNCHANGED slotVars
       \/ /\ call[w].kind = "timed" /\ Refused
          /\ GiveUpLease(w, o)
          /\ UNCHANGED circuitVars
    /\ UNCHANGED <<connVars, down>>

\* The call takes the connection out of its channel.
Receive(w) ==
    /\ call[w].at = "delivered"
    /\ call' = [call EXCEPT ![w] = [@ EXCEPT !.at = "prepared", !.kind = "timed",
                                             !.permit = "none"]]
    /\ UNCHANGED <<circuitVars, slotVars, task, connVars, down>>

\* The opening that was joined has ended, one way or the other.
Joined(w) ==
    /\ call[w].at = "told"
    /\ call' = [call EXCEPT ![w] = Out]
    /\ UNCHANGED <<circuitVars, slotVars, task, connVars, down>>

\* The 800 ms are over.  A permit that has not told of its opening tells of a
\* failure, and nothing any more; a connection that has just been put into the
\* channel is lost with it.
Miss(w) ==
    LET o == call[w].job IN
    /\ call[w].at \in {"opening", "delivered", "joined"} /\ call[w].kind = "timed"
    /\ CASE call[w].at = "opening" ->
              /\ RecordFailure(o, task[o].permit)
              /\ task' = [task EXCEPT ![o].permit = "none"]
         [] call[w].at = "delivered" ->
              RecordFailure(NoOpening, call[w].permit) /\ UNCHANGED task
         [] OTHER -> UNCHANGED <<circuitVars, task>>
    /\ Discard(call[w].key, call[w].conn)
    /\ call' = [call EXCEPT ![w] = Out]
    /\ CloseUnheld
    /\ UNCHANGED down

SendCreate(w) ==
    /\ call[w].at = "prepared"
    /\ call' = [call EXCEPT ![w].at = "streaming"]
    /\ UNCHANGED <<circuitVars, slotVars, task, connVars, down>>

\* The send fails; or the stream does, the upstream ends it without a
\* completion, the client leaves or the pool shuts down.
EndExchange(w) ==
    /\ call[w].at \in {"prepared", "streaming"}
    /\ Discard(call[w].key, call[w].conn)
    /\ call' = [call EXCEPT ![w] = Out]
    /\ UNCHANGED task
    /\ CloseUnheld
    /\ UNCHANGED <<circuitVars, down>>

\* The completion is forwarded to the client, then the connection returned.
Complete(w) ==
    /\ call[w].at = "streaming"
    /\ call' = [call EXCEPT ![w].at = "completed"]
    /\ UNCHANGED <<circuitVars, slotVars, task, connVars, down>>

Return(w) ==
    /\ call[w].at = "completed"
    /\ PutBack(call[w].key, call[w].conn)
    /\ call' = [call EXCEPT ![w] = Out]
    /\ UNCHANGED task
    /\ CloseUnheld
    /\ UNCHANGED <<circuitVars, down>>

\* The future of the call is dropped before it sent, and with it its lease.
Drop(w) ==
    /\ call[w].at \in {"leased", "opening", "joined", "told", "delivered", "prepared"}
    /\ IF call[w].at = "leased" THEN GiveUpLease(w, call[w].job) /\ UNCHANGED connVars
       ELSE /\ Discard(call[w].key, call[w].conn)
            /\ call' = [call EXCEPT ![w] = Out]
            /\ UNCHANGED task
            /\ CloseUnheld
    /\ UNCHANGED <<circuitVars, down>>

-----------------------------------------------------------------------------
(* The tasks that open connections.                                        *)

\* The connection is there: the circuit hears of it, and the slot is reserved
\* if it is still kept for this opening.
Connected(o) ==
    /\ task[o].does = "connecting"
    /\ RecordSuccess(o, task[o].permit)
    /\ \/ /\ OwnsConnect(o) /\ ~ShuttingDown
          /\ Conns # Pooled \cup Held
          /\ LET c == CHOOSE c \in Conns : c \notin Pooled \cup Held IN
               /\ Assign(task[o].key, Busy(c))
               /\ task' = [task EXCEPT ![o] = [@ EXCEPT !.does = "connected", !.conn = c,
                                                         !.cancelled = FALSE]]
          /\ call' = Told(o)
       \/ /\ ~OwnsConnect(o) \/ ShuttingDown
          /\ FailConnect(o)
          /\ task' = [task EXCEPT ![o] = Fresh]
          /\ Refuse(o)
    /\ UNCHANGED <<revoked, connVars, down>>

\* No connection within 15 seconds, or a refusal.  An answer of the origin to
\* the upgrade below 500 proves that it is there.
ConnectFails(o) ==
    /\ task[o].does = "connecting"
    /\ RecordFailure(o, task[o].permit) \/ RecordSuccess(o, task[o].permit)
    /\ Refuse(o)
    /\ task' = [task EXCEPT ![o] = [@ EXCEPT !.does = "failing", !.permit = "none"]]
    /\ UNCHANGED <<slotVars, connVars, down>>

\* The slot was taken, or the pool shuts down.
ConnectCancelled(o) ==
    /\ task[o].does = "connecting" /\ task[o].cancelled
    /\ CancelProbe(o, task[o].permit)
    /\ Refuse(o)
    /\ task' = [task EXCEPT ![o] = [@ EXCEPT !.does = "failing", !.permit = "none"]]
    /\ UNCHANGED <<slotVars, connVars, down>>

\* failed: the caller has its error already, now the others and the slot.
CleanUp(o) ==
    /\ task[o].does = "failing"
    /\ FailConnect(o)
    /\ task' = [task EXCEPT ![o] = Fresh]
    /\ call' = Told(o)
    /\ UNCHANGED <<circuitVars, revoked, connVars, down>>

\* The connection goes to the call that still waits, or else into the pool.
HandOver(o) ==
    /\ task[o].does = "connected"
    /\ \/ \E w \in Calls :
            /\ call[w].at = "opening" /\ call[w].job = o
            /\ call' = [call EXCEPT ![w] = [@ EXCEPT !.at = "delivered", !.key = task[o].key,
                                                     !.job = NoOpening, !.conn = task[o].conn,
                                                     !.permit = task[o].permit]]
            /\ UNCHANGED slot
       \/ /\ \A w \in Calls : ~(call[w].at = "opening" /\ call[w].job = o)
          /\ PutBack(task[o].key, task[o].conn)
          /\ UNCHANGED call
    /\ task' = [task EXCEPT ![o] = Fresh]
    /\ CloseUnheld
    /\ UNCHANGED <<circuitVars, down>>

-----------------------------------------------------------------------------
(* The pool itself, and the world.                                         *)

\* Slots are taken from those who hold them: openings are cancelled and those
\* who joined them told, reservations find out when they come back.
TakeSlots(ks) ==
    LET openings == {slot[k].job : k \in ks} \ {NoOpening}
        kept == (Pooled \cup Held)'
    IN
    /\ slot' = [k \in Keys |-> IF k \in ks THEN Empty ELSE slot[k]]
    /\ task' = [o \in Openings |->
                  IF o \in openings THEN [task[o] EXCEPT !.cancelled = TRUE] ELSE task[o]]
    /\ call' = [w \in Calls |->
                  IF call[w].at = "joined" /\ call[w].job \in openings
                  THEN [Out EXCEPT !.at = "told"] ELSE call[w]]
    /\ revoked' = (revoked \cup {slot[k].conn : k \in ks}) \cap kept
    /\ closed' = closed \cap kept
    /\ aged' = aged \cap kept

\* evict_account.
Evict ==
    /\ TakeSlots({k \in Keys : slot[k].what # "none"})
    /\ UNCHANGED <<circuitVars, down>>

\* take_expired_slots: idle connections that are dead or old, and reservations
\* that are old, as their connections are then too.  An opening ends within its
\* 15 seconds and never gets old.
Maintain ==
    LET unfit == {k \in Keys : slot[k].what = "idle" /\ ~Fit(slot[k].conn)}
        old == {k \in Keys : slot[k].what = "busy" /\ slot[k].conn \in aged}
    IN
    /\ ~ShuttingDown
    /\ \E stale \in SUBSET old : TakeSlots(unfit \cup stale)
    /\ UNCHANGED <<circuitVars, down>>

\* shutdown: tasks are cancelled, the slots drained, and everyone waited for.
CancelTasks ==
    /\ down = "no"
    /\ down' = "cancelled"
    /\ task' = [o \in Openings |->
                  IF o \in Leasing THEN [task[o] EXCEPT !.cancelled = TRUE] ELSE task[o]]
    /\ UNCHANGED <<circuitVars, slotVars, call, connVars>>

DrainSlots ==
    /\ down = "cancelled"
    /\ down' = "drained"
    /\ TakeSlots(Keys)
    /\ UNCHANGED circuitVars

Stopped ==
    /\ down = "drained"
    /\ \A o \in Openings : task[o].does = "free"
    /\ \A w \in Calls : ~InHand(w)
    /\ down' = "stopped"
    /\ UNCHANGED <<circuitVars, slotVars, call, task, connVars>>

\* The pump of a connection ends.  In the hands of a call that shows when the
\* exchange fails, or when the connection is back.
Dies(c) ==
    /\ c \notin Held \cup closed /\ c \in Pooled
    /\ closed' = closed \cup {c}
    /\ UNCHANGED <<circuitVars, slotVars, call, task, aged, down>>

\* max_age passes.
GrowsOld(c) ==
    /\ c \in (Pooled \cup Held) \ aged
    /\ aged' = aged \cup {c}
    /\ UNCHANGED <<circuitVars, slotVars, call, task, closed, down>>
CircuitTime ==
    /\ OpenElapses \/ FailureAges
    /\ UNCHANGED <<slotVars, call, task, connVars, down>>

-----------------------------------------------------------------------------
CallStep(w) ==
    \/ Acquire(w) \/ AcquireExact(w) \/ StartConnect(w) \/ Receive(w) \/ Joined(w) \/ Miss(w)
    \/ SendCreate(w) \/ EndExchange(w) \/ Complete(w) \/ Return(w) \/ Drop(w)

TaskStep(o) ==
    Connected(o) \/ ConnectFails(o) \/ ConnectCancelled(o) \/ CleanUp(o) \/ HandOver(o)

PoolStep == Evict \/ Maintain \/ CancelTasks \/ DrainSlots \/ Stopped

WorldStep ==
    CircuitTime \/ (\E c \in Conns : Dies(c) \/ GrowsOld(c))

PoolNext ==
    \/ \E w \in Calls : CallStep(w)
    \/ \E o \in Openings : TaskStep(o)
    \/ PoolStep
    \/ WorldStep

PoolSpec == PoolInit /\ [][PoolNext]_poolVars

\* Tasks run; openings end by their time limit and exchanges by their idle
\* time limit or the deadline of the request.  Nobody needs to call, to be
\* dropped or to shut down.
PoolFairSpec ==
    /\ PoolSpec
    /\ \A w \in Calls :
         WF_poolVars(StartConnect(w) \/ Receive(w) \/ Joined(w) \/ EndExchange(w)
                       \/ Complete(w) \/ Return(w))
    /\ \A o \in Openings : WF_poolVars(TaskStep(o))
    /\ WF_poolVars(DrainSlots \/ Stopped)

-----------------------------------------------------------------------------
(* Properties.                                                             *)

\* The shape of the state.
PoolTypeOK ==
    /\ BreakerTypeOK
    /\ slot \in [Keys -> [what : {"none", "idle", "busy", "connecting"},
                          conn : Conns \cup {NoConn}, job : Openings \cup {NoOpening}]]
    /\ down \in {"no", "cancelled", "drained", "stopped"}
    /\ call \in [Calls -> [at : CallPlaces, kind : CallKinds, key : Keys,
                           job : Openings \cup {NoOpening}, conn : Conns \cup {NoConn},
                           permit : Permits]]
    /\ task \in [Openings -> [does : Works, key : Keys, conn : Conns \cup {NoConn},
                              permit : Permits, cancelled : BOOLEAN]]
    /\ closed \subseteq Conns
    /\ aged \subseteq Conns
    /\ revoked \subseteq Conns

Holders(k, c) ==
    {w \in Calls : InHand(w) /\ call[w].key = k /\ call[w].conn = c}
        \cup {o \in Openings : task[o].does = "connected" /\ task[o].key = k /\ task[o].conn = c}

\* Slots and leases agree, whoever is dropped, evicted, late or shut down in
\* between.  A reserved slot has its one holder, so that it comes free again;
\* and who holds a lease has its slot, unless the pool itself took it away:
\* nobody who comes back late puts a connection over the reservation of another.
\* No two have the same connection, not even one that was taken away.
SlotsMatchLeases ==
    /\ \A k \in Keys :
         /\ slot[k].what = "busy" => Cardinality(Holders(k, slot[k].conn)) = 1
         /\ slot[k].what = "connecting" =>
              slot[k].job \in Leasing /\ task[slot[k].job].key = k
         /\ slot[k].what = "idle" => slot[k].conn \notin Held
    /\ \A k \in Keys, c \in Conns :
         Holders(k, c) # {} => OwnsReservation(k, c) \/ c \in revoked
    /\ \A c \in Conns : Cardinality(UNION {Holders(k, c) : k \in Keys}) <= 1
    /\ \A o \in Leasing : OwnsConnect(o) \/ task[o].cancelled

\* A half-open circuit has its probe, an opening that is under way and will tell
\* of it, whatever becomes of the call it was for: otherwise the origin would be
\* refused for good.
ProbeUnderWay ==
    IF circuit = "half"
    THEN probe \in Openings /\ task[probe].does = "connecting" /\ task[probe].permit = "probe"
    ELSE probe = NoOpening

\* After the drain of a shutdown nothing comes back into the pool, and when the
\* pool has stopped nobody has a connection of it or opens one.
DrainedForGood ==
    /\ ShuttingDown => \A k \in Keys : slot[k] = Empty
    /\ down = "stopped" => Held = {} /\ \A o \in Openings : task[o].does = "free"

\* Every call ends, those that wait for the opening of another too; a half-open
\* circuit hears of its probe, whose task may be cancelled or its call be gone;
\* and a pool that is shut down stops, empty for good.
PoolSettles ==
    /\ \A w \in Calls : []<>(call[w].at = "idle")
    /\ []<>(circuit # "half")
    /\ <>[](down # "no" => down = "stopped" /\ \A k \in Keys : slot[k] = Empty)
=============================================================================
