------------------------------ MODULE WaitQueue ------------------------------
(***************************************************************************)
(* The bounded waiting line of gateway-core/src/concurrency.rs: one FIFO   *)
(* per key, a ticket for each waiter, and the waker with which a ticket    *)
(* that leaves from the front calls the next one.                          *)
(*                                                                         *)
(* The line of a key is given by the numbers of its tickets, in the order  *)
(* in which they were enqueued; a ticket drawn again is another ticket     *)
(* with another waker.  Each lock of the mutex is a step; registering a    *)
(* waker, looking at the front, and waking after the lock was given up are *)
(* steps of their own, so that they interleave as they do in the code.     *)
(***************************************************************************)
EXTENDS Integers, FiniteSets

CONSTANTS
    Waiters,        \* requests, each with at most one ticket at a time
    Keys,           \* client keys, or provider accounts
    NoKey,          \* no ticket
    MaxWaiting,     \* ConcurrencyQueuePolicy.max_waiting
    MaxTotal,       \* MAX_TOTAL_WAITING
    MaxTickets      \* bound on the tickets ever drawn

ASSUME QueueAssumption ==
    /\ IsFiniteSet(Waiters)
    /\ NoKey \notin Keys
    /\ MaxWaiting \in Nat
    /\ MaxTotal \in Nat
    /\ MaxTickets \in Nat

VARIABLES
    key,            \* the line a waiter's ticket is in, or NoKey
    number,         \* the number of that ticket
    drawn,          \* tickets drawn so far
    total,          \* QueueState.total
    place,          \* where the waiter is in wait, retry, turn and drop
    notified,       \* whether its task was woken since it registered
    target,         \* the ticket a leaving waiter is about to wake
    late            \* whether the deadline of the wait has passed

queueVars == <<key, number, drawn, total, place, notified, target, late>>

\* "resting" is outside of wait with a ticket in hand: the waiter tries to get
\* capacity.  "waking" is in drop, after the lock, before next.wake().
Places == {"away", "resting", "sleeping", "registering", "checking", "parked", "waking"}

Line(k) == {w \in Waiters : key[w] = k}
HasTicket(w) == key[w] # NoKey
First(w, S) == w \in S /\ \A v \in S : number[w] <= number[v]
IsHead(w) == HasTicket(w) /\ First(w, Line(key[w]))

\* CapacityWait::can_try
CanTry(w, k) == key[w] = k \/ Line(k) = {}

QueueInit ==
    /\ key = [w \in Waiters |-> NoKey]
    /\ number = [w \in Waiters |-> 0]
    /\ drawn = 0
    /\ total = 0
    /\ place = [w \in Waiters |-> "away"]
    /\ notified = [w \in Waiters |-> FALSE]
    /\ target = [w \in Waiters |-> 0]
    /\ late = [w \in Waiters |-> FALSE]

-----------------------------------------------------------------------------
(* Taking a place.                                                         *)

\* The shortest of the lines that have room.
Room(ks) == {k \in ks : Cardinality(Line(k)) < MaxWaiting}
Shortest(k, ks) ==
    k \in Room(ks) /\ \A l \in Room(ks) : Cardinality(Line(k)) <= Cardinality(Line(l))

\* wait without a ticket: enqueue, then retry goes to sleep.
Enqueue(w, ks) ==
    /\ place[w] = "away"
    /\ ~late[w]
    /\ total < MaxTotal
    /\ drawn < MaxTickets
    /\ \E k \in ks : Shortest(k, ks) /\ key' = [key EXCEPT ![w] = k]
    /\ drawn' = drawn + 1
    /\ number' = [number EXCEPT ![w] = drawn + 1]
    /\ total' = total + 1
    /\ place' = [place EXCEPT ![w] = "sleeping"]
    /\ notified' = [notified EXCEPT ![w] = FALSE]
    /\ UNCHANGED <<target, late>>

\* QueueRejection::Timeout or Full.
EnqueueRefused(w, ks) ==
    /\ place[w] = "away"
    /\ late[w] \/ total >= MaxTotal \/ Room(ks) = {}
    /\ UNCHANGED queueVars

\* wait with a ticket for one of the keys: retry goes to sleep.
WaitAgain(w, ks) ==
    /\ place[w] = "resting"
    /\ key[w] \in ks
    /\ place' = [place EXCEPT ![w] = "sleeping"]
    /\ UNCHANGED <<key, number, drawn, total, notified, target, late>>

-----------------------------------------------------------------------------
(* retry and turn.                                                         *)

\* The delay of retry is over, and turn polls for the first time.
WakeUp(w) ==
    /\ place[w] = "sleeping"
    /\ place' = [place EXCEPT ![w] = "registering"]
    /\ UNCHANGED <<key, number, drawn, total, notified, target, late>>

\* waker.register, before the lock.
Register(w) ==
    /\ place[w] = "registering"
    /\ place' = [place EXCEPT ![w] = "checking"]
    /\ notified' = [notified EXCEPT ![w] = FALSE]
    /\ UNCHANGED <<key, number, drawn, total, target, late>>

\* Mutant: turn waits for a wake-up even at the front, where none comes.
CheckWhenWoken(w) ==
    /\ place[w] = "checking"
    /\ ~late[w]
    /\ place' = [place EXCEPT ![w] = IF IsHead(w) /\ notified[w] THEN "resting" ELSE "parked"]
    /\ UNCHANGED <<key, number, drawn, total, notified, target, late>>

\* Under the lock: turn is ready at the front, pending elsewhere.
Check(w) ==
    /\ place[w] = "checking"
    /\ ~late[w]
    /\ place' = [place EXCEPT ![w] = IF IsHead(w) THEN "resting" ELSE "parked"]
    /\ UNCHANGED <<key, number, drawn, total, notified, target, late>>

\* The task was woken, and turn polls again.
PollAgain(w) ==
    /\ place[w] = "parked"
    /\ notified[w]
    /\ place' = [place EXCEPT ![w] = "registering"]
    /\ UNCHANGED <<key, number, drawn, total, notified, target, late>>

-----------------------------------------------------------------------------
(* Giving the place up.                                                    *)

\* Mutants: a ticket that leaves from the front wakes nobody; the counter is not
\* adjusted when a line becomes empty; dropping a ticket that is in no line
\* adjusts the counter.
LeaveSilently(w) ==
    /\ HasTicket(w)
    /\ key' = [key EXCEPT ![w] = NoKey]
    /\ total' = total - 1
    /\ place' = [place EXCEPT ![w] = "away"]
    /\ UNCHANGED <<number, drawn, notified, target, late>>
LeaveUncounted(w) ==
    /\ HasTicket(w)
    /\ key' = [key EXCEPT ![w] = NoKey]
    /\ total' = IF Line(key[w]) = {w} THEN total ELSE total - 1
    /\ place' = [place EXCEPT ![w] = "away"]
    /\ UNCHANGED <<number, drawn, notified, target, late>>
LeaveAnyway(w) ==
    /\ key' = [key EXCEPT ![w] = NoKey]
    /\ total' = total - 1
    /\ place' = [place EXCEPT ![w] = "away"]
    /\ UNCHANGED <<number, drawn, notified, target, late>>

\* Drop for WaitTicket, under the lock: a ticket that leaves from the front has
\* the next one to wake.
Leave(w) ==
    /\ HasTicket(w)
    /\ key' = [key EXCEPT ![w] = NoKey]
    /\ total' = total - 1
    /\ LET others == Line(key[w]) \ {w} IN
         \/ /\ IsHead(w) /\ others # {}
            /\ \E v \in others : First(v, others) /\ target' = [target EXCEPT ![w] = number[v]]
            /\ place' = [place EXCEPT ![w] = "waking"]
         \/ /\ ~(IsHead(w) /\ others # {})
            /\ place' = [place EXCEPT ![w] = "away"]
            /\ UNCHANGED target
    /\ UNCHANGED <<number, drawn, notified, late>>

\* next.wake(), after the lock: the waker of that ticket, if it is registered.
WakeNext(w) ==
    /\ place[w] = "waking"
    /\ notified' = [v \in Waiters |->
         IF HasTicket(v) /\ number[v] = target[w] /\ place[v] \in {"checking", "parked"}
         THEN TRUE ELSE notified[v]]
    /\ place' = [place EXCEPT ![w] = "away"]
    /\ UNCHANGED <<key, number, drawn, total, target, late>>

\* turn ends with QueueRejection::Timeout and the caller drops the ticket.
TimeOut(w) ==
    /\ late[w]
    /\ place[w] \in {"sleeping", "checking", "parked"}
    /\ Leave(w)

\* The deadline of the wait passes.
Late(w) ==
    /\ ~late[w]
    /\ late' = [late EXCEPT ![w] = TRUE]
    /\ UNCHANGED <<key, number, drawn, total, place, notified, target>>

-----------------------------------------------------------------------------
(* The line on its own: its users wait and leave whenever they like, but   *)
(* for the middle of a poll, where a task cannot be dropped.               *)

TaskStep(w) == WakeUp(w) \/ Register(w) \/ Check(w) \/ PollAgain(w) \/ WakeNext(w) \/ TimeOut(w)

UserStep(w) ==
    \/ \E ks \in (SUBSET Keys) \ {{}} :
         Enqueue(w, ks) \/ EnqueueRefused(w, ks) \/ WaitAgain(w, ks)
    \/ place[w] # "checking" /\ Leave(w)
    \/ Late(w)

QueueNext == \E w \in Waiters : TaskStep(w) \/ UserStep(w)

QueueSpec == QueueInit /\ [][QueueNext]_queueVars

-----------------------------------------------------------------------------
(* Properties.                                                             *)

\* The shape of the state.
QueueTypeOK ==
    /\ key \in [Waiters -> Keys \cup {NoKey}]
    /\ number \in [Waiters -> Nat]
    /\ drawn \in Nat
    /\ total \in Nat
    /\ place \in [Waiters -> Places]
    /\ notified \in [Waiters -> BOOLEAN]
    /\ target \in [Waiters -> Nat]
    /\ late \in [Waiters -> BOOLEAN]

\* The counter that bounds all lines is the number of tickets in them, and no
\* line or sum of lines outgrows its bound, however tickets are dropped.
LinesBounded ==
    /\ total = Cardinality({w \in Waiters : HasTicket(w)})
    /\ total <= MaxTotal
    /\ \A k \in Keys : Cardinality(Line(k)) <= MaxWaiting

\* Only the first of a line tries to get capacity: turn lets no one else pass,
\* and nobody gets in front of a waiter that is trying.
OnlyTheHeadTries == \A w \in Waiters : place[w] = "resting" => IsHead(w)

\* No wake-up is lost: a task that sleeps at the front of its line was woken,
\* or whoever left the front is just about to wake it.
NoLostWakeup ==
    \A w \in Waiters :
        place[w] = "parked" /\ IsHead(w) =>
            \/ notified[w]
            \/ \E v \in Waiters : place[v] = "waking" /\ target[v] = number[w]
=============================================================================
