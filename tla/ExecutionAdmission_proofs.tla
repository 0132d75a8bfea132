---------------------- MODULE ExecutionAdmission_proofs ----------------------
(* Theorems about the waiting line and about client admission, which waits *)
(* in it.  Of the line, for every set of waiters and keys and every bound: *)
(* its counter is exact, its bounds hold, only the first of a line tries   *)
(* to get capacity, and no wake-up is lost.  Of client admission, for      *)
(* every limit: the protocol of a single request (what is armed, sent,     *)
(* held and freed at each place) is inductive on its own; the bounds on    *)
(* the running requests and on the spending follow from it by counting.    *)
EXTENDS ExecutionAdmission, FiniteSetTheorems, TLAPS

-----------------------------------------------------------------------------
(* The inductive invariant of the waiting line.                            *)

\* The types, but for the counter, which could become negative.
Typed ==
    /\ key \in [Waiters -> Keys \cup {NoKey}]
    /\ number \in [Waiters -> Nat]
    /\ drawn \in Nat
    /\ place \in [Waiters -> Places]
    /\ notified \in [Waiters -> BOOLEAN]
    /\ target \in [Waiters -> Nat]
    /\ late \in [Waiters -> BOOLEAN]

\* A ticket is held exactly in the places of wait, retry and turn.
TicketsPlaced ==
    \A w \in Waiters :
        HasTicket(w) <=> place[w] \in {"resting", "sleeping", "registering", "checking", "parked"}

\* Tickets are numbered in the order they were drawn, each with its own number.
TicketsNumbered ==
    \A w, v \in Waiters :
        HasTicket(w) =>
          /\ number[w] <= drawn
          /\ HasTicket(v) /\ number[v] = number[w] => v = w

Ordered == TicketsPlaced /\ TicketsNumbered /\ OnlyTheHeadTries /\ NoLostWakeup

IInv == Typed /\ Ordered /\ LinesBounded

-----------------------------------------------------------------------------
LEMMA InitHolds == QueueInit => IInv
<1> SUFFICES ASSUME QueueInit PROVE IInv
  OBVIOUS
<1>1. Typed
  BY DEF QueueInit, Typed, Places
<1>2. {w \in Waiters : HasTicket(w)} = {}
  BY DEF QueueInit, HasTicket
<1>3. ASSUME NEW k \in Keys PROVE Line(k) = {}
  BY QueueAssumption DEF QueueInit, Line
<1>4. LinesBounded
  BY <1>2, <1>3, FS_EmptySet, QueueAssumption DEF LinesBounded, QueueInit
<1>5. Ordered
  BY DEF QueueInit, Ordered, TicketsPlaced, TicketsNumbered, OnlyTheHeadTries, NoLostWakeup,
         HasTicket, IsHead
<1> QED
  BY <1>1, <1>4, <1>5 DEF IInv

\* The steps that leave every line as it is.
StillStep(w) ==
    \/ WakeUp(w) \/ Register(w) \/ Check(w) \/ PollAgain(w) \/ WakeNext(w) \/ Late(w)
    \/ \E ks \in (SUBSET Keys) \ {{}} : EnqueueRefused(w, ks) \/ WaitAgain(w, ks)

LEMMA StillStepHolds ==
    ASSUME IInv, NEW w \in Waiters, StillStep(w)
    PROVE  IInv'
<1> USE DEF IInv, Typed, Ordered, TicketsPlaced, TicketsNumbered, OnlyTheHeadTries, NoLostWakeup,
            HasTicket, IsHead, First, Line, Places
<1>1. LinesBounded'
  <2>1. key' = key /\ total' = total
    BY DEF StillStep, WakeUp, Register, Check, PollAgain, WakeNext, Late, EnqueueRefused,
           WaitAgain, queueVars
  <2>2. /\ {v \in Waiters : HasTicket(v)}' = {v \in Waiters : HasTicket(v)}
        /\ \A k \in Keys : Line(k)' = Line(k)
    BY <2>1
  <2> HIDE DEF Line, HasTicket
  <2> QED
    BY <2>1, <2>2 DEF LinesBounded
<1>2. CASE WakeUp(w)
  BY <1>1, <1>2 DEF WakeUp
<1>3. CASE Register(w)
  BY <1>1, <1>3 DEF Register
<1>4. CASE Check(w)
  BY <1>1, <1>4 DEF Check
<1>5. CASE PollAgain(w)
  BY <1>1, <1>5 DEF PollAgain
<1>6. CASE WakeNext(w)
  BY ZenonT(60), <1>1, <1>6 DEF WakeNext
<1>7. CASE Late(w)
  BY <1>1, <1>7 DEF Late
<1>8. CASE \E ks \in (SUBSET Keys) \ {{}} : EnqueueRefused(w, ks)
  BY <1>1, <1>8 DEF EnqueueRefused, queueVars
<1>9. CASE \E ks \in (SUBSET Keys) \ {{}} : WaitAgain(w, ks)
  BY <1>1, <1>9 DEF WaitAgain
<1> QED
  BY <1>2, <1>3, <1>4, <1>5, <1>6, <1>7, <1>8, <1>9 DEF StillStep

-----------------------------------------------------------------------------
\* A new ticket is the last of its line.
LEMMA EnqueueHolds ==
    ASSUME IInv, NEW w \in Waiters, NEW ks \in SUBSET Keys, Enqueue(w, ks)
    PROVE  IInv'
<1>1. PICK k \in ks : Shortest(k, ks) /\ key' = [key EXCEPT ![w] = k]
  BY DEF Enqueue
<1>2. /\ k \in Keys /\ k # NoKey
      /\ place[w] = "away" /\ ~HasTicket(w) /\ key[w] = NoKey
  BY <1>1, QueueAssumption DEF Enqueue, IInv, Ordered, TicketsPlaced, HasTicket
<1>3. /\ drawn' = drawn + 1
      /\ number' = [number EXCEPT ![w] = drawn + 1]
      /\ place' = [place EXCEPT ![w] = "sleeping"]
      /\ notified' = [notified EXCEPT ![w] = FALSE]
      /\ total' = total + 1 /\ total < MaxTotal
      /\ UNCHANGED <<target, late>>
  BY DEF Enqueue
<1>4. Typed'
  BY <1>1, <1>2, <1>3 DEF IInv, Typed, Places
<1>5. Ordered'
  <2> USE <1>1, <1>2, <1>3 DEF IInv, Typed, Ordered, HasTicket
  <2>1. TicketsPlaced'
    BY DEF TicketsPlaced
  <2>2. TicketsNumbered'
    BY DEF TicketsNumbered
  <2>3. OnlyTheHeadTries'
    BY DEF OnlyTheHeadTries, IsHead, First, Line, TicketsNumbered
  <2>4. NoLostWakeup'
    BY DEF NoLostWakeup, IsHead, First, Line
  <2> QED
    BY <2>1, <2>2, <2>3, <2>4
<1>6. LinesBounded'
  <2> DEFINE H == {v \in Waiters : HasTicket(v)}
  <2>1. H' = H \cup {w} /\ w \notin H /\ IsFiniteSet(H)
    BY <1>1, <1>2, QueueAssumption, FS_Subset DEF HasTicket, IInv, Typed
  <2>2. Cardinality(H') = Cardinality(H) + 1 /\ Cardinality(H) \in Nat
    BY <2>1, FS_AddElement, FS_CardinalityType
  <2>3. total' = Cardinality(H') /\ total' <= MaxTotal
    BY <1>3, <2>2, QueueAssumption DEF IInv, LinesBounded
  <2>4. ASSUME NEW l \in Keys PROVE Cardinality(Line(l)') <= MaxWaiting
    <3>1. CASE l = k
      <4>1. Line(l)' = Line(k) \cup {w} /\ w \notin Line(k) /\ IsFiniteSet(Line(k))
        BY <1>1, <1>2, <3>1, QueueAssumption, FS_Subset DEF Line, IInv, Typed
      <4>2. Cardinality(Line(k)) < MaxWaiting
        BY <1>1 DEF Shortest, Room
      <4>3. Cardinality(Line(k)) \in Nat
        BY <4>1, FS_CardinalityType
      <4>4. Cardinality(Line(k) \cup {w}) = Cardinality(Line(k)) + 1
        BY <4>1, FS_AddElement
      <4>5. Cardinality(Line(l)') = Cardinality(Line(k)) + 1
        BY <4>1, <4>4
      <4> HIDE DEF Line
      <4> QED
        BY <4>2, <4>3, <4>5, QueueAssumption
    <3>2. CASE l # k
      BY <1>1, <1>2, <3>2, QueueAssumption DEF Line, IInv, Typed, LinesBounded
    <3> QED
      BY <3>1, <3>2
  <2> QED
    BY <2>3, <2>4 DEF LinesBounded
<1> QED
  BY <1>4, <1>5, <1>6 DEF IInv

-----------------------------------------------------------------------------
\* A ticket that leaves from the front hands its place to the one it wakes.
LEMMA LeaveHolds ==
    ASSUME IInv, NEW w \in Waiters, Leave(w)
    PROVE  IInv'
<1> DEFINE others == Line(key[w]) \ {w}
<1>1. /\ HasTicket(w) /\ key' = [key EXCEPT ![w] = NoKey]
      /\ total' = total - 1
      /\ UNCHANGED <<number, drawn, notified, late>>
  BY DEF Leave
<1>2. \/ /\ IsHead(w)
         /\ \E v \in others : First(v, others) /\ target' = [target EXCEPT ![w] = number[v]]
         /\ place' = [place EXCEPT ![w] = "waking"]
      \/ /\ ~IsHead(w) \/ others = {}
         /\ place' = [place EXCEPT ![w] = "away"]
         /\ UNCHANGED target
  BY DEF Leave
<1>3. Typed'
  BY <1>1, <1>2 DEF IInv, Typed, Places, Line
<1>4. Ordered'
  <2> USE <1>1 DEF IInv, Typed, Ordered, HasTicket
  <2>1. TicketsPlaced'
    BY <1>2 DEF TicketsPlaced
  <2>2. TicketsNumbered'
    BY DEF TicketsNumbered
  <2>3. OnlyTheHeadTries'
    BY <1>2 DEF OnlyTheHeadTries, IsHead, First, Line
  <2>4. NoLostWakeup'
    <3> SUFFICES ASSUME NEW v \in Waiters, place'[v] = "parked", IsHead(v)'
                 PROVE  \/ notified'[v]
                        \/ \E u \in Waiters : place'[u] = "waking" /\ target'[u] = number'[v]
      BY DEF NoLostWakeup
    <3>1. v # w /\ place[v] = "parked" /\ HasTicket(v)
      BY <1>2 DEF TicketsPlaced
    <3>2. ASSUME NEW u \in Waiters, place[u] = "waking"
          PROVE  place'[u] = "waking" /\ target'[u] = target[u]
      BY <1>2, <3>2 DEF TicketsPlaced
    <3>3. CASE IsHead(v)
      BY <3>1, <3>2, <3>3 DEF NoLostWakeup
    <3>4. CASE ~IsHead(v)
      <4>1. key[v] = key[w] /\ v \in others /\ First(v, others)
        BY <3>1, <3>4 DEF IsHead, First, Line
      <4>2. IsHead(w)
        BY <3>1, <3>4, <4>1 DEF IsHead, First, Line
      <4>3. PICK x \in others : First(x, others) /\ target' = [target EXCEPT ![w] = number[x]]
        BY <1>2, <4>1, <4>2
      <4>4. x \in Waiters /\ number[x] = number[v] /\ place'[w] = "waking"
        BY <1>2, <4>1, <4>2, <4>3 DEF First, Line
      <4> QED
        BY <4>3, <4>4
    <3> QED
      BY <3>3, <3>4
  <2> QED
    BY <2>1, <2>2, <2>3, <2>4
<1>5. LinesBounded'
  <2> DEFINE H == {v \in Waiters : HasTicket(v)}
  <2>1. H' = H \ {w} /\ w \in H /\ IsFiniteSet(H)
    BY <1>1, QueueAssumption, FS_Subset DEF HasTicket, IInv, Typed
  <2>2. Cardinality(H') = Cardinality(H) - 1 /\ Cardinality(H) \in Nat
    BY <2>1, FS_RemoveElement, FS_CardinalityType
  <2>3. total' = Cardinality(H') /\ total' <= MaxTotal
    BY <1>1, <2>2, QueueAssumption DEF IInv, LinesBounded
  <2>4. ASSUME NEW l \in Keys PROVE Cardinality(Line(l)') <= MaxWaiting
    <3>1. Line(l)' = Line(l) \ {w} /\ IsFiniteSet(Line(l))
      BY <1>1, QueueAssumption, FS_Subset DEF Line, IInv, Typed
    <3>2. Cardinality(Line(l)) <= MaxWaiting /\ Cardinality(Line(l)) \in Nat
      BY <3>1, FS_CardinalityType DEF IInv, LinesBounded
    <3>3. Cardinality(Line(l) \ {w}) <= Cardinality(Line(l)) /\ Cardinality(Line(l) \ {w}) \in Nat
      <4>1. Line(l) \ {w} \in SUBSET Line(l)
        OBVIOUS
      <4> QED
        BY <3>1, <4>1, FS_Subset, FS_CardinalityType
    <3>4. Cardinality(Line(l)') = Cardinality(Line(l) \ {w})
      BY <3>1
    <3> QED
      BY <3>2, <3>3, <3>4, QueueAssumption
  <2> QED
    BY <2>3, <2>4 DEF LinesBounded
<1> QED
  BY <1>3, <1>4, <1>5 DEF IInv

-----------------------------------------------------------------------------
(* Theorems.                                                               *)

LEMMA InvariantStep == IInv /\ [QueueNext]_queueVars => IInv'
<1> SUFFICES ASSUME IInv, [QueueNext]_queueVars PROVE IInv'
  OBVIOUS
<1>1. ASSUME NEW w \in Waiters, TaskStep(w) \/ UserStep(w) PROVE IInv'
  <2>1. CASE StillStep(w)
    BY <2>1, StillStepHolds
  <2>2. CASE \E ks \in (SUBSET Keys) \ {{}} : Enqueue(w, ks)
    BY <2>2, EnqueueHolds
  <2>3. CASE Leave(w)
    BY <2>3, LeaveHolds
  <2> QED
    BY <1>1, <2>1, <2>2, <2>3 DEF TaskStep, UserStep, StillStep, TimeOut
<1>2. CASE UNCHANGED queueVars
  BY <1>2 DEF queueVars, IInv, Typed, Ordered, TicketsPlaced, TicketsNumbered,
       OnlyTheHeadTries, NoLostWakeup, LinesBounded, HasTicket, IsHead, First, Line
<1> QED
  BY <1>1, <1>2 DEF QueueNext

\* wait, retry and turn keep the tickets in their order, and the wake-ups.
THEOREM Inductive == QueueSpec => []IInv
BY InvariantStep, InitHolds, PTL DEF QueueSpec

\* QueueState.total is the number of tickets in the lines, and neither it nor a
\* line outgrows its bound.
THEOREM Bounded == QueueSpec => []LinesBounded
BY Inductive, PTL DEF IInv

\* The state of the lines keeps its types; total does not become negative.
THEOREM TypeCorrect == QueueSpec => []QueueTypeOK
<1>1. IInv => QueueTypeOK
  <2> SUFFICES ASSUME IInv PROVE QueueTypeOK
    OBVIOUS
  <2>1. total \in Nat
    BY QueueAssumption, FS_Subset, FS_CardinalityType DEF IInv, LinesBounded
  <2> QED
    BY <2>1 DEF IInv, Typed, QueueTypeOK
<1> QED
  BY <1>1, Inductive, PTL

\* turn lets only the first of a line try for capacity.
THEOREM HeadsTry == QueueSpec => []OnlyTheHeadTries
BY Inductive, PTL DEF IInv, Ordered

\* A waiter parked at the front was woken or is about to be.
THEOREM WakeupsKept == QueueSpec => []NoLostWakeup
BY Inductive, PTL DEF IInv, Ordered

-----------------------------------------------------------------------------
(* The protocol of a request.                                              *)

\* The types of what the protocol speaks of.
SlotTyped ==
    /\ pc \in [Waiters -> RequestPlaces]
    /\ armed \in [Waiters -> BOOLEAN]
    /\ allow \in [Waiters -> BOOLEAN]
    /\ answer \in [Waiters -> Answers]
    /\ over \in [Waiters -> BOOLEAN]
    /\ cost \in [Waiters -> 0..MaxCost]
    /\ sent \subseteq Waiters
    /\ freeing \subseteq Waiters
    /\ slots \subseteq Waiters
    /\ recent \subseteq Waiters
    /\ spent \in [Keys -> Nat]
    /\ failed \subseteq Waiters

\* Outside of the attempts nothing is armed, sent or held.
Idle(r) ==
    pc[r] \in {"new", "checking", "queueing", "waiting"} =>
        ~armed[r] /\ r \notin sent \cup freeing \cup slots

\* The cleanup is armed as long as a slot may be held.
Guarded(r) ==
    pc[r] \in {"sent", "granted", "running", "settling"} => armed[r]

\* The answer says whether the slot is held, but for a lost one.
Asking(r) ==
    pc[r] = "sent" =>
        /\ r \notin freeing
        /\ r \in sent <=> answer[r] = "none"
        /\ answer[r] \in {"none", "rate limited", "full"} => r \notin slots
        /\ answer[r] = "granted" /\ ~over[r] => r \in slots

\* The slot is held until the charge is known.
Holding(r) ==
    pc[r] \in {"granted", "running", "settling"} =>
        /\ r \notin sent /\ r \notin freeing
        /\ ~over[r] => r \in slots

\* What is left behind is on its way back.
Leaving(r) ==
    pc[r] = "gone" => /\ r \in sent => r \in freeing \cup failed
                      /\ r \in slots => r \in freeing \cup failed \/ over[r]

Protocol(r) == Idle(r) /\ Guarded(r) /\ Asking(r) /\ Holding(r) /\ Leaving(r)

SlotInv == SlotTyped /\ \A r \in Waiters : Protocol(r)

LEMMA SlotInit == Init => SlotInv
BY AdmissionAssumption
   DEF Init, SlotInv, SlotTyped, Protocol, Idle, Guarded, Asking, Holding, Leaving,
       RequestPlaces, Answers

Step(r) == RequestStep(r) \/ RedisStep(r) \/ TimeStep(r)

\* A step of one request does not touch the protocol of another.
LEMMA OthersUntouched ==
    ASSUME SlotInv, NEW q \in Waiters, NEW r \in Waiters, r # q, Step(q)
    PROVE  Protocol(r)'
<1>1. /\ pc'[r] = pc[r] /\ armed'[r] = armed[r] /\ answer'[r] = answer[r] /\ over'[r] = over[r]
      /\ r \in sent' <=> r \in sent
      /\ r \in freeing' <=> r \in freeing
      /\ r \in slots' <=> r \in slots
      /\ r \in failed' <=> r \in failed
  <2> USE DEF SlotInv, SlotTyped
  <2>1. CASE RequestStep(q)
    <3>1. CASE NoAnswer(q) \/ Drop(q)
      BY <3>1 DEF NoAnswer, Drop, Abandon, GiveBack
    <3>2. CASE AdmitBudget(q) \/ Settle(q)
      BY <3>2 DEF AdmitBudget, Settle, GiveBack
    <3>3. CASE Granted(q) \/ Rejected(q) \/ NoSlot(q) \/ CheckBudget(q) \/ Wait(q) \/ WaitTimedOut(q)
      BY <3>3 DEF Granted, Rejected, NoSlot, CheckBudget, Wait, WaitTimedOut, redisVars
    <3>4. CASE Ask(q) \/ AskTooLate(q) \/ QueueStep(q) \/ Finish(q)
      BY <3>4 DEF Ask, AskTooLate, QueueStep, Finish, requestVars, redisVars
    <3> QED
      BY <2>1, <3>1, <3>2, <3>3, <3>4 DEF RequestStep
  <2>2. CASE RedisStep(q)
    BY <2>2 DEF RedisStep, RedisAdmit, RedisUnreachable, RedisRelease, ReleaseFails, requestVars
  <2>3. CASE TimeStep(q)
    BY <2>3 DEF TimeStep, WaitLate, Over, SlotExpires, Ages, requestVars, redisVars
  <2> QED
    BY <2>1, <2>2, <2>3 DEF Step
<1> QED
  BY <1>1 DEF SlotInv, Protocol, Idle, Guarded, Asking, Holding, Leaving

\* A request keeps its own protocol.
LEMMA OwnStep ==
    ASSUME SlotInv, NEW r \in Waiters, Step(r)
    PROVE  Protocol(r)'
<1> USE DEF SlotInv, SlotTyped, Protocol, Idle, Guarded, Asking, Holding, Leaving, RequestPlaces,
        Answers
<1>1. CASE Ask(r)
  BY <1>1 DEF Ask, Ready
<1>2. CASE AskTooLate(r)
  BY <1>2 DEF AskTooLate, Ready, redisVars
<1>3. CASE Granted(r)
  BY <1>3 DEF Granted, redisVars
<1>4. CASE Rejected(r)
  BY <1>4 DEF Rejected, redisVars
<1>5. CASE NoSlot(r)
  BY <1>5 DEF NoSlot, redisVars
<1>6. CASE NoAnswer(r)
  BY <1>6 DEF NoAnswer, Abandon, GiveBack
<1>7. CASE CheckBudget(r)
  BY <1>7 DEF CheckBudget, redisVars
<1>8. CASE Wait(r)
  BY <1>8 DEF Wait, redisVars
<1>9. CASE QueueStep(r)
  BY <1>9 DEF QueueStep, requestVars, redisVars
<1>10. CASE AdmitBudget(r)
  BY <1>10 DEF AdmitBudget, GiveBack
<1>11. CASE Finish(r)
  BY <1>11 DEF Finish, redisVars
<1>12. CASE Settle(r)
  BY <1>12 DEF Settle, GiveBack
<1>13. CASE Drop(r)
  BY <1>13 DEF Drop, Abandon, GiveBack
<1>14. CASE RedisAdmit(r)
  BY <1>14 DEF RedisAdmit, Decision
<1>15. CASE RedisUnreachable(r)
  BY <1>15 DEF RedisUnreachable
<1>16. CASE RedisRelease(r)
  BY <1>16 DEF RedisRelease, requestVars
<1>17. CASE ReleaseFails(r)
  BY <1>17 DEF ReleaseFails, requestVars
<1>18. CASE WaitLate(r)
  BY <1>18 DEF WaitLate, requestVars, redisVars
<1>19. CASE Over(r)
  BY <1>19 DEF Over, requestVars, redisVars
<1>20. CASE SlotExpires(r)
  BY <1>20 DEF SlotExpires, requestVars
<1>21. CASE Ages(r)
  BY <1>21 DEF Ages, requestVars
<1>22. CASE WaitTimedOut(r)
  BY <1>22 DEF WaitTimedOut, redisVars
<1> QED
  BY <1>1, <1>2, <1>3, <1>4, <1>5, <1>6, <1>7, <1>8, <1>9, <1>10, <1>11, <1>12, <1>13, <1>14,
     <1>15, <1>16, <1>17, <1>18, <1>19, <1>20, <1>21, <1>22
     DEF Step, RequestStep, RedisStep, TimeStep

LEMMA TypesKept ==
    ASSUME SlotInv, NEW r \in Waiters, Step(r)
    PROVE  SlotTyped'
<1> USE DEF SlotInv, SlotTyped, RequestPlaces, Answers
<1>1. CASE Ask(r)
  <2>1. (MaxConcurrency[KeyOf[r]] = 0 \/ CanTry(r, KeyOf[r])) \in BOOLEAN
    OBVIOUS
  <2>2. allow' \in [Waiters -> BOOLEAN]
    BY <1>1, <2>1 DEF Ask
  <2> QED
    BY <1>1, <2>2 DEF Ask
<1>2. CASE RequestStep(r) /\ ~Ask(r)
  <2>1. CASE Settle(r)
    <3>0. cost[r] \in 0..MaxCost /\ spent \in [Keys -> Nat]
      OBVIOUS
    <3> HIDE DEF SlotInv, SlotTyped
    <3>1. cost[r] \in Nat /\ KeyOf[r] \in Keys /\ spent \in [Keys -> Nat]
      BY <3>0, AdmissionAssumption
    <3>2. spent[KeyOf[r]] \in Nat
      BY <3>1
    <3>3. spent[KeyOf[r]] + cost[r] \in Nat
      BY <3>1, <3>2
    <3>4. spent' \in [Keys -> Nat]
      BY <2>1, <3>1, <3>3 DEF Settle
    <3>5. /\ freeing' \subseteq Waiters /\ failed' \subseteq Waiters
          /\ pc' = [pc EXCEPT ![r] = "gone"] /\ armed' = [armed EXCEPT ![r] = FALSE]
          /\ UNCHANGED <<allow, answer, cost, sent, slots, recent, over>>
      BY <2>1 DEF Settle, GiveBack, SlotInv, SlotTyped
    <3> QED
      BY <3>4, <3>5 DEF SlotInv, SlotTyped
  <2>2. CASE Finish(r)
    BY <2>2 DEF Finish, redisVars
  <2>3. CASE NoAnswer(r) \/ AdmitBudget(r) \/ Drop(r)
    <3>1. CASE NoAnswer(r)
      BY <3>1 DEF NoAnswer, Abandon, GiveBack
    <3>2. CASE AdmitBudget(r)
      BY <3>2 DEF AdmitBudget, GiveBack
    <3>3. CASE Drop(r)
      BY <3>3 DEF Drop, Abandon, GiveBack
    <3> QED
      BY <2>3, <3>1, <3>2, <3>3
  <2>4. CASE AskTooLate(r) \/ Granted(r) \/ Rejected(r) \/ NoSlot(r) \/ CheckBudget(r) \/ Wait(r)
             \/ WaitTimedOut(r) \/ QueueStep(r)
    BY <2>4 DEF AskTooLate, Granted, Rejected, NoSlot, CheckBudget, Wait, WaitTimedOut, QueueStep,
       requestVars, redisVars
  <2> QED
    BY <1>2, <2>1, <2>2, <2>3, <2>4 DEF RequestStep
<1>3. CASE RedisStep(r)
  BY <1>3 DEF RedisStep, RedisAdmit, Decision, RedisUnreachable, RedisRelease, ReleaseFails,
     requestVars
<1>4. CASE TimeStep(r)
  BY <1>4 DEF TimeStep, WaitLate, Over, SlotExpires, Ages, requestVars, redisVars
<1> QED
  BY <1>1, <1>2, <1>3, <1>4 DEF Step

\* What a request armed, sent and holds agrees with its place at every await of
\* wait_for_client_slot and of the guard that frees the slot.
THEOREM SlotInductive == Spec => []SlotInv
<1>1. SlotInv /\ [Next]_vars => SlotInv'
  <2> SUFFICES ASSUME SlotInv, [Next]_vars PROVE SlotInv'
    OBVIOUS
  <2>1. ASSUME NEW q \in Waiters, Step(q) PROVE SlotInv'
    BY <2>1, TypesKept, OwnStep, OthersUntouched DEF SlotInv
  <2>2. CASE UNCHANGED vars
    BY <2>2 DEF vars, requestVars, redisVars, SlotInv, SlotTyped, Protocol, Idle, Guarded,
       Asking, Holding, Leaving
  <2> QED
    BY <2>1, <2>2 DEF Next, Step
<1> QED
  BY <1>1, SlotInit, PTL DEF Spec

\* AdmissionLease is armed before the command is sent and dropped at every end
\* of acquire_client_admission and of the session: a request that is gone
\* leaves no slot without a release on the way or a TTL.
THEOREM SlotsReturned == Spec => []NoStraySlot
<1>1. SlotInv => NoStraySlot
  BY DEF SlotInv, SlotTyped, Protocol, Leaving, NoStraySlot
<1> QED
  BY <1>1, SlotInductive, PTL

-----------------------------------------------------------------------------
(* Counting the slots.                                                     *)

\* The admit script hands out no more slots than the key has.
SlotsBounded ==
    \A k \in Keys : MaxConcurrency[k] # 0 => Cardinality(Of(k, slots)) <= MaxConcurrency[k]

LEMMA Finite ==
    ASSUME NEW S \in SUBSET Waiters
    PROVE  IsFiniteSet(S) /\ Cardinality(S) \in Nat
BY QueueAssumption, FS_Subset, FS_CardinalityType

\* Only the admit script takes a slot.
LEMMA SlotsTaken ==
    ASSUME NEW r \in Waiters, Step(r)
    PROVE  \/ slots' \subseteq slots
           \/ RedisAdmit(r) /\ Decision(r) = "granted" /\ slots' = slots \cup {r}
<1>1. CASE RequestStep(r)
  BY <1>1 DEF RequestStep, Ask, AskTooLate, Granted, Rejected, NoSlot, NoAnswer, CheckBudget,
     Wait, WaitTimedOut, QueueStep, AdmitBudget, Finish, Settle, Drop, redisVars
<1>2. CASE RedisStep(r)
  BY <1>2 DEF RedisStep, RedisAdmit, RedisUnreachable, RedisRelease, ReleaseFails
<1>3. CASE TimeStep(r)
  BY <1>3 DEF TimeStep, WaitLate, Over, SlotExpires, Ages, redisVars
<1> QED
  BY <1>1, <1>2, <1>3 DEF Step

LEMMA SlotsStep ==
    ASSUME SlotInv, SlotsBounded, NEW r \in Waiters, Step(r)
    PROVE  SlotsBounded'
<1> SUFFICES ASSUME NEW k \in Keys, MaxConcurrency[k] # 0
             PROVE  Cardinality(Of(k, slots')) <= MaxConcurrency[k]
  BY DEF SlotsBounded, Of
<1>1. slots \subseteq Waiters /\ slots' \subseteq Waiters
  BY TypesKept DEF SlotInv, SlotTyped
<1>2. /\ Cardinality(Of(k, slots)) \in Nat /\ IsFiniteSet(Of(k, slots))
      /\ Cardinality(Of(k, slots')) \in Nat
  BY <1>1, Finite DEF Of
<1>3. Cardinality(Of(k, slots)) <= MaxConcurrency[k] /\ MaxConcurrency[k] \in Nat
  BY AdmissionAssumption DEF SlotsBounded
<1>4. CASE slots' \subseteq slots
  <2>1. Of(k, slots') \subseteq Of(k, slots)
    BY <1>4 DEF Of
  <2>2. Cardinality(Of(k, slots')) <= Cardinality(Of(k, slots))
    BY <1>2, <2>1, FS_Subset
  <2> QED
    BY <1>2, <1>3, <2>2
<1>5. CASE RedisAdmit(r) /\ Decision(r) = "granted" /\ slots' = slots \cup {r}
  <2>1. CASE KeyOf[r] = k
    <3>1. Cardinality(Of(k, slots)) < MaxConcurrency[k]
      <4>1. ~(MaxConcurrency[k] # 0 /\ Cardinality(Of(k, slots)) >= MaxConcurrency[k])
        BY <1>5, <2>1 DEF Decision
      <4> QED
        BY <4>1, <1>2, <1>3
    <3>2. Of(k, slots') = Of(k, slots) \cup {r}
      BY <1>5, <2>1 DEF Of
    <3>3. Cardinality(Of(k, slots')) <= Cardinality(Of(k, slots)) + 1
      <4>1. Cardinality(Of(k, slots) \cup {r}) \in {Cardinality(Of(k, slots)),
                                                    Cardinality(Of(k, slots)) + 1}
        BY <1>2, FS_AddElement
      <4>2. Cardinality(Of(k, slots')) \in {Cardinality(Of(k, slots)),
                                            Cardinality(Of(k, slots)) + 1}
        BY <3>2, <4>1
      <4> QED BY <1>2, <4>2
    <3> QED
      BY <1>2, <1>3, <3>1, <3>3
  <2>2. CASE KeyOf[r] # k
    <3>1. Of(k, slots') = Of(k, slots)
      BY <1>5, <2>2 DEF Of
    <3> QED
      BY <1>3, <3>1
  <2> QED
    BY <2>1, <2>2
<1>6. (slots' \subseteq slots) \/ (RedisAdmit(r) /\ Decision(r) = "granted" /\ slots' = slots \cup {r})
  BY SlotsTaken
<1> QED
  BY <1>4, <1>5, <1>6

LEMMA SlotsInit == Init => SlotsBounded
<1> SUFFICES ASSUME Init, NEW k \in Keys PROVE Cardinality(Of(k, slots)) <= MaxConcurrency[k]
  BY DEF SlotsBounded
<1>1. Of(k, slots) = {}
  BY DEF Init, Of
<1> QED
  BY <1>1, FS_EmptySet, AdmissionAssumption

\* Whoever runs before its deadline holds a slot.
LEMMA RunningCounted == SlotInv /\ SlotsBounded => RunningWithinLimit
<1> SUFFICES ASSUME SlotInv, SlotsBounded, NEW k \in Keys, MaxConcurrency[k] # 0
             PROVE  Cardinality({r \in Unsettled(k) : ~over[r]}) <= MaxConcurrency[k]
  BY DEF RunningWithinLimit
<1> DEFINE R == {r \in Unsettled(k) : ~over[r]}
<1>1. R \subseteq Of(k, slots)
  BY DEF SlotInv, Protocol, Holding, Unsettled, Of
<1>2. Of(k, slots) \in SUBSET Waiters
  BY DEF SlotInv, SlotTyped, Of
<1>3. Cardinality(R) <= Cardinality(Of(k, slots))
  BY <1>1, <1>2, Finite, FS_Subset
<1>4. Cardinality(R) \in Nat /\ Cardinality(Of(k, slots)) \in Nat
  BY <1>1, <1>2, Finite
<1>5. Cardinality(Of(k, slots)) <= MaxConcurrency[k] /\ MaxConcurrency[k] \in Nat
  BY AdmissionAssumption DEF SlotsBounded
<1> QED
  BY <1>3, <1>4, <1>5

\* The acquire script never admits more requests of a key than its limit.
THEOREM SlotsCounted == Spec => []SlotsBounded
<1>1. SlotInv /\ SlotsBounded /\ [Next]_vars => SlotsBounded'
  <2> SUFFICES ASSUME SlotInv, SlotsBounded, [Next]_vars PROVE SlotsBounded'
    OBVIOUS
  <2>1. CASE UNCHANGED vars
    BY <2>1 DEF vars, redisVars, SlotsBounded, Of
  <2> QED
    BY <2>1, SlotsStep DEF Next, Step
<1> QED
  BY <1>1, SlotsInit, SlotInductive, PTL DEF Spec

\* A key never runs more requests than it has slots, because a request keeps
\* its slot until its charge is known or its deadline has passed.
THEOREM RunningBounded == Spec => []RunningWithinLimit
BY SlotInductive, SlotsCounted, RunningCounted, PTL

-----------------------------------------------------------------------------
(* What concurrent requests can spend.                                     *)

\* Everything that is still unsettled may yet cost MaxCost.
Committed ==
    \A k \in Keys :
        Budget[k] # 0 /\ MaxConcurrency[k] # 0 =>
            spent[k] + MaxCost * Cardinality(Unsettled(k))
              < Budget[k] + MaxCost * (MaxConcurrency[k] + Overrun(k))

LEMMA Monotone ==
    ASSUME NEW m \in Nat, NEW a \in Nat, NEW b \in Nat, a <= b
    PROVE  m * a \in Nat /\ m * b \in Nat /\ m * a <= m * b
OBVIOUS

LEMMA Distributes ==
    ASSUME NEW m \in Nat, NEW a \in Nat
    PROVE  m * (a + 1) = m * a + m /\ m * a \in Nat
OBVIOUS

\* No deadline is undone.
LEMMA OverrunGrows ==
    ASSUME SlotInv, NEW r \in Waiters, Step(r), NEW k \in Keys
    PROVE  Overrun(k) \in Nat /\ Overrun(k)' \in Nat /\ Overrun(k) <= Overrun(k)'
<1>1. \A q \in Waiters : over[q] => over'[q]
  <2> USE DEF SlotInv, SlotTyped
  <2>1. CASE RequestStep(r)
    BY <2>1 DEF RequestStep, Ask, AskTooLate, Granted, Rejected, NoSlot, NoAnswer, CheckBudget,
       Wait, WaitTimedOut, QueueStep, AdmitBudget, Finish, Settle, Drop
  <2>2. CASE RedisStep(r)
    BY <2>2 DEF RedisStep, RedisAdmit, RedisUnreachable, RedisRelease, ReleaseFails
  <2>3. CASE TimeStep(r)
    BY <2>3 DEF TimeStep, WaitLate, Over, SlotExpires, Ages
  <2> QED
    BY <2>1, <2>2, <2>3 DEF Step
<1> DEFINE S == {q \in Of(k, Waiters) : over[q]}
           T == {q \in Of(k, Waiters) : over'[q]}
<1>2. S \subseteq T /\ T \in SUBSET Waiters
  BY <1>1 DEF Of
<1>3. Overrun(k) = Cardinality(S) /\ Overrun(k)' = Cardinality(T)
  BY DEF Overrun, Of
<1> QED
  BY <1>2, <1>3, Finite, FS_Subset

\* The only request that becomes unsettled is one that passes the check, and
\* the only charge is that of one that is settled.
LEMMA UnsettledStep ==
    ASSUME SlotInv, NEW r \in Waiters, Step(r), NEW k \in Keys
    PROVE  \/ /\ spent'[k] = spent[k]
              /\ Unsettled(k)' \subseteq Unsettled(k)
           \/ /\ KeyOf[r] = k /\ r \in Unsettled(k)
              /\ spent'[k] = spent[k] + cost[r]
              /\ Unsettled(k)' = Unsettled(k) \ {r}
           \/ /\ ~Exhausted(k)
              /\ spent'[k] = spent[k]
<1> USE DEF SlotInv, SlotTyped, RequestPlaces
<1> USE AdmissionAssumption
<1>1. CASE Settle(r)
  <2>1. /\ pc[r] = "settling" /\ pc' = [pc EXCEPT ![r] = "gone"]
        /\ spent' = [spent EXCEPT ![KeyOf[r]] = spent[KeyOf[r]] + cost[r]]
    BY <1>1 DEF Settle
  <2>2. CASE KeyOf[r] = k
    BY <2>1, <2>2 DEF Unsettled, Of
  <2>3. CASE KeyOf[r] # k
    BY <2>1, <2>3 DEF Unsettled, Of
  <2> QED
    BY <2>2, <2>3
<1>2. CASE AdmitBudget(r)
  <2>1. CASE KeyOf[r] = k /\ ~Exhausted(KeyOf[r])
    BY <1>2, <2>1 DEF AdmitBudget
  <2>2. CASE KeyOf[r] # k \/ Exhausted(KeyOf[r])
    BY <1>2, <2>2 DEF AdmitBudget, Unsettled, Of
  <2> QED
    BY <2>1, <2>2
<1>3. CASE RequestStep(r) /\ ~Settle(r) /\ ~AdmitBudget(r)
  <2>1. /\ spent' = spent
        /\ \/ pc' = pc
           \/ pc' = [pc EXCEPT ![r] = "settling"] /\ pc[r] = "running"
           \/ \E x \in RequestPlaces \ {"running", "settling"} : pc' = [pc EXCEPT ![r] = x]
    BY <1>3 DEF RequestStep, Ask, AskTooLate, Granted, Rejected, NoSlot, NoAnswer, CheckBudget,
       Wait, WaitTimedOut, QueueStep, Finish, Drop, requestVars
  <2> QED
    BY <2>1 DEF Unsettled, Of
<1>4. CASE RedisStep(r) \/ TimeStep(r)
  <2>1. spent' = spent /\ (pc' = pc \/ pc' = [pc EXCEPT ![r] = "gone"])
    BY <1>4 DEF RedisStep, RedisAdmit, RedisUnreachable, RedisRelease, ReleaseFails,
       TimeStep, WaitLate, Over, SlotExpires, Ages, requestVars
  <2> QED
    BY <2>1 DEF Unsettled, Of
<1> QED
  BY <1>1, <1>2, <1>3, <1>4 DEF Step

\* A key has no more unsettled requests than it has slots, but for those that
\* are over their deadline.
UnsettledWithinLimit ==
    \A k \in Keys :
        MaxConcurrency[k] # 0 => Cardinality(Unsettled(k)) <= MaxConcurrency[k] + Overrun(k)

LEMMA UnsettledBounded == SlotInv /\ SlotsBounded => UnsettledWithinLimit
<1> SUFFICES ASSUME SlotInv, SlotsBounded, NEW k \in Keys, MaxConcurrency[k] # 0
             PROVE  Cardinality(Unsettled(k)) <= MaxConcurrency[k] + Overrun(k)
  BY DEF UnsettledWithinLimit
<1> DEFINE A == {r \in Unsettled(k) : ~over[r]}
           B == {r \in Of(k, Waiters) : over[r]}
<1>1. A \in SUBSET Waiters /\ B \in SUBSET Waiters /\ Unsettled(k) \subseteq A \cup B
  BY DEF Unsettled, Of
<1>2. Cardinality(A) <= MaxConcurrency[k] /\ MaxConcurrency[k] \in Nat
  BY RunningCounted, AdmissionAssumption DEF RunningWithinLimit
<1>3. Cardinality(Unsettled(k)) <= Cardinality(A \cup B)
  BY <1>1, Finite, FS_Subset
<1>4. Cardinality(A \cup B) = Cardinality(A) + Cardinality(B) - Cardinality(A \cap B)
  BY <1>1, Finite, FS_Union
<1>5. /\ Cardinality(A) \in Nat /\ Cardinality(B) \in Nat
      /\ Cardinality(A \cap B) \in Nat /\ Cardinality(A \cup B) \in Nat
      /\ Cardinality(Unsettled(k)) \in Nat
  BY <1>1, Finite
<1>6. Overrun(k) = Cardinality(B)
  BY DEF Overrun
<1> HIDE DEF A, B
<1> QED
  BY <1>2, <1>3, <1>4, <1>5, <1>6

LEMMA CommittedStep ==
    ASSUME SlotInv, SlotsBounded, Committed, NEW r \in Waiters, Step(r)
    PROVE  Committed'
<1> SUFFICES ASSUME NEW k \in Keys, Budget[k] # 0, MaxConcurrency[k] # 0
             PROVE  spent'[k] + MaxCost * Cardinality(Unsettled(k)')
                      < Budget[k] + MaxCost * (MaxConcurrency[k] + Overrun(k)')
  BY DEF Committed, Unsettled, Overrun
<1> DEFINE C == MaxConcurrency[k]
           u == Cardinality(Unsettled(k))
           v == Cardinality(Unsettled(k)')
           o == Overrun(k)
           p == Overrun(k)'
<1>1. /\ C \in Nat /\ MaxCost \in Nat /\ Budget[k] \in Nat
      /\ spent[k] \in Nat /\ cost[r] \in 0..MaxCost
  BY AdmissionAssumption DEF SlotInv, SlotTyped
<1>2. Unsettled(k) \in SUBSET Waiters /\ Unsettled(k)' \in SUBSET Waiters
  BY DEF Unsettled, Of
<1>3. u \in Nat /\ v \in Nat /\ IsFiniteSet(Unsettled(k))
  BY <1>2, Finite
<1>4. o \in Nat /\ p \in Nat /\ o <= p
  BY OverrunGrows
<1>5. MaxCost * (C + o) \in Nat /\ MaxCost * (C + p) \in Nat /\ MaxCost * (C + o) <= MaxCost * (C + p)
  <2>1. C + o \in Nat /\ C + p \in Nat /\ C + o <= C + p
    BY <1>1, <1>4
  <2> HIDE DEF C, o, p
  <2> QED
    BY <1>1, <2>1, Monotone
<1>6. spent[k] + MaxCost * u < Budget[k] + MaxCost * (C + o)
  BY DEF Committed
<1>7. CASE spent'[k] = spent[k] /\ Unsettled(k)' \subseteq Unsettled(k)
  <2>1. v <= u
    BY <1>3, <1>7, FS_Subset
  <2>2. MaxCost * v <= MaxCost * u /\ MaxCost * v \in Nat /\ MaxCost * u \in Nat
    <3> HIDE DEF u, v
    <3> QED
      BY <1>1, <1>3, <2>1, Monotone
  <2>3. spent'[k] = spent[k]
    BY <1>7
  <2> HIDE DEF C, o, p, u, v
  <2>4. spent[k] + MaxCost * v < Budget[k] + MaxCost * (C + p)
    BY <1>1, <1>5, <1>6, <2>2
  <2> QED
    BY <2>3, <2>4 DEF C, p, v
<1>8. CASE /\ r \in Unsettled(k) /\ spent'[k] = spent[k] + cost[r]
           /\ Unsettled(k)' = Unsettled(k) \ {r}
  <2>1. u = v + 1
    <3>1. Cardinality(Unsettled(k) \ {r}) = Cardinality(Unsettled(k)) - 1
      BY <1>3, <1>8, FS_RemoveElement
    <3> QED
      BY <1>3, <1>8, <3>1
  <2>2. MaxCost * u = MaxCost * v + MaxCost /\ MaxCost * v \in Nat
    <3> HIDE DEF u, v
    <3> QED
      BY <1>1, <1>3, <2>1, Distributes
  <2>3. spent'[k] = spent[k] + cost[r]
    BY <1>8
  <2> HIDE DEF C, o, p, u, v
  <2>4. spent[k] + cost[r] + MaxCost * v < Budget[k] + MaxCost * (C + p)
    BY <1>1, <1>5, <1>6, <2>2
  <2> QED
    BY <2>3, <2>4 DEF C, p, v
<1>9. CASE ~Exhausted(k) /\ spent'[k] = spent[k]
  <2>1. spent[k] < Budget[k]
    <3>1. ~(spent[k] >= Budget[k])
      BY <1>9 DEF Exhausted
    <3> QED
      BY <1>1, <3>1
  <2>2. v <= C + p
    <3>1. SlotInv' /\ SlotsBounded'
      BY SlotsStep, TypesKept, OwnStep, OthersUntouched DEF SlotInv
    <3>2. (SlotInv /\ SlotsBounded => UnsettledWithinLimit)'
      BY UnsettledBounded, PTL
    <3> QED
      BY <3>1, <3>2 DEF UnsettledWithinLimit
  <2>3. MaxCost * v <= MaxCost * (C + p) /\ MaxCost * v \in Nat
    <3>1. C + p \in Nat
      BY <1>1, <1>4
    <3> HIDE DEF C, p, v
    <3> QED
      BY <1>1, <1>3, <2>2, <3>1, Monotone
  <2> HIDE DEF C, o, p, u, v
  <2>4. spent[k] + MaxCost * v < Budget[k] + MaxCost * (C + p)
    BY <1>1, <1>5, <2>1, <2>3
  <2> QED
    BY <1>9, <2>4 DEF C, p, v
<1> QED
  BY <1>7, <1>8, <1>9, UnsettledStep

LEMMA CommittedInit == Init => Committed
<1> SUFFICES ASSUME Init, NEW k \in Keys, Budget[k] # 0, MaxConcurrency[k] # 0
             PROVE  spent[k] + MaxCost * Cardinality(Unsettled(k))
                      < Budget[k] + MaxCost * (MaxConcurrency[k] + Overrun(k))
  BY DEF Committed
<1>1. Unsettled(k) = {} /\ Cardinality(Unsettled(k)) = 0
  <2>1. Unsettled(k) = {}
    BY DEF Init, Unsettled, Of
  <2> QED
    BY <2>1, FS_EmptySet
<1>2. Overrun(k) \in Nat
  BY Finite DEF Overrun, Of
<1>3. /\ spent[k] = 0 /\ Budget[k] \in Nat \ {0}
      /\ MaxConcurrency[k] \in Nat /\ MaxCost \in Nat
  BY AdmissionAssumption DEF Init
<1>4. MaxCost * (MaxConcurrency[k] + Overrun(k)) \in Nat /\ MaxCost * 0 = 0
  BY <1>2, <1>3, Monotone
<1> QED
  BY <1>1, <1>3, <1>4

\* The check of the budget is not atomic with the charge, yet what a key spends
\* beyond its budget is bounded by its concurrency: the slot is given back only
\* when the charge is known.
THEOREM OverspendBounded == Spec => []SpendingBounded
<1>1. SlotInv /\ SlotsBounded /\ Committed /\ [Next]_vars => Committed'
  <2> SUFFICES ASSUME SlotInv, SlotsBounded, Committed, [Next]_vars PROVE Committed'
    OBVIOUS
  <2>1. CASE UNCHANGED vars
    BY <2>1 DEF vars, requestVars, Committed, Unsettled, Overrun, Of
  <2> QED
    BY <2>1, CommittedStep DEF Next, Step
<1>2. SlotInv /\ Committed => SpendingBounded
  <2> SUFFICES ASSUME SlotInv, Committed, NEW k \in Keys, Budget[k] # 0, MaxConcurrency[k] # 0
               PROVE  spent[k] < Budget[k] + MaxCost * (MaxConcurrency[k] + Overrun(k))
    BY DEF SpendingBounded
  <2>1. MaxCost * Cardinality(Unsettled(k)) \in Nat
    BY Finite, Monotone, AdmissionAssumption DEF Unsettled, Of
  <2>2. MaxCost * (MaxConcurrency[k] + Overrun(k)) \in Nat
    <3>1. Overrun(k) \in Nat
      BY Finite DEF Overrun, Of
    <3> QED
      BY <3>1, Monotone, AdmissionAssumption
  <2>3. spent[k] \in Nat /\ Budget[k] \in Nat
    BY AdmissionAssumption DEF SlotInv, SlotTyped
  <2>4. spent[k] + MaxCost * Cardinality(Unsettled(k))
          < Budget[k] + MaxCost * (MaxConcurrency[k] + Overrun(k))
    BY DEF Committed
  <2> QED
    BY <2>1, <2>2, <2>3, <2>4
<1> QED
  BY <1>1, <1>2, CommittedInit, SlotInductive, SlotsCounted, PTL DEF Spec

-----------------------------------------------------------------------------
(* Client admission implements the users of the line.                      *)

\* Where a request is in the line, given where it is in its own course.
Placed(r) ==
    /\ HasTicket(r) => key[r] = KeyOf[r] /\ pc[r] \in {"sent", "waiting"}
    /\ pc[r] \in {"new", "sent", "checking", "queueing"} => place[r] \in {"away", "resting"}
    /\ pc[r] = "waiting" => HasTicket(r)

LineInv == IInv /\ SlotInv /\ \A r \in Waiters : Placed(r)

LEMMA LineInit == Init => LineInv
<1> SUFFICES ASSUME Init PROVE LineInv
  OBVIOUS
<1>1. IInv
  BY InitHolds DEF Init
<1>2. SlotInv
  BY SlotInit
<1>3. ASSUME NEW r \in Waiters PROVE Placed(r)
  BY DEF Init, QueueInit, Placed, HasTicket
<1> QED
  BY <1>1, <1>2, <1>3 DEF LineInv

\* What a step does to the line, one of its users' steps or nothing.
LineStep(r) == TaskStep(r) \/ UserStep(r) \/ UNCHANGED queueVars

LEMMA DropInLine ==
    ASSUME LineInv, NEW r \in Waiters, DropTicket(r), place[r] # "checking"
    PROVE  LineStep(r)
BY DEF DropTicket, LineStep, UserStep

LEMMA StepInLine ==
    ASSUME LineInv, NEW r \in Waiters, Step(r)
    PROVE  LineStep(r)
<1>1. Placed(r) /\ {KeyOf[r]} \in (SUBSET Keys) \ {{}}
  <2>1. KeyOf[r] \in Keys
    BY AdmissionAssumption
  <2>2. Placed(r)
    BY DEF LineInv
  <2> QED
    BY <2>1, <2>2
<1>2. CASE Ask(r) \/ CheckBudget(r) \/ AdmitBudget(r) \/ Finish(r) \/ Settle(r)
           \/ RedisStep(r) \/ SlotExpires(r) \/ Ages(r)
  BY <1>2 DEF Ask, CheckBudget, AdmitBudget, Finish, Settle, RedisStep, RedisAdmit,
     RedisUnreachable, RedisRelease, ReleaseFails, SlotExpires, Ages, LineStep
<1>3. CASE AskTooLate(r) \/ Granted(r) \/ Rejected(r) \/ NoAnswer(r) \/ Drop(r)
  <2>1. DropTicket(r) /\ place[r] # "checking"
    BY <1>1, <1>3 DEF AskTooLate, Ready, Granted, Rejected, NoAnswer, Drop, Placed
  <2> QED
    BY <2>1, DropInLine
<1>4. CASE NoSlot(r)
  BY <1>1, <1>4 DEF NoSlot, LineStep, UserStep
<1>5. CASE Wait(r)
  BY <1>1, <1>5 DEF Wait, LineStep, UserStep
<1>6. CASE WaitTimedOut(r) \/ QueueStep(r)
  BY <1>6 DEF WaitTimedOut, QueueStep, LineStep, TaskStep
<1>7. CASE WaitLate(r)
  BY <1>7 DEF WaitLate, LineStep, UserStep
<1>8. CASE Over(r)
  <2>1. CASE late[r]
    <3>1. late' = late
      BY <1>8, <2>1 DEF Over, LineInv, IInv, Typed
    <3> QED
      BY <1>8, <3>1 DEF Over, LineStep, queueVars
  <2>2. CASE ~late[r]
    BY <1>8, <2>2 DEF Over, Late, LineStep, UserStep
  <2> QED
    BY <2>1, <2>2
<1> QED
  BY <1>2, <1>3, <1>4, <1>5, <1>6, <1>7, <1>8 DEF Step, RequestStep, TimeStep

\* A request moves nobody else in the line.
LEMMA OthersPlaced ==
    ASSUME LineInv, NEW q \in Waiters, NEW r \in Waiters, r # q, Step(q)
    PROVE  Placed(r)'
<1>1. key'[r] = key[r] /\ place'[r] = place[r]
  <2>1. LineStep(q)
    BY StepInLine
  <2> QED
    BY <2>1 DEF LineStep, TaskStep, UserStep, WakeUp, Register, Check, PollAgain, WakeNext,
       TimeOut, Leave, Enqueue, EnqueueRefused, WaitAgain, Late, queueVars, LineInv, IInv, Typed
<1>2. pc'[r] = pc[r]
  BY DEF Step, RequestStep, RedisStep, TimeStep, Ask, AskTooLate, Granted, Rejected, NoSlot,
     NoAnswer, CheckBudget, Wait, WaitTimedOut, QueueStep, AdmitBudget, Finish, Settle, Drop,
     RedisAdmit, RedisUnreachable, RedisRelease, ReleaseFails, WaitLate, Over,
     SlotExpires, Ages, requestVars, LineInv, SlotInv, SlotTyped
<1> QED
  BY <1>1, <1>2 DEF LineInv, Placed, HasTicket

LEMMA DropPlaces ==
    ASSUME LineInv, NEW r \in Waiters, DropTicket(r)
    PROVE  key'[r] = NoKey
BY DEF DropTicket, Leave, HasTicket, queueVars, LineInv, IInv, Typed

LEMMA OwnPlaced ==
    ASSUME LineInv, NEW r \in Waiters, Step(r)
    PROVE  Placed(r)'
<1> USE DEF LineInv, IInv, Typed, Ordered, TicketsPlaced, SlotInv, SlotTyped, Placed, HasTicket
<1>1. CASE Ask(r)
  BY <1>1 DEF Ask, Ready, queueVars
<1>2. CASE CheckBudget(r) \/ AdmitBudget(r) \/ Finish(r) \/ Settle(r)
  BY <1>2 DEF CheckBudget, AdmitBudget, Finish, Settle, queueVars
<1>3. CASE RedisStep(r) \/ SlotExpires(r) \/ Ages(r)
  BY <1>3 DEF RedisStep, RedisAdmit, RedisUnreachable, RedisRelease, ReleaseFails,
     SlotExpires, Ages, queueVars, requestVars
<1>4. CASE AskTooLate(r) \/ Granted(r) \/ Rejected(r) \/ NoAnswer(r) \/ Drop(r)
  <2>1. key'[r] = NoKey /\ pc'[r] \in {"gone", "granted"}
    BY <1>4, DropPlaces DEF AskTooLate, Granted, Rejected, NoAnswer, Drop
  <2> QED
    BY <2>1
<1>5. CASE NoSlot(r)
  BY <1>5 DEF NoSlot, WaitAgain, queueVars
<1>6. CASE Wait(r)
  <2>1. CASE Enqueue(r, {KeyOf[r]}) /\ pc' = [pc EXCEPT ![r] = "waiting"]
    <3>1. KeyOf[r] # NoKey
      BY AdmissionAssumption, QueueAssumption
    <3>2. \E k \in {KeyOf[r]} : key' = [key EXCEPT ![r] = k]
      BY <2>1 DEF Enqueue
    <3>3. key'[r] = KeyOf[r] /\ place'[r] = "sleeping" /\ pc'[r] = "waiting"
      BY <2>1, <3>2 DEF Enqueue
    <3> QED
      BY <3>1, <3>3
  <2>2. CASE EnqueueRefused(r, {KeyOf[r]}) /\ pc' = [pc EXCEPT ![r] = "gone"]
    <3>1. key' = key /\ key[r] = NoKey /\ pc'[r] = "gone"
      BY <1>6, <2>2 DEF EnqueueRefused, queueVars, Wait
    <3> QED
      BY <3>1
  <2> QED
    BY <1>6, <2>1, <2>2 DEF Wait
<1>7. CASE WaitTimedOut(r)
  BY <1>7 DEF WaitTimedOut, TimeOut, Leave
<1>8. CASE QueueStep(r)
  BY <1>8 DEF QueueStep, WakeUp, Register, Check, PollAgain, WakeNext, requestVars
<1>9. CASE WaitLate(r) \/ Over(r)
  BY <1>9 DEF WaitLate, Late, Over, requestVars
<1> QED
  BY <1>1, <1>2, <1>3, <1>4, <1>5, <1>6, <1>7, <1>8, <1>9 DEF Step, RequestStep, TimeStep

\* The steps of the line keep the invariant of the line.
LEMMA LineStepHolds ==
    ASSUME IInv, NEW w \in Waiters, LineStep(w)
    PROVE  IInv'
<1>1. IInv /\ [QueueNext]_queueVars => IInv'
  BY InvariantStep
<1> QED
  BY <1>1 DEF LineStep, QueueNext

LEMMA LineStepped == LineInv /\ [Next]_vars => LineInv'
<1> SUFFICES ASSUME LineInv, [Next]_vars PROVE LineInv'
  OBVIOUS
<1>1. ASSUME NEW q \in Waiters, Step(q) PROVE LineInv'
  <2>1. IInv'
    BY <1>1, StepInLine, LineStepHolds DEF LineInv
  <2>2. SlotInv'
    BY <1>1, TypesKept, OwnStep, OthersUntouched DEF LineInv, SlotInv
  <2>3. ASSUME NEW r \in Waiters PROVE Placed(r)'
    BY <1>1, OwnPlaced, OthersPlaced
  <2> QED
    BY <2>1, <2>2, <2>3 DEF LineInv
<1>2. CASE UNCHANGED vars
  <2>1. IInv'
    <3>1. [QueueNext]_queueVars
      BY <1>2 DEF vars
    <3> QED
      BY <3>1, InvariantStep DEF LineInv
  <2>2. SlotInv'
    BY <1>2 DEF LineInv, vars, requestVars, redisVars, SlotInv, SlotTyped, Protocol, Idle,
       Guarded, Asking, Holding, Leaving
  <2>3. ASSUME NEW r \in Waiters PROVE Placed(r)'
    BY <1>2 DEF LineInv, vars, queueVars, requestVars, Placed, HasTicket
  <2> QED
    BY <2>1, <2>2, <2>3 DEF LineInv
<1> QED
  BY <1>1, <1>2 DEF Next, Step

\* A request is in the line of its key only while it waits for a slot.
THEOREM LineInductive == Spec => []LineInv
BY LineStepped, LineInit, PTL DEF Spec

\* acquire_client_admission uses the line as WaitQueue says its users do: every
\* behaviour of client admission is one of the line.
THEOREM LineUsed == Spec => QueueSpec
<1>1. Init => QueueInit
  BY DEF Init
<1>2. LineInv /\ [Next]_vars => [QueueNext]_queueVars
  <2> SUFFICES ASSUME LineInv, [Next]_vars PROVE [QueueNext]_queueVars
    OBVIOUS
  <2>1. ASSUME NEW q \in Waiters, Step(q) PROVE [QueueNext]_queueVars
    BY <2>1, StepInLine DEF LineStep, QueueNext
  <2>2. CASE UNCHANGED vars
    BY <2>2 DEF vars
  <2> QED
    BY <2>1, <2>2 DEF Next, Step
<1> QED
  BY <1>1, <1>2, LineInductive, PTL DEF Spec, QueueSpec

-----------------------------------------------------------------------------
(* The order of service.                                                   *)

\* Only requests of a key with limited slots wait.
Limited(r) ==
    /\ pc[r] \in {"checking", "queueing", "waiting"} => MaxConcurrency[KeyOf[r]] # 0
    /\ HasTicket(r) => MaxConcurrency[KeyOf[r]] # 0
    /\ pc[r] = "sent" /\ MaxConcurrency[KeyOf[r]] = 0 => allow[r]
    /\ pc[r] = "sent" /\ answer[r] = "full" => MaxConcurrency[KeyOf[r]] # 0

\* Whoever waits when a newcomer may take a slot came after the newcomer looked.
Looked(r) ==
    /\ looked[r] <= drawn
    /\ pc[r] = "sent" /\ allow[r] /\ ~HasTicket(r) =>
         \A w \in Line(KeyOf[r]) : number[w] > looked[r]

OrderInv ==
    /\ LineInv
    /\ looked \in [Waiters -> Nat]
    /\ \A r \in Waiters : Limited(r) /\ Looked(r)

LEMMA OrderInit == Init => OrderInv
<1> SUFFICES ASSUME Init PROVE OrderInv
  OBVIOUS
<1>1. ASSUME NEW r \in Waiters PROVE Limited(r) /\ Looked(r)
  BY DEF Init, QueueInit, Limited, Looked, HasTicket
<1>2. looked \in [Waiters -> Nat]
  BY DEF Init
<1> QED
  BY <1>1, <1>2, LineInit DEF OrderInv

\* What a step does to the tickets and to the course of the others.
LEMMA OthersOrder ==
    ASSUME OrderInv, NEW q \in Waiters, NEW r \in Waiters, r # q, Step(q)
    PROVE  /\ pc'[r] = pc[r] /\ allow'[r] = allow[r] /\ answer'[r] = answer[r]
           /\ looked'[r] = looked[r] /\ key'[r] = key[r] /\ number'[r] = number[r]
<1> USE DEF OrderInv, LineInv, IInv, Typed, SlotInv, SlotTyped
<1>1. /\ key'[r] = key[r] /\ number'[r] = number[r]
  <2>1. LineStep(q)
    BY StepInLine
  <2> QED
    BY <2>1 DEF LineStep, TaskStep, UserStep, WakeUp, Register, Check, PollAgain, WakeNext,
       TimeOut, Leave, Enqueue, EnqueueRefused, WaitAgain, Late, queueVars
<1>2. \/ looked' = looked
      \/ looked' = [looked EXCEPT ![q] = drawn]
  BY DEF Step, RequestStep, RedisStep, TimeStep, Ask, AskTooLate, Granted, Rejected, NoSlot,
     NoAnswer, CheckBudget, Wait, WaitTimedOut, QueueStep, AdmitBudget, Finish, Settle, Drop,
     RedisAdmit, RedisUnreachable, RedisRelease, ReleaseFails, WaitLate, Over,
     SlotExpires, Ages, requestVars
<1>3. pc'[r] = pc[r] /\ allow'[r] = allow[r] /\ answer'[r] = answer[r]
  BY DEF Step, RequestStep, RedisStep, TimeStep, Ask, AskTooLate, Granted, Rejected, NoSlot,
     NoAnswer, CheckBudget, Wait, WaitTimedOut, QueueStep, AdmitBudget, Finish, Settle, Drop,
     RedisAdmit, RedisUnreachable, RedisRelease, ReleaseFails, WaitLate, Over,
     SlotExpires, Ages, requestVars
<1> QED
  BY <1>1, <1>2, <1>3

\* A ticket that is drawn is the last, and it is drawn by a request of that key.
LEMMA NewTickets ==
    ASSUME OrderInv, NEW q \in Waiters, Step(q)
    PROVE  /\ drawn' \in Nat /\ drawn' >= drawn
           /\ \/ key'[q] = key[q] /\ number'[q] = number[q]
              \/ key'[q] = NoKey
              \/ /\ pc[q] = "queueing" /\ pc'[q] = "waiting"
                 /\ key'[q] = KeyOf[q] /\ number'[q] = drawn + 1
<1> USE DEF OrderInv, LineInv, IInv, Typed, SlotInv, SlotTyped
<1>1. CASE Wait(q) /\ Enqueue(q, {KeyOf[q]})
  <2>1. \E k \in {KeyOf[q]} : key' = [key EXCEPT ![q] = k]
    BY <1>1 DEF Enqueue
  <2>2. drawn' = drawn + 1 /\ number' = [number EXCEPT ![q] = drawn + 1]
    BY <1>1 DEF Enqueue
  <2>3. pc[q] = "queueing" /\ pc'[q] = "waiting"
    <3>1. place'[q] = "sleeping" /\ place[q] = "away"
      BY <1>1 DEF Enqueue
    <3>2. pc' = [pc EXCEPT ![q] = "waiting"]
      BY <1>1, <3>1 DEF Wait, EnqueueRefused, queueVars
    <3> QED
      BY <1>1, <3>2 DEF Wait
  <2> QED
    BY <2>1, <2>2, <2>3
<1>2. CASE Wait(q) /\ ~Enqueue(q, {KeyOf[q]})
  BY <1>2 DEF Wait, EnqueueRefused, queueVars
<1>3. CASE ~Wait(q)
  <2>1. \/ UNCHANGED <<key, number, drawn>>
        \/ Leave(q)
        \/ UNCHANGED queueVars
    BY <1>3 DEF Step, RequestStep, RedisStep, TimeStep, Ask, AskTooLate, Granted, Rejected,
       NoSlot, WaitAgain, NoAnswer, CheckBudget, WaitTimedOut, TimeOut, QueueStep, WakeUp,
       Register, Check, PollAgain, WakeNext, AdmitBudget, Finish, Settle, Drop, DropTicket,
       RedisAdmit, RedisUnreachable, RedisRelease, ReleaseFails, WaitLate, Late, Over,
       SlotExpires, Ages
  <2>2. CASE Leave(q)
    BY <2>2 DEF Leave
  <2> QED
    BY <2>1, <2>2 DEF queueVars
<1> QED
  BY <1>1, <1>2, <1>3

LEMMA OwnLimited ==
    ASSUME OrderInv, NEW r \in Waiters, Step(r)
    PROVE  Limited(r)'
<1> USE DEF OrderInv, LineInv, IInv, Typed, SlotInv, SlotTyped, Limited, Protocol, Asking
<1>1. HasTicket(r)' => HasTicket(r) \/ pc[r] = "queueing"
  BY NewTickets DEF HasTicket
<1>2. CASE Ask(r)
  <2>1. /\ allow' = [allow EXCEPT ![r] = MaxConcurrency[KeyOf[r]] = 0 \/ CanTry(r, KeyOf[r])]
        /\ answer' = [answer EXCEPT ![r] = "none"]
        /\ pc' = [pc EXCEPT ![r] = "sent"]
        /\ UNCHANGED key
    BY <1>2 DEF Ask, queueVars
  <2>2. allow'[r] = (MaxConcurrency[KeyOf[r]] = 0 \/ CanTry(r, KeyOf[r]))
    BY <2>1
  <2> QED
    BY <1>1, <2>1, <2>2 DEF HasTicket
<1>3. CASE RedisAdmit(r)
  <2>1. Decision(r) = "full" => ~allow[r] \/ MaxConcurrency[KeyOf[r]] # 0
    BY DEF Decision
  <2>2. pc[r] = "sent" /\ answer'[r] = "full" => MaxConcurrency[KeyOf[r]] # 0
    BY <1>3, <2>1 DEF RedisAdmit
  <2> QED
    BY <1>1, <1>3, <2>2 DEF RedisAdmit
<1>4. CASE RequestStep(r) /\ ~Ask(r)
  BY ZenonT(60), <1>1, <1>4 DEF RequestStep, AskTooLate, Granted, Rejected, NoSlot, NoAnswer, CheckBudget,
     Wait, WaitTimedOut, QueueStep, AdmitBudget, Finish, Settle, Drop, requestVars
<1>5. CASE RedisStep(r) /\ ~RedisAdmit(r)
  BY <1>1, <1>5 DEF RedisStep, RedisUnreachable, RedisRelease, ReleaseFails, requestVars
<1>6. CASE TimeStep(r)
  BY <1>1, <1>6 DEF TimeStep, WaitLate, Over, SlotExpires, Ages, requestVars
<1> QED
  BY <1>2, <1>3, <1>4, <1>5, <1>6 DEF Step, RedisStep

LEMMA LookedTyped ==
    ASSUME OrderInv, NEW q \in Waiters, Step(q)
    PROVE  /\ looked' \in [Waiters -> Nat]
           /\ looked'[q] = looked[q] \/ (looked'[q] = drawn /\ Ask(q))
<1> USE DEF OrderInv, LineInv, IInv, Typed
<1>1. \/ looked' = looked
      \/ looked' = [looked EXCEPT ![q] = drawn] /\ Ask(q)
  BY DEF Step, RequestStep, RedisStep, TimeStep, Ask, AskTooLate, Granted, Rejected, NoSlot,
     NoAnswer, CheckBudget, Wait, WaitTimedOut, QueueStep, AdmitBudget, Finish, Settle, Drop,
     RedisAdmit, RedisUnreachable, RedisRelease, ReleaseFails, WaitLate, Over,
     SlotExpires, Ages, requestVars
<1> QED
  BY <1>1

\* A newcomer of a limited key looks when the line is empty.
LEMMA LineEmpty ==
    ASSUME OrderInv, NEW r \in Waiters, ~HasTicket(r),
           MaxConcurrency[KeyOf[r]] = 0 \/ CanTry(r, KeyOf[r])
    PROVE  Line(KeyOf[r]) = {}
<1>1. CASE MaxConcurrency[KeyOf[r]] = 0
  <2>1. ASSUME NEW w \in Line(KeyOf[r]) PROVE FALSE
    <3>1. w \in Waiters /\ key[w] = KeyOf[r] /\ HasTicket(w)
      BY AdmissionAssumption, QueueAssumption DEF Line, HasTicket
    <3>2. KeyOf[w] = KeyOf[r] /\ MaxConcurrency[KeyOf[w]] # 0
      BY <3>1 DEF OrderInv, LineInv, Placed, Limited
    <3> QED
      BY <1>1, <3>2
  <2> QED
    BY <2>1
<1>2. CASE CanTry(r, KeyOf[r])
  BY <1>2, AdmissionAssumption, QueueAssumption DEF CanTry, HasTicket
<1> QED
  BY <1>1, <1>2

\* While a request waits for its answer, it keeps its ticket.
LEMMA StillSent ==
    ASSUME OrderInv, NEW r \in Waiters, Step(r), ~Ask(r), pc'[r] = "sent"
    PROVE  /\ pc[r] = "sent" /\ allow'[r] = allow[r] /\ looked'[r] = looked[r]
           /\ key' = key /\ number' = number
<1> USE DEF OrderInv, LineInv, SlotInv, SlotTyped
<1>1. CASE RequestStep(r)
  <2>1. QueueStep(r)
    BY <1>1 DEF RequestStep, AskTooLate, Granted, Rejected, NoSlot, NoAnswer, CheckBudget,
       Wait, WaitTimedOut, AdmitBudget, Finish, Settle, Drop
  <2> QED
    BY <2>1 DEF QueueStep, WakeUp, Register, Check, PollAgain, WakeNext, requestVars
<1>2. CASE RedisStep(r)
  BY <1>2 DEF RedisStep, RedisAdmit, RedisUnreachable, RedisRelease, ReleaseFails,
     requestVars, queueVars
<1>3. CASE TimeStep(r)
  BY <1>3 DEF TimeStep, WaitLate, Late, Over, SlotExpires, Ages, requestVars, queueVars
<1> QED
  BY <1>1, <1>2, <1>3 DEF Step

LEMMA LookedHolds ==
    ASSUME OrderInv, NEW q \in Waiters, NEW r \in Waiters, Step(q)
    PROVE  Looked(r)'
<1>0. /\ KeyOf[r] \in Keys /\ KeyOf[r] # NoKey
      /\ drawn \in Nat /\ drawn' \in Nat /\ drawn <= drawn'
      /\ looked[r] \in Nat /\ looked[r] <= drawn
  BY AdmissionAssumption, QueueAssumption, NewTickets DEF OrderInv, LineInv, IInv, Typed, Looked
<1>1. CASE r # q
  <2>1. /\ pc'[r] = pc[r] /\ allow'[r] = allow[r] /\ looked'[r] = looked[r] /\ key'[r] = key[r]
    BY <1>1, OthersOrder
  <2>2. ASSUME pc[r] = "sent", allow[r], ~HasTicket(r), NEW w \in Line(KeyOf[r])'
        PROVE  number'[w] > looked[r]
    <3>1. w \in Waiters /\ key'[w] = KeyOf[r]
      BY DEF Line
    <3>2. ASSUME key[w] = KeyOf[r] PROVE number[w] > looked[r]
      BY <2>2, <3>1, <3>2 DEF OrderInv, Looked, Line
    <3>3. CASE w # q
      <4>1. key'[w] = key[w] /\ number'[w] = number[w]
        BY <3>1, <3>3, OthersOrder
      <4> QED
        BY <3>1, <3>2, <4>1
    <3>4. CASE w = q
      <4>1. (key'[q] = key[q] /\ number'[q] = number[q]) \/ number'[q] = drawn + 1
        BY <1>0, <3>1, <3>4, NewTickets
      <4> QED
        BY <1>0, <3>1, <3>2, <3>4, <4>1
    <3> QED
      BY <3>3, <3>4
  <2> QED
    BY <1>0, <2>1, <2>2 DEF Looked, HasTicket
<1>2. CASE r = q /\ Ask(r)
  <2>1. /\ looked'[r] = drawn /\ key' = key
        /\ allow'[r] = (MaxConcurrency[KeyOf[r]] = 0 \/ CanTry(r, KeyOf[r]))
    BY <1>2 DEF Ask, queueVars, OrderInv, LineInv, SlotInv, SlotTyped
  <2>2. ASSUME allow'[r], ~HasTicket(r)' PROVE Line(KeyOf[r])' = {}
    BY <2>1, <2>2, LineEmpty DEF Line, HasTicket
  <2>3. \A w \in Line(KeyOf[r])' : allow'[r] /\ ~HasTicket(r)' => FALSE
    BY <2>2
  <2> QED
    BY <1>0, <2>1, <2>3 DEF Looked
<1>3. CASE r = q /\ ~Ask(r)
  <2>1. looked'[r] = looked[r]
    BY <1>3, LookedTyped
  <2>2. ASSUME pc'[r] = "sent", allow'[r], ~HasTicket(r)', NEW w \in Line(KeyOf[r])'
        PROVE  number'[w] > looked'[r]
    BY <1>3, <2>1, <2>2, StillSent DEF OrderInv, Looked, HasTicket, Line
  <2> QED
    BY <1>0, <2>1, <2>2 DEF Looked
<1> QED
  BY <1>1, <1>2, <1>3

\* What a request saw of the line before it asked for a slot still holds then.
THEOREM OrderInductive == Spec => []OrderInv
<1>1. OrderInv /\ [Next]_vars => OrderInv'
  <2> SUFFICES ASSUME OrderInv, [Next]_vars PROVE OrderInv'
    OBVIOUS
  <2>1. LineInv'
    BY LineStepped DEF OrderInv
  <2>2. ASSUME NEW q \in Waiters, Step(q) PROVE OrderInv'
    <3>1. ASSUME NEW r \in Waiters PROVE Limited(r)'
      <4>1. CASE r = q
        BY <2>2, <4>1, OwnLimited
      <4>2. CASE r # q
        BY <2>2, <4>2, OthersOrder DEF OrderInv, Limited, HasTicket
      <4> QED
        BY <4>1, <4>2
    <3>2. ASSUME NEW r \in Waiters PROVE Looked(r)'
      BY <2>2, LookedHolds
    <3>3. looked' \in [Waiters -> Nat]
      BY <2>2, LookedTyped
    <3> QED
      BY <2>1, <3>1, <3>2, <3>3 DEF OrderInv
  <2>3. CASE UNCHANGED vars
    BY <2>1, <2>3 DEF OrderInv, vars, queueVars, requestVars, Limited, Looked, HasTicket, Line
  <2> QED
    BY <2>2, <2>3 DEF Next, Step
<1> QED
  BY <1>1, OrderInit, PTL DEF Spec

\* The state of client admission keeps its types.
THEOREM StateTyped == Spec => []TypeOK
<1>1. QueueTypeOK /\ OrderInv => TypeOK
  BY DEF OrderInv, LineInv, SlotInv, SlotTyped, TypeOK
<1> QED
  BY <1>1, LineUsed, TypeCorrect, OrderInductive, PTL

\* Slots are taken in the order of the tickets: only the first of a line asks,
\* and a newcomer may ask only when it found nobody waiting.
THEOREM ServedInOrder == Spec => FirstComeFirstServed
<1> DEFINE InOrder ==
      \A r \in slots' \ slots :
         pc[r] = "sent" =>
            \A w \in Line(KeyOf[r]) \ {r} :
                number[w] > (IF HasTicket(r) THEN number[r] ELSE looked[r])
<1>1. OrderInv /\ [Next]_vars => [InOrder]_vars
  <2> SUFFICES ASSUME OrderInv, NEW q \in Waiters, Step(q) PROVE InOrder
    BY DEF Next, Step
  <2> SUFFICES ASSUME NEW r \in slots' \ slots, pc[r] = "sent",
                      NEW w \in Line(KeyOf[r]) \ {r}
               PROVE  number[w] > (IF HasTicket(r) THEN number[r] ELSE looked[r])
    OBVIOUS
  <2>1. RedisAdmit(q) /\ Decision(q) = "granted" /\ slots' = slots \cup {q}
    BY SlotsTaken
  <2>2. r = q /\ allow[r]
    BY <2>1 DEF Decision
  <2>3. w \in Waiters /\ key[w] = KeyOf[r] /\ HasTicket(w)
    BY AdmissionAssumption, QueueAssumption, <2>2 DEF Line, HasTicket
  <2>4. CASE HasTicket(r)
    <3>1. place[r] = "resting" /\ key[r] = KeyOf[r]
      BY <2>2, <2>4 DEF OrderInv, LineInv, IInv, Ordered, TicketsPlaced, Placed
    <3>2. number[r] <= number[w] /\ number[r] # number[w]
      BY <2>2, <2>3, <2>4, <3>1 DEF OrderInv, LineInv, IInv, Ordered, OnlyTheHeadTries, IsHead,
         First, Line, TicketsNumbered
    <3>3. number[r] \in Nat /\ number[w] \in Nat
      BY <2>2, <2>3 DEF OrderInv, LineInv, IInv, Typed
    <3> QED
      BY <2>4, <3>2, <3>3
  <2>5. CASE ~HasTicket(r)
    BY <2>2, <2>5 DEF OrderInv, Looked
  <2> QED
    BY <2>4, <2>5
<1> QED
  BY <1>1, OrderInductive, PTL DEF Spec, FirstComeFirstServed
=============================================================================
