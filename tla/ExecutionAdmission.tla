------------------------- MODULE ExecutionAdmission -------------------------
(***************************************************************************)
(* How a request gets, holds and gives back the concurrency slot of its    *)
(* client key: acquire_client_admission and the session of                 *)
(* gateway-core/src/engine/execution.rs, the waiting line of WaitQueue,    *)
(* and the Redis side of gateway-store/src/redis/client_admission.rs.      *)
(*                                                                         *)
(* Commands to Redis travel: the admit script and the release are executed *)
(* some time after they were sent, whether or not the sender is still      *)
(* there.  Releases go through the bounded queue of                        *)
(* redis/coordination_buffer.rs, whose writer shares one connection with   *)
(* the admissions, so the release of a request is never executed before    *)
(* its admit.  The ledger is abstract: a charge is known                   *)
(* from the moment it is posted or kept for a retry, and an admission      *)
(* counts all known charges (BudgetLedger shows this in detail).           *)
(***************************************************************************)
EXTENDS WaitQueue

CONSTANTS
    KeyOf,          \* [Waiters -> Keys], the key of a request
    MaxConcurrency, \* [Keys -> Nat], 0 for no limit
    PerMinute,      \* [Keys -> Nat], 0 for no limit
    Budget,         \* [Keys -> Nat], 0 for no limit
    MaxCost,        \* the largest cost of a request
    Frail           \* the requests whose deadline may pass, and whose callers,
                    \* commands and budget checks may fail

ASSUME AdmissionAssumption ==
    /\ KeyOf \in [Waiters -> Keys]
    /\ MaxConcurrency \in [Keys -> Nat]
    /\ PerMinute \in [Keys -> Nat]
    /\ Budget \in [Keys -> Nat]
    /\ MaxCost \in Nat
    /\ Frail \subseteq Waiters

VARIABLES
    pc,             \* where the request is
    armed,          \* AdmissionLease.armed
    allow,          \* allow_concurrency_acquire of the last command
    answer,         \* the answer of Redis to it
    over,           \* whether the deadline of the request has passed
    cost,           \* what the finished request costs
    sent,           \* admit commands Redis has not executed yet
    freeing,        \* releases that are queued or on their way
    slots,          \* members of the :active sets
    recent,         \* members of the :requests sets, at most 60 seconds old
    spent,          \* known charges of a key
    failed,         \* history: requests whose release failed
    looked          \* history: tickets drawn when the request last asked can_try

requestVars == <<pc, armed, allow, answer, cost, looked>>
redisVars == <<sent, freeing, slots, recent, failed>>
vars == <<queueVars, requestVars, redisVars, over, spent>>

\* "checking" is the budget check before the wait, "queueing" the call of wait,
\* "granted" the budget check before the request runs.
RequestPlaces == {"new", "sent", "checking", "queueing", "waiting", "granted", "running",
                  "settling", "gone"}
Answers == {"none", "granted", "rate limited", "full", "error"}

Of(k, S) == {r \in S : KeyOf[r] = k}
Exhausted(k) == Budget[k] # 0 /\ spent[k] >= Budget[k]

Init ==
    /\ QueueInit
    /\ pc = [r \in Waiters |-> "new"]
    /\ armed = [r \in Waiters |-> FALSE]
    /\ allow = [r \in Waiters |-> FALSE]
    /\ answer = [r \in Waiters |-> "none"]
    /\ over = [r \in Waiters |-> FALSE]
    /\ cost = [r \in Waiters |-> 0]
    /\ sent = {}
    /\ freeing = {}
    /\ slots = {}
    /\ recent = {}
    /\ spent = [k \in Keys |-> 0]
    /\ failed = {}
    /\ looked = [r \in Waiters |-> 0]

\* Mutant: leaving without a ticket is counted as leaving a line.
DropTicketAnyway(r) == LeaveAnyway(r)

\* The ticket of acquire_client_admission is dropped when it returns.
DropTicket(r) == IF HasTicket(r) THEN Leave(r) ELSE UNCHANGED queueVars

\* The release is put into the queue of the writer, unless the queue is full;
\* neither its callers nor a dropped lease wait for Redis.
GiveBack(r) ==
    \/ freeing' = freeing \cup {r} /\ UNCHANGED failed
    \/ r \in Frail /\ failed' = failed \cup {r} /\ UNCHANGED freeing

\* What an AdmissionLease that is dropped does.
Abandon(r) == IF armed[r] THEN GiveBack(r) ELSE UNCHANGED <<freeing, failed>>

-----------------------------------------------------------------------------
(* Asking Redis.                                                           *)

Ready(r) == pc[r] = "new" \/ (pc[r] = "waiting" /\ place[r] = "resting")

\* Mutants: the cleanup is armed by the answer only; a newcomer does not look
\* at the line.
AskUnarmed(r) ==
    /\ Ready(r) /\ ~over[r]
    /\ allow' = [allow EXCEPT ![r] = MaxConcurrency[KeyOf[r]] = 0 \/ CanTry(r, KeyOf[r])]
    /\ answer' = [answer EXCEPT ![r] = "none"]
    /\ looked' = [looked EXCEPT ![r] = drawn]
    /\ sent' = sent \cup {r}
    /\ pc' = [pc EXCEPT ![r] = "sent"]
    /\ UNCHANGED <<queueVars, armed, cost, freeing, slots, recent, failed, over, spent>>
AskBlindly(r) ==
    /\ Ready(r) /\ ~over[r]
    /\ armed' = [armed EXCEPT ![r] = TRUE]
    /\ allow' = [allow EXCEPT ![r] = TRUE]
    /\ answer' = [answer EXCEPT ![r] = "none"]
    /\ looked' = [looked EXCEPT ![r] = drawn]
    /\ sent' = sent \cup {r}
    /\ pc' = [pc EXCEPT ![r] = "sent"]
    /\ UNCHANGED <<queueVars, cost, freeing, slots, recent, failed, over, spent>>

\* The head of the loop: the cleanup is armed before the command is sent.
Ask(r) ==
    /\ Ready(r) /\ ~over[r]
    /\ armed' = [armed EXCEPT ![r] = TRUE]
    /\ allow' = [allow EXCEPT ![r] = MaxConcurrency[KeyOf[r]] = 0 \/ CanTry(r, KeyOf[r])]
    /\ answer' = [answer EXCEPT ![r] = "none"]
    /\ looked' = [looked EXCEPT ![r] = drawn]
    /\ sent' = sent \cup {r}
    /\ pc' = [pc EXCEPT ![r] = "sent"]
    /\ UNCHANGED <<queueVars, cost, freeing, slots, recent, failed, over, spent>>

\* "request deadline elapsed" at the head of the loop, with nothing to abandon.
AskTooLate(r) ==
    /\ Ready(r) /\ over[r]
    /\ DropTicket(r)
    /\ pc' = [pc EXCEPT ![r] = "gone"]
    /\ UNCHANGED <<armed, allow, answer, cost, looked, redisVars, over, spent>>

\* Mutant: one slot too many.
DecisionLoose(r) ==
    LET k == KeyOf[r] IN
    IF PerMinute[k] # 0 /\ Cardinality(Of(k, recent)) >= PerMinute[k] THEN "rate limited"
    ELSE IF ~allow[r] \/ (MaxConcurrency[k] # 0 /\ Cardinality(Of(k, slots)) > MaxConcurrency[k])
         THEN "full" ELSE "granted"

\* What the admit script decides.
Decision(r) ==
    LET k == KeyOf[r] IN
    IF PerMinute[k] # 0 /\ Cardinality(Of(k, recent)) >= PerMinute[k] THEN "rate limited"
    ELSE IF ~allow[r] \/ (MaxConcurrency[k] # 0 /\ Cardinality(Of(k, slots)) >= MaxConcurrency[k])
         THEN "full" ELSE "granted"

\* Redis executes the script; its answer may get lost.
RedisAdmit(r) ==
    /\ r \in sent
    /\ sent' = sent \ {r}
    /\ slots' = IF Decision(r) = "granted" THEN slots \cup {r} ELSE slots
    /\ recent' = IF Decision(r) = "granted" THEN recent \cup {r} ELSE recent
    /\ \E a \in {Decision(r)} \cup (IF r \in Frail THEN {"error"} ELSE {}) :
         answer' = [answer EXCEPT ![r] = a]
    /\ UNCHANGED <<queueVars, pc, armed, allow, cost, looked, freeing, failed, over, spent>>

\* The command never gets there.
RedisUnreachable(r) ==
    /\ r \in Frail
    /\ r \in sent
    /\ sent' = sent \ {r}
    /\ answer' = [answer EXCEPT ![r] = "error"]
    /\ UNCHANGED <<queueVars, pc, armed, allow, cost, looked, freeing, slots, recent, failed,
                   over, spent>>

-----------------------------------------------------------------------------
(* The answer, and the wait.                                               *)

Granted(r) ==
    /\ pc[r] = "sent" /\ answer[r] = "granted"
    /\ DropTicket(r)
    /\ pc' = [pc EXCEPT ![r] = "granted"]
    /\ UNCHANGED <<armed, allow, answer, cost, looked, redisVars, over, spent>>

\* Rejected for the rate, or for the slots of a key whose line has no places.
Rejected(r) ==
    /\ pc[r] = "sent"
    /\ answer[r] = "rate limited" \/ (answer[r] = "full" /\ MaxWaiting = 0)
    /\ armed' = [armed EXCEPT ![r] = FALSE]
    /\ DropTicket(r)
    /\ pc' = [pc EXCEPT ![r] = "gone"]
    /\ UNCHANGED <<allow, answer, cost, looked, redisVars, over, spent>>

\* No slot is free: a newcomer has its budget checked first, a waiter waits on.
NoSlot(r) ==
    /\ pc[r] = "sent" /\ answer[r] = "full" /\ MaxWaiting # 0
    /\ armed' = [armed EXCEPT ![r] = FALSE]
    /\ \/ /\ ~HasTicket(r)
          /\ pc' = [pc EXCEPT ![r] = "checking"]
          /\ UNCHANGED queueVars
       \/ /\ WaitAgain(r, {KeyOf[r]})
          /\ pc' = [pc EXCEPT ![r] = "waiting"]
    /\ UNCHANGED <<allow, answer, cost, looked, redisVars, over, spent>>

\* The admission failed or its deadline passed: the slot may have been taken.
NoAnswer(r) ==
    /\ pc[r] = "sent"
    /\ answer[r] = "error" \/ over[r]
    /\ Abandon(r)
    /\ armed' = [armed EXCEPT ![r] = FALSE]
    /\ DropTicket(r)
    /\ pc' = [pc EXCEPT ![r] = "gone"]
    /\ UNCHANGED <<allow, answer, cost, looked, sent, slots, recent, over, spent>>

\* The budget check of a request that has to wait.
CheckBudget(r) ==
    /\ pc[r] = "checking"
    /\ \/ ~Exhausted(KeyOf[r]) /\ pc' = [pc EXCEPT ![r] = "queueing"]
       \/ (Exhausted(KeyOf[r]) \/ r \in Frail) /\ pc' = [pc EXCEPT ![r] = "gone"]
    /\ UNCHANGED <<queueVars, armed, allow, answer, cost, looked, redisVars, over, spent>>

Wait(r) ==
    /\ pc[r] = "queueing"
    /\ \/ Enqueue(r, {KeyOf[r]}) /\ pc' = [pc EXCEPT ![r] = "waiting"]
       \/ EnqueueRefused(r, {KeyOf[r]}) /\ pc' = [pc EXCEPT ![r] = "gone"]
    /\ UNCHANGED <<armed, allow, answer, cost, looked, redisVars, over, spent>>

\* The wait is over without a turn.
WaitTimedOut(r) ==
    /\ pc[r] = "waiting"
    /\ TimeOut(r)
    /\ pc' = [pc EXCEPT ![r] = "gone"]
    /\ UNCHANGED <<armed, allow, answer, cost, looked, redisVars, over, spent>>

\* The steps of the line itself.
QueueStep(r) ==
    /\ WakeUp(r) \/ Register(r) \/ Check(r) \/ PollAgain(r) \/ WakeNext(r)
    /\ UNCHANGED <<requestVars, redisVars, over, spent>>

-----------------------------------------------------------------------------
(* With the slot in hand.                                                  *)

\* budget.admit: the request runs, or gives the slot back.
AdmitBudget(r) ==
    /\ pc[r] = "granted"
    /\ place[r] = "away"
    /\ \/ /\ ~Exhausted(KeyOf[r])
          /\ pc' = [pc EXCEPT ![r] = "running"]
          /\ UNCHANGED <<armed, freeing, failed>>
       \/ /\ Exhausted(KeyOf[r]) \/ r \in Frail
          /\ GiveBack(r)
          /\ armed' = [armed EXCEPT ![r] = FALSE]
          /\ pc' = [pc EXCEPT ![r] = "gone"]
    /\ UNCHANGED <<queueVars, allow, answer, cost, looked, sent, slots, recent, over, spent>>

\* Mutant: the slot is given back before the charge is settled.
FinishReleasing(r) ==
    /\ pc[r] = "running"
    /\ \E c \in 0..MaxCost : cost' = [cost EXCEPT ![r] = c]
    /\ pc' = [pc EXCEPT ![r] = "settling"]
    /\ freeing' = freeing \cup {r}
    /\ UNCHANGED <<queueVars, armed, allow, answer, looked, sent, slots, recent, failed, over,
                   spent>>

\* The session is final, or the start of the attempts failed: the cleanup
\* begins.
Finish(r) ==
    /\ pc[r] = "running"
    /\ \E c \in 0..MaxCost : cost' = [cost EXCEPT ![r] = c]
    /\ pc' = [pc EXCEPT ![r] = "settling"]
    /\ UNCHANGED <<queueVars, armed, allow, answer, looked, redisVars, over, spent>>

\* The charge is posted or kept for a retry; then the slot is given back.
Settle(r) ==
    /\ pc[r] = "settling"
    /\ spent' = [spent EXCEPT ![KeyOf[r]] = @ + cost[r]]
    /\ GiveBack(r)
    /\ armed' = [armed EXCEPT ![r] = FALSE]
    /\ pc' = [pc EXCEPT ![r] = "gone"]
    /\ UNCHANGED <<queueVars, allow, answer, cost, looked, sent, slots, recent, over>>

\* The future of the request or its session is dropped.
Drop(r) ==
    /\ r \in Frail
    /\ pc[r] \notin {"new", "gone"}
    /\ place[r] # "checking"
    /\ Abandon(r)
    /\ armed' = [armed EXCEPT ![r] = FALSE]
    /\ DropTicket(r)
    /\ pc' = [pc EXCEPT ![r] = "gone"]
    /\ UNCHANGED <<allow, answer, cost, looked, sent, slots, recent, over, spent>>

\* The writer takes the release and Redis executes it, after the admit of the
\* same connection.
RedisRelease(r) ==
    /\ r \in freeing /\ r \notin sent
    /\ freeing' = freeing \ {r}
    /\ slots' = slots \ {r}
    /\ UNCHANGED <<queueVars, requestVars, sent, recent, failed, over, spent>>

\* The release fails, and the slot is left to its TTL.
ReleaseFails(r) ==
    /\ r \in Frail
    /\ r \in freeing /\ r \notin sent
    /\ freeing' = freeing \ {r}
    /\ failed' = failed \cup {r}
    /\ UNCHANGED <<queueVars, requestVars, sent, slots, recent, over, spent>>

-----------------------------------------------------------------------------
(* Time.                                                                   *)

\* The wait has its own deadline, counted from the first wait.
WaitLate(r) ==
    /\ r \in Frail
    /\ HasTicket(r)
    /\ Late(r)
    /\ UNCHANGED <<requestVars, redisVars, over, spent>>

\* The deadline of the request, which bounds its wait too.
Over(r) ==
    /\ r \in Frail
    /\ pc[r] # "new" /\ ~over[r]
    /\ over' = [over EXCEPT ![r] = TRUE]
    /\ late' = [late EXCEPT ![r] = TRUE]
    /\ UNCHANGED <<key, number, drawn, total, place, notified, target, requestVars, redisVars,
                   spent>>

\* Mutant: members whose time is over are not removed.
SlotKept(r) == over[r] /\ r \in slots /\ UNCHANGED vars

\* The slot was taken for the time that remained to the request.
SlotExpires(r) ==
    /\ over[r] /\ r \in slots
    /\ slots' = slots \ {r}
    /\ UNCHANGED <<queueVars, requestVars, sent, freeing, recent, failed, over, spent>>

\* 60 seconds have passed since the request was granted.
Ages(r) ==
    /\ r \in recent
    /\ recent' = recent \ {r}
    /\ UNCHANGED <<queueVars, requestVars, sent, freeing, slots, failed, over, spent>>

-----------------------------------------------------------------------------
RequestStep(r) ==
    \/ Ask(r) \/ AskTooLate(r) \/ Granted(r) \/ Rejected(r) \/ NoSlot(r) \/ NoAnswer(r)
    \/ CheckBudget(r) \/ Wait(r) \/ WaitTimedOut(r) \/ QueueStep(r)
    \/ AdmitBudget(r) \/ Finish(r) \/ Settle(r) \/ Drop(r)

RedisStep(r) == RedisAdmit(r) \/ RedisUnreachable(r) \/ RedisRelease(r) \/ ReleaseFails(r)

TimeStep(r) == WaitLate(r) \/ Over(r) \/ SlotExpires(r) \/ Ages(r)

Next == \E r \in Waiters : RequestStep(r) \/ RedisStep(r) \/ TimeStep(r)

Spec == Init /\ [][Next]_vars

\* Tasks run, commands are executed or fail, deadlines pass.  A request need not
\* be sent.  One that meets its deadline may stay upstream until then; the
\* others come to an end because theirs, which is not modelled, ends them.
TimelySpec ==
    /\ Spec
    /\ \A r \in Waiters :
         /\ WF_vars(\/ pc[r] # "new" /\ (Ask(r) \/ AskTooLate(r))
                    \/ Granted(r) \/ Rejected(r) \/ NoSlot(r) \/ NoAnswer(r)
                    \/ CheckBudget(r) \/ Wait(r) \/ WaitTimedOut(r) \/ QueueStep(r)
                    \/ AdmitBudget(r) \/ Settle(r)
                    \/ (r \in Frail => over[r]) /\ Finish(r))
         /\ WF_vars(RedisAdmit(r) \/ RedisUnreachable(r))
         /\ WF_vars(RedisRelease(r) \/ ReleaseFails(r))
    /\ \A r \in Frail : WF_vars(Over(r)) /\ WF_vars(SlotExpires(r))

-----------------------------------------------------------------------------
(* Properties.                                                             *)

\* The shape of the state.
TypeOK ==
    /\ QueueTypeOK
    /\ pc \in [Waiters -> RequestPlaces]
    /\ armed \in [Waiters -> BOOLEAN]
    /\ allow \in [Waiters -> BOOLEAN]
    /\ answer \in [Waiters -> Answers]
    /\ over \in [Waiters -> BOOLEAN]
    /\ cost \in [Waiters -> 0..MaxCost]
    /\ sent \subseteq Waiters
    /\ freeing \subseteq Waiters
    /\ slots \subseteq Waiters
    /\ recent \subseteq Waiters
    /\ spent \in [Keys -> Nat]
    /\ failed \subseteq Waiters
    /\ looked \in [Waiters -> Nat]

\* Requests that passed the budget check and are not charged yet.
Unsettled(k) == {r \in Of(k, Waiters) : pc[r] \in {"running", "settling"}}

\* The requests of a key that run before their deadline are never more than
\* its concurrency, whatever was cancelled, lost or late.
RunningWithinLimit ==
    \A k \in Keys :
        MaxConcurrency[k] # 0 =>
            Cardinality({r \in Unsettled(k) : ~over[r]}) <= MaxConcurrency[k]

Overrun(k) == Cardinality({r \in Of(k, Waiters) : over[r]})

\* Concurrent requests pass the budget check together, but the slot that is
\* held until the charge is known bounds what they can spend beyond the budget.
SpendingBounded ==
    \A k \in Keys :
        Budget[k] # 0 /\ MaxConcurrency[k] # 0 =>
            spent[k] < Budget[k] + MaxCost * (MaxConcurrency[k] + Overrun(k))

\* A request that is gone holds no slot, unless its release is on the way, has
\* failed, or the TTL of the slot is over.
NoStraySlot ==
    \A r \in slots : pc[r] = "gone" => r \in freeing \cup failed \/ over[r]

\* Slots are taken in the order of the tickets: whoever waits when a request is
\* granted one drew its ticket after that request had its own, or had looked.
FirstComeFirstServed ==
    [][\A r \in slots' \ slots :
         pc[r] = "sent" =>
            \A w \in Line(KeyOf[r]) \ {r} :
                number[w] > (IF HasTicket(r) THEN number[r] ELSE looked[r])]_vars

\* Every request comes to an end and leaves no slot behind, nor a command that
\* would still take one.
RequestsEnd ==
    <>[](\A r \in Waiters : pc[r] \in {"new", "gone"} /\ r \notin sent \cup slots)

\* Whoever waits, and neither meets its deadline nor fails, gets a slot or is
\* refused for the rate, whatever becomes of the others.
WaitersServed ==
    \A r \in Waiters \ Frail :
        (pc[r] = "waiting") ~> (pc[r] = "granted" \/ answer[r] = "rate limited")
=============================================================================
