--------------------------- MODULE AccountAdmission ---------------------------
(***************************************************************************)
(* How an attempt gets a provider account: select_inner of                 *)
(* providers/openai/src/credential/selector.rs with the waiting lines of   *)
(* WaitQueue (one per account), the leases of                              *)
(* gateway-store/src/redis/credential_leases.rs and the session affinity   *)
(* of redis/provider_session_affinity.rs.                                  *)
(*                                                                         *)
(* An attempt decides on what it read some awaits ago: which accounts were *)
(* normal, which had room, and where its conversation was bound.  The      *)
(* ranking of the accounts that can be chosen is left open.  All requests  *)
(* with an affinity key belong to one conversation; bindings do not time   *)
(* out, and a child thread does not inherit the binding of its root.  The  *)
(* minimal interval between two starts on an account is zero.              *)
(***************************************************************************)
EXTENDS WaitQueue

CONSTANTS
    Limit,          \* [Keys -> Nat \ {0}], effective_concurrency of an account
    Scope,          \* [Waiters -> SUBSET Keys], accounts left by scope, exclusions and pin
    Pinned,         \* requests with a required or a continuation account
    Conversation,   \* requests with the affinity key
    Frail,          \* requests that can be dropped, lose answers or meet their deadline
    Unsteady,       \* accounts whose status changes
    MaxChanges      \* bound on the changes of status

ASSUME AccountAssumption ==
    /\ Limit \in [Keys -> Nat \ {0}]
    /\ Scope \in [Waiters -> SUBSET Keys]
    /\ Pinned \subseteq Waiters
    /\ \A w \in Pinned : \E a \in Keys : Scope[w] = {a}
    /\ Conversation \subseteq Waiters
    /\ Frail \subseteq Waiters
    /\ Unsteady \subseteq Keys
    /\ MaxChanges \in Nat

VARIABLES
    pc,             \* where the request is
    available,      \* accounts that are normal
    changes,        \* changes of status so far
    normal,         \* accounts of its scope that were normal when the request loaded them
    free,           \* those of them that had room when it loaded their signals
    busy,           \* accounts excluded because their lease was refused
    bound,          \* AffinitySelection.bound_account, the observed binding
    escaped,        \* whether AffinitySelection.escape_reason is set
    chosen,         \* the account asked for, or in use
    lease,          \* the lease granted to the request, or NoLease
    sent,           \* acquire commands Redis has not executed yet, as <<request, account>>
    answer,         \* the answer to the last one
    leases,         \* members of the :active sets
    releasing,      \* releases on their way
    binding,        \* the account the conversation is bound to, or NoKey
    over,           \* whether the deadline of the request has passed
    astray,         \* history: requests that may have left a lease behind
    moved           \* history: whether the binding was ever changed

viewVars == <<normal, free, busy>>
accountVars == <<available, changes>>
turnVars == <<viewVars, bound, escaped, chosen, answer>>
leaseVars == <<lease, sent, leases, releasing, astray>>
affinityVars == <<binding, moved>>
vars == <<queueVars, pc, accountVars, turnVars, leaseVars, affinityVars, over>>

NoLease == [who |-> NoKey, account |-> NoKey, id |-> 0]
RequestPlaces == {"new", "choosing", "asking", "claiming", "using", "queueing", "waiting", "gone"}
Holding == {"claiming", "using"}
Answers == {"none", "granted", "busy", "error"}

LeasesOf(a) == {l \in leases : l.account = a}

Init ==
    /\ QueueInit
    /\ pc = [w \in Waiters |-> "new"]
    /\ available \in {S \in SUBSET Keys : Keys \ S \subseteq Unsteady}
    /\ changes = 0
    /\ normal = [w \in Waiters |-> {}]
    /\ free = [w \in Waiters |-> {}]
    /\ busy = [w \in Waiters |-> {}]
    /\ bound = [w \in Waiters |-> NoKey]
    /\ escaped = [w \in Waiters |-> FALSE]
    /\ chosen = [w \in Waiters |-> NoKey]
    /\ lease = [w \in Waiters |-> NoLease]
    /\ sent = {}
    /\ answer = [w \in Waiters |-> "none"]
    /\ leases = {}
    /\ releasing = {}
    /\ binding = NoKey
    /\ over = [w \in Waiters |-> FALSE]
    /\ astray = {}
    /\ moved = FALSE

DropTicket(w) == IF HasTicket(w) THEN Leave(w) ELSE UNCHANGED queueVars

\* What a turn of 'capacity saw ends with it.
ForgetView(w) ==
    /\ normal' = [normal EXCEPT ![w] = {}]
    /\ free' = [free EXCEPT ![w] = {}]
    /\ busy' = [busy EXCEPT ![w] = {}]
Forget(w) ==
    /\ ForgetView(w)
    /\ bound' = [bound EXCEPT ![w] = NoKey]
    /\ escaped' = [escaped EXCEPT ![w] = FALSE]
    /\ chosen' = [chosen EXCEPT ![w] = NoKey]
    /\ answer' = [answer EXCEPT ![w] = "none"]
Gone(w) ==
    /\ Forget(w)
    /\ pc' = [pc EXCEPT ![w] = "gone"]

\* Mutant: the guard is dropped without a release.
DropGuardSilently(w) ==
    /\ lease' = [lease EXCEPT ![w] = NoLease]
    /\ UNCHANGED releasing

\* The guard is dropped: a spawned task sends the release.
DropGuard(w) ==
    /\ releasing' = releasing \cup {lease[w]}
    /\ lease' = [lease EXCEPT ![w] = NoLease]

-----------------------------------------------------------------------------
(* Choosing an account.                                                    *)

\* A binding that cannot be followed: the account is not among the candidates,
\* is not normal, or another one is pinned.
Hopeless(a, seen) == a # NoKey /\ a \notin seen

\* The head of 'capacity: accounts, signals and the binding are read.
Load(w) ==
    /\ \/ pc[w] = "new"
       \/ pc[w] = "waiting" /\ place[w] = "resting"
    /\ LET seen == available \cap Scope[w] IN
         /\ normal' = [normal EXCEPT ![w] = seen]
         /\ free' = [free EXCEPT ![w] = {a \in seen : Cardinality(LeasesOf(a)) < Limit[a]}]
         /\ \E b \in (IF w \in Conversation THEN {binding} ELSE {NoKey})
                     \cup (IF w \in Frail THEN {NoKey} ELSE {}) :
              /\ bound' = [bound EXCEPT ![w] = b]
              /\ escaped' = [escaped EXCEPT ![w] = Hopeless(b, seen)]
    /\ pc' = [pc EXCEPT ![w] = "choosing"]
    /\ UNCHANGED <<queueVars, accountVars, busy, chosen, answer, leaseVars, affinityVars, over>>

\* Accounts without a scheduling_blocker, in whose line nobody is before the
\* request.
Selectable(w) == {a \in free[w] \ busy[w] : CanTry(w, a)}

\* The pinned account or the binding, while it is followed.
Preferred(w) ==
    IF w \in Pinned THEN Scope[w] ELSE IF escaped[w] THEN {} ELSE {bound[w]} \ {NoKey}

\* AccountSelector.select, and the acquire command is sent: the preferred
\* account if it can be chosen, else whichever the strategy ranks first.
Choose(w) ==
    /\ pc[w] = "choosing" /\ ~over[w]
    /\ \E a \in Selectable(w) :
         /\ Preferred(w) \cap Selectable(w) \subseteq {a}
         /\ chosen' = [chosen EXCEPT ![w] = a]
         /\ escaped' = [escaped EXCEPT ![w] = @ \/ (bound[w] # NoKey /\ a # bound[w])]
         /\ sent' = sent \cup {<<w, a>>}
    /\ pc' = [pc EXCEPT ![w] = "asking"]
    /\ UNCHANGED <<queueVars, accountVars, viewVars, bound, answer, lease, leases, releasing,
                   astray, affinityVars, over>>

\* acquire_scheduling after the deadline: "acquire expired scheduling lease".
ChooseTooLate(w) ==
    /\ pc[w] = "choosing" /\ over[w] /\ Selectable(w) # {}
    /\ DropTicket(w)
    /\ Gone(w)
    /\ UNCHANGED <<accountVars, leaseVars, affinityVars, over>>

\* Nothing can be chosen, but an account may get room: the request waits.
NothingFree(w) ==
    /\ pc[w] = "choosing" /\ Selectable(w) = {}
    /\ MaxWaiting > 0 /\ normal[w] # {}
    /\ pc' = [pc EXCEPT ![w] = "queueing"]
    /\ UNCHANGED <<queueVars, accountVars, turnVars, leaseVars, affinityVars, over>>

\* CapacityUnavailable, QuotaExhausted or NoEligibleCredential.
NothingEligible(w) ==
    /\ pc[w] = "choosing" /\ Selectable(w) = {}
    /\ MaxWaiting = 0 \/ normal[w] = {}
    /\ DropTicket(w)
    /\ Gone(w)
    /\ UNCHANGED <<accountVars, leaseVars, affinityVars, over>>

-----------------------------------------------------------------------------
(* CapacityWait::wait for the candidates.                                  *)

\* The ticket is for an account that is no candidate any more.
ChangeLine(w) ==
    /\ pc[w] = "queueing"
    /\ HasTicket(w) /\ key[w] \notin normal[w]
    /\ Leave(w)
    /\ UNCHANGED <<pc, accountVars, turnVars, leaseVars, affinityVars, over>>

Wait(w) ==
    /\ pc[w] = "queueing"
    /\ Enqueue(w, normal[w]) \/ WaitAgain(w, normal[w])
    /\ Forget(w)
    /\ pc' = [pc EXCEPT ![w] = "waiting"]
    /\ UNCHANGED <<accountVars, leaseVars, affinityVars, over>>

\* QueueRejection::Full, or Timeout before a place was taken.
Refused(w) ==
    /\ pc[w] = "queueing"
    /\ EnqueueRefused(w, normal[w])
    /\ Gone(w)
    /\ UNCHANGED <<accountVars, leaseVars, affinityVars, over>>

WaitTimedOut(w) ==
    /\ pc[w] = "waiting"
    /\ TimeOut(w)
    /\ Gone(w)
    /\ UNCHANGED <<accountVars, leaseVars, affinityVars, over>>

QueueStep(w) ==
    /\ WakeUp(w) \/ Register(w) \/ Check(w) \/ PollAgain(w) \/ WakeNext(w)
    /\ UNCHANGED <<pc, accountVars, turnVars, leaseVars, affinityVars, over>>

-----------------------------------------------------------------------------
(* The lease.                                                              *)

\* A new member of the :active set, told apart by its lease id.
Member(w, a) ==
    CHOOSE l \in [who : {w}, account : {a}, id : 0..Cardinality(leases \cup releasing)] :
        l \notin leases \cup releasing

\* ACQUIRE_SCRIPT, after expired members were removed.
HasRoom(a) == Cardinality(LeasesOf(a)) < Limit[a]

\* Redis executes the script, whether or not the request still waits for it.
RedisAcquire(w, a) ==
    /\ <<w, a>> \in sent
    /\ sent' = sent \ {<<w, a>>}
    /\ leases' = IF HasRoom(a) THEN leases \cup {Member(w, a)} ELSE leases
    /\ \/ /\ pc[w] = "asking"
          /\ lease' = IF HasRoom(a) THEN [lease EXCEPT ![w] = Member(w, a)] ELSE lease
          /\ answer' = [answer EXCEPT ![w] = IF HasRoom(a) THEN "granted" ELSE "busy"]
       \/ pc[w] = "gone" /\ UNCHANGED <<lease, answer>>
    /\ UNCHANGED <<queueVars, pc, accountVars, viewVars, bound, escaped, chosen, releasing, astray,
                   affinityVars, over>>

\* The request ends while its lease is in doubt: nobody releases what it may
\* have got.
LeaveBehind(w) ==
    /\ astray' = astray \cup {w}
    /\ lease' = [lease EXCEPT ![w] = NoLease]
    /\ UNCHANGED releasing

\* The answer does not come, and the store error ends the request.
NoAnswer(w) ==
    /\ pc[w] = "asking" /\ w \in Frail
    /\ LeaveBehind(w)
    /\ DropTicket(w)
    /\ Gone(w)
    /\ UNCHANGED <<accountVars, sent, leases, affinityVars, over>>

\* ProviderLeaseAcquisition::Busy: the next best account is tried.
Busy(w) ==
    /\ pc[w] = "asking" /\ answer[w] = "busy"
    /\ busy' = [busy EXCEPT ![w] = @ \cup {chosen[w]}]
    /\ escaped' = [escaped EXCEPT ![w] = @ \/ chosen[w] = bound[w]]
    /\ chosen' = [chosen EXCEPT ![w] = NoKey]
    /\ answer' = [answer EXCEPT ![w] = "none"]
    /\ pc' = [pc EXCEPT ![w] = "choosing"]
    /\ UNCHANGED <<queueVars, accountVars, normal, free, bound, leaseVars, affinityVars, over>>

\* select_inner returns the lease, and the ticket is dropped.
Return(w) ==
    /\ DropTicket(w)
    /\ ForgetView(w)
    /\ pc' = [pc EXCEPT ![w] = "using"]
    /\ UNCHANGED <<accountVars, bound, escaped, chosen, leaseVars, moved, over>>

Claims(w) == w \in Conversation /\ bound[w] = NoKey

\* ProviderLeaseAcquisition::Acquired, for a conversation that is bound; the
\* first turn claims its account before.
Acquired(w) ==
    /\ pc[w] = "asking" /\ answer[w] = "granted"
    /\ answer' = [answer EXCEPT ![w] = "none"]
    /\ \/ /\ Claims(w)
          /\ pc' = [pc EXCEPT ![w] = "claiming"]
          /\ UNCHANGED <<queueVars, accountVars, viewVars, bound, escaped, chosen, leaseVars,
                         moved, over>>
       \/ ~Claims(w) /\ Return(w)
    /\ UNCHANGED binding

\* CLAIM_OR_LOAD_SCRIPT.
Effective(w) == IF binding = NoKey THEN chosen[w] ELSE binding

\* The account is claimed, or it was the one the conversation is bound to; a
\* pinned request keeps its account, and so does one that got no answer.
Claim(w) ==
    /\ pc[w] = "claiming"
    /\ \/ /\ Effective(w) = chosen[w] \/ w \in Pinned
          /\ binding' = Effective(w)
       \/ w \in Frail /\ UNCHANGED binding
    /\ Return(w)
    /\ UNCHANGED answer

\* Mutants: the guard of an account that is given up is forgotten; the answer to
\* the claim is ignored.
ClaimLostLeaking(w) ==
    /\ pc[w] = "claiming"
    /\ Effective(w) # chosen[w] /\ w \notin Pinned
    /\ lease' = [lease EXCEPT ![w] = NoLease]
    /\ bound' = [bound EXCEPT ![w] = binding]
    /\ escaped' = [escaped EXCEPT ![w] = Hopeless(binding, normal[w])]
    /\ chosen' = [chosen EXCEPT ![w] = NoKey]
    /\ pc' = [pc EXCEPT ![w] = "choosing"]
    /\ UNCHANGED <<queueVars, accountVars, viewVars, answer, sent, leases, releasing, astray,
                   affinityVars, over>>
ClaimLostIgnored(w) ==
    /\ pc[w] = "claiming"
    /\ Effective(w) # chosen[w] /\ w \notin Pinned
    /\ Return(w)
    /\ UNCHANGED <<answer, binding>>

\* A parallel turn claimed another account: this one is given up, and that one
\* is preferred.
ClaimLost(w) ==
    /\ pc[w] = "claiming"
    /\ Effective(w) # chosen[w] /\ w \notin Pinned
    /\ DropGuard(w)
    /\ bound' = [bound EXCEPT ![w] = binding]
    /\ escaped' = [escaped EXCEPT ![w] = Hopeless(binding, normal[w])]
    /\ chosen' = [chosen EXCEPT ![w] = NoKey]
    /\ pc' = [pc EXCEPT ![w] = "choosing"]
    /\ UNCHANGED <<queueVars, accountVars, viewVars, answer, sent, leases, astray, affinityVars,
                   over>>

-----------------------------------------------------------------------------
(* Using the account, and giving it back.                                  *)

\* affinity_expected_account_id.
Expected(w) == IF bound[w] = NoKey \/ w \in Pinned THEN chosen[w] ELSE bound[w]

\* record_success, before the completed event is given downstream:
\* COMPARE_AND_BIND_SCRIPT.
Rebind(w) ==
    /\ w \in Conversation /\ binding \in {NoKey, Expected(w)}
    /\ binding' = chosen[w]
    /\ moved' = (moved \/ binding \notin {NoKey, chosen[w]})

\* The stream has ended, with or without success, and its guard is dropped.
End(w) ==
    /\ pc[w] = "using"
    /\ place[w] = "away"
    /\ Rebind(w) \/ UNCHANGED affinityVars
    /\ DropGuard(w)
    /\ Gone(w)
    /\ UNCHANGED <<queueVars, accountVars, sent, leases, astray, over>>

\* The future of the selection is dropped, at one of its awaits.
Drop(w) ==
    /\ w \in Frail
    /\ pc[w] \notin {"new", "gone"}
    /\ place[w] # "checking"
    /\ \/ pc[w] \in Holding /\ DropGuard(w) /\ UNCHANGED astray
       \/ pc[w] = "asking" /\ LeaveBehind(w)
       \/ pc[w] \notin Holding \cup {"asking"} /\ UNCHANGED <<lease, releasing, astray>>
    /\ DropTicket(w)
    /\ Gone(w)
    /\ UNCHANGED <<accountVars, sent, leases, affinityVars, over>>

RedisRelease(l) ==
    /\ l \in releasing
    /\ releasing' = releasing \ {l}
    /\ leases' = leases \ {l}
    /\ UNCHANGED <<queueVars, pc, accountVars, turnVars, lease, sent, astray, affinityVars, over>>

\* The release is sent once; when it fails the lease is left to its TTL.
ReleaseFails(l) ==
    /\ l \in releasing /\ l.who \in Frail
    /\ releasing' = releasing \ {l}
    /\ astray' = astray \cup {l.who}
    /\ UNCHANGED <<queueVars, pc, accountVars, turnVars, lease, sent, leases, affinityVars, over>>

-----------------------------------------------------------------------------
(* Time, and the accounts.                                                 *)

WaitLate(w) ==
    /\ w \in Frail
    /\ HasTicket(w)
    /\ Late(w)
    /\ UNCHANGED <<pc, accountVars, turnVars, leaseVars, affinityVars, over>>

Over(w) ==
    /\ w \in Frail
    /\ pc[w] # "new" /\ ~over[w]
    /\ over' = [over EXCEPT ![w] = TRUE]
    /\ late' = [late EXCEPT ![w] = TRUE]
    /\ UNCHANGED <<key, number, drawn, total, place, notified, target, pc, accountVars, turnVars,
                   leaseVars, affinityVars>>

\* A lease is taken for what remained to the request, at most ten minutes.
LeaseExpires(l) ==
    /\ l \in leases /\ over[l.who]
    /\ leases' = leases \ {l}
    /\ UNCHANGED <<queueVars, pc, accountVars, turnVars, lease, sent, releasing, astray,
                   affinityVars, over>>

\* An account is frozen, exhausted or disabled, or is normal again.
StatusChanges(a) ==
    /\ a \in Unsteady /\ changes < MaxChanges
    /\ changes' = changes + 1
    /\ available' = IF a \in available THEN available \ {a} ELSE available \cup {a}
    /\ UNCHANGED <<queueVars, pc, turnVars, leaseVars, affinityVars, over>>

-----------------------------------------------------------------------------
SelectionStep(w) ==
    \/ Choose(w) \/ ChooseTooLate(w) \/ NothingFree(w) \/ NothingEligible(w)
    \/ ChangeLine(w) \/ Wait(w) \/ Refused(w) \/ WaitTimedOut(w) \/ QueueStep(w)
    \/ NoAnswer(w) \/ Busy(w) \/ Acquired(w) \/ Claim(w) \/ ClaimLost(w)

RequestStep(w) == Load(w) \/ SelectionStep(w) \/ End(w) \/ Drop(w)

RedisStep == \/ \E w \in Waiters, a \in Keys : RedisAcquire(w, a)
             \/ \E l \in leases \cup releasing : RedisRelease(l) \/ ReleaseFails(l)

TimeStep == \/ \E w \in Waiters : WaitLate(w) \/ Over(w)
            \/ \E l \in leases : LeaseExpires(l)

Next ==
    \/ \E w \in Waiters : RequestStep(w)
    \/ RedisStep
    \/ TimeStep
    \/ \E a \in Keys : StatusChanges(a)

Spec == Init /\ [][Next]_vars

\* Tasks run, commands are executed, a request that uses an account ends and a
\* deadline that can pass does; no request has to start or to be dropped, and
\* no account has to change.
FairSpec ==
    /\ Spec
    /\ \A w \in Waiters :
         /\ WF_vars((pc[w] # "new" /\ Load(w)) \/ SelectionStep(w) \/ End(w))
         /\ WF_vars(\E a \in Keys : RedisAcquire(w, a))
    /\ \A w \in Frail : WF_vars(Over(w))
    /\ WF_vars(\E l \in releasing : RedisRelease(l) \/ ReleaseFails(l))
    /\ WF_vars(\E l \in leases : LeaseExpires(l))

-----------------------------------------------------------------------------
(* Properties.                                                             *)

\* The shape of the state.
TypeOK ==
    /\ QueueTypeOK
    /\ pc \in [Waiters -> RequestPlaces]
    /\ available \subseteq Keys
    /\ changes \in 0..MaxChanges
    /\ normal \in [Waiters -> SUBSET Keys]
    /\ free \in [Waiters -> SUBSET Keys]
    /\ busy \in [Waiters -> SUBSET Keys]
    /\ bound \in [Waiters -> Keys \cup {NoKey}]
    /\ escaped \in [Waiters -> BOOLEAN]
    /\ chosen \in [Waiters -> Keys \cup {NoKey}]
    /\ \A w \in Waiters : lease[w] = NoLease \/ (lease[w].who = w /\ lease[w].account \in Keys)
    /\ sent \subseteq Waiters \X Keys
    /\ answer \in [Waiters -> Answers]
    /\ \A l \in leases \cup releasing : l.who \in Waiters /\ l.account \in Keys /\ l.id \in Nat
    /\ binding \in Keys \cup {NoKey}
    /\ over \in [Waiters -> BOOLEAN]
    /\ astray \subseteq Waiters
    /\ moved \in BOOLEAN

\* A lease is held by its request, or its release is on the way, unless the
\* request was dropped or failed while its lease was in doubt.
NoStrayLease ==
    \A l \in leases : \/ lease[l.who] = l
                      \/ l \in releasing
                      \/ l.who \in astray

\* Leases and their holders agree.  No lease blocks its account for nobody; and
\* an account never serves more requests before their deadline than its limit,
\* whatever becomes of others that share it: no release, late answer or expiry
\* takes the lease of a request that goes on.
LeasesMatchUse ==
    /\ NoStrayLease
    /\ \A a \in Keys :
         Cardinality({w \in Waiters : lease[w] # NoLease /\ lease[w].account = a /\ ~over[w]})
           <= Limit[a]

\* Parallel first turns of a conversation end up on one account: until a turn
\* that had to go elsewhere has moved the binding, whoever uses another account
\* than the bound one was turned away from that one.
FirstTurnsShareAccount ==
    ~moved =>
        \A w \in Conversation \ (Pinned \cup Frail) :
            pc[w] = "using" /\ ~escaped[w] => chosen[w] = binding

\* Whoever waits for an account, and neither meets a deadline nor fails, gets
\* one, however the others fail and whichever account becomes unavailable.
WaitersServed ==
    \A w \in Waiters \ Frail : (pc[w] = "waiting") ~> (pc[w] = "using")
=============================================================================
