------------------------- MODULE OpenAiProvider_proofs -------------------------
(* Theorems about the two parts of the OpenAI provider that are modelled,  *)
(* which share no state.  The refresh of a credential, for every set of    *)
(* scheduled and manual refreshes and of requests: types, no verdict about *)
(* another credential, and no rotation lost without an excuse.  The pool   *)
(* of connections, for every set of calls, keys and connections: types,    *)
(* slots and leases that match, a circuit that hears of its probe, and a   *)
(* shutdown that leaves nothing behind.                                    *)
EXTENDS TokenRefresh, ConnectionPool, FiniteSetTheorems, TLAPS

-----------------------------------------------------------------------------
(* Types, in the three parts that are proved on their own.                 *)

RowTyped ==
    /\ credential \in Credentials
    /\ state \in States
    /\ enabled \in BOOLEAN
    /\ age \in Ages
    /\ deferred \in BOOLEAN
    /\ live \in SUBSET Credentials
    /\ issued \in Credentials
    /\ events \in 0..MaxEvents
    /\ judged \in Credentials \cup {NoCredential}
    /\ spared \in BOOLEAN
    /\ excused \in BOOLEAN

LocalTyped ==
    /\ pc \in [Actors -> Places]
    /\ view \in [Actors -> Credentials \cup {NoCredential}]
    /\ current \in SUBSET Actors
    /\ untouched \in SUBSET Cycles
    /\ exhausted \in [Refreshers -> BOOLEAN]
    /\ answer \in [Refreshers -> Answers]
    /\ got \in [Refreshers -> Credentials \cup {NoCredential}]

LeaseTyped ==
    /\ capacity \in SUBSET (Refreshers \X Kinds)
    /\ lease \in SUBSET (Refreshers \X Kinds)

\* An exchange that returned tokens returned a credential.
TokensGot ==
    \A r \in Refreshers : answer[r] = "tokens" => got[r] \in Credentials

LEMMA TypeParts == TypeOK <=> RowTyped /\ LocalTyped /\ LeaseTyped
BY DEF TypeOK, RowTyped, LocalTyped, LeaseTyped

-----------------------------------------------------------------------------
(* What the parts of a step keep.                                          *)

LEMMA UnguardTyped ==
    ASSUME NEW r \in Refreshers, LeaseTyped, events \in 0..MaxEvents, Unguard(r)
    PROVE  LeaseTyped' /\ events' \in 0..MaxEvents
<1> USE RefreshAssumption
<1>1. CASE Release(r) /\ UNCHANGED events
  BY <1>1 DEF Release, LeaseTyped
<1>2. CASE Leave(r) /\ RareEvent
  <2>1. LeaseTyped'
    BY <1>2 DEF Leave, LeftOver, LeaseTyped, Kinds
  <2>2. events' \in 0..MaxEvents
    BY <1>2 DEF RareEvent
  <2> QED  BY <2>1, <2>2
<1> QED  BY <1>1, <1>2 DEF Unguard

LEMMA ForgetTyped ==
    ASSUME NEW r \in Refreshers, LocalTyped, TokensGot, Forget(r),
           current' \in SUBSET Actors, untouched' \in SUBSET Cycles
    PROVE  LocalTyped' /\ TokensGot'
BY DEF Forget, LocalTyped, TokensGot, Places, Answers, Actors

LEMMA RowUnchangedTyped ==
    RowTyped /\ UNCHANGED <<rowVars, upstreamVars, judged, spared, excused>>
        /\ events' \in 0..MaxEvents => RowTyped'
BY DEF RowTyped, rowVars, upstreamVars

LEMMA SetStateTyped ==
    ASSUME NEW s \in States, NEW c \in Credentials \cup {NoCredential},
           RowTyped, SetState(s, c)
    PROVE  state' \in States /\ judged' \in Credentials \cup {NoCredential}
BY DEF SetState, RowTyped

LEMMA ApplyStateTyped ==
    ASSUME NEW x \in Actors, NEW s \in States, RowTyped, LocalTyped, ApplyState(x, s)
    PROVE  /\ state' \in States
           /\ judged' \in Credentials \cup {NoCredential}
           /\ spared' \in BOOLEAN
           /\ untouched' \in SUBSET Cycles
<1>0. spared \in BOOLEAN /\ enabled \in BOOLEAN
  BY DEF RowTyped
<1>1. CASE x \in current
  <2>1. WriteState(x, s)
    BY <1>1 DEF ApplyState
  <2>2. SetState(s, view[x])
    BY <2>1 DEF WriteState
  <2>3. view[x] \in Credentials \cup {NoCredential}
    BY DEF LocalTyped
  <2>4. state' \in States /\ judged' \in Credentials \cup {NoCredential}
    BY <2>2, <2>3, SetStateTyped
  <2>5. spared' \in BOOLEAN /\ untouched' \in SUBSET Cycles
    BY <2>1, <1>0 DEF WriteState
  <2> QED  BY <2>4, <2>5
<1>2. CASE x \notin current
  BY <1>2, <1>0 DEF ApplyState, RowTyped, LocalTyped
<1> QED  BY <1>1, <1>2

LEMMA LoadedAgesTyped ==
    ASSUME NEW r, RowTyped
    PROVE  LoadedAges(r) \in SUBSET Ages
BY DEF LoadedAges, RowTyped, Ages

LEMMA ReplaceTyped ==
    ASSUME NEW c \in Credentials, NEW ages \in SUBSET Ages, RowTyped, Replace(c, ages)
    PROVE  /\ credential' \in Credentials
           /\ state' \in States
           /\ age' \in Ages
           /\ deferred' \in BOOLEAN
           /\ judged' \in Credentials \cup {NoCredential}
           /\ spared' \in BOOLEAN
           /\ current' = {}
           /\ untouched' = {}
<1>1. state' \in States /\ judged' \in Credentials \cup {NoCredential}
  BY SetStateTyped DEF Replace, States
<1>2. spared' \in BOOLEAN
  BY DEF Replace, RowTyped
<1> QED  BY <1>1, <1>2 DEF Replace, Bump

TypedRun == RowTyped /\ LocalTyped /\ LeaseTyped /\ TokensGot

-----------------------------------------------------------------------------
(* Every step keeps the types.                                             *)

LEMMA ListDueTyped ==
    ASSUME NEW r \in Refreshers, TypedRun, ListDue(r) \/ LoadCurrent(r)
    PROVE  TypedRun'
<1>1. RowTyped' /\ LeaseTyped'
  BY DEF ListDue, LoadCurrent, TypedRun, RowTyped, LeaseTyped, rowVars, upstreamVars, leaseVars, historyVars
<1>2. LocalTyped' /\ TokensGot'
  BY DEF ListDue, LoadCurrent, LoadRow, TypedRun, RowTyped, LocalTyped, TokensGot, Places, Actors
<1> QED  BY <1>1, <1>2 DEF TypedRun

LEMMA LeaveRowTyped ==
    ASSUME NEW r \in Refreshers, TypedRun, LeaveRow(r),
           UNCHANGED <<upstreamVars, historyVars>>
    PROVE  TypedRun'
<1>1. LeaseTyped' /\ events' \in 0..MaxEvents
  BY UnguardTyped DEF TypedRun, LeaveRow, RowTyped
<1>2. RowTyped'
  BY <1>1, RowUnchangedTyped DEF TypedRun, LeaveRow, ForgetRow, historyVars
<1>3. LocalTyped' /\ TokensGot'
  BY ForgetTyped DEF TypedRun, LeaveRow, ForgetRow, LocalTyped
<1> QED  BY <1>1, <1>2, <1>3 DEF TypedRun

LEMMA CapacityTyped ==
    ASSUME NEW r \in Refreshers, TypedRun, TakeCapacity(r) \/ TakeLease(r)
    PROVE  TypedRun'
<1>1. RowTyped'
  BY DEF TakeCapacity, TakeLease, TypedRun, RowTyped, rowVars, upstreamVars, historyVars
<1>2. LeaseTyped'
  <2>1. <<r, "held">> \in Refreshers \X Kinds
    BY DEF Kinds
  <2>2. /\ capacity' = capacity \cup {<<r, "held">>} \/ capacity' = capacity
        /\ lease' = {<<r, "held">>} \/ lease' = lease
    BY DEF TakeCapacity, TakeLease
  <2> QED  BY <2>1, <2>2 DEF TypedRun, LeaseTyped
<1>3. LocalTyped' /\ TokensGot'
  <2>1. CASE TakeCapacity(r)
    <3>1. PICK late \in (IF r \in Manuals THEN {FALSE}
                    ELSE IF r \in current THEN {a = "exhausted" : a \in LoadedAges(r)}
                    ELSE BOOLEAN) :
            exhausted' = [exhausted EXCEPT ![r] = late]
      BY <2>1 DEF TakeCapacity
    <3>2. late \in BOOLEAN
      OBVIOUS
    <3>3. exhausted' \in [Refreshers -> BOOLEAN]
      BY <3>1, <3>2 DEF TypedRun, LocalTyped
    <3> QED  BY <2>1, <3>3 DEF TakeCapacity, TypedRun, LocalTyped, TokensGot, Places
  <2>2. CASE TakeLease(r)
    BY <2>2 DEF TakeLease, TypedRun, LocalTyped, TokensGot, Places
  <2> QED  BY <2>1, <2>2
<1> QED  BY <1>1, <1>2, <1>3 DEF TypedRun

LEMMA ExchangeTyped ==
    ASSUME NEW r \in Refreshers, TypedRun, Exchange(r)
    PROVE  TypedRun'
<1> USE RefreshAssumption
<1>1. LeaseTyped'
  BY DEF Exchange, Rotate, Renew, Fail, Answered, TypedRun, LeaseTyped, leaseVars
<1>2. RowTyped'
  <2>1. CASE Rotate(r)
    <3>0. issued' = issued + 1 /\ live' = (live \ {view[r]}) \cup {issued + 1} /\ issued < MaxCredentials
      BY <2>1 DEF Rotate
    <3>1. issued' \in Credentials /\ live' \in SUBSET Credentials
      <4>1. issued + 1 \in Credentials
        BY <3>0 DEF TypedRun, RowTyped, Credentials
      <4>2. live \in SUBSET Credentials
        BY DEF TypedRun, RowTyped
      <4> QED  BY <3>0, <4>1, <4>2
    <3>2. events' \in 0..MaxEvents
      BY <2>1 DEF Rotate, RareEvent, TypedRun, RowTyped
    <3>3. excused' \in BOOLEAN
      BY <2>1 DEF Rotate, TypedRun, RowTyped
    <3> QED  BY <2>1, <3>1, <3>2, <3>3 DEF Rotate, Answered, TypedRun, RowTyped, rowVars
  <2>2. CASE Renew(r) \/ Fail(r)
    BY <2>2 DEF Renew, Fail, Answered, TypedRun, RowTyped, rowVars, upstreamVars
  <2> QED  BY <2>1, <2>2 DEF Exchange
<1>3. LocalTyped' /\ TokensGot'
  <2>1. CASE Rotate(r)
    <3>1. issued + 1 \in Credentials
      BY <2>1 DEF Rotate, TypedRun, RowTyped, Credentials
    <3> QED  BY <2>1, <3>1 DEF Rotate, Answered, TypedRun, LocalTyped, TokensGot, Places, Answers
  <2>2. CASE Renew(r)
    <3>1. view[r] \in Credentials
      BY <2>2 DEF Renew, TypedRun, RowTyped
    <3> QED  BY <2>2, <3>1 DEF Renew, Answered, TypedRun, LocalTyped, TokensGot, Places, Answers
  <2>3. CASE Fail(r)
    <3>1. PICK a \in Answers \ {"tokens"} : Answered(r, a, NoCredential)
      BY <2>3 DEF Fail, Answers
    <3> QED  BY <3>1 DEF Answered, TypedRun, LocalTyped, TokensGot, Places
  <2> QED  BY <2>1, <2>2, <2>3 DEF Exchange
<1> QED  BY <1>1, <1>2, <1>3 DEF TypedRun

LEMMA PersistSuccessTyped ==
    ASSUME NEW r \in Refreshers, TypedRun, PersistSuccess(r)
    PROVE  TypedRun'
<1>0. StoredAges(r) \in SUBSET Ages
  BY LoadedAgesTyped DEF StoredAges, TypedRun, Ages
<1>1. got[r] \in Credentials
  BY DEF PersistSuccess, TypedRun, TokensGot
<1>2. Replace(got[r], StoredAges(r)) /\ Finish(r)
  BY DEF PersistSuccess
<1>3. LeaseTyped' /\ events' \in 0..MaxEvents
  BY <1>2, UnguardTyped DEF Finish, TypedRun, RowTyped
<1>4. /\ credential' \in Credentials /\ state' \in States /\ age' \in Ages
      /\ deferred' \in BOOLEAN /\ judged' \in Credentials \cup {NoCredential}
      /\ spared' \in BOOLEAN /\ current' = {} /\ untouched' = {}
  BY <1>0, <1>1, <1>2, ReplaceTyped DEF TypedRun
<1>5. RowTyped'
  BY <1>3, <1>4 DEF PersistSuccess, TypedRun, RowTyped, upstreamVars
<1>6. LocalTyped' /\ TokensGot'
  BY <1>2, <1>4, ForgetTyped DEF Finish, TypedRun
<1> QED  BY <1>3, <1>5, <1>6 DEF TypedRun

LEMMA CheckTerminalTyped ==
    ASSUME NEW r \in Refreshers, TypedRun, CheckTerminal(r)
    PROVE  TypedRun'
<1>1. CASE LeaveRow(r)
  BY <1>1, LeaveRowTyped DEF CheckTerminal
<1>2. CASE pc' = [pc EXCEPT ![r] = "condemning"]
           /\ UNCHANGED <<rowVars, view, current, untouched, exhausted, answer, got, leaseVars, events>>
  BY <1>2 DEF CheckTerminal, TypedRun, RowTyped, LocalTyped, LeaseTyped, TokensGot, Places,
              rowVars, upstreamVars, leaseVars, historyVars
<1> QED  BY <1>1, <1>2 DEF CheckTerminal

LEMMA PersistTerminalTyped ==
    ASSUME NEW r \in Refreshers, TypedRun, PersistTerminal(r)
    PROVE  TypedRun'
<1>1. PICK s \in States : ApplyState(r, s)
  BY DEF PersistTerminal, States
<1>2. Finish(r)
  BY DEF PersistTerminal
<1>3. LeaseTyped' /\ events' \in 0..MaxEvents
  BY <1>2, UnguardTyped DEF Finish, TypedRun, RowTyped
<1>4. /\ state' \in States
      /\ judged' \in Credentials \cup {NoCredential}
      /\ spared' \in BOOLEAN
      /\ untouched' \in SUBSET Cycles
  BY <1>1, ApplyStateTyped DEF TypedRun, Actors
<1>5. RowTyped'
  BY <1>3, <1>4 DEF PersistTerminal, TypedRun, RowTyped, upstreamVars
<1>6. LocalTyped' /\ TokensGot'
  BY <1>2, <1>4, ForgetTyped DEF PersistTerminal, Finish, TypedRun, LocalTyped
<1> QED  BY <1>3, <1>5, <1>6 DEF TypedRun

LEMMA DeferTyped ==
    ASSUME NEW r \in Refreshers, TypedRun, Defer(r)
    PROVE  TypedRun'
<1>1. Finish(r) /\ Bump
  BY DEF Defer
<1>2. LeaseTyped' /\ events' \in 0..MaxEvents
  BY <1>1, UnguardTyped DEF Finish, TypedRun, RowTyped
<1>3. state' \in States /\ judged' \in Credentials \cup {NoCredential}
  <2>1. CASE answer[r] = "refused"
    BY <2>1, SetStateTyped DEF Defer, TypedRun, LocalTyped, States, Actors
  <2>2. CASE answer[r] # "refused"
    BY <2>2 DEF Defer, TypedRun, RowTyped
  <2> QED  BY <2>1, <2>2
<1>4. spared' \in BOOLEAN
  BY DEF Defer, TypedRun, RowTyped
<1>5. age' \in Ages
  BY LoadedAgesTyped DEF Defer, TypedRun
<1>6. RowTyped'
  BY <1>2, <1>3, <1>4, <1>5 DEF Defer, TypedRun, RowTyped, upstreamVars
<1>7. LocalTyped' /\ TokensGot'
  BY <1>1, ForgetTyped DEF Finish, Bump, TypedRun
<1> QED  BY <1>2, <1>6, <1>7 DEF TypedRun

LEMMA RequestTyped ==
    ASSUME NEW q \in Requests, TypedRun, RequestStep(q)
    PROVE  TypedRun'
<1>0. q \in Actors
  BY DEF Actors
<1>1. CASE Send(q)
  <2>1. RowTyped' /\ LeaseTyped'
    BY <1>1 DEF Send, TypedRun, RowTyped, LeaseTyped, rowVars, upstreamVars, leaseVars, historyVars
  <2>2. LocalTyped' /\ TokensGot'
    BY <1>0, <1>1 DEF Send, LoadRow, TypedRun, RowTyped, LocalTyped, TokensGot, Places
  <2> QED  BY <2>1, <2>2 DEF TypedRun
<1>2. CASE CaptureCookies(q)
  <2>1. excused' \in BOOLEAN
    BY <1>2 DEF CaptureCookies, TypedRun, RowTyped
  <2>2. events' \in 0..MaxEvents
    BY <1>2, RefreshAssumption DEF CaptureCookies, RareEvent, TypedRun, RowTyped
  <2>3. RowTyped' /\ LeaseTyped'
    BY <1>2, <2>1, <2>2 DEF CaptureCookies, TypedRun, RowTyped, LeaseTyped, rowVars, upstreamVars, leaseVars
  <2>4. LocalTyped' /\ TokensGot'
    BY <1>0, <1>2 DEF CaptureCookies, TypedRun, LocalTyped, TokensGot
  <2> QED  BY <2>3, <2>4 DEF TypedRun
<1>3. ASSUME EndRequest(q),
             state' \in States, judged' \in Credentials \cup {NoCredential},
             spared' \in BOOLEAN, untouched' \in SUBSET Cycles
      PROVE  TypedRun'
  <2>1. RowTyped' /\ LeaseTyped'
    BY <1>3 DEF EndRequest, TypedRun, RowTyped, LeaseTyped, upstreamVars, leaseVars
  <2>2. LocalTyped' /\ TokensGot'
    BY <1>0, <1>3 DEF EndRequest, TypedRun, LocalTyped, TokensGot, Places
  <2> QED  BY <2>1, <2>2 DEF TypedRun
<1>4. CASE Unauthorized(q) \/ Deactivated(q) \/ Succeed(q)
  <2>1. PICK s \in States : ApplyState(q, s)
    BY <1>4 DEF Unauthorized, Deactivated, Succeed, ApplyState, States
  <2>2. /\ state' \in States
        /\ judged' \in Credentials \cup {NoCredential}
        /\ spared' \in BOOLEAN
        /\ untouched' \in SUBSET Cycles
    BY <1>0, <2>1, ApplyStateTyped DEF TypedRun
  <2>3. EndRequest(q)
    BY <1>4 DEF Unauthorized, Deactivated, Succeed
  <2> QED  BY <1>3, <2>2, <2>3
<1> QED  BY <1>1, <1>2, <1>4 DEF RequestStep

LEMMA OutsideTyped ==
    ASSUME TypedRun, Reauthorize \/ Disable \/ Recover \/ Age \/ RetryTimeComes
    PROVE  TypedRun'
<1> USE RefreshAssumption
<1>1. CASE Reauthorize
  <2>0. issued < MaxCredentials /\ issued' = issued + 1 /\ live' = live \cup {issued + 1}
        /\ Replace(issued + 1, Ages) /\ excused' = FALSE
    BY <1>1 DEF Reauthorize
  <2>1. issued + 1 \in Credentials
    BY <2>0 DEF TypedRun, RowTyped, Credentials
  <2>2. /\ credential' \in Credentials /\ state' \in States /\ age' \in Ages
        /\ deferred' \in BOOLEAN /\ judged' \in Credentials \cup {NoCredential}
        /\ spared' \in BOOLEAN /\ current' = {} /\ untouched' = {}
    BY <2>0, <2>1, ReplaceTyped DEF TypedRun
  <2>3. events' \in 0..MaxEvents
    BY <1>1 DEF Reauthorize, RareEvent, TypedRun, RowTyped
  <2>4. live' \in SUBSET Credentials
    BY <2>0, <2>1 DEF TypedRun, RowTyped
  <2>5. RowTyped'
    BY <1>1, <2>0, <2>1, <2>2, <2>3, <2>4 DEF Reauthorize, TypedRun, RowTyped
  <2>6. LocalTyped' /\ LeaseTyped' /\ TokensGot'
    BY <1>1, <2>2 DEF Reauthorize, TypedRun, LocalTyped, LeaseTyped, TokensGot, leaseVars
  <2> QED  BY <2>5, <2>6 DEF TypedRun
<1>2. CASE Disable
  BY <1>2 DEF Disable, TypedRun, RowTyped, LocalTyped, LeaseTyped, TokensGot, upstreamVars, leaseVars, historyVars
<1>3. CASE Recover
  <2>1. state' \in States /\ judged' \in Credentials \cup {NoCredential}
    BY <1>3, SetStateTyped DEF Recover, TypedRun, RowTyped, States
  <2>2. age' \in Ages
    BY <1>3 DEF Recover, TypedRun, RowTyped, Ages
  <2>3. spared' \in BOOLEAN
    BY <1>3 DEF Recover, TypedRun, RowTyped
  <2>4. RowTyped'
    BY <1>3, <2>1, <2>2, <2>3 DEF Recover, TypedRun, RowTyped, upstreamVars
  <2>5. LocalTyped' /\ LeaseTyped' /\ TokensGot'
    BY <1>3 DEF Recover, TypedRun, LocalTyped, LeaseTyped, TokensGot, leaseVars
  <2> QED  BY <2>4, <2>5 DEF TypedRun
<1>4. CASE Age \/ RetryTimeComes
  <2>1. age' \in Ages
    BY <1>4 DEF Age, RetryTimeComes, TypedRun, RowTyped, Ages
  <2>2. deferred' \in BOOLEAN
    BY <1>4 DEF Age, RetryTimeComes, TypedRun, RowTyped
  <2> QED  BY <1>4, <2>1, <2>2 DEF Age, RetryTimeComes, TypedRun, RowTyped, LocalTyped, LeaseTyped, TokensGot,
              upstreamVars, localVars, leaseVars, historyVars
<1> QED  BY <1>1, <1>2, <1>3, <1>4

LEMMA FaultTyped ==
    ASSUME NEW r \in Refreshers, TypedRun,
           LeaseOutlived(r) \/ LeftLeaseExpires(r) \/ Die(r)
    PROVE  TypedRun'
<1> USE RefreshAssumption
<1>1. events' \in 0..MaxEvents
  BY DEF LeaseOutlived, LeftLeaseExpires, Die, RareEvent, TypedRun, RowTyped
<1>2. excused' \in BOOLEAN
  BY DEF LeaseOutlived, LeftLeaseExpires, Die, historyVars, TypedRun, RowTyped
<1>3. RowTyped'
  BY <1>1, <1>2 DEF LeaseOutlived, LeftLeaseExpires, Die, ForgetRow, rowVars, upstreamVars, historyVars, TypedRun, RowTyped
<1>4. LeaseTyped'
  <2>1. CASE LeaseOutlived(r) \/ LeftLeaseExpires(r)
    BY <2>1 DEF LeaseOutlived, LeftLeaseExpires, TypedRun, LeaseTyped
  <2>2. CASE Die(r)
    BY <2>2 DEF Die, Leave, LeftOver, TypedRun, LeaseTyped, Kinds
  <2> QED  BY <2>1, <2>2
<1>5. LocalTyped' /\ TokensGot'
  <2>1. CASE LeaseOutlived(r) \/ LeftLeaseExpires(r)
    BY <2>1 DEF LeaseOutlived, LeftLeaseExpires, localVars, TypedRun, LocalTyped, TokensGot
  <2>2. CASE Die(r)
    BY <2>2, ForgetTyped DEF Die, ForgetRow, TypedRun, LocalTyped
  <2> QED  BY <2>1, <2>2
<1> QED  BY <1>3, <1>4, <1>5 DEF TypedRun

LEMMA StepTyped == TypedRun /\ [Next]_vars => TypedRun'
<1> SUFFICES ASSUME TypedRun, [Next]_vars PROVE TypedRun'
  OBVIOUS
<1>1. CASE UNCHANGED vars
  BY <1>1 DEF vars, rowVars, upstreamVars, localVars, leaseVars, historyVars,
              TypedRun, RowTyped, LocalTyped, LeaseTyped, TokensGot
<1>2. ASSUME NEW r \in Refreshers, RefreshStep(r) PROVE TypedRun'
  <2>1. CASE LeaseUnavailable(r) \/ Stale(r)
    BY <2>1, LeaveRowTyped DEF LeaseUnavailable, Stale
  <2> QED
    BY <1>2, <2>1, ListDueTyped, CapacityTyped, ExchangeTyped, PersistSuccessTyped,
       CheckTerminalTyped, PersistTerminalTyped, DeferTyped DEF RefreshStep
<1>3. ASSUME NEW r \in Refreshers,
             LoadCurrent(r) \/ LeaseOutlived(r) \/ LeftLeaseExpires(r) \/ Die(r)
      PROVE  TypedRun'
  BY <1>3, ListDueTyped, FaultTyped
<1> QED
  BY <1>1, <1>2, <1>3, RequestTyped, OutsideTyped DEF Next

LEMMA InitTyped == Init => TypedRun
<1> SUFFICES ASSUME Init PROVE TypedRun
  OBVIOUS
<1>1. RowTyped
  <2>1. 1 \in Credentials /\ 0 \in 0..MaxEvents
    BY RefreshAssumption DEF Credentials
  <2>2. live \in SUBSET Credentials
    BY <2>1 DEF Init
  <2> QED  BY <2>1, <2>2 DEF Init, RowTyped, States, Ages
<1>2. LocalTyped /\ LeaseTyped /\ TokensGot
  BY DEF Init, LocalTyped, LeaseTyped, TokensGot, Places, Answers
<1> QED  BY <1>1, <1>2 DEF TypedRun

\* Every variable keeps its type.
THEOREM TypeCorrect == Spec => []TypeOK
<1>1. TypedRun => TypeOK
  BY TypeParts DEF TypedRun
<1> QED  BY <1>1, InitTyped, StepTyped, PTL DEF Spec

-----------------------------------------------------------------------------
(* Verdicts.  An actor whose revision is the row's has the row's           *)
(* credential, so that what it writes is about it.                         *)

CurrentViews == \A x \in current : view[x] = credential

VerdictInv == TypedRun /\ CurrentViews /\ NoStaleVerdict

LEMMA SetStateJudges ==
    ASSUME NEW s \in States, SetState(s, credential), spared' = (spared /\ ~enabled),
           credential' = credential, TypedRun, NoStaleVerdict
    PROVE  NoStaleVerdict'
<1>1. CASE enabled
  BY <1>1 DEF SetState, NoStaleVerdict
<1>2. CASE ~enabled
  BY <1>2 DEF SetState, NoStaleVerdict
<1> QED  BY <1>1, <1>2

LEMMA ApplyStateJudges ==
    ASSUME NEW x \in Actors, NEW s \in States, ApplyState(x, s),
           credential' = credential, VerdictInv
    PROVE  NoStaleVerdict'
<1>1. CASE x \in current
  <2>1. SetState(s, credential) /\ spared' = (spared /\ ~enabled)
    BY <1>1 DEF ApplyState, WriteState, VerdictInv, CurrentViews
  <2> QED  BY <2>1, SetStateJudges DEF VerdictInv
<1>2. CASE x \notin current
  BY <1>2 DEF ApplyState, VerdictInv, NoStaleVerdict
<1> QED  BY <1>1, <1>2

LEMMA ReplaceJudges ==
    ASSUME NEW c, NEW ages, Replace(c, ages), NoStaleVerdict
    PROVE  NoStaleVerdict' /\ CurrentViews'
<1>1. CurrentViews'
  BY DEF Replace, Bump, CurrentViews
<1>2. CASE enabled
  BY <1>1, <1>2 DEF Replace, SetState, NoStaleVerdict
<1>3. CASE ~enabled
  BY <1>1, <1>3 DEF Replace, SetState, NoStaleVerdict
<1> QED  BY <1>2, <1>3

LEMMA ForgetViews ==
    ASSUME NEW r \in Refreshers, Forget(r), current' = current \ {r},
           credential' = credential, TypedRun, CurrentViews
    PROVE  CurrentViews'
BY DEF Forget, TypedRun, LocalTyped, CurrentViews, Actors

LEMMA RefreshJudges ==
    ASSUME NEW r \in Refreshers, VerdictInv, RefreshStep(r)
    PROVE  CurrentViews' /\ NoStaleVerdict'
<1>0. r \in Actors
  BY DEF Actors
<1>1. CASE ListDue(r)
  BY <1>0, <1>1 DEF ListDue, LoadRow, VerdictInv, TypedRun, LocalTyped, CurrentViews, NoStaleVerdict, rowVars, historyVars
<1>2. CASE TakeCapacity(r) \/ TakeLease(r) \/ Exchange(r)
  BY <1>2 DEF TakeCapacity, TakeLease, Exchange, Rotate, Renew, Fail, Answered,
              VerdictInv, CurrentViews, NoStaleVerdict, rowVars, historyVars
<1>3. ASSUME LeaveRow(r), UNCHANGED historyVars PROVE CurrentViews' /\ NoStaleVerdict'
  BY <1>3, ForgetViews DEF LeaveRow, ForgetRow, rowVars, historyVars, VerdictInv, NoStaleVerdict
<1>4. CASE LeaseUnavailable(r) \/ Stale(r)
  BY <1>3, <1>4 DEF LeaseUnavailable, Stale
<1>5. CASE PersistSuccess(r)
  BY <1>5, ReplaceJudges DEF PersistSuccess, VerdictInv
<1>6. CASE CheckTerminal(r)
  <2>1. CASE LeaveRow(r)
    BY <1>3, <1>6, <2>1 DEF CheckTerminal
  <2>2. CASE UNCHANGED <<rowVars, view, current>>
    BY <1>6, <2>2 DEF CheckTerminal, rowVars, historyVars, VerdictInv, CurrentViews, NoStaleVerdict
  <2> QED  BY <1>6, <2>1, <2>2 DEF CheckTerminal
<1>7. CASE PersistTerminal(r)
  <2>1. CurrentViews'
    BY <1>7, ForgetViews DEF PersistTerminal, Finish, VerdictInv
  <2>2. PICK s \in States : ApplyState(r, s)
    BY <1>7 DEF PersistTerminal, States
  <2>3. NoStaleVerdict'
    BY <1>0, <1>7, <2>2, ApplyStateJudges DEF PersistTerminal
  <2> QED  BY <2>1, <2>3
<1>8. CASE Defer(r)
  <2>1. CurrentViews'
    BY <1>8 DEF Defer, Bump, CurrentViews
  <2>2. view[r] = credential /\ credential' = credential
    BY <1>8 DEF Defer, VerdictInv, CurrentViews
  <2>3. CASE answer[r] = "refused"
    <3>1. SetState("ready", credential) /\ spared' = (spared /\ ~enabled)
      BY <1>8, <2>2, <2>3 DEF Defer
    <3> QED  BY <2>1, <2>2, <3>1, SetStateJudges DEF VerdictInv, States
  <2>4. CASE answer[r] # "refused"
    BY <1>8, <2>1, <2>2, <2>4 DEF Defer, VerdictInv, NoStaleVerdict
  <2> QED  BY <2>3, <2>4
<1> QED
  BY <1>1, <1>2, <1>4, <1>5, <1>6, <1>7, <1>8 DEF RefreshStep

LEMMA RequestJudges ==
    ASSUME NEW q \in Requests, VerdictInv, RequestStep(q)
    PROVE  CurrentViews' /\ NoStaleVerdict'
<1>0. q \in Actors
  BY DEF Actors
<1>1. CASE Send(q)
  BY <1>0, <1>1 DEF Send, LoadRow, VerdictInv, TypedRun, LocalTyped, CurrentViews, NoStaleVerdict, rowVars, historyVars
<1>2. CASE CaptureCookies(q)
  BY <1>2 DEF CaptureCookies, rowVars, VerdictInv, CurrentViews, NoStaleVerdict
<1>3. CASE Unauthorized(q) \/ Deactivated(q) \/ Succeed(q)
  <2>1. PICK s \in States : ApplyState(q, s)
    BY <1>3 DEF Unauthorized, Deactivated, Succeed, ApplyState, States
  <2>2. EndRequest(q)
    BY <1>3 DEF Unauthorized, Deactivated, Succeed
  <2>3. CurrentViews'
    BY <1>0, <2>2 DEF EndRequest, VerdictInv, TypedRun, LocalTyped, CurrentViews
  <2>4. NoStaleVerdict'
    BY <1>0, <2>1, <2>2, ApplyStateJudges DEF EndRequest
  <2> QED  BY <2>3, <2>4
<1> QED  BY <1>1, <1>2, <1>3 DEF RequestStep

LEMMA OutsideJudges ==
    ASSUME VerdictInv, Reauthorize \/ Disable \/ Recover \/ Age \/ RetryTimeComes
    PROVE  CurrentViews' /\ NoStaleVerdict'
<1>1. CASE Reauthorize
  BY <1>1, ReplaceJudges DEF Reauthorize, VerdictInv
<1>2. CASE Disable \/ Age \/ RetryTimeComes
  BY <1>2 DEF Disable, Age, RetryTimeComes, localVars, historyVars, VerdictInv, CurrentViews, NoStaleVerdict
<1>3. CASE Recover
  <2>1. CurrentViews'
    BY <1>3 DEF Recover, VerdictInv, CurrentViews
  <2>2. CASE enabled
    BY <1>3, <2>1, <2>2 DEF Recover, SetState, NoStaleVerdict
  <2>3. CASE ~enabled
    BY <1>3, <2>1, <2>3 DEF Recover, VerdictInv, NoStaleVerdict
  <2> QED  BY <2>2, <2>3
<1> QED  BY <1>1, <1>2, <1>3

LEMMA FaultJudges ==
    ASSUME NEW r \in Refreshers, VerdictInv,
           LoadCurrent(r) \/ LeaseOutlived(r) \/ LeftLeaseExpires(r) \/ Die(r)
    PROVE  CurrentViews' /\ NoStaleVerdict'
<1>0. r \in Actors
  BY DEF Actors
<1>1. CASE LoadCurrent(r)
  BY <1>0, <1>1 DEF LoadCurrent, LoadRow, VerdictInv, TypedRun, LocalTyped, CurrentViews, NoStaleVerdict, rowVars, historyVars
<1>2. CASE LeaseOutlived(r) \/ LeftLeaseExpires(r)
  BY <1>2 DEF LeaseOutlived, LeftLeaseExpires, rowVars, localVars, historyVars, VerdictInv, CurrentViews, NoStaleVerdict
<1>3. CASE Die(r)
  BY <1>3, ForgetViews DEF Die, ForgetRow, rowVars, VerdictInv, NoStaleVerdict
<1> QED  BY <1>1, <1>2, <1>3

LEMMA StepJudges == VerdictInv /\ [Next]_vars => VerdictInv'
<1> SUFFICES ASSUME VerdictInv, [Next]_vars PROVE VerdictInv'
  OBVIOUS
<1>1. TypedRun'
  BY StepTyped DEF VerdictInv
<1>2. CASE UNCHANGED vars
  BY <1>1, <1>2 DEF vars, rowVars, localVars, historyVars, VerdictInv, CurrentViews, NoStaleVerdict
<1> QED
  BY <1>1, <1>2, RefreshJudges, RequestJudges, OutsideJudges, FaultJudges DEF Next, VerdictInv

\* An account is condemned for what the upstream said of the credential it has
\* now, whatever was replaced or reported in between (apply_provider_account_state).
THEOREM NoStaleVerdictHolds == Spec => []NoStaleVerdict
<1>1. Init => VerdictInv
  BY InitTyped DEF Init, VerdictInv, CurrentViews, NoStaleVerdict
<1>2. VerdictInv => NoStaleVerdict
  BY DEF VerdictInv
<1> QED  BY <1>1, <1>2, StepJudges, PTL DEF Spec

-----------------------------------------------------------------------------
(* Tokens.  Of the refreshes that still have the revision of the row, one  *)
(* at a time is between its lease and its write; what it received is the   *)
(* successor the upstream accepts.                                         *)

LeaseExclusive == \A a, b \in lease : a = b

LeasedHeld ==
    \A r \in current \cap Refreshers :
        pc[r] \in {"leased", "answered"} => <<r, "held">> \in lease \/ excused

HasTokens(r) == pc[r] = "answered" /\ answer[r] = "tokens"

TokensLive ==
    \A r \in current \cap Refreshers : HasTokens(r) => got[r] \in live \/ excused

TokenParts == LeaseExclusive /\ LeasedHeld /\ TokensLive /\ TokensKept
TokenInv == TypedRun /\ TokenParts

LEMMA KeptByName ==
    TokensKept <=> \/ credential \in live
                   \/ \E r \in current \cap Refreshers : HasTokens(r) /\ got[r] \in live
                   \/ excused
BY DEF TokensKept, HasTokens

\* Two refreshes with the revision of the row are not past their leases together.
LEMMA OneExchange ==
    ASSUME TokenParts, ~excused,
           NEW r \in current \cap Refreshers, NEW s \in current \cap Refreshers,
           pc[r] \in {"leased", "answered"}, pc[s] \in {"leased", "answered"}
    PROVE  r = s
<1>1. <<r, "held">> \in lease /\ <<s, "held">> \in lease
  BY DEF TokenParts, LeasedHeld
<1>2. <<r, "held">> = <<s, "held">>
  BY <1>1 DEF TokenParts, LeaseExclusive
<1> QED  BY <1>2

OthersHold(r) ==
    \A s \in Refreshers \ {r} : <<s, "held">> \in lease => <<s, "held">> \in lease'

LEMMA UnguardKeeps ==
    ASSUME NEW r \in Refreshers, LeaseExclusive, Unguard(r)
    PROVE  LeaseExclusive' /\ OthersHold(r)
<1>1. CASE Release(r)
  BY <1>1 DEF Release, LeaseExclusive, OthersHold
<1>2. CASE Leave(r)
  BY <1>2 DEF Leave, LeftOver, LeaseExclusive, OthersHold
<1> QED  BY <1>1, <1>2 DEF Unguard

\* The end of a refresh that had no tokens to store.
LEMMA ForgetKeeps ==
    ASSUME NEW r \in Refreshers, TokenInv, Forget(r),
           current' \subseteq current \ {r},
           LeaseExclusive', OthersHold(r),
           r \in current /\ HasTokens(r) => excused',
           excused => excused',
           current' = current \ {r} \/ credential \in live \/ excused',
           UNCHANGED <<credential, live>>
    PROVE  TokenParts'
<1>1. \A s \in Refreshers \ {r} :
        /\ pc'[s] = pc[s]
        /\ answer'[s] = answer[s]
        /\ got'[s] = got[s]
  BY DEF Forget, TokenInv, TypedRun, LocalTyped, Actors
<1>2. \A s \in current' : s \in current /\ s # r
  OBVIOUS
<1>3. LeasedHeld'
  BY <1>1, <1>2 DEF LeasedHeld, TokenInv, TokenParts, OthersHold
<1>4. TokensLive'
  BY <1>1, <1>2 DEF TokensLive, HasTokens, TokenInv, TokenParts
<1>5. TokensKept'
  <2>1. CASE credential \in live \/ excused
    BY <2>1 DEF TokensKept
  <2>2. CASE ~(credential \in live \/ excused)
    <3>1. PICK s \in current \cap Refreshers : HasTokens(s) /\ got[s] \in live
      BY <2>2, KeptByName DEF TokenInv, TokenParts
    <3>2. CASE s = r
      BY <3>1, <3>2 DEF TokensKept
    <3>3. CASE s # r /\ current' = current \ {r}
      <4>1. s \in current' \cap Refreshers
        BY <3>3
      <4>2. HasTokens(s)' /\ (got[s] \in live)'
        BY <1>1, <3>1, <3>3 DEF HasTokens
      <4> QED  BY <4>1, <4>2 DEF TokensKept, HasTokens
    <3>4. CASE excused'
      BY <3>4 DEF TokensKept
    <3> QED  BY <2>2, <3>2, <3>3, <3>4
  <2> QED  BY <2>1, <2>2
<1> QED  BY <1>3, <1>4, <1>5 DEF TokenParts

LEMMA LeaveRowKeeps ==
    ASSUME NEW r \in Refreshers, TokenInv, LeaveRow(r), ~(r \in current /\ HasTokens(r)),
           UNCHANGED <<upstreamVars, historyVars>>
    PROVE  TokenParts'
<1>1. LeaseExclusive' /\ OthersHold(r)
  BY UnguardKeeps DEF LeaveRow, TokenInv, TokenParts
<1> QED
  BY <1>1, ForgetKeeps DEF LeaveRow, ForgetRow, rowVars, upstreamVars, historyVars

\* What another exchange received survives a step that changes r only.
LEMMA ListKeeps ==
    ASSUME NEW r \in Refreshers, TokenInv, ListDue(r) \/ LoadCurrent(r)
    PROVE  TokenParts'
<1>1. /\ current' = current \cup {r}
      /\ pc' = [pc EXCEPT ![r] = "loaded"]
      /\ pc[r] = "idle"
      /\ UNCHANGED <<credential, live, lease, answer, got, excused>>
  BY DEF ListDue, LoadCurrent, LoadRow, rowVars, upstreamVars, leaseVars, historyVars
<1>2. pc \in [Actors -> Places] /\ r \in Actors
  BY DEF TokenInv, TypedRun, LocalTyped, Actors
<1>3. LeaseExclusive' /\ LeasedHeld' /\ TokensLive'
  BY <1>1, <1>2 DEF TokenInv, TokenParts, LeaseExclusive, LeasedHeld, TokensLive, HasTokens
<1>4. TokensKept'
  BY <1>1, <1>2 DEF TokenInv, TokenParts, TokensKept
<1> QED  BY <1>3, <1>4 DEF TokenParts

LEMMA LeasesKeep ==
    ASSUME NEW r \in Refreshers, TokenInv, TakeCapacity(r) \/ TakeLease(r)
    PROVE  TokenParts'
<1>1. pc \in [Actors -> Places] /\ r \in Actors
  BY DEF TokenInv, TypedRun, LocalTyped, Actors
<1>2. UNCHANGED <<credential, live, current, answer, got, excused>>
  BY DEF TakeCapacity, TakeLease, rowVars, upstreamVars, historyVars
<1>3. pc[r] # "answered"
  BY DEF TakeCapacity, TakeLease
<1>4. \A s \in Refreshers : s # r => pc'[s] = pc[s]
  BY <1>1 DEF TakeCapacity, TakeLease, Actors
<1>5. pc'[r] \in {"counted", "leased"}
  BY <1>1 DEF TakeCapacity, TakeLease
<1>6. LeaseExclusive' /\ LeasedHeld'
  <2>1. CASE TakeCapacity(r)
    <3>1. lease' = lease /\ pc'[r] = "counted"
      BY <1>1, <2>1 DEF TakeCapacity
    <3> QED  BY <1>2, <1>4, <3>1 DEF TokenInv, TokenParts, LeaseExclusive, LeasedHeld
  <2>2. CASE TakeLease(r)
    <3>1. lease = {} /\ lease' = {<<r, "held">>}
      BY <2>2 DEF TakeLease
    <3> QED  BY <1>2, <1>4, <3>1 DEF TokenInv, TokenParts, LeaseExclusive, LeasedHeld
  <2> QED  BY <2>1, <2>2
<1>7. TokensLive' /\ TokensKept'
  BY <1>2, <1>3, <1>4, <1>5 DEF TokenInv, TokenParts, TokensLive, TokensKept, HasTokens
<1> QED  BY <1>6, <1>7 DEF TokenParts

LEMMA ExchangeKeeps ==
    ASSUME NEW r \in Refreshers, TokenInv, Exchange(r)
    PROVE  TokenParts'
<1>0. /\ pc \in [Actors -> Places] /\ r \in Actors
      /\ answer \in [Refreshers -> Answers]
      /\ got \in [Refreshers -> Credentials \cup {NoCredential}]
  BY DEF TokenInv, TypedRun, LocalTyped, Actors
<1>1. pc[r] = "leased"
  BY DEF Exchange, Rotate, Renew, Fail
<1>2. UNCHANGED <<credential, current, lease>> /\ pc' = [pc EXCEPT ![r] = "answered"]
  BY DEF Exchange, Rotate, Renew, Fail, Answered, rowVars, leaseVars
<1>3. \A s \in Refreshers : s # r => pc'[s] = pc[s] /\ answer'[s] = answer[s] /\ got'[s] = got[s]
  BY <1>0 DEF Exchange, Rotate, Renew, Fail, Answered, Actors
<1>4. excused => excused'
  BY DEF Exchange, Rotate, Renew, Fail
<1>5. LeaseExclusive' /\ LeasedHeld'
  BY <1>0, <1>1, <1>2, <1>3, <1>4 DEF TokenInv, TokenParts, LeaseExclusive, LeasedHeld
<1>6. CASE excused'
  BY <1>5, <1>6 DEF TokenParts, TokensLive, TokensKept
<1>7. CASE ~excused' /\ Rotate(r)
  <2>1. /\ r \in current
        /\ live' = (live \ {view[r]}) \cup {issued + 1}
        /\ answer'[r] = "tokens"
        /\ got'[r] = issued + 1
    <3>1. r \in current /\ Answered(r, "tokens", issued + 1)
      BY <1>7 DEF Rotate
    <3>2. live' = (live \ {view[r]}) \cup {issued + 1}
      BY <1>7 DEF Rotate
    <3> QED  BY <1>0, <3>1, <3>2 DEF Answered
  <2>2. \A s \in current \cap Refreshers : HasTokens(s)' => s = r
    <3>1. SUFFICES ASSUME NEW s \in current \cap Refreshers, HasTokens(s)', s # r PROVE FALSE
      OBVIOUS
    <3>2. pc[s] = "answered"
      BY <1>3, <3>1 DEF HasTokens
    <3>3. r \in current \cap Refreshers /\ ~excused
      BY <1>4, <1>7, <2>1
    <3> QED  BY <1>1, <3>1, <3>2, <3>3, OneExchange DEF TokenInv
  <2>3. TokensLive'
    BY <1>2, <2>1, <2>2 DEF TokensLive
  <2>4. TokensKept'
    BY <1>0, <1>2, <2>1 DEF TokensKept
  <2> QED  BY <1>5, <2>3, <2>4 DEF TokenParts
<1>8. CASE ~excused' /\ (Renew(r) \/ Fail(r))
  <2>1. live' = live /\ ~excused
    BY <1>4, <1>8 DEF Renew, Fail, upstreamVars
  <2>2. answer'[r] = "tokens" => got'[r] \in live
    BY <1>0, <1>8 DEF Renew, Fail, Answered
  <2>3. TokensLive'
    BY <1>1, <1>2, <1>3, <2>1, <2>2 DEF TokenInv, TokenParts, TokensLive, HasTokens
  <2>4. TokensKept'
    <3>1. CASE credential \in live
      BY <1>2, <2>1, <3>1 DEF TokensKept
    <3>2. CASE credential \notin live
      <4>1. PICK s \in current \cap Refreshers : HasTokens(s) /\ got[s] \in live
        BY <2>1, <3>2, KeptByName DEF TokenInv, TokenParts
      <4>2. s # r
        BY <1>1, <4>1 DEF HasTokens
      <4>3. HasTokens(s)' /\ got'[s] \in live' /\ s \in current' \cap Refreshers
        BY <1>2, <1>3, <2>1, <4>1, <4>2 DEF HasTokens
      <4> QED  BY <4>3 DEF TokensKept, HasTokens
    <3> QED  BY <3>1, <3>2
  <2> QED  BY <1>5, <2>3, <2>4 DEF TokenParts
<1> QED  BY <1>6, <1>7, <1>8 DEF Exchange

LEMMA WriteKeeps ==
    ASSUME NEW r \in Refreshers, TokenInv,
           PersistSuccess(r) \/ PersistTerminal(r) \/ Defer(r)
    PROVE  TokenParts'
<1>1. Finish(r) /\ UNCHANGED <<live, excused>>
  BY DEF PersistSuccess, PersistTerminal, Defer, upstreamVars
<1>2. LeaseExclusive' /\ OthersHold(r)
  BY <1>1, UnguardKeeps DEF Finish, TokenInv, TokenParts
<1>3. CASE PersistSuccess(r)
  <2>1. current' = {} /\ credential' = got[r]
    BY <1>3 DEF PersistSuccess, Replace, Bump
  <2>2. got[r] \in live \/ excused
    BY <1>3 DEF PersistSuccess, HasTokens, TokenInv, TokenParts, TokensLive
  <2> QED  BY <1>1, <1>2, <2>1, <2>2 DEF TokenParts, LeasedHeld, TokensLive, TokensKept
<1>4. CASE PersistTerminal(r)
  <2>1. ~HasTokens(r) /\ credential' = credential /\ current' = current \ {r}
    BY <1>4 DEF PersistTerminal, HasTokens
  <2> QED  BY <1>1, <1>2, <2>1, ForgetKeeps DEF Finish
<1>5. CASE Defer(r)
  <2>1. /\ r \in current \cap Refreshers
        /\ pc[r] = "answered"
        /\ ~HasTokens(r)
        /\ credential' = credential
        /\ current' = {}
    BY <1>5 DEF Defer, Bump, HasTokens
  <2>2. credential \in live \/ excused
    <3>1. ASSUME NEW s \in current \cap Refreshers, HasTokens(s), ~excused PROVE FALSE
      <4>1. s = r
        BY <2>1, <3>1, OneExchange DEF HasTokens, TokenInv
      <4> QED  BY <2>1, <3>1, <4>1
    <3> QED  BY <3>1, KeptByName DEF TokenInv, TokenParts
  <2> QED  BY <1>1, <1>2, <2>1, <2>2 DEF TokenParts, LeasedHeld, TokensLive, TokensKept
<1> QED  BY <1>3, <1>4, <1>5

LEMMA CheckTerminalKeeps ==
    ASSUME NEW r \in Refreshers, TokenInv, CheckTerminal(r)
    PROVE  TokenParts'
<1>0. ~HasTokens(r)
  BY DEF CheckTerminal, Terminal, HasTokens
<1>1. CASE LeaveRow(r)
  BY <1>0, <1>1, LeaveRowKeeps DEF CheckTerminal
<1>2. CASE pc' = [pc EXCEPT ![r] = "condemning"]
           /\ UNCHANGED <<rowVars, view, current, untouched, exhausted, answer, got, leaseVars, events>>
  <2>1. UNCHANGED <<credential, live, current, answer, got, lease, excused>>
    BY <1>2 DEF CheckTerminal, rowVars, upstreamVars, leaseVars, historyVars
  <2>2. /\ \A s \in Refreshers : s # r => pc'[s] = pc[s]
        /\ pc'[r] = "condemning"
    BY <1>2 DEF TokenInv, TypedRun, LocalTyped, Actors
  <2>3. LeaseExclusive' /\ LeasedHeld' /\ TokensLive'
    BY <2>1, <2>2 DEF TokenInv, TokenParts, LeaseExclusive, LeasedHeld, TokensLive, HasTokens
  <2>4. TokensKept'
    BY <1>0, <2>1, <2>2 DEF TokenInv, TokenParts, TokensKept, HasTokens
  <2> QED  BY <2>3, <2>4 DEF TokenParts
<1> QED  BY <1>1, <1>2 DEF CheckTerminal

LEMMA RefreshKeeps ==
    ASSUME NEW r \in Refreshers, TokenInv, RefreshStep(r)
    PROVE  TokenParts'
<1>1. CASE LeaseUnavailable(r)
  <2>1. ~HasTokens(r)
    BY <1>1 DEF LeaseUnavailable, HasTokens
  <2> QED  BY <1>1, <2>1, LeaveRowKeeps DEF LeaseUnavailable
<1>2. CASE Stale(r)
  <2>1. ~(r \in current /\ HasTokens(r))
    BY <1>2 DEF Stale, HasTokens
  <2> QED  BY <1>2, <2>1, LeaveRowKeeps DEF Stale
<1> QED
  BY <1>1, <1>2, ListKeeps, LeasesKeep, ExchangeKeeps, WriteKeeps, CheckTerminalKeeps DEF RefreshStep

\* A request has no part in an exchange, but a cookie it stores outdates the others.
LEMMA RequestKeeps ==
    ASSUME NEW q \in Requests, TokenInv, RequestStep(q)
    PROVE  TokenParts'
<1>0. q \in Actors /\ q \notin Refreshers
  BY RefreshAssumption DEF Actors
<1>1. CASE Send(q) \/ Unauthorized(q) \/ Deactivated(q) \/ Succeed(q)
  <2>1. UNCHANGED <<credential, live, answer, got, lease, excused>>
    BY <1>1 DEF Send, Unauthorized, Deactivated, Succeed, EndRequest, rowVars, upstreamVars, leaseVars, historyVars
  <2>2. \A s \in Refreshers : pc'[s] = pc[s]
    BY <1>0, <1>1 DEF Send, Unauthorized, Deactivated, Succeed, EndRequest, TokenInv, TypedRun, LocalTyped, Actors
  <2>3. current' \cap Refreshers = current \cap Refreshers
    BY <1>0, <1>1 DEF Send, Unauthorized, Deactivated, Succeed, EndRequest, LoadRow
  <2>4. LeaseExclusive' /\ LeasedHeld' /\ TokensLive'
    BY <2>1, <2>2, <2>3 DEF TokenInv, TokenParts, LeaseExclusive, LeasedHeld, TokensLive, HasTokens
  <2>5. TokensKept'
    BY <2>1, <2>2, <2>3 DEF TokenInv, TokenParts, TokensKept
  <2> QED  BY <2>4, <2>5 DEF TokenParts
<1>2. CASE CaptureCookies(q)
  <2>1. current' \cap Refreshers = {} /\ UNCHANGED <<credential, live, lease>>
    BY <1>0, <1>2 DEF CaptureCookies, rowVars, upstreamVars, leaseVars
  <2>2. credential \in live \/ excused'
    BY <1>2 DEF CaptureCookies, TokenInv, TokenParts, TokensKept
  <2> QED  BY <2>1, <2>2 DEF TokenInv, TokenParts, LeaseExclusive, LeasedHeld, TokensLive, TokensKept
<1> QED  BY <1>1, <1>2 DEF RequestStep

LEMMA OutsideKeeps ==
    ASSUME TokenInv, Reauthorize \/ Disable \/ Recover \/ Age \/ RetryTimeComes
    PROVE  TokenParts'
<1>1. CASE Reauthorize
  <2>1. /\ current' = {} /\ lease' = lease
        /\ credential' = issued + 1 /\ live' = live \cup {issued + 1}
    BY <1>1 DEF Reauthorize, Replace, Bump, leaseVars
  <2> QED  BY <2>1 DEF TokenInv, TokenParts, LeaseExclusive, LeasedHeld, TokensLive, TokensKept
<1>2. CASE Disable \/ Recover \/ Age \/ RetryTimeComes
  <2>1. UNCHANGED <<credential, live, pc, current, answer, got, lease, excused>>
    BY <1>2 DEF Disable, Recover, Age, RetryTimeComes, upstreamVars, leaseVars, localVars, historyVars
  <2> QED  BY <2>1 DEF TokenInv, TokenParts, LeaseExclusive, LeasedHeld, TokensLive, TokensKept, HasTokens
<1> QED  BY <1>1, <1>2

LEMMA FaultKeeps ==
    ASSUME NEW r \in Refreshers, TokenInv,
           LeaseOutlived(r) \/ LeftLeaseExpires(r) \/ Die(r)
    PROVE  TokenParts'
<1>1. CASE LeaseOutlived(r)
  BY <1>1 DEF LeaseOutlived, TokenParts, LeaseExclusive, LeasedHeld, TokensLive, TokensKept
<1>2. CASE LeftLeaseExpires(r)
  <2>1. /\ lease' = lease \ {<<r, "left">>}
        /\ UNCHANGED <<credential, live, pc, current, answer, got, excused>>
    BY <1>2 DEF LeftLeaseExpires, rowVars, upstreamVars, localVars, historyVars
  <2> QED  BY <2>1 DEF TokenInv, TokenParts, LeaseExclusive, LeasedHeld, TokensLive, TokensKept, HasTokens
<1>3. CASE Die(r)
  <2>1. LeaseExclusive' /\ OthersHold(r)
    <3>1. Leave(r)
      BY <1>3 DEF Die
    <3> QED  BY <3>1 DEF Leave, LeftOver, LeaseExclusive, OthersHold, TokenInv, TokenParts
  <2>2. /\ Forget(r) /\ current' = current \ {r}
        /\ UNCHANGED <<credential, live>>
        /\ excused' = (excused \/ answer[r] = "tokens")
    BY <1>3 DEF Die, ForgetRow, rowVars, upstreamVars
  <2>3. HasTokens(r) => excused'
    BY <2>2 DEF HasTokens
  <2> QED  BY <2>1, <2>2, <2>3, ForgetKeeps
<1> QED  BY <1>1, <1>2, <1>3

LEMMA StepKeeps == TokenInv /\ [Next]_vars => TokenInv'
<1> SUFFICES ASSUME TokenInv, [Next]_vars PROVE TokenInv'
  OBVIOUS
<1>1. TypedRun'
  BY StepTyped DEF TokenInv
<1>2. CASE UNCHANGED vars
  <2>1. TokenParts'
    BY <1>2 DEF vars, rowVars, upstreamVars, localVars, leaseVars, historyVars,
                TokenInv, TokenParts, LeaseExclusive, LeasedHeld, TokensLive, TokensKept, HasTokens
  <2> QED  BY <1>1, <2>1 DEF TokenInv
<1>3. CASE Next
  BY <1>1, <1>3, RefreshKeeps, ListKeeps, RequestKeeps, OutsideKeeps, FaultKeeps DEF Next, TokenInv
<1> QED  BY <1>2, <1>3

\* The refresh token of the row, or its successor in the hands of the one
\* refresh that can store it, is the one the upstream accepts, unless what
\* excuses it has happened (rotate_refreshed_oauth_secret, the refresh lease).
THEOREM TokensKeptHolds == Spec => []TokensKept
<1>1. Init => TokenInv
  <2>1. Init => TokenParts
    BY DEF Init, TokenParts, LeaseExclusive, LeasedHeld, TokensLive, TokensKept
  <2> QED  BY <2>1, InitTyped DEF TokenInv
<1>2. TokenInv => TokensKept
  BY DEF TokenInv, TokenParts
<1> QED  BY <1>1, <1>2, StepKeeps, PTL DEF Spec


-----------------------------------------------------------------------------
(* The slots of the pool and the leases of them.  Who has a connection is  *)
(* said by the field for it, of the slot, the call or the task.            *)

\* What a slot, a call and a task have in hand goes with where they are.
Shaped ==
    /\ \A k \in Keys :
         /\ slot[k].conn # NoConn <=> slot[k].what \in {"idle", "busy"}
         /\ slot[k].what = "connecting" <=> slot[k].job # NoOpening
    /\ \A w \in Calls :
         /\ call[w].conn # NoConn <=> InHand(w)
         /\ call[w].at \in {"leased", "opening", "joined"} => call[w].job # NoOpening
    /\ \A o \in Openings : task[o].conn # NoConn <=> task[o].does = "connected"

\* A connection is in one slot, and in the hands of one call or task; an idle
\* one is in nobody's.
SlotsApart == \A k, l \in Keys : slot[k].conn = slot[l].conn => k = l \/ slot[k].conn = NoConn
CallsApart == \A v, w \in Calls : call[v].conn = call[w].conn => v = w \/ call[v].conn = NoConn
TasksApart == \A o, p \in Openings : task[o].conn = task[p].conn => o = p \/ task[o].conn = NoConn
HandsApart == \A w \in Calls, o \in Openings : call[w].conn = task[o].conn => call[w].conn = NoConn
IdleFree ==
    \A k \in Keys : slot[k].what = "idle" =>
        /\ \A w \in Calls : call[w].conn # slot[k].conn
        /\ \A o \in Openings : task[o].conn # slot[k].conn

\* A reserved slot has a call or a task that holds its lease.
Reserved ==
    \A k \in Keys : slot[k].what = "busy" =>
        \/ \E w \in Calls : call[w].key = k /\ call[w].conn = slot[k].conn
        \/ \E o \in Openings : task[o].key = k /\ task[o].conn = slot[k].conn

\* Who holds a lease has its slot, unless the pool took it away.
CallEntitled ==
    \A w \in Calls : call[w].conn # NoConn =>
        OwnsReservation(call[w].key, call[w].conn) \/ call[w].conn \in revoked
TaskEntitled ==
    \A o \in Openings : task[o].conn # NoConn =>
        OwnsReservation(task[o].key, task[o].conn) \/ task[o].conn \in revoked

\* The same for connect leases, and each that was not used yet is of one call.
SlotOpened ==
    \A k \in Keys : slot[k].what = "connecting" =>
        slot[k].job \in Leasing /\ task[slot[k].job].key = k
LeaseEntitled == \A o \in Leasing : OwnsConnect(o) \/ task[o].cancelled
UnusedLease == \A w \in Calls : call[w].at = "leased" => task[call[w].job].does = "leased"
UnusedApart ==
    \A v, w \in Calls :
        call[v].at = "leased" /\ call[w].at = "leased" /\ call[v].job = call[w].job => v = w

LeaseInv ==
    /\ SlotsApart /\ CallsApart /\ TasksApart /\ HandsApart /\ IdleFree
    /\ Reserved /\ CallEntitled /\ TaskEntitled
    /\ SlotOpened /\ LeaseEntitled /\ UnusedLease /\ UnusedApart

PoolInv == PoolTypeOK /\ Shaped /\ LeaseInv

-----------------------------------------------------------------------------
(* The shape of the state.                                                 *)

SlotType == [what : {"none", "idle", "busy", "connecting"},
             conn : Conns \cup {NoConn}, job : Openings \cup {NoOpening}]
CallType == [at : CallPlaces, kind : CallKinds, key : Keys,
             job : Openings \cup {NoOpening}, conn : Conns \cup {NoConn}, permit : Permits]
TaskType == [does : Works, key : Keys, conn : Conns \cup {NoConn},
             permit : Permits, cancelled : BOOLEAN]

\* What is put into the maps has their type.
LEMMA NewRecords ==
    /\ AnyKey \in Keys
    /\ Empty \in SlotType /\ Empty.what = "none" /\ Empty.conn = NoConn /\ Empty.job = NoOpening
    /\ Out \in CallType /\ Out.at = "idle" /\ Out.conn = NoConn
    /\ Fresh \in TaskType /\ Fresh.does = "free" /\ Fresh.conn = NoConn
    /\ \A c \in Conns :
         /\ Idle(c) \in SlotType /\ Idle(c).what = "idle" /\ Idle(c).conn = c
         /\ Idle(c).job = NoOpening
         /\ Busy(c) \in SlotType /\ Busy(c).what = "busy" /\ Busy(c).conn = c
         /\ Busy(c).job = NoOpening
    /\ \A o \in Openings :
         /\ Connecting(o) \in SlotType /\ Connecting(o).what = "connecting"
         /\ Connecting(o).conn = NoConn /\ Connecting(o).job = o
<1>1. AnyKey \in Keys BY PoolAssumption DEF AnyKey
<1> QED BY <1>1 DEF Empty, Out, Fresh, Idle, Busy, Connecting, Slot, SlotType, CallType,
                    TaskType, CallPlaces, CallKinds, Permits, Works

\* The operators of the circuit keep it well formed.
LEMMA CircuitTyped ==
    ASSUME BreakerTypeOK, NEW o \in Openings \cup {NoOpening}, NEW p \in Permits
    PROVE  /\ UNCHANGED circuitVars => BreakerTypeOK'
           /\ o \in Openings /\ TryAcquire(o, p) => BreakerTypeOK'
           /\ RecordSuccess(o, p) => BreakerTypeOK'
           /\ RecordFailure(o, p) => BreakerTypeOK'
           /\ CancelProbe(o, p) => BreakerTypeOK'
           /\ OpenElapses => BreakerTypeOK'
           /\ FailureAges => BreakerTypeOK'
BY BreakerAssumption
   DEF BreakerTypeOK, circuitVars, TryAcquire, RecordSuccess, RecordFailure, CancelProbe,
       StillOwns, OpenElapses, FailureAges

\* Calls that hold neither a connection nor a connect lease end.
SomeEnd(f) ==
    /\ f \in [Calls -> CallType]
    /\ \A w \in Calls :
         \/ f[w] = call[w]
         \/ /\ f[w].conn = NoConn /\ f[w].at \in {"told", "idle"}
            /\ call[w].at \in {"joined", "opening"}

\* Telling those who joined an opening, or refusing the one that waits for it,
\* takes no connection and no lease from anyone.
LEMMA ToldTyped ==
    ASSUME call \in [Calls -> CallType], NEW o \in Openings
    PROVE  SomeEnd(Told(o)) /\ (Refuse(o) => SomeEnd(call'))
<1> DEFINE told == [Out EXCEPT !.at = "told"]
           f == [w \in Calls |-> IF call[w].at = "joined" /\ call[w].job = o THEN told ELSE call[w]]
           g == [w \in Calls |-> IF call[w].at = "opening" /\ call[w].job = o THEN Out ELSE call[w]]
<1>1. /\ Out \in CallType /\ Out.conn = NoConn /\ Out.at = "idle"
      /\ told \in CallType /\ told.conn = NoConn /\ told.at = "told"
  BY NewRecords DEF CallType, CallPlaces
<1> HIDE DEF told
<1>2. SomeEnd(f) BY <1>1 DEF SomeEnd
<1>3. SomeEnd(g) BY <1>1 DEF SomeEnd
<1>4. Told(o) = f BY DEF Told, told
<1>5. Refuse(o) => call' = g BY DEF Refuse
<1> QED BY <1>2, <1>3, <1>4, <1>5

\* Slots, calls and tasks of the type and shape they should have.
SlotsShaped ==
    /\ slot \in [Keys -> SlotType]
    /\ \A k \in Keys : /\ slot[k].conn # NoConn <=> slot[k].what \in {"idle", "busy"}
                       /\ slot[k].what = "connecting" <=> slot[k].job # NoOpening
CallsShaped ==
    /\ call \in [Calls -> CallType]
    /\ \A w \in Calls :
         /\ call[w].conn # NoConn <=> InHand(w)
         /\ call[w].at \in {"leased", "opening", "joined"} => call[w].job # NoOpening
TasksShaped ==
    /\ task \in [Openings -> TaskType]
    /\ \A o \in Openings : task[o].conn # NoConn <=> task[o].does = "connected"
RestTyped ==
    /\ down \in {"no", "cancelled", "drained", "stopped"}
    /\ closed \subseteq Conns /\ aged \subseteq Conns /\ revoked \subseteq Conns

PoolShape == BreakerTypeOK /\ SlotsShaped /\ CallsShaped /\ TasksShaped /\ RestTyped

LEMMA ShapeParts == PoolTypeOK /\ Shaped <=> PoolShape
BY DEF PoolTypeOK, Shaped, PoolShape, SlotsShaped, CallsShaped, TasksShaped, RestTyped, SlotType,
       CallType, TaskType

\* One slot is changed.
LEMMA AssignShaped ==
    ASSUME SlotsShaped, NEW k \in Keys, NEW s, Assign(k, s),
           s = Empty \/ (\E c \in Conns : s = Idle(c) \/ s = Busy(c))
             \/ \E o \in Openings : s = Connecting(o)
    PROVE  SlotsShaped' /\ slot'[k] = s /\ \A l \in Keys : l # k => slot'[l] = slot[l]
<1>1. s \in SlotType BY NewRecords
<1>2. /\ s.conn # NoConn <=> s.what \in {"idle", "busy"}
      /\ s.what = "connecting" <=> s.job # NoOpening
  BY NewRecords, PoolAssumption, BreakerAssumption
<1>3. slot' = [slot EXCEPT ![k] = s] BY DEF Assign
<1> QED BY <1>1, <1>2, <1>3 DEF SlotsShaped

\* Some calls that have nothing in hand end.
LEMMA EndShaped ==
    ASSUME CallsShaped, SomeEnd(call')
    PROVE  CallsShaped'
<1>1. \A w \in Calls : call'[w].conn # NoConn <=> InHand(w)' BY DEF SomeEnd, CallsShaped, InHand
<1> QED BY <1>1 DEF SomeEnd, CallsShaped

\* One call is changed, to what fits.
LEMMA CallShaped ==
    ASSUME CallsShaped, NEW w \in Calls, NEW f, SomeEnd(f), NEW r \in CallType,
           call' = [f EXCEPT ![w] = r],
           r.conn # NoConn <=> r.at \in {"delivered", "prepared", "streaming", "completed"},
           r.at \in {"leased", "opening", "joined"} => r.job # NoOpening
    PROVE  CallsShaped' /\ call'[w] = r /\ \A v \in Calls : v # w => call'[v] = f[v]
<1>1. /\ call' \in [Calls -> CallType] /\ call'[w] = r
      /\ \A v \in Calls : v # w => call'[v] = f[v]
  BY DEF SomeEnd
<1>2. \A v \in Calls : v # w =>
        /\ f[v].conn # NoConn <=> f[v].at \in {"delivered", "prepared", "streaming", "completed"}
        /\ f[v].at \in {"leased", "opening", "joined"} => f[v].job # NoOpening
  BY DEF SomeEnd, CallsShaped, InHand
<1> QED BY <1>1, <1>2 DEF CallsShaped, InHand

LEMMA NobodyEnds == CallsShaped => SomeEnd(call)
BY DEF CallsShaped, SomeEnd

\* One task is changed, to what fits.
LEMMA TaskShaped ==
    ASSUME TasksShaped, NEW o \in Openings, NEW r \in TaskType, task' = [task EXCEPT ![o] = r],
           r.conn # NoConn <=> r.does = "connected"
    PROVE  TasksShaped' /\ task'[o] = r /\ \A p \in Openings : p # o => task'[p] = task[p]
BY DEF TasksShaped

\* The sets of connections only lose members.
LEMMA UnheldTyped ==
    ASSUME RestTyped, CloseUnheld, UNCHANGED down
    PROVE  RestTyped'
BY DEF RestTyped, CloseUnheld

-----------------------------------------------------------------------------
(* What a step may do to the leases.                                       *)


\* The connections stay where they are, and so do the connect leases.
CallsKeep ==
    \A w \in Calls :
        /\ call'[w].conn = call[w].conn
        /\ call[w].conn # NoConn => call'[w].key = call[w].key
        /\ call'[w].at = "leased" => call[w].at = "leased" /\ call'[w].job = call[w].job
TasksKeep ==
    \A o \in Openings :
        /\ task'[o].conn = task[o].conn /\ task'[o].key = task[o].key
        /\ o \in Leasing' <=> o \in Leasing
        /\ task[o].cancelled => task'[o].cancelled
\* The lease of a call that has not been used is still there.
UnusedKeep == \A w \in Calls : call'[w].at = "leased" => task'[call'[w].job].does = "leased"
\* What was taken from its holder is not forgotten.
RevokedKept ==
    /\ \A w \in Calls : call'[w].conn \in revoked => call'[w].conn \in revoked'
    /\ \A o \in Openings : task'[o].conn \in revoked => task'[o].conn \in revoked'

\* The slot of a key, if it is reserved for a connection, becomes free or idle.
Vacated(k, c) ==
    \A l \in Keys : IF l = k /\ OwnsReservation(k, c)
                    THEN slot'[l] \in {Empty, Idle(c)} ELSE slot'[l] = slot[l]

\* A step that moves no connection and opens none.
LEMMA QuietLeases ==
    ASSUME LeaseInv, PoolShape, PoolShape', UNCHANGED slot, CallsKeep, TasksKeep, UnusedKeep,
           RevokedKept
    PROVE  LeaseInv'
<1>1. SlotsApart' /\ CallsApart' /\ TasksApart' /\ HandsApart' /\ IdleFree'
  BY DEF LeaseInv, SlotsApart, CallsApart, TasksApart, HandsApart, IdleFree, CallsKeep, TasksKeep
<1>2. Reserved'
  BY DEF LeaseInv, Reserved, CallsKeep, TasksKeep, PoolShape, SlotsShaped
<1>3. CallEntitled' /\ TaskEntitled'
  BY DEF LeaseInv, CallEntitled, TaskEntitled, CallsKeep, TasksKeep, RevokedKept, OwnsReservation
<1>4. SlotOpened' BY DEF LeaseInv, SlotOpened, TasksKeep, Leasing
<1>5. LeaseEntitled' BY DEF LeaseInv, LeaseEntitled, TasksKeep, Leasing, OwnsConnect
<1>6. UnusedLease' /\ UnusedApart'
  BY DEF LeaseInv, UnusedApart, UnusedLease, UnusedKeep, CallsKeep
<1> QED BY <1>1, <1>2, <1>3, <1>4, <1>5, <1>6 DEF LeaseInv

\* A call lets go of its connection, if it has one.
LEMMA CallLetsGo ==
    ASSUME LeaseInv, PoolShape, PoolShape', NEW w \in Calls, call[w].at # "leased",
           call'[w].conn = NoConn, call'[w].at # "leased",
           \A v \in Calls : v # w => call'[v] = call[v],
           TasksKeep, \A o \in Openings : task'[o].does = task[o].does,
           Vacated(call[w].key, call[w].conn), RevokedKept
    PROVE  LeaseInv'
<1> DEFINE k == call[w].key
           c == call[w].conn
<1>1. /\ k \in Keys /\ c \in Conns \cup {NoConn} /\ slot \in [Keys -> SlotType]
      /\ \A l \in Keys : slot[l].conn # NoConn <=> slot[l].what \in {"idle", "busy"}
      /\ \A v \in Calls : call[v].key \in Keys
      /\ \A o \in Openings : task[o].key \in Keys
  BY DEF PoolShape, SlotsShaped, CallsShaped, CallType, TasksShaped, TaskType
<1>2. ~OwnsReservation(k, NoConn) BY <1>1 DEF OwnsReservation
<1>3. \A v \in Calls : call'[v].conn # NoConn => v # w /\ call'[v] = call[v]
  OBVIOUS
<1>4. CallsApart' /\ TasksApart' /\ HandsApart'
  BY <1>3 DEF LeaseInv, CallsApart, TasksApart, HandsApart, TasksKeep
<1>5. LeaseEntitled' /\ SlotOpened'
  <2>1. \A l \in Keys : slot'[l] = slot[l] \/ /\ slot[l].what = "busy" 
                                              /\ slot'[l].what \in {"none", "idle"}
    BY <1>1, <1>2, NewRecords DEF Vacated, OwnsReservation
  <2>2. \A o \in Leasing' : o \in Leasing BY DEF TasksKeep, Leasing
  <2> QED
    BY <1>1, <2>1, <2>2
       DEF LeaseInv, LeaseEntitled, SlotOpened, TasksKeep, OwnsConnect, Leasing
<1>6. UnusedLease' /\ UnusedApart'
  <2>1. \A v \in Calls : call[v].at = "leased" => call[v].job \in Openings
    BY DEF PoolShape, CallsShaped, CallType
  <2>2. \A v \in Calls : call'[v].at = "leased" => v # w /\ call'[v] = call[v]
    OBVIOUS
  <2>3. UnusedLease' BY <2>1, <2>2 DEF LeaseInv, UnusedLease
  <2> QED BY <2>2, <2>3 DEF LeaseInv, UnusedApart
<1>7. CASE ~OwnsReservation(k, c)
  <2>1. \A l \in Keys : slot'[l] = slot[l] BY <1>7 DEF Vacated
  <2>2. SlotsApart' BY <2>1 DEF LeaseInv, SlotsApart
  <2>3. IdleFree' BY <1>1, <1>3, <2>1 DEF LeaseInv, IdleFree, TasksKeep
  <2>4. Reserved' BY <2>1, <1>7, <1>1 DEF LeaseInv, Reserved, TasksKeep, OwnsReservation
  <2>5. CallEntitled'
    BY <1>1, <1>3, <2>1 DEF LeaseInv, CallEntitled, RevokedKept, OwnsReservation
  <2>6. TaskEntitled'
    BY <1>1, <2>1 DEF LeaseInv, TaskEntitled, TasksKeep, RevokedKept, OwnsReservation
  <2> QED BY <1>4, <1>5, <1>6, <2>2, <2>3, <2>4, <2>5, <2>6 DEF LeaseInv
<1>8. CASE OwnsReservation(k, c)
  <2>1. /\ c # NoConn /\ slot[k].conn = c /\ slot[k].what = "busy"
        /\ slot'[k].conn \in {NoConn, c} /\ slot'[k].what \in {"none", "idle"}
        /\ \A l \in Keys : l # k => slot'[l] = slot[l]
    BY <1>1, <1>2, <1>8, NewRecords DEF Vacated, OwnsReservation
  <2>2. SlotsApart' BY <1>1, <2>1 DEF LeaseInv, SlotsApart
  <2>3. IdleFree'
    <3>1. \A l \in Keys : l # k /\ slot'[l].what = "idle" =>
            /\ \A v \in Calls : call'[v].conn # slot'[l].conn
            /\ \A o \in Openings : task'[o].conn # slot'[l].conn
      BY <1>1, <1>3, <2>1 DEF LeaseInv, IdleFree, TasksKeep
    <3>2. slot'[k].what = "idle" => slot'[k].conn = c
      BY <1>1, <2>1 DEF PoolShape, SlotsShaped
    <3>3. (\A v \in Calls : call'[v].conn # c) /\ (\A o \in Openings : task'[o].conn # c)
      BY <1>3, <2>1 DEF LeaseInv, CallsApart, HandsApart, TasksKeep
    <3> QED BY <3>1, <3>2, <3>3 DEF IdleFree
  <2>4. Reserved'
    <3>1. \A l \in Keys : slot'[l].what = "busy" => l # k BY <2>1
    <3> QED BY <1>1, <2>1, <3>1 DEF LeaseInv, Reserved, TasksKeep, SlotsApart
  <2>5. CallEntitled'
    BY <1>1, <1>3, <2>1 DEF LeaseInv, CallEntitled, RevokedKept, OwnsReservation, CallsApart
  <2>6. TaskEntitled'
    BY <1>1, <2>1 DEF LeaseInv, TaskEntitled, TasksKeep, RevokedKept, OwnsReservation, HandsApart
  <2> QED BY <1>4, <1>5, <1>6, <2>2, <2>3, <2>4, <2>5, <2>6 DEF LeaseInv
<1> QED BY <1>7, <1>8

\* Facts about the shape, for the lemmas below.
LEMMA ShapeFacts ==
    ASSUME PoolShape
    PROVE  /\ slot \in [Keys -> SlotType]
           /\ \A k \in Keys : /\ slot[k].conn \in Conns \cup {NoConn}
                              /\ slot[k].conn # NoConn <=> slot[k].what \in {"idle", "busy"}
                              /\ slot[k].what = "connecting" => slot[k].job \in Openings
           /\ \A w \in Calls : /\ call[w].key \in Keys /\ call[w].conn \in Conns \cup {NoConn}
                               /\ call[w].at = "leased" =>
                                    call[w].conn = NoConn /\ call[w].job \in Openings
           /\ \A o \in Openings : /\ task[o].key \in Keys /\ task[o].conn \in Conns \cup {NoConn}
                                  /\ task[o].conn # NoConn <=> task[o].does = "connected"
                                  /\ o \in Leasing => task[o].conn = NoConn
BY DEF PoolShape, SlotsShaped, CallsShaped, CallType, TasksShaped, TaskType, SlotType, InHand,
       Leasing

\* A task that has nobody to give its connection to lets go of it.
LEMMA TaskLetsGo ==
    ASSUME LeaseInv, PoolShape, PoolShape', NEW o \in Openings, task[o].does = "connected",
           task' = [task EXCEPT ![o] = Fresh], UNCHANGED call,
           Vacated(task[o].key, task[o].conn), RevokedKept
    PROVE  LeaseInv'
<1> DEFINE k == task[o].key
           c == task[o].conn
<1>1. /\ k \in Keys /\ c \in Conns /\ c # NoConn
      /\ \A p \in Openings : p # o => task'[p] = task[p]
      /\ task'[o].conn = NoConn /\ task'[o].does = "free"
  BY ShapeFacts, NewRecords DEF PoolShape, TasksShaped
<1>2. \A p \in Leasing' : p \in Leasing /\ p # o
  BY <1>1 DEF Leasing
<1>3. \A l \in Keys : slot'[l] = slot[l] \/ /\ slot[l].what = "busy" /\ l = k /\ slot[l].conn = c
                                            /\ slot'[l].what \in {"none", "idle"}
                                            /\ slot'[l].conn \in {c, NoConn}
  BY <1>1, NewRecords DEF Vacated, OwnsReservation
<1>4. CallsApart' /\ TasksApart' /\ HandsApart' /\ UnusedApart'
  BY <1>1 DEF LeaseInv, CallsApart, TasksApart, HandsApart, UnusedApart
<1>5. UnusedLease' BY <1>1, ShapeFacts DEF LeaseInv, UnusedLease
<1>6. LeaseEntitled'
  <2>1. \A p \in Leasing' : p \in Openings BY DEF Leasing
  <2> QED BY <1>1, <1>2, <1>3, <2>1, ShapeFacts DEF LeaseInv, LeaseEntitled, OwnsConnect
<1>7. SlotOpened' BY <1>1, <1>3, ShapeFacts DEF LeaseInv, SlotOpened, Leasing
<1>8. SlotsApart' BY <1>1, <1>3 DEF LeaseInv, SlotsApart
<1>9. IdleFree'
  <2>1. (\A v \in Calls : call[v].conn # c) /\ (\A p \in Openings : task'[p].conn # c)
    BY <1>1 DEF LeaseInv, TasksApart, HandsApart
  <2>2. \A l \in Keys : slot'[l].what = "idle" => slot'[l] = slot[l] \/ slot'[l].conn = c
    BY <1>3, ShapeFacts DEF PoolShape, SlotsShaped
  <2>3. \A p \in Openings : task'[p].conn \in {task[p].conn, NoConn} BY <1>1
  <2>4. \A l \in Keys : slot[l].what = "idle" => slot[l].conn # NoConn BY ShapeFacts
  <2> QED BY <2>1, <2>2, <2>3, <2>4 DEF LeaseInv, IdleFree
<1>10. Reserved'
  <2>1. \A l \in Keys : slot'[l].what = "busy" => slot'[l] = slot[l] BY <1>3
  <2>2. \A l \in Keys : slot'[l].what = "busy" => ~(l = k /\ slot[l].conn = c)
    BY <1>1, <2>1, NewRecords DEF Vacated, OwnsReservation
  <2> QED BY <1>1, <2>1, <2>2 DEF LeaseInv, Reserved
<1>11. CallEntitled'
  <2>1. \A v \in Calls : call[v].conn # c BY <1>1 DEF LeaseInv, HandsApart
  <2> QED BY <1>3, <2>1, ShapeFacts DEF LeaseInv, CallEntitled, RevokedKept, OwnsReservation
<1>12. TaskEntitled'
  <2>1. \A p \in Openings : p # o => task[p].conn # c BY <1>1 DEF LeaseInv, TasksApart
  <2> QED BY <1>1, <1>3, <2>1, ShapeFacts DEF LeaseInv, TaskEntitled, RevokedKept, OwnsReservation
<1> QED BY <1>4, <1>5, <1>6, <1>7, <1>8, <1>9, <1>10, <1>11, <1>12 DEF LeaseInv

\* A task gives its connection to the call that waits for it.
LEMMA TaskHandsOver ==
    ASSUME LeaseInv, PoolShape, PoolShape', NEW o \in Openings, task[o].does = "connected",
           task' = [task EXCEPT ![o] = Fresh], UNCHANGED slot,
           NEW w \in Calls, call[w].conn = NoConn, call'[w].at = "delivered",
           call'[w].conn = task[o].conn, call'[w].key = task[o].key,
           \A v \in Calls : v # w => call'[v] = call[v], RevokedKept
    PROVE  LeaseInv'
<1>1. /\ task[o].key \in Keys /\ task[o].conn \in Conns /\ task[o].conn # NoConn
      /\ \A p \in Openings : p # o => task'[p] = task[p]
      /\ task'[o].conn = NoConn /\ task'[o].does = "free"
  BY ShapeFacts, NewRecords DEF PoolShape, TasksShaped
<1>2. \A p \in Leasing' : p \in Leasing /\ p # o BY <1>1 DEF Leasing
<1>3. CallsApart' BY <1>1 DEF LeaseInv, CallsApart, HandsApart
<1>4. TasksApart' BY <1>1 DEF LeaseInv, TasksApart
<1>5. HandsApart'
  <2>1. \A p \in Openings : task'[p].conn # task[o].conn BY <1>1 DEF LeaseInv, TasksApart
  <2>2. \A v \in Calls : v # w => \A p \in Openings :
          call'[v].conn = task'[p].conn => call'[v].conn = NoConn
    BY <1>1 DEF LeaseInv, HandsApart
  <2> QED BY <2>1, <2>2 DEF HandsApart
<1>6. UnusedApart' BY DEF LeaseInv, UnusedApart
<1>7. UnusedLease' BY <1>1, ShapeFacts DEF LeaseInv, UnusedLease
<1>8. LeaseEntitled' BY <1>1, <1>2 DEF LeaseInv, LeaseEntitled, OwnsConnect
<1>9. SlotOpened' BY <1>1, ShapeFacts DEF LeaseInv, SlotOpened, Leasing
<1>10. SlotsApart' BY DEF LeaseInv, SlotsApart
<1>11. IdleFree' BY <1>1, ShapeFacts DEF LeaseInv, IdleFree
<1>12. Reserved' BY <1>1, ShapeFacts DEF LeaseInv, Reserved
<1>13. CallEntitled'
  BY <1>1 DEF LeaseInv, CallEntitled, TaskEntitled, RevokedKept, OwnsReservation
<1>14. TaskEntitled' BY <1>1 DEF LeaseInv, TaskEntitled, RevokedKept, OwnsReservation
<1> QED BY <1>3, <1>4, <1>5, <1>6, <1>7, <1>8, <1>9, <1>10, <1>11, <1>12, <1>13, <1>14
        DEF LeaseInv

\* An opening ends without a connection, and its slot is free if it had one.
LEMMA OpeningEnds ==
    ASSUME LeaseInv, PoolShape, PoolShape', NEW o \in Leasing,
           task' = [task EXCEPT ![o] = Fresh], FailConnect(o), CallsKeep,
           \A w \in Calls : call'[w].at = "leased" => call'[w].job # o, RevokedKept
    PROVE  LeaseInv'
<1> DEFINE k == task[o].key
<1>1. /\ o \in Openings /\ k \in Keys /\ task[o].conn = NoConn
      /\ \A p \in Openings : p # o => task'[p] = task[p]
      /\ task'[o].conn = NoConn /\ task'[o].does = "free"
  BY ShapeFacts, NewRecords DEF PoolShape, TasksShaped, Leasing
<1>2. \A p \in Openings : p \in Leasing' <=> p \in Leasing /\ p # o BY <1>1 DEF Leasing
<1>3. ASSUME NEW l \in Keys
      PROVE  /\ slot'[l] = slot[l] \/ (slot[l].what = "connecting" /\ slot'[l] = Empty)
             /\ slot'[l] = slot[l] \/ slot[l].job = o
             /\ slot'[l].what = "connecting" => slot'[l] = slot[l] /\ slot[l].job # o
  <2>1. slot[l].what = "connecting" /\ slot[l].job = o => l = k
    BY DEF LeaseInv, SlotOpened
  <2>2. CASE OwnsConnect(o)
    <3>1. /\ slot'[k] = Empty /\ slot[k].what = "connecting" /\ slot[k].job = o
          /\ l # k => slot'[l] = slot[l]
      BY <1>1, <2>2, ShapeFacts DEF FailConnect, Assign, OwnsConnect
    <3>2. Empty.what # "connecting" BY NewRecords
    <3> QED BY <2>1, <3>1, <3>2
  <2>3. CASE ~OwnsConnect(o)
    <3>1. slot' = slot BY <2>3 DEF FailConnect
    <3>2. ~(slot[k].what = "connecting" /\ slot[k].job = o) BY <2>3 DEF OwnsConnect
    <3> QED BY <2>1, <3>1, <3>2
  <2> QED BY <2>2, <2>3
<1>4. \A l \in Keys : slot'[l].what \in {"idle", "busy"} => slot'[l] = slot[l]
  BY <1>3, NewRecords
<1>5. \A l \in Keys : slot'[l] # slot[l] => slot'[l].conn = NoConn /\ slot[l].conn = NoConn
  BY <1>3, NewRecords, ShapeFacts
<1>6. \A p \in Openings : task'[p].conn = task[p].conn BY <1>1
<1>7. SlotsApart' BY <1>5 DEF LeaseInv, SlotsApart
<1>8. CallsApart' /\ TasksApart' /\ HandsApart'
  BY <1>6 DEF LeaseInv, CallsApart, TasksApart, HandsApart, CallsKeep
<1>9. IdleFree' BY <1>4, <1>6 DEF LeaseInv, IdleFree, CallsKeep
<1>10. Reserved' BY <1>1, <1>4, <1>6, ShapeFacts DEF LeaseInv, Reserved, CallsKeep
<1>11. CallEntitled'
  BY <1>3, ShapeFacts DEF LeaseInv, CallEntitled, CallsKeep, RevokedKept, OwnsReservation
<1>12. TaskEntitled'
  BY <1>1, <1>3, ShapeFacts DEF LeaseInv, TaskEntitled, RevokedKept, OwnsReservation
<1>13. SlotOpened' BY <1>1, <1>2, <1>3, ShapeFacts DEF LeaseInv, SlotOpened
<1>14. LeaseEntitled'
  <2>1. \A p \in Leasing' : p \in Openings BY DEF Leasing
  <2> QED BY <1>1, <1>2, <1>3, <2>1, ShapeFacts DEF LeaseInv, LeaseEntitled, OwnsConnect
<1>15. UnusedLease' BY <1>1, ShapeFacts DEF LeaseInv, UnusedLease, CallsKeep
<1>16. UnusedApart' BY DEF LeaseInv, UnusedApart, CallsKeep
<1> QED BY <1>7, <1>8, <1>9, <1>10, <1>11, <1>12, <1>13, <1>14, <1>15, <1>16 DEF LeaseInv

\* A call takes an idle connection out of the pool.
LEMMA IdleReserved ==
    ASSUME LeaseInv, PoolShape, PoolShape', NEW k \in Keys, slot[k].what = "idle",
           Assign(k, Busy(slot[k].conn)),
           NEW w \in Calls, call[w].conn = NoConn, call'[w].at = "prepared",
           call'[w].conn = slot[k].conn, call'[w].key = k,
           \A v \in Calls : v # w => call'[v] = call[v], UNCHANGED <<task, revoked>>
    PROVE  LeaseInv'
<1> DEFINE c == slot[k].conn
<1>1. c \in Conns /\ c # NoConn BY ShapeFacts
<1>2. /\ slot'[k].what = "busy" /\ slot'[k].conn = c
      /\ \A l \in Keys : l # k => slot'[l] = slot[l]
  BY <1>1, NewRecords, ShapeFacts DEF Assign
<1>3. (\A v \in Calls : call[v].conn # c) /\ (\A o \in Openings : task[o].conn # c)
  BY DEF LeaseInv, IdleFree
<1>4. SlotsApart' BY <1>2 DEF LeaseInv, SlotsApart
<1>5. CallsApart' BY <1>3 DEF LeaseInv, CallsApart
<1>6. TasksApart' BY DEF LeaseInv, TasksApart
<1>7. HandsApart' BY <1>3 DEF LeaseInv, HandsApart
<1>8. IdleFree' BY <1>1, <1>2 DEF LeaseInv, IdleFree, SlotsApart
<1>9. Reserved' BY <1>2, ShapeFacts DEF LeaseInv, Reserved
<1>10. CallEntitled' BY <1>2, ShapeFacts DEF LeaseInv, CallEntitled, OwnsReservation
<1>11. TaskEntitled' BY <1>2, ShapeFacts DEF LeaseInv, TaskEntitled, OwnsReservation
<1>12. SlotOpened' BY <1>2 DEF LeaseInv, SlotOpened, Leasing
<1>13. LeaseEntitled' BY <1>2, ShapeFacts DEF LeaseInv, LeaseEntitled, OwnsConnect, Leasing
<1>14. UnusedLease' /\ UnusedApart' BY DEF LeaseInv, UnusedLease, UnusedApart
<1> QED BY <1>4, <1>5, <1>6, <1>7, <1>8, <1>9, <1>10, <1>11, <1>12, <1>13, <1>14 DEF LeaseInv

\* A slot without a holder is freed.
LEMMA SlotFreed ==
    ASSUME LeaseInv, PoolShape, PoolShape', NEW k \in Keys, slot[k].what \in {"none", "idle"},
           Assign(k, Empty), UNCHANGED <<call, task>>, RevokedKept
    PROVE  LeaseInv'
<1>1. /\ slot'[k].what = "none" /\ slot'[k].conn = NoConn
      /\ \A l \in Keys : l # k => slot'[l] = slot[l]
  BY NewRecords, ShapeFacts DEF Assign
<1>2. CallsApart' /\ TasksApart' /\ HandsApart' /\ UnusedApart' /\ UnusedLease'
  BY DEF LeaseInv, CallsApart, TasksApart, HandsApart, UnusedApart, UnusedLease
<1>3. SlotsApart' BY <1>1 DEF LeaseInv, SlotsApart
<1>4. IdleFree' /\ Reserved' BY <1>1 DEF LeaseInv, IdleFree, Reserved
<1>5. CallEntitled' /\ TaskEntitled'
  BY <1>1, ShapeFacts DEF LeaseInv, CallEntitled, TaskEntitled, OwnsReservation, RevokedKept
<1>6. SlotOpened' BY <1>1 DEF LeaseInv, SlotOpened, Leasing
<1>7. LeaseEntitled' BY <1>1, ShapeFacts DEF LeaseInv, LeaseEntitled, OwnsConnect, Leasing
<1> QED BY <1>2, <1>3, <1>4, <1>5, <1>6, <1>7 DEF LeaseInv

\* An opening begins, for a slot without a holder.
LEMMA OpeningBegins ==
    ASSUME LeaseInv, PoolShape, PoolShape', NEW k \in Keys, slot[k].what \in {"none", "idle"},
           NEW o \in Openings, task[o].does = "free", Assign(k, Connecting(o)),
           task'[o].does = "leased", task'[o].key = k,
           \A p \in Openings : p # o => task'[p] = task[p],
           NEW w \in Calls, call[w].conn = NoConn, call'[w].at = "leased", call'[w].job = o,
           \A v \in Calls : v # w => call'[v] = call[v], RevokedKept
    PROVE  LeaseInv'
<1>1. /\ slot'[k].what = "connecting" /\ slot'[k].conn = NoConn /\ slot'[k].job = o
      /\ \A l \in Keys : l # k => slot'[l] = slot[l]
  BY NewRecords, ShapeFacts DEF Assign
<1>2. /\ task[o].conn = NoConn /\ task'[o].conn = NoConn /\ call'[w].conn = NoConn
      /\ \A p \in Openings : p \in Leasing' <=> p \in Leasing \/ p = o
      /\ o \notin Leasing
  BY ShapeFacts DEF Leasing, PoolShape, TasksShaped, CallsShaped, InHand
<1>3. /\ \A v \in Calls : call'[v].conn = call[v].conn
      /\ \A p \in Openings : task'[p].conn = task[p].conn
  BY <1>2
<1>4. CallsApart' /\ TasksApart' /\ HandsApart'
  BY <1>3 DEF LeaseInv, CallsApart, TasksApart, HandsApart
<1>5. SlotsApart' BY <1>1 DEF LeaseInv, SlotsApart
<1>6. IdleFree' BY <1>1, <1>3 DEF LeaseInv, IdleFree
<1>7. Reserved'
  <2>1. \A l \in Keys : slot'[l].what = "busy" => slot'[l] = slot[l] /\ slot[l].conn # NoConn
    BY <1>1, ShapeFacts
  <2>2. /\ \A v \in Calls : call[v].conn # NoConn => call'[v] = call[v]
        /\ \A p \in Openings : task[p].conn # NoConn => task'[p] = task[p]
    BY <1>2
  <2> QED BY <2>1, <2>2 DEF LeaseInv, Reserved
<1>8. CallEntitled'
  BY <1>1, <1>2, ShapeFacts DEF LeaseInv, CallEntitled, OwnsReservation, RevokedKept
<1>9. TaskEntitled'
  BY <1>1, <1>2, ShapeFacts DEF LeaseInv, TaskEntitled, OwnsReservation, RevokedKept
<1>10. SlotOpened'
  BY <1>1, <1>2, ShapeFacts DEF LeaseInv, SlotOpened
<1>11. LeaseEntitled'
  <2>1. \A p \in Leasing' : p \in Openings BY DEF Leasing
  <2> QED BY <1>1, <1>2, <2>1, ShapeFacts DEF LeaseInv, LeaseEntitled, OwnsConnect
<1>12. \A v \in Calls : v # w /\ call[v].at = "leased" => call[v].job # o
  BY DEF LeaseInv, UnusedLease
<1>13. UnusedLease' BY <1>12, ShapeFacts DEF LeaseInv, UnusedLease
<1>14. UnusedApart' BY <1>12 DEF LeaseInv, UnusedApart
<1> QED BY <1>4, <1>5, <1>6, <1>7, <1>8, <1>9, <1>10, <1>11, <1>13, <1>14 DEF LeaseInv

\* An opening that still has its slot has brought a connection nobody holds.
LEMMA OpeningSucceeds ==
    ASSUME LeaseInv, PoolShape, PoolShape', NEW o \in Openings, task[o].does = "connecting",
           OwnsConnect(o), NEW c \in Conns, c \notin Pooled \cup Held,
           Assign(task[o].key, Busy(c)),
           task'[o].does = "connected", task'[o].key = task[o].key, task'[o].conn = c,
           \A p \in Openings : p # o => task'[p] = task[p],
           CallsKeep, UNCHANGED revoked
    PROVE  LeaseInv'
<1> DEFINE k == task[o].key
<1>1. /\ k \in Keys /\ c # NoConn /\ o \in Leasing
      /\ slot'[k].what = "busy" /\ slot'[k].conn = c
      /\ slot[k].what = "connecting" /\ slot[k].job = o
      /\ \A l \in Keys : l # k => slot'[l] = slot[l]
  BY NewRecords, ShapeFacts, PoolAssumption DEF Assign, OwnsConnect, Leasing
<1>2. /\ \A l \in Keys : slot[l].conn # c
      /\ \A v \in Calls : call[v].conn # c
      /\ \A p \in Openings : task[p].conn # c
  BY DEF Pooled, Held
<1>3. \A p \in Openings : p \in Leasing' <=> p \in Leasing /\ p # o
  BY DEF Leasing
<1>4. SlotsApart' BY <1>1, <1>2 DEF LeaseInv, SlotsApart
<1>5. CallsApart' BY DEF LeaseInv, CallsApart, CallsKeep
<1>6. TasksApart' BY <1>2 DEF LeaseInv, TasksApart
<1>7. HandsApart' BY <1>2 DEF LeaseInv, HandsApart, CallsKeep
<1>8. IdleFree' BY <1>1, <1>2 DEF LeaseInv, IdleFree, CallsKeep
<1>9. Reserved'
  <2>1. \A l \in Keys : l # k /\ slot[l].what = "busy" => slot[l].conn # NoConn BY ShapeFacts
  <2>2. task[o].conn = NoConn BY ShapeFacts
  <2> QED BY <1>1, <2>1, <2>2 DEF LeaseInv, Reserved, CallsKeep
<1>10. CallEntitled'
  BY <1>1, ShapeFacts DEF LeaseInv, CallEntitled, OwnsReservation, CallsKeep
<1>11. TaskEntitled'
  BY <1>1, ShapeFacts DEF LeaseInv, TaskEntitled, OwnsReservation
<1>12. SlotOpened'
  BY <1>1, <1>3, ShapeFacts DEF LeaseInv, SlotOpened
<1>13. LeaseEntitled'
  <2>1. \A p \in Leasing' : p \in Openings BY DEF Leasing
  <2> QED BY <1>1, <1>3, <2>1, ShapeFacts DEF LeaseInv, LeaseEntitled, OwnsConnect
<1>14. UnusedLease'
  <2>1. \A v \in Calls : call[v].at = "leased" => call[v].job # o BY DEF LeaseInv, UnusedLease
  <2> QED BY <2>1, ShapeFacts DEF LeaseInv, UnusedLease, CallsKeep
<1>15. UnusedApart' BY DEF LeaseInv, UnusedApart, CallsKeep
<1> QED BY <1>4, <1>5, <1>6, <1>7, <1>8, <1>9, <1>10, <1>11, <1>12, <1>13, <1>14, <1>15
        DEF LeaseInv

\* The pool takes slots from those who hold them.
LEMMA SlotsTaken ==
    ASSUME LeaseInv, PoolShape, PoolShape', NEW ks \in SUBSET Keys,
           \A k \in Keys : slot'[k] = IF k \in ks THEN Empty ELSE slot[k],
           CallsKeep, TasksKeep, \A o \in Openings : task'[o].does = task[o].does,
           \A k \in ks : slot[k].what = "connecting" => task'[slot[k].job].cancelled,
           RevokedKept,
           \A w \in Calls, k \in ks : call[w].conn = slot[k].conn /\ call[w].conn # NoConn
                                        => call[w].conn \in revoked',
           \A o \in Openings, k \in ks : task[o].conn = slot[k].conn /\ task[o].conn # NoConn
                                           => task[o].conn \in revoked'
    PROVE  LeaseInv'
<1>1. \A k \in Keys : \/ slot'[k] = slot[k] /\ k \notin ks
                      \/ /\ slot'[k].what = "none" /\ slot'[k].conn = NoConn /\ k \in ks
  BY NewRecords
<1>2. CallsApart' /\ TasksApart' /\ HandsApart'
  BY DEF LeaseInv, CallsApart, TasksApart, HandsApart, CallsKeep, TasksKeep
<1>3. SlotsApart' BY <1>1 DEF LeaseInv, SlotsApart
<1>4. IdleFree' BY <1>1 DEF LeaseInv, IdleFree, CallsKeep, TasksKeep
<1>5. Reserved'
  BY <1>1, ShapeFacts DEF LeaseInv, Reserved, CallsKeep, TasksKeep
<1>6. CallEntitled'
  BY <1>1, ShapeFacts DEF LeaseInv, CallEntitled, OwnsReservation, CallsKeep, RevokedKept
<1>7. TaskEntitled'
  BY <1>1, ShapeFacts DEF LeaseInv, TaskEntitled, OwnsReservation, TasksKeep, RevokedKept
<1>8. SlotOpened' BY <1>1 DEF LeaseInv, SlotOpened, TasksKeep, Leasing
<1>9. LeaseEntitled'
  <2>1. \A o \in Leasing' : o \in Openings /\ o \in Leasing BY DEF Leasing, TasksKeep
  <2> QED BY <1>1, <2>1, ShapeFacts DEF LeaseInv, LeaseEntitled, OwnsConnect, TasksKeep
<1>10. UnusedLease' BY ShapeFacts DEF LeaseInv, UnusedLease, CallsKeep
<1>11. UnusedApart' BY DEF LeaseInv, UnusedApart, CallsKeep
<1> QED BY <1>2, <1>3, <1>4, <1>5, <1>6, <1>7, <1>8, <1>9, <1>10, <1>11 DEF LeaseInv

-----------------------------------------------------------------------------
(* What the helpers of the actions do.                                     *)

SharedInv == PoolShape /\ LeaseInv

\* A connection comes back, or is discarded.
LEMMA SlotVacated ==
    ASSUME SlotsShaped, NEW k \in Keys, NEW c \in Conns \cup {NoConn},
           PutBack(k, c) \/ Discard(k, c)
    PROVE  SlotsShaped' /\ Vacated(k, c)
<1>1. CASE OwnsReservation(k, c)
  <2>1. c \in Conns
    BY <1>1 DEF SlotsShaped, OwnsReservation
  <2>2. Assign(k, Empty) \/ Assign(k, Idle(c)) BY <1>1 DEF PutBack, Discard
  <2>3. SlotsShaped' /\ \A l \in Keys : l # k => slot'[l] = slot[l]
    BY <2>1, <2>2, AssignShaped
  <2>4. slot'[k] \in {Empty, Idle(c)} BY <2>2 DEF Assign, SlotsShaped
  <2> QED BY <1>1, <2>3, <2>4 DEF Vacated
<1>2. CASE ~OwnsReservation(k, c)
  <2>1. slot' = slot BY <1>2 DEF PutBack, Discard
  <2> QED BY <1>2, <2>1 DEF Vacated, SlotsShaped
<1> QED BY <1>1, <1>2

\* What is still held is not forgotten when connections are closed.
LEMMA HeldKept ==
    ASSUME RestTyped, CloseUnheld, UNCHANGED down
    PROVE  RestTyped' /\ RevokedKept
<1>1. revoked' = revoked \cap (Pooled \cup Held)' BY DEF CloseUnheld
<1>2. revoked \subseteq Conns BY DEF RestTyped
<1>3. \A w \in Calls : call'[w].conn \in Conns => call'[w].conn \in Held' BY DEF Held
<1>4. \A o \in Openings : task'[o].conn \in Conns => task'[o].conn \in Held' BY DEF Held
<1>5. RevokedKept BY <1>1, <1>2, <1>3, <1>4 DEF RevokedKept
<1> QED BY <1>5, UnheldTyped

LEMMA RevokedSame == UNCHANGED revoked => RevokedKept
BY DEF RevokedKept

\* The connections of calls that end without one stay where they are.
LEMMA EndsKeep ==
    ASSUME CallsShaped, SomeEnd(call') 
    PROVE  CallsKeep
<1>1. \A w \in Calls : call[w].at \in {"joined", "opening"} => call[w].conn = NoConn
  BY DEF CallsShaped, InHand
<1> QED BY <1>1 DEF CallsKeep, SomeEnd

-----------------------------------------------------------------------------
(* The steps of a call.                                                    *)

LEMMA ReuseHolds ==
    ASSUME SharedInv, NEW w \in Calls, call[w].at = "idle", NEW k \in Keys, Reuse(w, k)
    PROVE  SharedInv'
<1> DEFINE c == slot[k].conn
           r == [Out EXCEPT !.at = "prepared", !.key = k, !.conn = c]
<1>1. /\ PoolShape /\ c \in Conns /\ c # NoConn /\ call[w].conn = NoConn
      /\ slot[k].what = "idle" /\ Assign(k, Busy(c)) /\ call' = [call EXCEPT ![w] = r]
      /\ UNCHANGED <<circuitVars, revoked, task, closed, aged, down>>
  BY ShapeFacts DEF SharedInv, Reuse, PoolShape, CallsShaped, InHand, connVars
<1>2. r \in CallType /\ r.at = "prepared" /\ r.key = k /\ r.conn = c
  BY <1>1, NewRecords DEF CallType, CallPlaces
<1> HIDE DEF r
<1>3. SlotsShaped' BY <1>1, AssignShaped DEF PoolShape
<1>4. CallsShaped' /\ call'[w] = r /\ \A v \in Calls : v # w => call'[v] = call[v]
  BY ZenonT(60), <1>1, <1>2, NobodyEnds, CallShaped DEF PoolShape
<1>5. PoolShape'
  BY <1>1, <1>3, <1>4, CircuitTyped DEF PoolShape, TasksShaped, RestTyped, Permits
<1>6. LeaseInv'
  BY <1>1, <1>2, <1>4, <1>5, IdleReserved DEF SharedInv
<1> QED BY <1>5, <1>6 DEF SharedInv

\* A call changes in a way that moves no connection and takes no lease.
LEMMA CallMoves ==
    ASSUME SharedInv, NEW w \in Calls, NEW r \in CallType, call' = [call EXCEPT ![w] = r],
           r.conn # NoConn <=> r.at \in {"delivered", "prepared", "streaming", "completed"},
           r.at \in {"leased", "opening", "joined"} => r.job # NoOpening,
           r.conn = call[w].conn, call[w].conn # NoConn => r.key = call[w].key,
           r.at # "leased", UNCHANGED <<slot, task, closed, aged, revoked, down>>,
           BreakerTypeOK'
    PROVE  SharedInv'
<1>1. CallsShaped' /\ call'[w] = r /\ \A v \in Calls : v # w => call'[v] = call[v]
  BY ZenonT(60), NobodyEnds, CallShaped DEF SharedInv, PoolShape
<1>2. PoolShape'
  BY <1>1 DEF SharedInv, PoolShape, SlotsShaped, TasksShaped, RestTyped
<1>3. CallsKeep BY <1>1 DEF CallsKeep
<1>4. TasksKeep BY DEF TasksKeep, Leasing
<1>5. UnusedKeep
  BY <1>1 DEF UnusedKeep, SharedInv, LeaseInv, UnusedLease
<1>6. LeaseInv'
  BY <1>2, <1>3, <1>4, <1>5, RevokedSame, QuietLeases DEF SharedInv
<1> QED BY <1>2, <1>6 DEF SharedInv

LEMMA JoinHolds ==
    ASSUME SharedInv, NEW w \in Calls, call[w].at = "idle", NEW k \in Keys, NEW kd \in CallKinds,
           Join(w, k, kd)
    PROVE  SharedInv'
<1> DEFINE r == [Out EXCEPT !.at = "joined", !.kind = kd, !.job = slot[k].job]
<1>1. /\ slot[k].job \in Openings /\ slot[k].job # NoOpening /\ call[w].conn = NoConn
      /\ call' = [call EXCEPT ![w] = r]
      /\ UNCHANGED <<circuitVars, slot, task, closed, aged, revoked, down>>
  BY ShapeFacts, BreakerAssumption
     DEF SharedInv, Join, PoolShape, CallsShaped, InHand, connVars, slotVars
<1>2. r \in CallType /\ r.at = "joined" /\ r.job = slot[k].job /\ r.conn = NoConn
  BY <1>1, NewRecords DEF CallType, CallPlaces
<1>3. BreakerTypeOK' BY <1>1, CircuitTyped DEF SharedInv, PoolShape, Permits
<1> HIDE DEF r
<1> QED BY <1>1, <1>2, <1>3, CallMoves

LEMMA ReserveHolds ==
    ASSUME SharedInv, NEW w \in Calls, call[w].at = "idle", NEW k \in Keys, NEW kd \in CallKinds,
           Reserve(w, k, kd)
    PROVE  SharedInv'
<1>1. /\ PoolShape /\ slot[k].what \in {"none", "idle"} /\ call[w].conn = NoConn
      /\ CloseUnheld /\ UNCHANGED <<circuitVars, down>>
  BY DEF SharedInv, Reserve, PoolShape, CallsShaped, InHand
<1>2. RestTyped' /\ RevokedKept BY <1>1, HeldKept DEF PoolShape
<1>3. BreakerTypeOK' BY <1>1, CircuitTyped DEF PoolShape, Permits
<1>4. CASE Cardinality(Leasing) < MaxConnecting /\ Unused # {}
  <2> DEFINE o == CHOOSE o \in Unused : TRUE
             t == [Fresh EXCEPT !.does = "leased", !.key = k, !.cancelled = down # "no"]
             r == [Out EXCEPT !.at = "leased", !.job = o,
                              !.kind = IF kd = "timed" THEN kd ELSE "patient"]
  <2>1. o \in Openings /\ task[o].does = "free" BY <1>4 DEF Unused
  <2>2. /\ Assign(k, Connecting(o)) /\ task' = [task EXCEPT ![o] = t]
        /\ call' = [call EXCEPT ![w] = r]
    BY <1>4 DEF Reserve
  <2>3. t \in TaskType /\ t.does = "leased" /\ t.key = k /\ t.conn = NoConn
    <3>1. (down # "no") \in BOOLEAN OBVIOUS
    <3> QED BY <3>1, NewRecords DEF TaskType, Works
  <2> HIDE DEF o, t
  <2>4. r \in CallType /\ r.at = "leased" /\ r.job = o /\ r.conn = NoConn /\ o # NoOpening
    BY <2>1, NewRecords, BreakerAssumption DEF CallType, CallPlaces, CallKinds
  <2> HIDE DEF r
  <2>5. SlotsShaped' BY <2>1, <2>2, AssignShaped DEF SharedInv, PoolShape
  <2>6. TasksShaped' /\ task'[o] = t /\ \A p \in Openings : p # o => task'[p] = task[p]
    BY <2>1, <2>2, <2>3, TaskShaped DEF SharedInv, PoolShape
  <2>7. CallsShaped' /\ call'[w] = r /\ \A v \in Calls : v # w => call'[v] = call[v]
    BY <2>2, <2>4, NobodyEnds, CallShaped DEF SharedInv, PoolShape
  <2>8. PoolShape' BY <1>2, <1>3, <2>5, <2>6, <2>7 DEF PoolShape
  <2>9. LeaseInv'
    BY <1>1, <1>2, <2>1, <2>2, <2>3, <2>4, <2>6, <2>7, <2>8, OpeningBegins DEF SharedInv
  <2> QED BY <2>8, <2>9 DEF SharedInv
<1>5. CASE ~(Cardinality(Leasing) < MaxConnecting /\ Unused # {})
  <2>1. Assign(k, Empty) /\ UNCHANGED <<task, call>> BY <1>5 DEF Reserve
  <2>2. SlotsShaped' BY <2>1, AssignShaped DEF SharedInv, PoolShape
  <2>3. PoolShape'
    BY <1>1, <1>2, <1>3, <2>1, <2>2 DEF PoolShape, CallsShaped, TasksShaped, InHand
  <2> QED BY <1>1, <1>2, <2>1, <2>3, SlotFreed DEF SharedInv
<1> QED BY <1>4, <1>5

LEMMA AcquireHolds ==
    ASSUME SharedInv, NEW w \in Calls, Acquire(w) \/ AcquireExact(w)
    PROVE  SharedInv'
<1>1. CASE Acquire(w)
  BY <1>1, ReuseHolds, JoinHolds, ReserveHolds DEF Acquire
<1>2. CASE AcquireExact(w)
  <2>1. PICK k \in Keys :
          \/ Reuse(w, k)
          \/ /\ slot[k].what = "idle" /\ Assign(k, Empty)
             /\ UNCHANGED <<circuitVars, call, task, down>> /\ CloseUnheld
    BY <1>2 DEF AcquireExact
  <2>2. CASE Reuse(w, k) BY <1>2, <2>2, ReuseHolds DEF AcquireExact
  <2>3. CASE /\ slot[k].what = "idle" /\ Assign(k, Empty)
             /\ UNCHANGED <<circuitVars, call, task, down>> /\ CloseUnheld
    <3>1. RestTyped' /\ RevokedKept BY <2>3, HeldKept DEF SharedInv, PoolShape
    <3>2. SlotsShaped' BY <2>3, AssignShaped DEF SharedInv, PoolShape
    <3>3. BreakerTypeOK' BY <2>3, CircuitTyped DEF SharedInv, PoolShape, Permits
    <3>4. PoolShape'
      BY <2>3, <3>1, <3>2, <3>3 DEF SharedInv, PoolShape, CallsShaped, TasksShaped, InHand
    <3> QED BY <2>3, <3>1, <3>4, SlotFreed DEF SharedInv
  <2> QED BY <2>1, <2>2, <2>3
<1> QED BY <1>1, <1>2

\* A lease that was not used is given up.
LEMMA GiveUpHolds ==
    ASSUME SharedInv, NEW w \in Calls, call[w].at = "leased", GiveUpLease(w, call[w].job),
           UNCHANGED <<circuitVars, closed, aged, down>>
    PROVE  SharedInv'
<1> DEFINE o == call[w].job
<1>1. /\ PoolShape /\ LeaseInv /\ o \in Openings /\ call[w].conn = NoConn
      /\ task[o].does = "leased" /\ o \in Leasing
  BY ShapeFacts DEF SharedInv, LeaseInv, UnusedLease, Leasing
<1>2. /\ FailConnect(o) /\ task' = [task EXCEPT ![o] = Fresh]
      /\ call' = [Told(o) EXCEPT ![w] = Out] /\ UNCHANGED revoked
  BY DEF GiveUpLease
<1>3. SlotsShaped'
  <2>1. task[o].key \in Keys BY <1>1, ShapeFacts
  <2>2. SlotsShaped BY <1>1 DEF PoolShape
  <2>3. UNCHANGED slot => SlotsShaped' BY <2>2 DEF SlotsShaped
  <2> QED BY <1>2, <2>1, <2>2, <2>3, AssignShaped DEF FailConnect
<1>4. TasksShaped' BY <1>1, <1>2, NewRecords, TaskShaped DEF PoolShape
<1>5. SomeEnd(Told(o)) BY <1>1, ToldTyped DEF PoolShape, CallsShaped
<1>6. CallsShaped' /\ call'[w] = Out /\ \A v \in Calls : v # w => call'[v] = Told(o)[v]
  BY <1>1, <1>2, <1>5, NewRecords, CallShaped DEF PoolShape
<1>7. BreakerTypeOK' BY <1>1, CircuitTyped DEF PoolShape, Permits
<1>8. PoolShape' BY <1>1, <1>2, <1>3, <1>4, <1>6, <1>7 DEF PoolShape, RestTyped
<1>9. CallsKeep
  <2>1. \A v \in Calls : call[v].at \in {"joined", "opening"} => call[v].conn = NoConn
    BY <1>1 DEF PoolShape, CallsShaped, InHand
  <2>2. call'[w].conn = NoConn /\ call'[w].at = "idle" BY <1>6, NewRecords
  <2> QED BY <1>1, <1>5, <1>6, <2>1, <2>2 DEF CallsKeep, SomeEnd
<1>10. \A v \in Calls : call'[v].at = "leased" => call'[v].job # o
  <2>1. \A v \in Calls : call'[v].at = "leased" => v # w /\ call'[v] = call[v]
    BY <1>5, <1>6, NewRecords DEF SomeEnd
  <2> QED BY <1>1, <2>1 DEF LeaseInv, UnusedApart
<1>11. LeaseInv' BY <1>1, <1>2, <1>8, <1>9, <1>10, RevokedSame, OpeningEnds
<1> QED BY <1>8, <1>11 DEF SharedInv

\* A call ends and lets go of what it has.
LEMMA CallGone ==
    ASSUME SharedInv, NEW w \in Calls, call[w].at # "leased", call' = [call EXCEPT ![w] = Out],
           PutBack(call[w].key, call[w].conn) \/ Discard(call[w].key, call[w].conn),
           CloseUnheld, UNCHANGED down, BreakerTypeOK', TasksShaped', TasksKeep,
           \A o \in Openings : task'[o].does = task[o].does
    PROVE  SharedInv'
<1>1. PoolShape /\ LeaseInv /\ call[w].key \in Keys /\ call[w].conn \in Conns \cup {NoConn}
  BY ShapeFacts DEF SharedInv
<1>2. SlotsShaped' /\ Vacated(call[w].key, call[w].conn)
  BY <1>1, SlotVacated DEF PoolShape
<1>3. CallsShaped' /\ call'[w] = Out /\ \A v \in Calls : v # w => call'[v] = call[v]
  <2>1. CallsShaped /\ SomeEnd(call) BY <1>1, NobodyEnds DEF PoolShape
  <2>2. /\ Out \in CallType
        /\ Out.conn # NoConn <=> Out.at \in {"delivered", "prepared", "streaming", "completed"}
        /\ Out.at \notin {"leased", "opening", "joined"}
    BY NewRecords
  <2> QED BY ZenonT(60), <2>1, <2>2, CallShaped
<1>4. RestTyped' /\ RevokedKept BY <1>1, HeldKept DEF PoolShape
<1>5. PoolShape' BY <1>2, <1>3, <1>4 DEF PoolShape
<1>6. call'[w].conn = NoConn /\ call'[w].at # "leased" BY <1>3, NewRecords
<1>7. LeaseInv' BY <1>1, <1>2, <1>3, <1>4, <1>5, <1>6, CallLetsGo
<1> QED BY <1>5, <1>7 DEF SharedInv

\* The tasks stay as they are.
LEMMA TasksSame ==
    ASSUME TasksShaped, UNCHANGED task
    PROVE  TasksShaped' /\ TasksKeep /\ \A o \in Openings : task'[o].does = task[o].does
BY DEF TasksShaped, TasksKeep, Leasing

LEMMA StartConnectHolds ==
    ASSUME SharedInv, NEW w \in Calls, StartConnect(w)
    PROVE  SharedInv'
<1> DEFINE o == call[w].job
<1>1. /\ PoolShape /\ LeaseInv /\ o \in Openings /\ call[w].at = "leased"
      /\ call[w].conn = NoConn /\ o # NoOpening /\ task[o].does = "leased" /\ task[o].conn = NoConn
      /\ UNCHANGED <<closed, aged, down>>
  <2>1. PoolShape /\ LeaseInv /\ call[w].at = "leased" /\ UNCHANGED <<closed, aged, down>>
    BY DEF SharedInv, StartConnect, connVars
  <2>2. call[w].conn = NoConn /\ o \in Openings BY <2>1, ShapeFacts
  <2>3. task[o].does = "leased" BY <2>1 DEF LeaseInv, UnusedLease
  <2> QED BY <2>1, <2>2, <2>3, ShapeFacts, BreakerAssumption
<1>2. ASSUME NEW p \in Permits,
             IF call[w].kind = "timed" THEN TryAcquire(o, p)
             ELSE p = "none" /\ UNCHANGED circuitVars,
             task' = [task EXCEPT ![o] = [@ EXCEPT !.does = "connecting", !.permit = p]],
             call' = [call EXCEPT ![w].at = "opening"], UNCHANGED slotVars
      PROVE  SharedInv'
  <2> DEFINE t == [task[o] EXCEPT !.does = "connecting", !.permit = p]
             r == [call[w] EXCEPT !.at = "opening"]
  <2>1. task[o] \in TaskType /\ call[w] \in CallType
    BY <1>1 DEF PoolShape, TasksShaped, CallsShaped
  <2>2. /\ t \in TaskType /\ t.does = "connecting" /\ t.conn = NoConn /\ t.key = task[o].key
        /\ t.cancelled = task[o].cancelled
    BY <1>1, <2>1 DEF TaskType, Works
  <2>3. r \in CallType /\ r.at = "opening" /\ r.conn = NoConn /\ r.job = o
    BY <1>1, <2>1 DEF CallType, CallPlaces
  <2>4. task' = [task EXCEPT ![o] = t] /\ call' = [call EXCEPT ![w] = r]
    BY <1>2
  <2> HIDE DEF t, r
  <2>5. TasksShaped' /\ task'[o] = t /\ \A q \in Openings : q # o => task'[q] = task[q]
    BY <1>1, <2>2, <2>4, TaskShaped DEF PoolShape
  <2>6. CallsShaped' /\ call'[w] = r /\ \A v \in Calls : v # w => call'[v] = call[v]
    BY <1>1, <2>3, <2>4, NobodyEnds, CallShaped DEF PoolShape
  <2>7. BreakerTypeOK' BY <1>1, <1>2, CircuitTyped DEF PoolShape
  <2>8. PoolShape'
    BY <1>1, <1>2, <2>5, <2>6, <2>7 DEF PoolShape, SlotsShaped, RestTyped, slotVars
  <2>9. CallsKeep BY <1>1, <2>3, <2>6 DEF CallsKeep
  <2>10. TasksKeep BY <1>1, <2>2, <2>5 DEF TasksKeep, Leasing
  <2>11. UnusedKeep
    <3>1. \A v \in Calls : call'[v].at = "leased" => v # w /\ call'[v] = call[v]
      BY <2>3, <2>6
    <3>2. \A v \in Calls : v # w /\ call[v].at = "leased" => call[v].job # o /\ call[v].job \in Openings
      BY <1>1, ShapeFacts DEF LeaseInv, UnusedApart
    <3> QED BY <1>1, <2>5, <3>1, <3>2 DEF UnusedKeep, LeaseInv, UnusedLease
  <2>12. LeaseInv'
    BY <1>1, <1>2, <2>8, <2>9, <2>10, <2>11, RevokedSame, QuietLeases DEF slotVars
  <2> QED BY <2>8, <2>12 DEF SharedInv
<1>3. CASE GiveUpLease(w, o) /\ UNCHANGED circuitVars
  BY <1>1, <1>3, GiveUpHolds
<1>4. CASE \E p \in Permits :
             /\ IF call[w].kind = "timed" THEN TryAcquire(o, p)
                ELSE p = "none" /\ UNCHANGED circuitVars
             /\ task' = [task EXCEPT ![o] = [@ EXCEPT !.does = "connecting", !.permit = p]]
             /\ call' = [call EXCEPT ![w].at = "opening"]
             /\ UNCHANGED slotVars
  <2>1. PICK p \in Permits :
             /\ IF call[w].kind = "timed" THEN TryAcquire(o, p)
                ELSE p = "none" /\ UNCHANGED circuitVars
             /\ task' = [task EXCEPT ![o] = [@ EXCEPT !.does = "connecting", !.permit = p]]
             /\ call' = [call EXCEPT ![w].at = "opening"]
             /\ UNCHANGED slotVars
    BY <1>4
  <2> QED BY <1>2, <2>1
<1> QED BY <1>3, <1>4 DEF StartConnect

LEMMA MoveHolds ==
    ASSUME SharedInv, NEW w \in Calls, Receive(w) \/ Joined(w) \/ SendCreate(w) \/ Complete(w)
    PROVE  SharedInv'
<1>1. /\ PoolShape /\ call[w] \in CallType /\ (call[w].conn # NoConn <=> InHand(w))
      /\ UNCHANGED <<circuitVars, slot, task, closed, aged, revoked, down>>
  BY DEF SharedInv, PoolShape, CallsShaped, Receive, Joined, SendCreate, Complete, slotVars, connVars
<1>2. BreakerTypeOK' BY <1>1, CircuitTyped DEF PoolShape, Permits
<1>3. CASE Receive(w)
  <2> DEFINE r == [call[w] EXCEPT !.at = "prepared", !.kind = "timed", !.permit = "none"]
  <2>1. call' = [call EXCEPT ![w] = r] /\ call[w].at = "delivered" BY <1>3 DEF Receive
  <2>2. /\ r \in CallType /\ r.at = "prepared" /\ r.conn = call[w].conn /\ r.key = call[w].key
        /\ call[w].conn # NoConn
    BY <1>1, <2>1 DEF CallType, CallPlaces, CallKinds, Permits, InHand
  <2> HIDE DEF r
  <2> QED BY <1>1, <1>2, <2>1, <2>2, CallMoves
<1>4. CASE Joined(w)
  <2>1. call' = [call EXCEPT ![w] = Out] /\ call[w].conn = NoConn
    BY <1>1, <1>4 DEF Joined, InHand
  <2> QED BY ZenonT(60), <1>1, <1>2, <2>1, NewRecords, CallMoves
<1>5. CASE SendCreate(w)
  <2> DEFINE r == [call[w] EXCEPT !.at = "streaming"]
  <2>1. call' = [call EXCEPT ![w] = r] /\ call[w].at = "prepared" BY <1>5 DEF SendCreate
  <2>2. /\ r \in CallType /\ r.at = "streaming" /\ r.conn = call[w].conn /\ r.key = call[w].key
        /\ call[w].conn # NoConn
    BY <1>1, <2>1 DEF CallType, CallPlaces, InHand
  <2> HIDE DEF r
  <2> QED BY <1>1, <1>2, <2>1, <2>2, CallMoves
<1>6. CASE Complete(w)
  <2> DEFINE r == [call[w] EXCEPT !.at = "completed"]
  <2>1. call' = [call EXCEPT ![w] = r] /\ call[w].at = "streaming" BY <1>6 DEF Complete
  <2>2. /\ r \in CallType /\ r.at = "completed" /\ r.conn = call[w].conn /\ r.key = call[w].key
        /\ call[w].conn # NoConn
    BY <1>1, <2>1 DEF CallType, CallPlaces, InHand
  <2> HIDE DEF r
  <2> QED BY <1>1, <1>2, <2>1, <2>2, CallMoves
<1> QED BY <1>3, <1>4, <1>5, <1>6

LEMMA MissHolds ==
    ASSUME SharedInv, NEW w \in Calls, Miss(w)
    PROVE  SharedInv'
<1> DEFINE o == call[w].job
<1>1. /\ PoolShape /\ call[w] \in CallType /\ call[w].at \in {"opening", "delivered", "joined"}
      /\ call[w].at \in {"opening", "joined"} => o \in Openings
      /\ Discard(call[w].key, call[w].conn) /\ call' = [call EXCEPT ![w] = Out]
      /\ CloseUnheld /\ UNCHANGED down
  BY DEF SharedInv, PoolShape, CallsShaped, CallType, Miss
<1>2. CASE call[w].at = "opening"
  <2> DEFINE t == [task[o] EXCEPT !.permit = "none"]
  <2>1. /\ o \in Openings /\ task[o] \in TaskType /\ task[o].permit \in Permits
        /\ RecordFailure(o, task[o].permit) /\ task' = [task EXCEPT ![o] = t]
    BY <1>1, <1>2 DEF PoolShape, TasksShaped, TaskType, Miss
  <2>2. /\ t \in TaskType /\ t.does = task[o].does /\ t.conn = task[o].conn
        /\ t.key = task[o].key /\ t.cancelled = task[o].cancelled
    BY <2>1 DEF TaskType, Permits
  <2> HIDE DEF t
  <2>3. TasksShaped' /\ task'[o] = t /\ \A q \in Openings : q # o => task'[q] = task[q]
    BY <1>1, <2>1, <2>2, TaskShaped DEF PoolShape, TasksShaped
  <2>4. TasksKeep /\ \A p \in Openings : task'[p].does = task[p].does
    BY <2>2, <2>3 DEF TasksKeep, Leasing
  <2>5. BreakerTypeOK' BY <1>1, <2>1, CircuitTyped DEF PoolShape
  <2> QED BY <1>1, <1>2, <2>3, <2>4, <2>5, CallGone
<1>3. CASE call[w].at = "delivered"
  <2>1. RecordFailure(NoOpening, call[w].permit) /\ UNCHANGED task /\ call[w].permit \in Permits
    BY <1>1, <1>3 DEF Miss, CallType
  <2>2. BreakerTypeOK' BY <1>1, <2>1, CircuitTyped DEF PoolShape
  <2> QED BY <1>1, <1>3, <2>1, <2>2, TasksSame, CallGone DEF PoolShape
<1>4. CASE call[w].at = "joined"
  <2>1. UNCHANGED <<circuitVars, task>> BY <1>4 DEF Miss
  <2>2. BreakerTypeOK' BY <1>1, <2>1, CircuitTyped DEF PoolShape, Permits
  <2> QED BY <1>1, <1>4, <2>1, <2>2, TasksSame, CallGone DEF PoolShape
<1> QED BY <1>1, <1>2, <1>3, <1>4

LEMMA EndHolds ==
    ASSUME SharedInv, NEW w \in Calls,
           EndExchange(w) \/ Return(w) \/ (Drop(w) /\ call[w].at # "leased")
    PROVE  SharedInv'
<1>1. /\ PoolShape /\ call[w].at # "leased" /\ call' = [call EXCEPT ![w] = Out]
      /\ PutBack(call[w].key, call[w].conn) \/ Discard(call[w].key, call[w].conn)
      /\ CloseUnheld /\ UNCHANGED <<circuitVars, task, down>>
  BY DEF SharedInv, EndExchange, Return, Drop
<1>2. BreakerTypeOK' BY <1>1, CircuitTyped DEF PoolShape, Permits
<1> QED BY <1>1, <1>2, TasksSame, CallGone DEF PoolShape

LEMMA CallStepHolds ==
    ASSUME SharedInv, NEW w \in Calls, CallStep(w)
    PROVE  SharedInv'
<1>1. CASE Drop(w) /\ call[w].at = "leased"
  BY <1>1, GiveUpHolds DEF Drop, connVars
<1> QED BY <1>1, AcquireHolds, StartConnectHolds, MoveHolds, MissHolds, EndHolds DEF CallStep

-----------------------------------------------------------------------------
(* The steps of a task.                                                    *)

\* Calls that end hold no connect lease afterwards that they did not hold.
LEMMA EndsUnused ==
    ASSUME SharedInv, SomeEnd(call'), NEW o \in Openings, task[o].does # "leased"
    PROVE  /\ CallsShaped' /\ CallsKeep
           /\ \A w \in Calls : call'[w].at = "leased" =>
                call'[w] = call[w] /\ call'[w].job \in Openings /\ call'[w].job # o
<1>1. CallsShaped' /\ CallsKeep BY EndShaped, EndsKeep DEF SharedInv, PoolShape
<1>2. \A w \in Calls : call'[w].at = "leased" => call'[w] = call[w] BY DEF SomeEnd
<1>3. \A w \in Calls : call[w].at = "leased" => call[w].job \in Openings /\ call[w].job # o
  BY ShapeFacts DEF SharedInv, LeaseInv, UnusedLease
<1> QED BY <1>1, <1>2, <1>3

\* An opening ends without a connection.
LEMMA OpeningOver ==
    ASSUME SharedInv, NEW o \in Openings, task[o].does \in {"connecting", "failing"},
           FailConnect(o), task' = [task EXCEPT ![o] = Fresh], SomeEnd(call'),
           UNCHANGED <<revoked, closed, aged, down>>, BreakerTypeOK'
    PROVE  SharedInv'
<1>1. PoolShape /\ LeaseInv /\ o \in Leasing /\ task[o].key \in Keys
  BY ShapeFacts DEF SharedInv, Leasing
<1>2. CallsShaped' /\ CallsKeep /\ \A w \in Calls : call'[w].at = "leased" => call'[w].job # o
  BY EndsUnused
<1>3. SlotsShaped'
  <2>1. SlotsShaped BY <1>1 DEF PoolShape
  <2>2. UNCHANGED slot => SlotsShaped' BY <2>1 DEF SlotsShaped
  <2> QED BY <1>1, <2>1, <2>2, AssignShaped DEF FailConnect
<1>4. TasksShaped' BY <1>1, NewRecords, TaskShaped DEF PoolShape
<1>5. PoolShape' BY <1>1, <1>2, <1>3, <1>4 DEF PoolShape, RestTyped
<1>6. LeaseInv' BY <1>1, <1>2, <1>5, RevokedSame, OpeningEnds
<1> QED BY <1>5, <1>6 DEF SharedInv

\* An opening fails and has its slot still.
LEMMA OpeningFails ==
    ASSUME SharedInv, NEW o \in Openings, task[o].does = "connecting",
           task' = [task EXCEPT ![o] = [@ EXCEPT !.does = "failing", !.permit = "none"]],
           SomeEnd(call'), UNCHANGED <<slotVars, connVars, down>>, BreakerTypeOK'
    PROVE  SharedInv'
<1> DEFINE t == [task[o] EXCEPT !.does = "failing", !.permit = "none"]
<1>1. PoolShape /\ LeaseInv /\ task[o] \in TaskType /\ task[o].conn = NoConn
  BY ShapeFacts DEF SharedInv, PoolShape, TasksShaped
<1>2. /\ t \in TaskType /\ t.does = "failing" /\ t.conn = NoConn /\ t.key = task[o].key
      /\ t.cancelled = task[o].cancelled
  BY <1>1 DEF TaskType, Works, Permits
<1>3. task' = [task EXCEPT ![o] = t] OBVIOUS
<1> HIDE DEF t
<1>4. TasksShaped' /\ task'[o] = t /\ \A q \in Openings : q # o => task'[q] = task[q]
  BY <1>1, <1>2, <1>3, TaskShaped DEF PoolShape
<1>5. /\ CallsShaped' /\ CallsKeep
      /\ \A w \in Calls : call'[w].at = "leased" =>
           call'[w] = call[w] /\ call'[w].job \in Openings /\ call'[w].job # o
  BY EndsUnused
<1>6. PoolShape'
  BY <1>1, <1>4, <1>5 DEF PoolShape, SlotsShaped, RestTyped, slotVars, connVars
<1>7. TasksKeep BY <1>1, <1>2, <1>4 DEF TasksKeep, Leasing
<1>8. UnusedKeep
  <2>1. \A w \in Calls : call'[w].at = "leased" => task[call[w].job].does = "leased"
    BY <1>1, <1>5 DEF LeaseInv, UnusedLease
  <2> QED BY <1>4, <1>5, <2>1 DEF UnusedKeep
<1>9. LeaseInv'
  BY <1>1, <1>5, <1>6, <1>7, <1>8, RevokedSame, QuietLeases DEF slotVars
<1> QED BY <1>6, <1>9 DEF SharedInv

LEMMA ConnectedHolds ==
    ASSUME SharedInv, NEW o \in Openings, Connected(o)
    PROVE  SharedInv'
<1>1. /\ PoolShape /\ LeaseInv /\ task[o].does = "connecting" /\ task[o] \in TaskType
      /\ task[o].key \in Keys
      /\ RecordSuccess(o, task[o].permit) /\ UNCHANGED <<revoked, closed, aged, down>>
  BY ShapeFacts DEF SharedInv, PoolShape, TasksShaped, Connected, connVars
<1>2. BreakerTypeOK'
  <2>1. task[o].permit \in Permits BY <1>1 DEF TaskType
  <2> QED BY <1>1, <2>1, CircuitTyped DEF PoolShape
<1>3. SomeEnd(Told(o)) /\ (Refuse(o) => SomeEnd(call'))
  BY <1>1, ToldTyped DEF PoolShape, CallsShaped
<1>4. CASE /\ OwnsConnect(o) /\ ~ShuttingDown
           /\ Conns # Pooled \cup Held
           /\ LET c == CHOOSE c \in Conns : c \notin Pooled \cup Held IN
                /\ Assign(task[o].key, Busy(c))
                /\ task' = [task EXCEPT ![o] = [@ EXCEPT !.does = "connected", !.conn = c,
                                                          !.cancelled = FALSE]]
           /\ call' = Told(o)
  <2> DEFINE c == CHOOSE c \in Conns : c \notin Pooled \cup Held
             t == [task[o] EXCEPT !.does = "connected", !.conn = c, !.cancelled = FALSE]
  <2>1. c \in Conns /\ c \notin Pooled \cup Held BY <1>4 DEF Pooled, Held
  <2>2. Assign(task[o].key, Busy(c)) /\ task' = [task EXCEPT ![o] = t] /\ SomeEnd(call')
    BY <1>3, <1>4
  <2> HIDE DEF c
  <2>3. /\ t \in TaskType /\ t.does = "connected" /\ t.conn = c /\ t.key = task[o].key
        /\ c # NoConn
    BY <1>1, <2>1, PoolAssumption DEF TaskType, Works
  <2> HIDE DEF t
  <2>4. SlotsShaped' BY <1>1, <2>1, <2>2, AssignShaped DEF PoolShape
  <2>5. TasksShaped' /\ task'[o] = t /\ \A p \in Openings : p # o => task'[p] = task[p]
    BY <1>1, <2>2, <2>3, TaskShaped DEF PoolShape
  <2>6. CallsShaped' /\ CallsKeep BY <1>1, <2>2, EndsUnused
  <2>7. PoolShape' BY <1>1, <1>2, <2>4, <2>5, <2>6 DEF PoolShape, RestTyped
  <2>8. LeaseInv'
    BY <1>1, <1>4, <2>1, <2>2, <2>3, <2>5, <2>6, <2>7, OpeningSucceeds
  <2> QED BY <2>7, <2>8 DEF SharedInv
<1>5. CASE /\ FailConnect(o)
           /\ task' = [task EXCEPT ![o] = Fresh]
           /\ Refuse(o)
  BY <1>1, <1>2, <1>3, <1>5, OpeningOver
<1> QED BY <1>4, <1>5 DEF Connected

LEMMA FailureHolds ==
    ASSUME SharedInv, NEW o \in Openings,
           ConnectFails(o) \/ ConnectCancelled(o) \/ CleanUp(o)
    PROVE  SharedInv'
<1>1. PoolShape /\ task[o].permit \in Permits
  BY DEF SharedInv, PoolShape, TasksShaped, TaskType
<1>2. SomeEnd(Told(o)) /\ (Refuse(o) => SomeEnd(call'))
  BY <1>1, ToldTyped DEF PoolShape, CallsShaped
<1>3. CASE ConnectFails(o) \/ ConnectCancelled(o)
  <2>1. /\ task[o].does = "connecting" /\ Refuse(o)
        /\ task' = [task EXCEPT ![o] = [@ EXCEPT !.does = "failing", !.permit = "none"]]
        /\ UNCHANGED <<slotVars, connVars, down>>
        /\ \/ RecordFailure(o, task[o].permit) \/ RecordSuccess(o, task[o].permit)
           \/ CancelProbe(o, task[o].permit)
    BY <1>3 DEF ConnectFails, ConnectCancelled
  <2>2. BreakerTypeOK' BY <1>1, <2>1, CircuitTyped DEF PoolShape
  <2> QED BY <1>2, <2>1, <2>2, OpeningFails
<1>4. CASE CleanUp(o)
  <2>1. BreakerTypeOK' BY <1>1, <1>4, CircuitTyped DEF PoolShape, CleanUp
  <2> QED BY <1>2, <1>4, <2>1, OpeningOver DEF CleanUp, connVars
<1> QED BY <1>3, <1>4

LEMMA HandOverHolds ==
    ASSUME SharedInv, NEW o \in Openings, HandOver(o)
    PROVE  SharedInv'
<1>1. /\ PoolShape /\ LeaseInv /\ task[o].does = "connected" /\ task[o].key \in Keys
      /\ task[o].conn \in Conns /\ task[o].conn # NoConn /\ task[o].permit \in Permits
      /\ task' = [task EXCEPT ![o] = Fresh] /\ CloseUnheld /\ UNCHANGED <<circuitVars, down>>
  <2>1. PoolShape /\ LeaseInv /\ task[o].does = "connected" /\ CloseUnheld
        /\ task' = [task EXCEPT ![o] = Fresh] /\ UNCHANGED <<circuitVars, down>>
    BY DEF SharedInv, HandOver
  <2>2. task[o].permit \in Permits BY <2>1 DEF PoolShape, TasksShaped, TaskType
  <2> QED BY <2>1, <2>2, ShapeFacts
<1>2. RestTyped' /\ RevokedKept BY <1>1, HeldKept DEF PoolShape
<1>3. BreakerTypeOK' BY <1>1, CircuitTyped DEF PoolShape
<1>4. TasksShaped' BY <1>1, NewRecords, TaskShaped DEF PoolShape
<1>5. ASSUME NEW w \in Calls, call[w].at = "opening", call[w].job = o,
             call' = [call EXCEPT ![w] = [@ EXCEPT !.at = "delivered", !.key = task[o].key,
                                                   !.job = NoOpening, !.conn = task[o].conn,
                                                   !.permit = task[o].permit]],
             UNCHANGED slot
      PROVE  SharedInv'
  <2> DEFINE r == [call[w] EXCEPT !.at = "delivered", !.key = task[o].key, !.job = NoOpening,
                                  !.conn = task[o].conn, !.permit = task[o].permit]
  <2>1. call[w] \in CallType /\ call[w].conn = NoConn
    BY <1>1, <1>5 DEF PoolShape, CallsShaped, InHand
  <2>2. /\ r \in CallType /\ r.at = "delivered" /\ r.conn = task[o].conn /\ r.key = task[o].key
    BY <1>1, <2>1 DEF CallType, CallPlaces
  <2>3. call' = [call EXCEPT ![w] = r] BY <1>5
  <2> HIDE DEF r
  <2>4. CallsShaped' /\ call'[w] = r /\ \A v \in Calls : v # w => call'[v] = call[v]
    BY ZenonT(60), <1>1, <2>2, <2>3, NobodyEnds, CallShaped DEF PoolShape
  <2>5. PoolShape' BY <1>1, <1>2, <1>3, <1>4, <1>5, <2>4 DEF PoolShape, SlotsShaped
  <2>6. LeaseInv' BY <1>1, <1>2, <1>5, <2>1, <2>2, <2>4, <2>5, TaskHandsOver
  <2> QED BY <2>5, <2>6 DEF SharedInv
<1>6. CASE PutBack(task[o].key, task[o].conn) /\ UNCHANGED call
  <2>1. SlotsShaped' /\ Vacated(task[o].key, task[o].conn)
    BY <1>1, <1>6, SlotVacated DEF PoolShape
  <2>2. CallsShaped' BY <1>1, <1>6 DEF PoolShape, CallsShaped, InHand
  <2>3. PoolShape' BY <1>2, <1>3, <1>4, <2>1, <2>2 DEF PoolShape
  <2>4. LeaseInv' BY <1>1, <1>2, <1>6, <2>1, <2>3, TaskLetsGo
  <2> QED BY <2>3, <2>4 DEF SharedInv
<1>7. CASE \E w \in Calls :
             /\ call[w].at = "opening" /\ call[w].job = o
             /\ call' = [call EXCEPT ![w] = [@ EXCEPT !.at = "delivered", !.key = task[o].key,
                                                      !.job = NoOpening, !.conn = task[o].conn,
                                                      !.permit = task[o].permit]]
             /\ UNCHANGED slot
  BY <1>5, <1>7
<1> QED BY <1>6, <1>7 DEF HandOver

LEMMA TaskStepHolds ==
    ASSUME SharedInv, NEW o \in Openings, TaskStep(o)
    PROVE  SharedInv'
BY ConnectedHolds, FailureHolds, HandOverHolds DEF TaskStep

-----------------------------------------------------------------------------
(* The steps of the pool and of the world.                                 *)

\* The pool takes slots.
LEMMA TakeHolds ==
    ASSUME SharedInv, NEW ks \in SUBSET Keys, TakeSlots(ks), BreakerTypeOK',
           down' \in {"no", "cancelled", "drained", "stopped"}
    PROVE  SharedInv'
<1> DEFINE openings == {slot[k].job : k \in ks} \ {NoOpening}
           kept == (Pooled \cup Held)'
           told == [Out EXCEPT !.at = "told"]
<1>1. PoolShape /\ LeaseInv BY DEF SharedInv
<1>2. /\ slot' = [k \in Keys |-> IF k \in ks THEN Empty ELSE slot[k]]
      /\ task' = [o \in Openings |->
                    IF o \in openings THEN [task[o] EXCEPT !.cancelled = TRUE] ELSE task[o]]
      /\ call' = [w \in Calls |->
                    IF call[w].at = "joined" /\ call[w].job \in openings THEN told ELSE call[w]]
      /\ revoked' = (revoked \cup {slot[k].conn : k \in ks}) \cap kept
      /\ closed' = closed \cap kept /\ aged' = aged \cap kept
  BY DEF TakeSlots
<1>3. told \in CallType /\ told.conn = NoConn /\ told.at = "told"
  BY NewRecords DEF CallType, CallPlaces
<1>4. \A k \in ks : slot[k].what = "connecting" => slot[k].job \in openings /\ slot[k].job \in Openings
  BY <1>1, ShapeFacts, BreakerAssumption
<1> HIDE DEF told, openings
<1>5. SomeEnd(call')
  <2>1. call \in [Calls -> CallType] BY <1>1 DEF PoolShape, CallsShaped
  <2> QED BY <1>2, <1>3, <2>1 DEF SomeEnd
<1>6. CallsShaped' /\ CallsKeep BY <1>1, <1>5, EndShaped, EndsKeep DEF PoolShape
<1>7. SlotsShaped'
  <2>1. slot' \in [Keys -> SlotType] BY <1>1, <1>2, NewRecords DEF PoolShape, SlotsShaped
  <2> QED BY <1>1, <1>2, <2>1, NewRecords DEF PoolShape, SlotsShaped
<1>8. \A o \in Openings : /\ task'[o] \in TaskType /\ task'[o].conn = task[o].conn
                          /\ task'[o].key = task[o].key /\ task'[o].does = task[o].does
                          /\ o \in openings => task'[o].cancelled
                          /\ task[o].cancelled => task'[o].cancelled
  <2> SUFFICES ASSUME NEW o \in Openings
               PROVE  /\ task'[o] \in TaskType /\ task'[o].conn = task[o].conn
                      /\ task'[o].key = task[o].key /\ task'[o].does = task[o].does
                      /\ o \in openings => task'[o].cancelled
                      /\ task[o].cancelled => task'[o].cancelled
    OBVIOUS
  <2>1. task[o] \in TaskType BY <1>1 DEF PoolShape, TasksShaped
  <2>2. CASE o \in openings
    <3>1. task'[o] = [task[o] EXCEPT !.cancelled = TRUE] BY <1>2, <2>2
    <3> QED BY <2>1, <3>1 DEF TaskType
  <2>3. CASE o \notin openings
    <3>1. task'[o] = task[o] BY <1>2, <2>3
    <3> QED BY <2>1, <2>3, <3>1
  <2> QED BY <2>2, <2>3
<1>9. TasksShaped'
  <2>1. task' \in [Openings -> TaskType] BY <1>2, <1>8
  <2> QED BY <1>1, <1>8, <2>1 DEF PoolShape, TasksShaped
<1>10. TasksKeep BY <1>8 DEF TasksKeep, Leasing
<1>11. RestTyped' BY <1>1, <1>2 DEF PoolShape, RestTyped, Pooled, Held
<1>12. PoolShape' BY <1>6, <1>7, <1>9, <1>11 DEF PoolShape
<1>13. /\ \A w \in Calls : call'[w].conn # NoConn => call'[w].conn \in kept
       /\ \A o \in Openings : task'[o].conn # NoConn => task'[o].conn \in kept
  BY <1>12, ShapeFacts DEF Held, PoolShape, CallsShaped, TasksShaped, CallType, TaskType
<1>14. RevokedKept
  <2>1. NoConn \notin revoked BY <1>1, PoolAssumption DEF PoolShape, RestTyped
  <2> QED BY <1>2, <1>13, <2>1 DEF RevokedKept
<1>15. \A w \in Calls, k \in ks : call[w].conn = slot[k].conn /\ call[w].conn # NoConn
                                    => call[w].conn \in revoked'
  <2>1. \A w \in Calls : call'[w].conn = call[w].conn BY <1>6 DEF CallsKeep
  <2> QED BY <1>2, <1>13, <2>1
<1>16. \A o \in Openings, k \in ks : task[o].conn = slot[k].conn /\ task[o].conn # NoConn
                                       => task[o].conn \in revoked'
  BY <1>2, <1>8, <1>13
<1>17. \A k \in Keys : slot'[k] = IF k \in ks THEN Empty ELSE slot[k] BY <1>2
<1>18. \A k \in ks : slot[k].what = "connecting" => task'[slot[k].job].cancelled
  BY <1>4, <1>8
<1>19. \A o \in Openings : task'[o].does = task[o].does BY <1>8
<1>20. LeaseInv'
  BY <1>1, <1>6, <1>10, <1>12, <1>14, <1>15, <1>16, <1>17, <1>18, <1>19, SlotsTaken
<1> QED BY <1>12, <1>20 DEF SharedInv

\* A step that leaves slots and calls alone, and cancels tasks if anything.
LEMMA RestHolds ==
    ASSUME SharedInv, UNCHANGED <<slot, call, revoked>>, BreakerTypeOK', RestTyped',
           task' \in [Openings -> TaskType],
           \A o \in Openings : \/ task'[o] = task[o]
                               \/ task'[o] = [task[o] EXCEPT !.cancelled = TRUE]
    PROVE  SharedInv'
<1>1. PoolShape /\ LeaseInv BY DEF SharedInv
<1>2. \A o \in Openings : /\ task'[o].conn = task[o].conn /\ task'[o].key = task[o].key
                          /\ task'[o].does = task[o].does
                          /\ task[o].cancelled => task'[o].cancelled
  BY <1>1 DEF PoolShape, TasksShaped, TaskType
<1>3. TasksShaped' BY <1>1, <1>2 DEF PoolShape, TasksShaped
<1>4. PoolShape' BY <1>1, <1>3 DEF PoolShape, SlotsShaped, CallsShaped, InHand
<1>5. TasksKeep BY <1>2 DEF TasksKeep, Leasing
<1>6. CallsKeep BY DEF CallsKeep
<1>7. UnusedKeep BY <1>1, <1>2, ShapeFacts DEF UnusedKeep, LeaseInv, UnusedLease
<1>8. LeaseInv' BY <1>1, <1>4, <1>5, <1>6, <1>7, RevokedSame, QuietLeases
<1> QED BY <1>4, <1>8 DEF SharedInv

LEMMA PoolStepHolds ==
    ASSUME SharedInv, PoolStep
    PROVE  SharedInv'
<1>1. /\ BreakerTypeOK /\ RestTyped /\ task \in [Openings -> TaskType]
      /\ UNCHANGED circuitVars => BreakerTypeOK'
  BY CircuitTyped DEF SharedInv, PoolShape, TasksShaped, Permits
<1>2. CASE Evict
  <2>1. {k \in Keys : slot[k].what # "none"} \in SUBSET Keys OBVIOUS
  <2>2. TakeSlots({k \in Keys : slot[k].what # "none"}) /\ UNCHANGED <<circuitVars, down>>
    BY <1>2 DEF Evict
  <2> QED BY <1>1, <2>1, <2>2, TakeHolds DEF RestTyped
<1>3. CASE Maintain
  <2>1. PICK ks \in SUBSET Keys : TakeSlots(ks)
    BY <1>3 DEF Maintain
  <2>2. UNCHANGED <<circuitVars, down>> BY <1>3 DEF Maintain
  <2> QED BY <1>1, <2>1, <2>2, TakeHolds DEF RestTyped
<1>4. CASE DrainSlots
  BY <1>1, <1>4, TakeHolds DEF DrainSlots
<1>5. CASE CancelTasks
  <2>1. /\ UNCHANGED <<circuitVars, slot, call, closed, aged, revoked>> /\ down' = "cancelled"
        /\ task' = [o \in Openings |->
                      IF o \in Leasing THEN [task[o] EXCEPT !.cancelled = TRUE] ELSE task[o]]
    BY <1>5 DEF CancelTasks, slotVars, connVars
  <2>2. \A o \in Openings : [task[o] EXCEPT !.cancelled = TRUE] \in TaskType
    BY <1>1 DEF TaskType
  <2>3. task' \in [Openings -> TaskType] BY <1>1, <2>1, <2>2
  <2>4. RestTyped' BY <1>1, <2>1 DEF RestTyped
  <2> QED BY <1>1, <2>1, <2>3, <2>4, RestHolds
<1>6. CASE Stopped
  <2>1. UNCHANGED <<circuitVars, slot, call, task, closed, aged, revoked>> /\ down' = "stopped"
    BY <1>6 DEF Stopped, slotVars, connVars
  <2>2. RestTyped' BY <1>1, <2>1 DEF RestTyped
  <2> QED BY <1>1, <2>1, <2>2, RestHolds
<1> QED BY <1>2, <1>3, <1>4, <1>5, <1>6 DEF PoolStep

LEMMA WorldStepHolds ==
    ASSUME SharedInv, WorldStep
    PROVE  SharedInv'
<1>1. /\ BreakerTypeOK /\ RestTyped /\ task \in [Openings -> TaskType]
  BY DEF SharedInv, PoolShape, TasksShaped
<1>2. UNCHANGED <<slot, call, task, revoked, down>>
  BY DEF WorldStep, CircuitTime, Dies, GrowsOld, slotVars
<1>3. BreakerTypeOK'
  <2>1. UNCHANGED circuitVars \/ OpenElapses \/ FailureAges
    BY DEF WorldStep, CircuitTime, Dies, GrowsOld
  <2> QED BY <1>1, <2>1, CircuitTyped DEF Permits
<1>4. RestTyped'
  BY <1>1, <1>2 DEF RestTyped, WorldStep, CircuitTime, Dies, GrowsOld, connVars, Pooled, Held
<1> QED BY <1>1, <1>2, <1>3, <1>4, RestHolds

-----------------------------------------------------------------------------
(* The theorems.                                                           *)

LEMMA PoolInitHolds == PoolInit => SharedInv
<1> SUFFICES ASSUME PoolInit PROVE SharedInv
  OBVIOUS
<1>1. /\ slot = [k \in Keys |-> Empty] /\ call = [w \in Calls |-> Out]
      /\ task = [o \in Openings |-> Fresh] /\ BreakerTypeOK /\ RestTyped
  BY BreakerAssumption DEF PoolInit, BreakerInit, BreakerTypeOK, RestTyped
<1>2. /\ SlotsShaped /\ CallsShaped /\ TasksShaped
  BY <1>1, NewRecords DEF SlotsShaped, CallsShaped, TasksShaped, InHand
<1>3. SlotsApart /\ CallsApart /\ TasksApart /\ HandsApart
  BY <1>1, NewRecords DEF SlotsApart, CallsApart, TasksApart, HandsApart
<1>4. IdleFree /\ Reserved /\ SlotOpened /\ UnusedLease /\ UnusedApart
  BY <1>1, NewRecords DEF IdleFree, Reserved, SlotOpened, UnusedLease, UnusedApart
<1>5. CallEntitled /\ TaskEntitled /\ LeaseEntitled
  BY <1>1, NewRecords DEF CallEntitled, TaskEntitled, LeaseEntitled, Leasing
<1> QED BY <1>1, <1>2, <1>3, <1>4, <1>5 DEF SharedInv, PoolShape, LeaseInv

LEMMA PoolNextHolds == SharedInv /\ [PoolNext]_poolVars => SharedInv'
<1> SUFFICES ASSUME SharedInv, [PoolNext]_poolVars PROVE SharedInv'
  OBVIOUS
<1>1. CASE PoolNext
  BY <1>1, CallStepHolds, TaskStepHolds, PoolStepHolds, WorldStepHolds DEF PoolNext
<1>2. CASE UNCHANGED poolVars
  <2>1. UNCHANGED <<circuitVars, slot, call, task, closed, aged, revoked, down>>
    BY <1>2 DEF poolVars, slotVars, connVars
  <2>2. BreakerTypeOK' BY <2>1, CircuitTyped DEF SharedInv, PoolShape, Permits
  <2>3. RestTyped' BY <2>1 DEF SharedInv, PoolShape, RestTyped
  <2>4. task' \in [Openings -> TaskType] BY <2>1 DEF SharedInv, PoolShape, TasksShaped
  <2> QED BY <2>1, <2>2, <2>3, <2>4, RestHolds
<1> QED BY <1>1, <1>2

LEMMA SpecSharedInv == PoolSpec => []SharedInv
BY PoolInitHolds, PoolNextHolds, PTL DEF PoolSpec

\* Slots, calls, tasks and circuit have the shape they should have.
THEOREM PoolTypeCorrect == PoolSpec => []PoolTypeOK
<1>1. SharedInv => PoolTypeOK BY ShapeParts DEF SharedInv
<1> QED BY <1>1, SpecSharedInv, PTL

\* A reserved slot has its one holder: a call or a task.
LEMMA OneHolder ==
    ASSUME SharedInv, NEW k \in Keys, slot[k].what = "busy"
    PROVE  Cardinality(Holders(k, slot[k].conn)) = 1
<1> DEFINE c == slot[k].conn
           callers == {w \in Calls : InHand(w) /\ call[w].key = k /\ call[w].conn = c}
           tasks == {o \in Openings : /\ task[o].does = "connected" /\ task[o].key = k
                                      /\ task[o].conn = c}
<1>1. /\ LeaseInv /\ c # NoConn
      /\ \A w \in Calls : call[w].conn # NoConn <=> InHand(w)
      /\ \A o \in Openings : task[o].conn # NoConn <=> task[o].does = "connected"
  BY ShapeFacts DEF SharedInv, PoolShape, CallsShaped
<1>2. Holders(k, c) = callers \cup tasks BY DEF Holders
<1>3. \E x : Holders(k, c) = {x}
  <2>1. CASE \E w \in Calls : call[w].key = k /\ call[w].conn = c
    <3>1. PICK w \in Calls : call[w].key = k /\ call[w].conn = c BY <2>1
    <3>2. callers = {w} BY <1>1, <3>1 DEF LeaseInv, CallsApart
    <3>3. tasks = {} BY <1>1, <3>1 DEF LeaseInv, HandsApart
    <3> QED BY <1>2, <3>2, <3>3
  <2>2. CASE ~\E w \in Calls : call[w].key = k /\ call[w].conn = c
    <3>1. PICK o \in Openings : task[o].key = k /\ task[o].conn = c
      BY <1>1, <2>2 DEF LeaseInv, Reserved
    <3>2. tasks = {o} BY <1>1, <3>1 DEF LeaseInv, TasksApart
    <3>3. callers = {} BY <2>2
    <3> QED BY <1>2, <3>2, <3>3
  <2> QED BY <2>1, <2>2
<1> QED BY <1>3, FS_Singleton

\* No two hold the same connection.
LEMMA HoldersApart ==
    ASSUME SharedInv, NEW c \in Conns
    PROVE  Cardinality(UNION {Holders(k, c) : k \in Keys}) <= 1
<1> DEFINE all == UNION {Holders(k, c) : k \in Keys}
<1>1. c # NoConn /\ CallsApart /\ TasksApart /\ HandsApart
  BY PoolAssumption DEF SharedInv, LeaseInv
<1>2. \A x \in all : \/ x \in Calls /\ call[x].conn = c
                     \/ x \in Openings /\ task[x].conn = c
  BY DEF Holders
<1>3. ASSUME NEW x \in all, NEW y \in all PROVE x = y
  BY <1>1, <1>2 DEF CallsApart, TasksApart, HandsApart
<1>4. all = {} \/ \E x : all = {x}
  <2>1. CASE all # {}
    <3>1. PICK x \in all : TRUE BY <2>1
    <3>2. all = {x} BY <1>3
    <3> QED BY <3>2
  <2> QED BY <2>1
<1> HIDE DEF all
<1>5. Cardinality(all) \in {0, 1} BY <1>4, FS_EmptySet, FS_Singleton
<1> QED BY <1>5 DEF all

\* Slots and leases agree, whoever is dropped, evicted, late or shut down in
\* between: put_reserved, discard_reserved, fail_connect and the pool's own
\* eviction, maintenance and shutdown.
THEOREM SlotsMatch == PoolSpec => []SlotsMatchLeases
<1>1. SharedInv => SlotsMatchLeases
  <2> SUFFICES ASSUME SharedInv PROVE SlotsMatchLeases
    OBVIOUS
  <2>1. PoolShape /\ LeaseInv BY DEF SharedInv
  <2>2. ASSUME NEW k \in Keys
        PROVE  /\ slot[k].what = "busy" => Cardinality(Holders(k, slot[k].conn)) = 1
               /\ slot[k].what = "connecting" =>
                    slot[k].job \in Leasing /\ task[slot[k].job].key = k
               /\ slot[k].what = "idle" => slot[k].conn \notin Held
    <3>1. slot[k].what = "busy" => Cardinality(Holders(k, slot[k].conn)) = 1 BY OneHolder
    <3>2. slot[k].what = "connecting" => slot[k].job \in Leasing /\ task[slot[k].job].key = k
      BY <2>1 DEF LeaseInv, SlotOpened
    <3>3. slot[k].what = "idle" => slot[k].conn \notin Held
      BY <2>1 DEF LeaseInv, IdleFree, Held
    <3> QED BY <3>1, <3>2, <3>3
  <2>3. ASSUME NEW k \in Keys, NEW c \in Conns, Holders(k, c) # {}
        PROVE  OwnsReservation(k, c) \/ c \in revoked
    <3>1. c # NoConn BY PoolAssumption
    <3>2. \/ \E w \in Calls : call[w].key = k /\ call[w].conn = c
          \/ \E o \in Openings : task[o].key = k /\ task[o].conn = c
      BY <2>3 DEF Holders
    <3> QED BY <2>1, <3>1, <3>2 DEF LeaseInv, CallEntitled, TaskEntitled
  <2>4. \A o \in Leasing : OwnsConnect(o) \/ task[o].cancelled
    BY <2>1 DEF LeaseInv, LeaseEntitled
  <2>5. \A c \in Conns : Cardinality(UNION {Holders(k, c) : k \in Keys}) <= 1
    BY HoldersApart
  <2> QED BY <2>2, <2>3, <2>4, <2>5 DEF SlotsMatchLeases
<1> QED BY <1>1, SpecSharedInv, PTL

-----------------------------------------------------------------------------
(* The circuit and its probe.                                              *)

\* The openings that are under way stay, with their permits.
OpeningKept(o) ==
    task[o].does = "connecting" =>
        task'[o].does = "connecting" /\ task'[o].permit = task[o].permit

\* A step that does not concern the circuit.
LEMMA QuietProbe ==
    ASSUME ProbeUnderWay, UNCHANGED circuitVars, \A o \in Openings : OpeningKept(o)
    PROVE  ProbeUnderWay'
BY DEF ProbeUnderWay, circuitVars, OpeningKept

\* An opening tells of its end with its permit, or with one that is worth
\* nothing any more: a probe that was under way has told of itself.
LEMMA PermitUsed ==
    ASSUME ProbeUnderWay, NEW o \in Openings \cup {NoOpening}, NEW p,
           o \in Openings => p = task[o].permit,
           RecordSuccess(o, p) \/ RecordFailure(o, p) \/ CancelProbe(o, p),
           \A q \in Openings \ {o} : OpeningKept(q)
    PROVE  ProbeUnderWay'
<1>1. CASE circuit = "half" /\ probe = o
  <2>1. p = "probe" /\ StillOwns(o, p) BY <1>1 DEF ProbeUnderWay, StillOwns
  <2>2. circuit' \in {"closed", "open", "due"} /\ probe' = NoOpening
    BY <2>1 DEF RecordSuccess, RecordFailure, CancelProbe
  <2> QED BY <2>2 DEF ProbeUnderWay
<1>2. CASE circuit = "half" /\ probe # o
  <2>1. ~StillOwns(o, p) BY <1>2 DEF StillOwns
  <2>2. UNCHANGED circuitVars BY <2>1 DEF RecordSuccess, RecordFailure, CancelProbe
  <2> QED BY <1>2, <2>2 DEF ProbeUnderWay, OpeningKept, circuitVars
<1>3. CASE circuit # "half"
  <2>1. probe = NoOpening BY <1>3 DEF ProbeUnderWay
  <2>2. probe' = NoOpening /\ circuit' # "half"
    BY <1>3, <2>1 DEF RecordSuccess, RecordFailure, CancelProbe, StillOwns, circuitVars
  <2> QED BY <2>2 DEF ProbeUnderWay
<1> QED BY <1>1, <1>2, <1>3

\* The circuit is asked by a task that has not begun.
LEMMA StartConnectProbe ==
    ASSUME SharedInv, ProbeUnderWay, NEW w \in Calls, StartConnect(w)
    PROVE  ProbeUnderWay'
<1> DEFINE o == call[w].job
<1>1. o \in Openings /\ task[o].does = "leased" /\ task[o] \in TaskType
  BY ShapeFacts DEF SharedInv, StartConnect, LeaseInv, UnusedLease, PoolShape, TasksShaped
<1>2. task \in [Openings -> TaskType] BY DEF SharedInv, PoolShape, TasksShaped
<1>3. CASE GiveUpLease(w, o) /\ UNCHANGED circuitVars
  <2>1. task' = [task EXCEPT ![o] = Fresh] BY <1>3 DEF GiveUpLease
  <2>2. \A q \in Openings : OpeningKept(q) BY <1>1, <1>2, <2>1 DEF OpeningKept
  <2> QED BY <1>3, <2>2, QuietProbe
<1>4. ASSUME NEW p \in Permits,
             IF call[w].kind = "timed" THEN TryAcquire(o, p)
             ELSE p = "none" /\ UNCHANGED circuitVars,
             task' = [task EXCEPT ![o] = [@ EXCEPT !.does = "connecting", !.permit = p]]
      PROVE  ProbeUnderWay'
  <2>1. \A q \in Openings : OpeningKept(q) BY <1>1, <1>2, <1>4 DEF OpeningKept
  <2>2. CASE UNCHANGED circuitVars
    BY <2>1, <2>2, QuietProbe
  <2>3. CASE p = "probe" /\ circuit' = "half" /\ probe' = o
    <3>1. task'[o].does = "connecting" /\ task'[o].permit = "probe"
      BY <1>1, <1>2, <1>4, <2>3 DEF TaskType
    <3> QED BY <1>1, <2>3, <3>1 DEF ProbeUnderWay
  <2> QED BY <1>4, <2>2, <2>3 DEF TryAcquire
<1>5. CASE \E p \in Permits :
             /\ IF call[w].kind = "timed" THEN TryAcquire(o, p)
                ELSE p = "none" /\ UNCHANGED circuitVars
             /\ task' = [task EXCEPT ![o] = [@ EXCEPT !.does = "connecting", !.permit = p]]
  <2>1. PICK p \in Permits :
             /\ IF call[w].kind = "timed" THEN TryAcquire(o, p)
                ELSE p = "none" /\ UNCHANGED circuitVars
             /\ task' = [task EXCEPT ![o] = [@ EXCEPT !.does = "connecting", !.permit = p]]
    BY <1>5
  <2> QED BY <1>4, <2>1
<1> QED BY <1>3, <1>5 DEF StartConnect

\* A call that does not wait any longer tells of a failure.
LEMMA MissProbe ==
    ASSUME SharedInv, ProbeUnderWay, NEW w \in Calls, Miss(w)
    PROVE  ProbeUnderWay'
<1> DEFINE o == call[w].job
<1>1. /\ call[w].at \in {"opening", "delivered", "joined"}
      /\ call[w].at = "opening" => o \in Openings
      /\ task \in [Openings -> TaskType]
  BY DEF Miss, SharedInv, PoolShape, CallsShaped, CallType, TasksShaped
<1>2. CASE call[w].at = "opening"
  <2>1. RecordFailure(o, task[o].permit) /\ task' = [task EXCEPT ![o].permit = "none"]
    BY <1>2 DEF Miss
  <2>2. \A q \in Openings \ {o} : OpeningKept(q) BY <1>1, <2>1 DEF OpeningKept
  <2> QED BY <1>1, <1>2, <2>1, <2>2, PermitUsed
<1>3. CASE call[w].at = "delivered"
  <2>1. RecordFailure(NoOpening, call[w].permit) /\ UNCHANGED task
    BY <1>3 DEF Miss
  <2>2. \A q \in Openings : OpeningKept(q) BY <2>1 DEF OpeningKept
  <2> QED BY <2>1, <2>2, PermitUsed, BreakerAssumption
<1>4. CASE call[w].at = "joined"
  <2>1. UNCHANGED <<circuitVars, task>> BY <1>4 DEF Miss
  <2> QED BY <2>1, QuietProbe DEF OpeningKept
<1> QED BY <1>1, <1>2, <1>3, <1>4

\* The other steps of a call: a task changes only before or after its opening.
LEMMA CallProbe ==
    ASSUME SharedInv, ProbeUnderWay, NEW w \in Calls, CallStep(w)
    PROVE  ProbeUnderWay'
<1>1. /\ task \in [Openings -> TaskType]
      /\ call[w].at = "leased" => call[w].job \in Openings /\ task[call[w].job].does = "leased"
  BY ShapeFacts DEF SharedInv, PoolShape, TasksShaped, LeaseInv, UnusedLease
<1>2. CASE Acquire(w) \/ AcquireExact(w)
  <2>1. UNCHANGED circuitVars
    <3>1. ASSUME NEW k, NEW kd, Reuse(w, k) \/ Join(w, k, kd) \/ Reserve(w, k, kd)
          PROVE  UNCHANGED circuitVars
      BY <3>1 DEF Reuse, Join, Reserve
    <3>2. CASE Acquire(w) BY <3>1, <3>2 DEF Acquire
    <3>3. CASE AcquireExact(w) BY <3>1, <3>3 DEF AcquireExact
    <3> QED BY <1>2, <3>2, <3>3
  <2>2. \/ UNCHANGED task
        \/ \E o \in Unused : \E t : task' = [task EXCEPT ![o] = t]
    <3>1. CASE \E k \in Keys : \E kd \in CallKinds : Reserve(w, k, kd)
      <4>1. PICK k \in Keys, kd \in CallKinds : Reserve(w, k, kd) BY <3>1
      <4>2. Unused # {} => (CHOOSE o \in Unused : TRUE) \in Unused OBVIOUS
      <4> QED BY <4>1, <4>2 DEF Reserve
    <3> QED BY <1>2, <3>1 DEF Acquire, AcquireExact, Reuse, Join
  <2>3. ASSUME NEW q \in Openings PROVE OpeningKept(q)
    <3>1. CASE UNCHANGED task BY <3>1 DEF OpeningKept
    <3>2. CASE \E o \in Unused : \E t : task' = [task EXCEPT ![o] = t]
      BY <1>1, <3>2 DEF OpeningKept, Unused
    <3> QED BY <2>2, <3>1, <3>2
  <2> QED BY <2>1, <2>3, QuietProbe
<1>3. CASE Drop(w) /\ call[w].at = "leased"
  <2>1. /\ UNCHANGED circuitVars
        /\ task' = [task EXCEPT ![call[w].job] = Fresh]
    BY <1>3 DEF Drop, GiveUpLease
  <2>2. \A q \in Openings : OpeningKept(q) BY <1>1, <1>3, <2>1 DEF OpeningKept
  <2> QED BY <2>1, <2>2, QuietProbe
<1>4. CASE \/ Receive(w) \/ Joined(w) \/ SendCreate(w) \/ EndExchange(w) \/ Complete(w) \/ Return(w)
           \/ Drop(w) /\ call[w].at # "leased"
  <2>1. UNCHANGED <<circuitVars, task>>
    BY <1>4 DEF Receive, Joined, SendCreate, EndExchange, Complete, Return, Drop
  <2> QED BY <2>1, QuietProbe DEF OpeningKept
<1> QED BY <1>2, <1>3, <1>4, StartConnectProbe, MissProbe DEF CallStep

\* The steps of a task: whatever ends its opening tells the circuit.
LEMMA TaskProbe ==
    ASSUME SharedInv, ProbeUnderWay, NEW o \in Openings, TaskStep(o)
    PROVE  ProbeUnderWay'
<1>1. task \in [Openings -> TaskType] BY DEF SharedInv, PoolShape, TasksShaped
<1>2. \E t : task' = [task EXCEPT ![o] = t]
  BY DEF TaskStep, Connected, ConnectFails, ConnectCancelled, CleanUp, HandOver
<1>3. \A q \in Openings \ {o} : OpeningKept(q) BY <1>1, <1>2 DEF OpeningKept
<1>4. CASE Connected(o) \/ ConnectFails(o) \/ ConnectCancelled(o)
  <2>1. \/ RecordSuccess(o, task[o].permit) \/ RecordFailure(o, task[o].permit)
        \/ CancelProbe(o, task[o].permit)
    BY <1>4 DEF Connected, ConnectFails, ConnectCancelled
  <2> QED BY <1>3, <2>1, PermitUsed
<1>5. CASE CleanUp(o) \/ HandOver(o)
  <2>1. UNCHANGED circuitVars /\ task[o].does # "connecting"
    BY <1>5 DEF CleanUp, HandOver
  <2> QED BY <1>3, <2>1, QuietProbe DEF OpeningKept
<1> QED BY <1>4, <1>5 DEF TaskStep

\* The pool only cancels tasks, and time ends the open period.
LEMMA OtherProbe ==
    ASSUME SharedInv, ProbeUnderWay, PoolStep \/ WorldStep
    PROVE  ProbeUnderWay'
<1>1. task \in [Openings -> TaskType] BY DEF SharedInv, PoolShape, TasksShaped
<1>2. CASE PoolStep
  <2>1. UNCHANGED circuitVars
    BY <1>2 DEF PoolStep, Evict, Maintain, CancelTasks, DrainSlots, Stopped
  <2>2. UNCHANGED task \/ \E S : task' = [o \in Openings |->
            IF o \in S THEN [task[o] EXCEPT !.cancelled = TRUE] ELSE task[o]]
    BY <1>2 DEF PoolStep, Evict, Maintain, CancelTasks, DrainSlots, Stopped, TakeSlots
  <2>3. ASSUME NEW q \in Openings PROVE OpeningKept(q)
    <3>1. task'[q] \in {task[q], [task[q] EXCEPT !.cancelled = TRUE]} BY <2>2
    <3>2. task[q] \in TaskType BY <1>1
    <3> QED BY <3>1, <3>2 DEF OpeningKept, TaskType
  <2> QED BY <2>1, <2>3, QuietProbe
<1>3. CASE CircuitTime
  BY <1>3 DEF CircuitTime, OpenElapses, FailureAges, ProbeUnderWay
<1>4. CASE \E c \in Conns : Dies(c) \/ GrowsOld(c)
  <2>1. UNCHANGED <<circuitVars, task>> BY <1>4 DEF Dies, GrowsOld
  <2> QED BY <2>1, QuietProbe DEF OpeningKept
<1> QED BY <1>2, <1>3, <1>4 DEF WorldStep

\* A half-open circuit always has its probe under way: WebSocketOriginBreakerPermit
\* tells of every end of an opening.
THEOREM ProbeTells == PoolSpec => []ProbeUnderWay
<1>1. PoolInit => ProbeUnderWay BY DEF PoolInit, BreakerInit, ProbeUnderWay
<1>2. SharedInv /\ ProbeUnderWay /\ [PoolNext]_poolVars => ProbeUnderWay'
  <2> SUFFICES ASSUME SharedInv, ProbeUnderWay, [PoolNext]_poolVars PROVE ProbeUnderWay'
    OBVIOUS
  <2>1. CASE UNCHANGED poolVars
    BY <2>1, QuietProbe DEF poolVars, OpeningKept
  <2> QED BY <2>1, CallProbe, TaskProbe, OtherProbe DEF PoolNext
<1> QED BY <1>1, <1>2, SpecSharedInv, PTL DEF PoolSpec

-----------------------------------------------------------------------------
(* The end of the pool.                                                    *)

NoSlots == \A k \in Keys : slot[k] = Empty
AllFree == \A o \in Openings : task[o].does = "free"

\* In an empty pool there is nothing to put back, to discard or to take.
LEMMA EmptyStays ==
    ASSUME SharedInv, NoSlots
    PROVE  /\ slot \in [Keys -> SlotType]
           /\ \A k \in Keys : \A c : PutBack(k, c) => UNCHANGED slot
           /\ \A k \in Keys : \A c : Discard(k, c) => UNCHANGED slot
           /\ \A o \in Openings : FailConnect(o) => UNCHANGED slot
           /\ \A ks : TakeSlots(ks) => NoSlots'
<1>1. slot \in [Keys -> SlotType] /\ \A o \in Openings : task[o].key \in Keys
  BY ShapeFacts DEF SharedInv
<1>2. Empty.what = "none" BY NewRecords
<1>3. \A k \in Keys : \A c : ~OwnsReservation(k, c)
  BY <1>2 DEF NoSlots, OwnsReservation
<1>4. \A o \in Openings : ~OwnsConnect(o)
  BY <1>1, <1>2 DEF NoSlots, OwnsConnect
<1>5. \A ks : TakeSlots(ks) => NoSlots'
  BY DEF TakeSlots, NoSlots
<1> QED BY <1>1, <1>3, <1>4, <1>5 DEF PutBack, Discard, FailConnect

\* Nothing comes into the pool that was drained.
LEMMA StaysEmpty ==
    ASSUME SharedInv, ShuttingDown, NoSlots, [PoolNext]_poolVars
    PROVE  NoSlots'
<1>1. CASE \E w \in Calls : CallStep(w)
  <2>1. PICK w \in Calls : CallStep(w) BY <1>1
  <2>2. ~Acquire(w) /\ ~AcquireExact(w) BY DEF Acquire, AcquireExact
  <2>3. call[w].key \in Keys /\ (call[w].at = "leased" => call[w].job \in Openings)
    BY SMTT(30), ShapeFacts DEF SharedInv
  <2>4. UNCHANGED slot
    BY <2>1, <2>2, <2>3, EmptyStays
       DEF CallStep, StartConnect, GiveUpLease, Receive, Joined, Miss, SendCreate, EndExchange,
           Complete, Return, Drop, slotVars
  <2> QED BY <2>4 DEF NoSlots
<1>2. CASE \E o \in Openings : TaskStep(o)
  <2>1. PICK o \in Openings : TaskStep(o) BY <1>2
  <2>2. task[o].key \in Keys BY ShapeFacts DEF SharedInv
  <2>3. UNCHANGED slot
    BY <2>1, <2>2, EmptyStays
       DEF TaskStep, Connected, ConnectFails, ConnectCancelled, CleanUp, HandOver, slotVars
  <2> QED BY <2>3 DEF NoSlots
<1>3. CASE PoolStep
  <2>1. UNCHANGED slot \/ \E ks : TakeSlots(ks)
    BY <1>3 DEF PoolStep, Evict, Maintain, CancelTasks, DrainSlots, Stopped, slotVars
  <2> QED BY <2>1, EmptyStays DEF NoSlots
<1>4. CASE WorldStep \/ UNCHANGED poolVars
  <2>1. UNCHANGED slot
    BY <1>4 DEF WorldStep, CircuitTime, Dies, GrowsOld, slotVars, poolVars
  <2> QED BY <2>1 DEF NoSlots
<1> QED BY <1>1, <1>2, <1>3, <1>4 DEF PoolNext

\* Nobody gets a connection from the pool that has stopped, or opens one.
LEMMA StaysStopped ==
    ASSUME SharedInv, ShuttingDown, NoSlots, AllFree, Held = {}, [PoolNext]_poolVars
    PROVE  AllFree' /\ Held' = {}
<1>1. /\ call \in [Calls -> CallType] /\ task \in [Openings -> TaskType]
      /\ \A w \in Calls : call[w].conn = NoConn /\ call[w].at # "leased" /\ ~InHand(w)
      /\ \A o \in Openings : task[o].conn = NoConn
  <2>1. PoolShape /\ LeaseInv BY DEF SharedInv
  <2>2. \A w \in Calls : call[w].conn = NoConn
    BY <2>1, ShapeFacts DEF Held
  <2>3. \A w \in Calls : call[w].at # "leased"
    BY <2>1, ShapeFacts DEF LeaseInv, UnusedLease, AllFree
  <2> QED BY <2>1, <2>2, <2>3 DEF PoolShape, CallsShaped, TasksShaped, AllFree
<1>2. Out.conn = NoConn BY NewRecords
<1>3. CASE \E w \in Calls : CallStep(w)
  <2>1. PICK w \in Calls : CallStep(w) BY <1>3
  <2>2. \/ Joined(w)
        \/ Miss(w) /\ call[w].at \in {"opening", "joined"}
        \/ Drop(w) /\ call[w].at # "leased"
    BY <1>1, <2>1 DEF CallStep, Acquire, AcquireExact, StartConnect, Receive, SendCreate,
       EndExchange, Complete, Return, Miss, InHand
  <2>3. /\ call' = [call EXCEPT ![w] = Out]
        /\ \/ UNCHANGED task
           \/ task' = [task EXCEPT ![call[w].job].permit = "none"]
    BY <2>2 DEF Joined, Miss, Drop
  <2>4. \A v \in Calls : call'[v].conn = NoConn BY <1>1, <1>2, <2>3
  <2>5. ASSUME NEW o \in Openings PROVE task'[o].does = "free" /\ task'[o].conn = NoConn
    <3>1. task'[o] \in {task[o], [task[o] EXCEPT !.permit = "none"]} BY <1>1, <2>3
    <3>2. task[o] \in TaskType BY <1>1
    <3> QED BY <1>1, <3>1, <3>2 DEF AllFree, TaskType
  <2> QED BY <2>4, <2>5, PoolAssumption DEF AllFree, Held
<1>4. CASE \E o \in Openings : TaskStep(o)
  BY <1>4 DEF AllFree, TaskStep, Connected, ConnectFails, ConnectCancelled, CleanUp, HandOver
<1>5. CASE PoolStep
  <2>1. \/ UNCHANGED task
        \/ \E S : task' = [o \in Openings |->
             IF o \in S THEN [task[o] EXCEPT !.cancelled = TRUE] ELSE task[o]]
    BY <1>5 DEF PoolStep, Evict, Maintain, CancelTasks, DrainSlots, Stopped, TakeSlots
  <2>2. ASSUME NEW o \in Openings PROVE task'[o].does = "free" /\ task'[o].conn = NoConn
    <3>1. task'[o] \in {task[o], [task[o] EXCEPT !.cancelled = TRUE]} BY <2>1
    <3>2. task[o] \in TaskType BY <1>1
    <3> QED BY <1>1, <3>1, <3>2 DEF AllFree, TaskType
  <2>3. UNCHANGED call \/ \E ks : TakeSlots(ks)
    BY <1>5 DEF PoolStep, Evict, Maintain, CancelTasks, DrainSlots, Stopped
  <2>4. [Out EXCEPT !.at = "told"].conn = NoConn
    BY NewRecords DEF CallType
  <2>5. \A v \in Calls : call'[v].conn = NoConn
    BY <1>1, <2>3, <2>4 DEF TakeSlots
  <2> QED BY <2>2, <2>5, PoolAssumption DEF AllFree, Held
<1>6. CASE WorldStep \/ UNCHANGED poolVars
  <2>1. UNCHANGED <<call, task>>
    BY <1>6 DEF WorldStep, CircuitTime, Dies, GrowsOld, poolVars
  <2> QED BY <2>1 DEF AllFree, Held
<1> QED BY <1>3, <1>4, <1>5, <1>6 DEF PoolNext

\* When a shutdown ends, nothing is held or opened.
LEMMA StoppedFree ==
    ASSUME SharedInv, Stopped
    PROVE  AllFree /\ Held = {}
<1>1. \A w \in Calls : call[w].conn = NoConn
  BY DEF SharedInv, PoolShape, CallsShaped, Stopped
<1>2. \A o \in Openings : task[o].conn = NoConn
  BY SMTT(30), ShapeFacts DEF SharedInv, Stopped
<1> QED BY <1>1, <1>2, PoolAssumption DEF Held, AllFree, Stopped

\* Only the steps of a shutdown change how far it is.
LEMMA DownSteps ==
    ASSUME [PoolNext]_poolVars
    PROVE  \/ UNCHANGED down
           \/ CancelTasks /\ down' = "cancelled"
           \/ DrainSlots /\ down' = "drained"
           \/ Stopped /\ down = "drained" /\ down' = "stopped"
BY ZenonT(60) DEF PoolNext, CallStep, Acquire, Reuse, Join, Reserve, AcquireExact, StartConnect, Receive,
   Joined, Miss, SendCreate, EndExchange, Complete, Return, Drop, TaskStep, Connected, ConnectFails,
   ConnectCancelled, CleanUp, HandOver, PoolStep, Evict, Maintain, CancelTasks, DrainSlots, Stopped,
   WorldStep, CircuitTime, Dies, GrowsOld, poolVars

\* shutdown leaves an empty pool: whoever comes back later finds its
\* reservation gone, and the pool is only stopped when nobody can come back.
THEOREM StaysDrained == PoolSpec => []DrainedForGood
<1>1. PoolInit => DrainedForGood BY DEF PoolInit, DrainedForGood, ShuttingDown
<1>2. SharedInv /\ DrainedForGood /\ [PoolNext]_poolVars => DrainedForGood'
  <2> SUFFICES ASSUME SharedInv, DrainedForGood, [PoolNext]_poolVars PROVE DrainedForGood'
    OBVIOUS
  <2>1. /\ ShuttingDown => NoSlots
        /\ down = "stopped" => Held = {} /\ AllFree
    BY DEF DrainedForGood, NoSlots, AllFree
  <2>2. ShuttingDown' => NoSlots'
    <3>1. CASE ShuttingDown
      BY <2>1, <3>1, StaysEmpty
    <3>2. CASE ~ShuttingDown /\ DrainSlots
      BY <3>2 DEF DrainSlots, TakeSlots, NoSlots
    <3>3. CASE ~ShuttingDown /\ ~DrainSlots
      BY <3>3, DownSteps DEF ShuttingDown
    <3> QED BY <3>1, <3>2, <3>3
  <2>3. down' = "stopped" => Held' = {} /\ AllFree'
    <3>1. CASE down = "stopped"
      BY <2>1, <3>1, StaysStopped DEF ShuttingDown
    <3>2. CASE Stopped
      <4>1. UNCHANGED <<call, task>> BY <3>2 DEF Stopped
      <4> QED BY <3>2, <4>1, StoppedFree DEF Held, AllFree
    <3>3. CASE down # "stopped" /\ ~Stopped
      BY <3>3, DownSteps
    <3> QED BY <3>1, <3>2, <3>3
  <2> QED BY <2>2, <2>3 DEF DrainedForGood, NoSlots, AllFree
<1> QED BY <1>1, <1>2, SpecSharedInv, PTL DEF PoolSpec
=============================================================================
