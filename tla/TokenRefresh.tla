----------------------------- MODULE TokenRefresh -----------------------------
(***************************************************************************)
(* The OAuth credential of one account and all who write it:               *)
(* the scheduled refresh of openai/src/credential/refresh.rs, the manual   *)
(* one of credential/admin.rs, the requests that report what the upstream  *)
(* said (credential/selector.rs) and the administrator.  A refresh token   *)
(* is used up by the exchange that renews it.  Refreshes exclude each      *)
(* other by leases in Redis (redis/credential_leases.rs); every write is   *)
(* conditional on the revision of the row                                  *)
(* (postgres/provider_accounts/core_adapter.rs, repository.rs).            *)
(*                                                                         *)
(* Abstractions.  A credential is the pair of tokens of one exchange, and  *)
(* its number is its identity; each has a refresh token.  An access token  *)
(* that a refresh brings is fresh, unless its expiry cannot be read.  The  *)
(* revision is represented by the set of actors whose view still has it.   *)
(* The state unknown is left out; a write takes its time of observation in *)
(* its own step, so none is refused for being older.  The upstream revokes *)
(* no token on its own.                                                    *)
(***************************************************************************)
EXTENDS Naturals, FiniteSets

CONSTANTS
    Cycles,         \* scheduled refreshes, which come back
    Manuals,        \* refreshes an administrator asks for, once each
    Requests,       \* inference requests, one attempt each
    Concurrency,    \* policy.concurrency, refreshes at a time
    MaxCredentials, \* bound on the credentials ever issued
    MaxEvents,      \* bound on new grants, cookie captures, lost answers, deaths,
                    \* releases that fail and leases outlived
    NoCredential

Refreshers == Cycles \cup Manuals
Actors == Refreshers \cup Requests

ASSUME RefreshAssumption ==
    /\ IsFiniteSet(Refreshers)
    /\ Cycles \cap Manuals = {}
    /\ Refreshers \cap Requests = {}
    /\ Concurrency \in Nat \ {0}
    /\ MaxCredentials \in Nat \ {0}
    /\ MaxEvents \in Nat
    /\ NoCredential \notin Nat

VARIABLES
    credential,     \* provider_credentials_json of the row
    state,          \* credential_state of the row
    enabled,        \* enabled of the row
    age,            \* access_token_expires_at of the row against the clock
    deferred,       \* whether next_refresh_at of the row is still to come
    live,           \* credentials whose refresh token the upstream accepts
    issued,         \* number of credentials issued
    pc,             \* where each actor is
    view,           \* the credential an actor loaded
    current,        \* actors whose view has the revision of the row
    untouched,      \* cycles whose view equals the row
    exhausted,      \* recovery_window_exhausted of a refresh
    answer,         \* what the exchange returned
    got,            \* the credential it returned
    capacity,       \* members of the set of refreshes in progress, in Redis
    lease,          \* the refresh lease of the account, in Redis
    events,         \* those that MaxEvents counts, so far
    judged,         \* history: the credential a state that is not ready is about
    spared,         \* history: whether it was replaced while the account was disabled
    excused         \* history: whether a credential had to get lost

upstreamVars == <<live, issued>>
leaseVars == <<capacity, lease>>
rowVars == <<credential, state, enabled, age, deferred>>
localVars == <<pc, view, current, untouched, exhausted, answer, got>>
historyVars == <<judged, spared, excused>>
vars == <<rowVars, upstreamVars, localVars, leaseVars, events, historyVars>>

Credentials == 1..MaxCredentials
States == {"ready", "expired", "banned"}
Ages == {"fresh", "due", "late", "exhausted", "unknown"}
Answers == {"none", "tokens", "invalid", "banned", "refused", "unclear"}
Places == {"idle", "loaded", "counted", "leased", "answered", "condemning", "sent", "done"}
Kinds == {"held", "left"}

Init ==
    /\ credential = 1
    /\ state = "ready"
    /\ enabled = TRUE
    /\ age = "fresh"
    /\ deferred = FALSE
    /\ live = {1}
    /\ issued = 1
    /\ pc = [x \in Actors |-> "idle"]
    /\ view = [x \in Actors |-> NoCredential]
    /\ current = {}
    /\ untouched = {}
    /\ exhausted = [r \in Refreshers |-> FALSE]
    /\ answer = [r \in Refreshers |-> "none"]
    /\ got = [r \in Refreshers |-> NoCredential]
    /\ capacity = {}
    /\ lease = {}
    /\ events = 0
    /\ judged = NoCredential
    /\ spared = FALSE
    /\ excused = FALSE

-----------------------------------------------------------------------------
(* Reading and writing the row.                                            *)

LoadRow(x) ==
    /\ view' = [view EXCEPT ![x] = credential]
    /\ current' = current \cup {x}
    /\ untouched' = untouched \cup ({x} \cap Cycles)

\* Mutant: a state is written whatever the revision of the row.
ApplyStateBlindly(x, s) ==
    /\ state' = IF enabled THEN s ELSE state
    /\ judged' = IF enabled /\ s # "ready" THEN view[x] ELSE IF enabled THEN NoCredential ELSE judged
    /\ spared' = (spared /\ ~enabled)
    /\ untouched' = {}

\* apply_provider_account_state for an actor with the revision of the row: the
\* revision stays, a disabled account keeps its state.
SetState(s, c) ==
    /\ state' = IF enabled THEN s ELSE state
    /\ judged' = IF ~enabled THEN judged ELSE IF s = "ready" THEN NoCredential ELSE c
WriteState(x, s) ==
    /\ SetState(s, view[x])
    /\ spared' = (spared /\ ~enabled)
    /\ untouched' = {}
ApplyState(x, s) ==
    IF x \in current
      THEN WriteState(x, s)
      ELSE UNCHANGED <<state, judged, spared, untouched>>

\* A compare and swap moves the revision: the other views are outdated.
Bump == current' = {} /\ untouched' = {}

\* A new credential, which is ready unless the account is disabled, whatever the
\* expiry of its access token.
Replace(c, ages) ==
    /\ credential' = c
    /\ SetState("ready", c)
    /\ age' \in ages
    /\ deferred' = FALSE
    /\ spared' = (~enabled /\ state # "ready")
    /\ Bump

-----------------------------------------------------------------------------
(* A refresh.                                                              *)

\* The candidates are listed, with their credentials, before any lease is taken.
ListDue(r) ==
    /\ r \in Cycles
    /\ pc[r] = "idle"
    /\ enabled
    /\ state = "ready"
    /\ age = "exhausted" \/ (age \in {"due", "late"} /\ ~deferred)
    /\ LoadRow(r)
    /\ pc' = [pc EXCEPT ![r] = "loaded"]
    /\ UNCHANGED <<rowVars, upstreamVars, leaseVars, events, historyVars, exhausted, answer, got>>

LoadCurrent(r) ==
    /\ r \in Manuals
    /\ pc[r] = "idle"
    /\ LoadRow(r)
    /\ pc' = [pc EXCEPT ![r] = "loaded"]
    /\ UNCHANGED <<rowVars, upstreamVars, leaseVars, events, historyVars, exhausted, answer, got>>

\* With a current view the expiry r loaded is still the row's, or Recover has
\* cleared it there; a cycle lists no account without one.
LoadedAges(r) ==
    IF age # "unknown" THEN {age}
    ELSE {"late", "exhausted"} \cup (IF r \in Manuals THEN {"unknown"} ELSE {})

\* The guards of a refresh go: what it holds in Redis is released, or left to
\* its lifetime when the command fails.
Release(r) ==
    /\ capacity' = capacity \ {<<r, "held">>}
    /\ lease' = lease \ {<<r, "held">>}
LeftOver(r, S) == {IF l = <<r, "held">> THEN <<r, "left">> ELSE l : l \in S}
Leave(r) ==
    /\ capacity' = LeftOver(r, capacity)
    /\ lease' = LeftOver(r, lease)
RareEvent ==
    /\ events < MaxEvents
    /\ events' = events + 1
Unguard(r) ==
    \/ Release(r) /\ UNCHANGED events
    \/ Leave(r) /\ RareEvent

Forget(r) ==
    /\ pc' = [pc EXCEPT ![r] = IF r \in Cycles THEN "idle" ELSE "done"]
    /\ view' = [view EXCEPT ![r] = NoCredential]
    /\ exhausted' = [exhausted EXCEPT ![r] = FALSE]
    /\ answer' = [answer EXCEPT ![r] = "none"]
    /\ got' = [got EXCEPT ![r] = NoCredential]
Finish(r) == Unguard(r) /\ Forget(r)

\* The end of a refresh that leaves the row alone.
ForgetRow(r) ==
    /\ Forget(r)
    /\ current' = current \ {r}
    /\ untouched' = untouched \ {r}
    /\ UNCHANGED rowVars
LeaveRow(r) == Unguard(r) /\ ForgetRow(r)

\* Mutant: the end of the recovery window is not noticed.
TakeCapacityTimeless(r) ==
    /\ pc[r] = "loaded"
    /\ Cardinality(capacity) < Concurrency
    /\ capacity' = capacity \cup {<<r, "held">>}
    /\ pc' = [pc EXCEPT ![r] = "counted"]
    /\ UNCHANGED <<rowVars, upstreamVars, events, historyVars, view, current, untouched, exhausted, answer, got, lease>>

\* The access token of an outdated view may have another expiry than the row's.
TakeCapacity(r) ==
    /\ pc[r] = "loaded"
    /\ Cardinality(capacity) < Concurrency
    /\ capacity' = capacity \cup {<<r, "held">>}
    /\ pc' = [pc EXCEPT ![r] = "counted"]
    /\ \E late \in (IF r \in Manuals THEN {FALSE}
                    ELSE IF r \in current THEN {a = "exhausted" : a \in LoadedAges(r)}
                    ELSE BOOLEAN) :
            exhausted' = [exhausted EXCEPT ![r] = late]
    /\ UNCHANGED <<rowVars, upstreamVars, events, historyVars, view, current, untouched, answer, got, lease>>

\* Mutant: the account's lease is granted to everyone.
TakeLeaseShared(r) ==
    /\ pc[r] = "counted"
    /\ lease' = lease \cup {<<r, "held">>}
    /\ pc' = [pc EXCEPT ![r] = "leased"]
    /\ UNCHANGED <<rowVars, upstreamVars, events, historyVars, view, current, untouched, exhausted, answer, got, capacity>>

TakeLease(r) ==
    /\ pc[r] = "counted"
    /\ lease = {}
    /\ lease' = {<<r, "held">>}
    /\ pc' = [pc EXCEPT ![r] = "leased"]
    /\ UNCHANGED <<rowVars, upstreamVars, events, historyVars, view, current, untouched, exhausted, answer, got, capacity>>

LeaseUnavailable(r) ==
    /\ \/ pc[r] = "loaded" /\ Cardinality(capacity) >= Concurrency
       \/ pc[r] = "counted" /\ lease # {}
    /\ LeaveRow(r)
    /\ UNCHANGED <<upstreamVars, historyVars>>

Answered(r, a, c) ==
    /\ pc' = [pc EXCEPT ![r] = "answered"]
    /\ answer' = [answer EXCEPT ![r] = a]
    /\ got' = [got EXCEPT ![r] = c]
    /\ UNCHANGED <<rowVars, view, current, untouched, exhausted, leaseVars, judged, spared>>

\* The upstream uses up the refresh token.  With an outdated view nothing
\* that comes back can be stored.
Rotate(r) ==
    /\ pc[r] = "leased"
    /\ view[r] \in live
    /\ issued < MaxCredentials
    /\ issued' = issued + 1
    /\ live' = (live \ {view[r]}) \cup {issued + 1}
    /\ \/ /\ Answered(r, "tokens", issued + 1)
          /\ excused' = (excused \/ r \notin current)
          /\ UNCHANGED events
       \/ /\ RareEvent
          /\ Answered(r, "unclear", NoCredential)
          /\ excused' = TRUE

\* A new access token, and the refresh token remains.
Renew(r) ==
    /\ pc[r] = "leased"
    /\ view[r] \in live
    /\ Answered(r, "tokens", view[r])
    /\ UNCHANGED <<upstreamVars, events, excused>>

\* No tokens: a used refresh token, a banned account, a failure the upstream
\* reports (401, 429, 5xx), or one without a response.
Fail(r) ==
    /\ pc[r] = "leased"
    /\ \E a \in {"banned", "refused", "unclear"}
                \cup (IF view[r] \in live THEN {} ELSE {"invalid"}) :
            Answered(r, a, NoCredential)
    /\ UNCHANGED <<upstreamVars, events, excused>>

\* A new access token has its own expiry, or none that can be read; an answer
\* without one keeps the access token and the expiry that were loaded.
StoredAges(r) == {"fresh", "unknown"} \cup LoadedAges(r)

\* rotate_refreshed_oauth_secret, or the commit of the manual refresh.
PersistSuccess(r) ==
    /\ pc[r] = "answered"
    /\ answer[r] = "tokens"
    /\ r \in current
    /\ Replace(got[r], StoredAges(r))
    /\ Finish(r)
    /\ UNCHANGED <<enabled, upstreamVars, excused>>

\* Of a conflict only a warning remains; a manual refresh stores no failure.
Stale(r) ==
    /\ pc[r] = "answered"
    /\ \/ r \notin current /\ (answer[r] \in {"tokens"} \/ (~exhausted[r] /\ answer[r] \in {"refused", "unclear"}))
       \/ r \in Manuals /\ answer[r] # "tokens"
    /\ LeaveRow(r)
    /\ UNCHANGED <<upstreamVars, historyVars>>

Terminal(r) ==
    /\ r \in Cycles
    /\ answer[r] \in {"invalid", "banned"} \/ (exhausted[r] /\ answer[r] \in {"refused", "unclear"})

\* load_runtime_credential: the revision, then the whole account.
CheckTerminal(r) ==
    /\ pc[r] = "answered"
    /\ Terminal(r)
    /\ \/ /\ r \in untouched
          /\ pc' = [pc EXCEPT ![r] = "condemning"]
          /\ UNCHANGED <<rowVars, view, current, untouched, exhausted, answer, got, leaseVars, events>>
       \/ r \notin untouched /\ LeaveRow(r)
    /\ UNCHANGED <<upstreamVars, historyVars>>

PersistTerminal(r) ==
    /\ pc[r] = "condemning"
    /\ ApplyState(r, IF answer[r] = "banned" THEN "banned" ELSE "expired")
    /\ Finish(r)
    /\ current' = current \ {r}
    /\ UNCHANGED <<credential, enabled, age, deferred, upstreamVars, excused>>

\* defer_refresh writes the expiry it loaded and, with a response of the
\* upstream, the state it loaded.
Defer(r) ==
    /\ r \in Cycles
    /\ pc[r] = "answered"
    /\ answer[r] \in {"refused", "unclear"}
    /\ ~exhausted[r]
    /\ r \in current
    /\ age' \in LoadedAges(r)
    /\ deferred' = TRUE
    /\ IF answer[r] = "refused"
         THEN /\ SetState("ready", view[r])
              /\ spared' = (spared /\ ~enabled)
         ELSE UNCHANGED <<state, judged, spared>>
    /\ Bump
    /\ Finish(r)
    /\ UNCHANGED <<credential, enabled, upstreamVars, excused>>

-----------------------------------------------------------------------------
(* Requests that use the access token.                                     *)

Send(q) ==
    /\ q \in Requests
    /\ pc[q] = "idle"
    /\ enabled
    /\ state = "ready"
    /\ LoadRow(q)
    /\ pc' = [pc EXCEPT ![q] = "sent"]
    /\ UNCHANGED <<rowVars, upstreamVars, leaseVars, events, historyVars, exhausted, answer, got>>

\* capture_response_cookies stores cookies in the credential document: the
\* revision moves, and the request takes the row it wrote.  Tokens another
\* actor has just received can no longer be stored.
CaptureCookies(q) ==
    /\ q \in Requests
    /\ pc[q] = "sent"
    /\ q \in current
    /\ RareEvent
    /\ current' = {q}
    /\ untouched' = {}
    /\ excused' = (excused \/ \E r \in Refreshers : pc[r] = "answered" /\ answer[r] = "tokens")
    /\ UNCHANGED <<rowVars, upstreamVars, leaseVars, pc, view, exhausted, answer, got, judged, spared>>

EndRequest(q) ==
    /\ q \in Requests
    /\ pc[q] = "sent"
    /\ pc' = [pc EXCEPT ![q] = "done"]
    /\ view' = [view EXCEPT ![q] = NoCredential]
    /\ current' = current \ {q}
    /\ UNCHANGED <<credential, enabled, age, deferred, upstreamVars, leaseVars, events,
                   exhausted, answer, got, excused>>

\* record_failure: an expired access token may still be refreshed, for two hours.
Unauthorized(q) ==
    /\ EndRequest(q)
    /\ ApplyState(q, IF age = "late" THEN "ready" ELSE "expired")
Deactivated(q) ==
    /\ EndRequest(q)
    /\ ApplyState(q, "banned")

\* record_success writes the quota, and a state that is not ready.
Succeed(q) ==
    /\ EndRequest(q)
    /\ IF q \in current
         THEN WriteState(q, "ready")
         ELSE UNCHANGED <<state, judged, spared, untouched>>

-----------------------------------------------------------------------------
(* The administrator, the clock and failures.                              *)

\* Tokens from a login, or pasted by the administrator, of any age.
Reauthorize ==
    /\ issued < MaxCredentials
    /\ issued' = issued + 1
    /\ live' = live \cup {issued + 1}
    /\ Replace(issued + 1, Ages)
    /\ RareEvent
    /\ excused' = FALSE
    /\ UNCHANGED <<enabled, pc, view, exhausted, answer, got, leaseVars>>

Disable ==
    /\ enabled
    /\ enabled' = FALSE
    /\ untouched' = {}
    /\ UNCHANGED <<credential, state, age, deferred, upstreamVars, pc, view, current, exhausted, answer, got, leaseVars, events, historyVars>>

\* For a disabled account it only enables; an expired access token loses its
\* expiry and with it the scheduled refresh.
Recover ==
    /\ enabled' = TRUE
    /\ untouched' = {}
    /\ IF enabled
         THEN /\ SetState("ready", credential)
              /\ age' = IF age \in {"late", "exhausted"} THEN "unknown" ELSE age
              /\ spared' = FALSE
         ELSE UNCHANGED <<state, age, judged, spared>>
    /\ UNCHANGED <<credential, deferred, upstreamVars, pc, view, current, exhausted, answer, got, leaseVars, events, excused>>

\* retry_at is at most the expiry of an access token that is still valid.
Age ==
    /\ age \in {"fresh", "due", "late"}
    /\ age' = CASE age = "fresh" -> "due" [] age = "due" -> "late" [] age = "late" -> "exhausted"
    /\ deferred' = (deferred /\ age # "due")
    /\ UNCHANGED <<credential, state, enabled, upstreamVars, localVars, leaseVars, events, historyVars>>

RetryTimeComes ==
    /\ deferred
    /\ deferred' = FALSE
    /\ UNCHANGED <<credential, state, enabled, age, upstreamVars, localVars, leaseVars, events, historyVars>>

\* A lease is never renewed.
LeaseOutlived(r) ==
    /\ RareEvent
    /\ <<r, "held">> \in lease
    /\ lease' = {}
    /\ capacity' = capacity \ {<<r, "held">>}
    /\ excused' = TRUE
    /\ UNCHANGED <<rowVars, upstreamVars, localVars, judged, spared>>

LeftLeaseExpires(r) ==
    /\ <<r, "left">> \in lease \cup capacity
    /\ lease' = lease \ {<<r, "left">>}
    /\ capacity' = capacity \ {<<r, "left">>}
    /\ UNCHANGED <<rowVars, upstreamVars, localVars, events, historyVars>>

Die(r) ==
    /\ pc[r] \notin {"idle", "done"}
    /\ RareEvent
    /\ Leave(r)
    /\ ForgetRow(r)
    /\ excused' = (excused \/ answer[r] = "tokens")
    /\ UNCHANGED <<upstreamVars, judged, spared>>

Exchange(r) == Rotate(r) \/ Renew(r) \/ Fail(r)
RefreshStep(r) ==
    \/ ListDue(r) \/ TakeCapacity(r) \/ TakeLease(r) \/ LeaseUnavailable(r)
    \/ Exchange(r)
    \/ PersistSuccess(r) \/ Stale(r) \/ CheckTerminal(r) \/ PersistTerminal(r) \/ Defer(r)
RequestStep(q) ==
    \/ Send(q) \/ CaptureCookies(q) \/ Unauthorized(q) \/ Deactivated(q) \/ Succeed(q)

Next ==
    \/ \E r \in Refreshers :
          \/ RefreshStep(r) \/ LoadCurrent(r)
          \/ LeaseOutlived(r) \/ LeftLeaseExpires(r) \/ Die(r)
    \/ \E q \in Requests : RequestStep(q)
    \/ Reauthorize \/ Disable \/ Recover \/ Age \/ RetryTimeComes

Spec == Init /\ [][Next]_vars
FairSpec ==
    /\ Spec
    /\ \A r \in Refreshers : WF_vars(RefreshStep(r))
    /\ WF_vars(\E r \in Refreshers : LeftLeaseExpires(r))

-----------------------------------------------------------------------------
TypeOK ==
    /\ credential \in Credentials
    /\ state \in States
    /\ enabled \in BOOLEAN
    /\ age \in Ages
    /\ deferred \in BOOLEAN
    /\ live \in SUBSET Credentials
    /\ issued \in Credentials
    /\ pc \in [Actors -> Places]
    /\ view \in [Actors -> Credentials \cup {NoCredential}]
    /\ current \in SUBSET Actors
    /\ untouched \in SUBSET Cycles
    /\ exhausted \in [Refreshers -> BOOLEAN]
    /\ answer \in [Refreshers -> Answers]
    /\ got \in [Refreshers -> Credentials \cup {NoCredential}]
    /\ capacity \in SUBSET (Refreshers \X Kinds)
    /\ lease \in SUBSET (Refreshers \X Kinds)
    /\ events \in 0..MaxEvents
    /\ judged \in Credentials \cup {NoCredential}
    /\ spared \in BOOLEAN
    /\ excused \in BOOLEAN

\* The refresh token of the row is the one the upstream accepts, or its
\* successor is in the hands of a refresh that can still store it.  A report
\* of a request, a quota, another refresh or the administrator never makes a
\* rotation get lost (rotate_refreshed_oauth_secret); what does is an answer,
\* a process or a lease that is gone, a refresh that began with an outdated
\* revision, and a cookie captured during the exchange.
TokensKept ==
    \/ credential \in live
    \/ \E r \in current \cap Refreshers :
          pc[r] = "answered" /\ answer[r] = "tokens" /\ got[r] \in live
    \/ excused

\* An account is condemned for what the upstream said of the credential it has
\* now, however late that was reported (apply_provider_account_state); only
\* one that was replaced while the account was disabled keeps the old verdict.
NoStaleVerdict ==
    state # "ready" => judged = credential \/ spared

\* An account whose access token expired more than the recovery window ago does
\* not stay in use: it is refreshed or found terminal (refresh_one_with_policy),
\* unless the administrator disables it or clears the expiry, or the upstream
\* keeps answering a refresh without an access token, which persist_success
\* takes for a success.
ExhaustedSettled ==
    \/ []<>~(enabled /\ state = "ready" /\ age = "exhausted")
    \/ []<><<\E r \in Refreshers : PersistSuccess(r) /\ age' = "exhausted">>_vars
=============================================================================
