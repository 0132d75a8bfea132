-------------------------- MODULE AttemptCoordinator --------------------------
(***************************************************************************)
(* One ResponseExecutionSession of gateway-core (engine/coordinator.rs):   *)
(* the request-level state machine that selects attempts, decides whether  *)
(* a failed one may be replayed, holds back the first event until the      *)
(* protocol adapter commits the response downstream, and writes one        *)
(* terminal outcome.                                                       *)
(*                                                                         *)
(* A call of the API (next_event, collect_uncommitted, commit_downstream)  *)
(* is a sequence of actions that starts and ends in pc = "idle"; it passes *)
(* through the places where the code awaits (a provider, a stream item,    *)
(* the terminal write), and its future may be dropped at each of them.     *)
(***************************************************************************)
EXTENDS Naturals, Sequences, FiniteSets

CONSTANTS
    Accounts,       \* provider accounts
    NoAccount,      \* Option::None of an account
    NumCandidates,  \* the frozen routing plan has candidates 1 .. NumCandidates
    ProviderOf,     \* the candidate whose provider owns an account
    MaxAttempts,    \* plan.max_attempts, the routing budget
    MaxTransport,   \* a provider's own limit on retries of one transport
    MaxTransient,   \* max_retries of a transient rejection
    Costs,          \* USD amounts an event may report
    Requests,       \* the requests that are started
    StreamErrors,   \* the failures a stream may end with
    StoreFaults     \* whether an observation write may fail

Candidates == 1 .. NumCandidates

ASSUME ConstantsAssumption ==
    /\ NoAccount \notin Accounts
    /\ NumCandidates \in Nat \ {0}
    /\ ProviderOf \in [Accounts -> Candidates]
    /\ MaxAttempts \in Nat \ {0}
    /\ MaxTransport \in Nat
    /\ MaxTransient \in Nat \ {0}
    /\ Costs \subseteq Nat
    /\ StoreFaults \in BOOLEAN

-------------------------------------------------------------------------------
(* Data. An optional value is a set of at most one element. *)

Signals == {"deadline", "cancelled"}

SendStates == {"NotSent", "Ambiguous", "Sent"}

\* Mutant: the last state that was observed wins.
LatestSendState(a, b) == b

EscalateSendState(a, b) ==
    IF "Sent" \in {a, b} THEN "Sent"
    ELSE IF "Ambiguous" \in {a, b} THEN "Ambiguous" ELSE "NotSent"

AtLeast(a, b) == EscalateSendState(a, b) = a

ContinuationAttempts == {"None", "Native", "ReplayOwner", "ReplayAny"}

\* account: the account of a diagnostic request, NoAccount of a scheduled one;
\* states: the providers whose session state the operation carries.
Request == [account : Accounts \cup {NoAccount},
            binding : {"none", "external", "pinned"},
            pin     : Accounts \cup {NoAccount},
            states  : SUBSET Candidates]

RetryHints == {"none", "AccountRotation", "SameAccountTransient",
               "TransportRetry", "TransportFallback", "SameAccount"}

Dispositions == {"none", "RetryExactConnection", "ClientReplayRequired",
                 "ProviderReplayAllowed"}

\* atomic: the error carries client events not delivered yet, which report usd.
ProviderError == [send : SendStates, safe : BOOLEAN, hint : RetryHints,
                  disposition : Dispositions, cancelled : BOOLEAN,
                  atomic : BOOLEAN, usd : Costs \cup {0}]

ASSUME InputsAssumption ==
    /\ Requests \subseteq Request
    /\ \A r \in Requests : r.binding = "pinned" => r.pin \in Accounts
    /\ StreamErrors \subseteq ProviderError

\* Failures of Provider::execute, before there is a stream.
NoAccountKinds == {"NoEligibleAccount"}
ScheduleKinds  == NoAccountKinds \cup {"ConcurrencyQueueFull"}
LocalKinds     == ScheduleKinds \cup {"ProviderInfrastructureUnavailable"}
ExecuteKinds   == LocalKinds \cup {"Other"}

\* AttemptTransport: 0 is Default, n is Retry(n), the last one is Fallback.
FallbackTransport == MaxTransport + 1
Transports        == 0 .. FallbackTransport

NoCost == [source |-> "unavailable", usd |-> 0]

\* A provider-reported cost is never replaced by a calculated one.
ObserveCost(old, source, usd) ==
    IF source = "calculated" /\ old.source = "reported"
    THEN old ELSE [source |-> source, usd |-> usd]

NoAttempt == [account |-> NoAccount, transport |-> 0, sent |-> FALSE]
NoRetry   == [account |-> NoAccount, transport |-> 0, recovery |-> FALSE]

Outcomes == {"Succeeded", "Failed", "Incomplete", "Cancelled"}
Result   == [outcome : Outcomes, send : SendStates, attempts : Nat]

-------------------------------------------------------------------------------
VARIABLES
    req,               \* the frozen request
    signal,            \* the deadline has elapsed, the token is cancelled
    pc,                \* where the driving future is
    collecting,        \* the call in flight is collect_uncommitted
    prepared,          \* the pin of the attempt being prepared, local to the future
    current,           \* the attempt whose stream is owned by the session
    attempts,
    routingAttempts,
    candidate,
    continuationAttempt,
    states,            \* providers with session state in the operation
    excluded,
    recovered,         \* credential_recovery_attempted_accounts
    recoveryAccount,
    pendingRetry,
    transientCounts,
    lastFailure,       \* last_retryable_failure and its events
    watermark,
    committed,
    deliveryPending,
    upstreamComplete,
    terminalFailure,   \* pending_terminal_failure
    priorUsd,
    counted,           \* budget_attempt_already_counted
    cost,
    finalization,
    result,
    persisted,
    row,               \* the model_requests row of the store
    log                \* history: every attempt and how it ended

callVars     == <<pc, collecting, prepared>>
retryVars    == <<recovered, recoveryAccount, pendingRetry, transientCounts, lastFailure>>
routeVars    == <<candidate, continuationAttempt, states, excluded>>
countVars    == <<attempts, routingAttempts>>
deliveryVars == <<committed, deliveryPending, upstreamComplete, terminalFailure>>
budgetVars   == <<priorUsd, counted, cost>>
finalVars    == <<finalization, result>>
storeVars    == <<persisted, row>>

vars == <<req, callVars, signal, current, retryVars, routeVars, countVars,
          deliveryVars, watermark, budgetVars, finalVars, storeVars, log>>

Init ==
    /\ req \in Requests
    /\ signal \in SUBSET Signals
    /\ pc = "start"
    /\ collecting = FALSE
    /\ prepared = NoRetry
    /\ current = NoAttempt
    /\ attempts = 0
    /\ routingAttempts = 0
    /\ candidate = IF req.binding = "pinned" THEN ProviderOf[req.pin] ELSE 1
    /\ continuationAttempt =
         CASE req.binding = "none" -> "None"
           [] req.binding = "external" /\ 1 \in req.states -> "ReplayAny"
           [] OTHER -> "Native"
    /\ states = req.states
    /\ excluded = {}
    /\ recovered = {}
    /\ recoveryAccount = NoAccount
    /\ pendingRetry = NoRetry
    /\ transientCounts = [a \in Accounts |-> 0]
    /\ lastFailure = {}
    /\ watermark = "NotSent"
    /\ committed = FALSE
    /\ deliveryPending = FALSE
    /\ upstreamComplete = FALSE
    /\ terminalFailure = {}
    /\ priorUsd = 0
    /\ counted = FALSE
    /\ cost = NoCost
    /\ finalization = "none"
    /\ result = {}
    /\ persisted = FALSE
    /\ row = {}
    /\ log = <<>>

-------------------------------------------------------------------------------
(* Helpers of the actions. *)

Finalized == finalization = "complete"

\* Mutant: a batch that is handed out again is charged again.
BudgetChargeTwice == priorUsd + cost.usd

\* What the key is charged once the request is settled.
BudgetCharge == priorUsd + IF counted THEN 0 ELSE cost.usd

\* Mutant: the wait does not watch the deadline.
InterruptedByCancelOnly == "cancelled" \in signal

\* A wait that begins after the deadline reports it, and one that is under way
\* polls the token first: with both set either cause may be the one reported.
Interrupted == signal # {}

\* A best-effort write of the row: it may be lost, and the session goes on.
StoreRow(newRow) ==
    /\ row' \in IF StoreFaults THEN {row, newRow} ELSE {newRow}
    /\ UNCHANGED persisted

\* mark_send_state: the column is a watermark too.
StoreSendState(send) ==
    IF persisted
    THEN StoreRow({[r EXCEPT !.send = EscalateSendState(@, send)] : r \in row})
    ELSE UNCHANGED storeVars

LogSend(send) == [log EXCEPT ![attempts].send = EscalateSendState(@, send)]

\* persist_finalization up to its first await: the session now owns the write.
Finish(outcome, send) ==
    /\ watermark' = EscalateSendState(watermark, send)
    /\ finalization' = "pending"
    /\ result' = {[outcome  |-> outcome,
                   send     |-> EscalateSendState(watermark, send),
                   attempts |-> attempts]}

FinishProviderError(wasCancelled, send) ==
    Finish(IF wasCancelled THEN "Cancelled"
           ELSE IF committed THEN "Incomplete" ELSE "Failed", send)

\* Mutant: an attempt that showed nothing is taken as not sent.
InterruptionSendOptimistic == IF committed \/ current.sent THEN "Sent" ELSE "NotSent"

InterruptionSend ==
    IF attempts = 0 THEN "NotSent"
    ELSE IF committed \/ current.sent THEN "Sent" ELSE "Ambiguous"

\* finish_interruption, with the error "none" for what is neither cancellation
\* nor the deadline.
FinishInterruption(error) ==
    /\ Finish(CASE error = "cancelled" -> "Cancelled"
                [] error = "deadline" /\ committed -> "Incomplete"
                [] OTHER -> "Failed", InterruptionSend)
    /\ IF attempts > 0
       THEN StoreSendState(EscalateSendState(watermark, InterruptionSend))
       ELSE UNCHANGED storeVars

FinishSuccess ==
    /\ finalization' = "pending"
    /\ result' = {[outcome |-> "Succeeded", send |-> "Sent", attempts |-> attempts]}
    /\ UNCHANGED watermark

-------------------------------------------------------------------------------
(* Calls of the API. *)

\* The end of start: a request already over is finished and not handed out.
Start ==
    /\ pc = "start"
    /\ IF Interrupted
       THEN /\ FinishInterruption(IF "cancelled" \in signal THEN "cancelled" ELSE "deadline")
            /\ pc' = "refused"
       ELSE /\ pc' = "idle"
            /\ UNCHANGED <<watermark, finalVars, storeVars>>
    /\ UNCHANGED <<req, collecting, prepared, signal, current, retryVars,
                   routeVars, countVars, deliveryVars, budgetVars, log>>

\* A call that has to drive the attempts enters pull.
Pull(collect) ==
    /\ pc' = IF current = NoAttempt THEN "prepare" ELSE "poll"
    /\ collecting' = collect
    /\ UNCHANGED <<watermark, finalVars, terminalFailure>>

\* next_event. An adapter that was told the stream ended without its commit
\* (Ok(None), not finalized) drives the session again only to cancel it.
NextEvent ==
    /\ pc = "idle"
    /\ ~deliveryPending
    /\ ~Finalized
    /\ upstreamComplete => "cancelled" \in signal
    /\ IF terminalFailure # {}
       THEN /\ \E failure \in terminalFailure :
                 FinishProviderError(failure.cancelled, failure.send)
            /\ terminalFailure' = {}
            /\ pc' = "finalizing"
            /\ UNCHANGED collecting
       ELSE Pull(FALSE)
    /\ UNCHANGED <<req, prepared, signal, current, retryVars, routeVars, countVars,
                   committed, deliveryPending, upstreamComplete, budgetVars,
                   storeVars, log>>

CollectUncommitted ==
    /\ pc = "idle"
    /\ ~committed
    /\ ~deliveryPending
    /\ ~Finalized
    /\ ~upstreamComplete
    /\ Pull(TRUE)
    /\ UNCHANGED <<req, prepared, signal, current, retryVars, routeVars, countVars,
                   committed, deliveryPending, upstreamComplete, budgetVars,
                   storeVars, log>>

CommitDownstream ==
    /\ pc = "idle"
    /\ deliveryPending
    /\ ~committed
    /\ ~Finalized
    /\ committed' = TRUE
    /\ deliveryPending' = FALSE
    /\ IF upstreamComplete
       THEN FinishSuccess /\ pc' = "finalizing"
       ELSE UNCHANGED <<watermark, finalVars, pc>>
    /\ UNCHANGED <<req, collecting, prepared, signal, current, retryVars, routeVars,
                   countVars, upstreamComplete, terminalFailure, budgetVars,
                   storeVars, log>>
-------------------------------------------------------------------------------
(* prepare_attempt. *)

RoutingExhausted == ~pendingRetry.recovery /\ routingAttempts >= MaxAttempts

\* The pin of the next attempt. The back-off of a pending retry and
\* Provider::execute are one wait here: cancellation and the deadline end both
\* of them the same way.
BeginAttempt ==
    /\ pc = "prepare"
    /\ pendingRetry' = NoRetry
    /\ IF RoutingExhausted
       THEN /\ FinishInterruption("none")
            /\ pc' = "finalizing"
            /\ UNCHANGED <<prepared, recoveryAccount>>
       ELSE /\ IF pendingRetry # NoRetry
               THEN prepared' = pendingRetry /\ UNCHANGED recoveryAccount
               ELSE IF req.account # NoAccount
               THEN /\ prepared' = [NoRetry EXCEPT !.account = req.account]
                    /\ UNCHANGED recoveryAccount
               ELSE /\ prepared' = [NoRetry EXCEPT !.account = recoveryAccount]
                    /\ recoveryAccount' = NoAccount
            /\ pc' = "execute"
            /\ UNCHANGED <<watermark, finalVars, storeVars>>
    /\ UNCHANGED <<req, collecting, signal, current, recovered, transientCounts,
                   lastFailure, routeVars, countVars, deliveryVars, budgetVars, log>>

\* Cancellation and the deadline are polled before the result of any wait.
ExecuteInterrupted ==
    /\ pc = "execute"
    /\ Interrupted
    /\ \E cause \in signal : FinishInterruption(cause)
    /\ pc' = "finalizing"
    /\ UNCHANGED <<req, collecting, prepared, signal, current, retryVars, routeVars,
                   countVars, deliveryVars, budgetVars, log>>

\* Hand a batch of undelivered failure events to the caller; in a collecting
\* call there is nobody to hand it to and the failure is final.
TerminalFailure(failure, send) ==
    IF collecting
    THEN /\ FinishProviderError(failure.cancelled, send)
         /\ pc' = "finalizing"
         /\ UNCHANGED <<deliveryPending, terminalFailure>>
    ELSE /\ terminalFailure' = {[cancelled |-> failure.cancelled, send |-> send]}
         /\ deliveryPending' = ~committed
         /\ pc' = "idle"
         /\ UNCHANGED <<watermark, finalVars>>

CurrentSendState ==
    EscalateSendState(watermark, IF current.sent THEN "Sent" ELSE "NotSent")

\* prepare_unavailable_native_continuation_replay.
ReplaysUnavailableNative(kind) ==
    /\ req.account = NoAccount
    /\ continuationAttempt = "Native"
    /\ kind \in NoAccountKinds
    /\ req.binding = "pinned"
    /\ ProviderOf[req.pin] \in states

AdvancesCandidate(kind, send) ==
    /\ kind \in LocalKinds
    /\ send = "NotSent"
    /\ continuationAttempt \in {"None", "ReplayAny"}
    /\ candidate < NumCandidates

\* Provider::execute fails. The session moves to another scope or candidate,
\* or falls back on the last failure it had hidden, or reports this one.
ExecuteFails(kind, send) ==
    /\ pc = "execute"
    /\ ~Interrupted
    /\ CASE ReplaysUnavailableNative(kind) ->
              /\ continuationAttempt' = "ReplayAny"
              /\ excluded' = excluded \cup {req.pin}
              /\ pc' = "prepare"
              /\ UNCHANGED <<candidate, lastFailure, deliveryPending, terminalFailure,
                             watermark, counted, cost, finalVars>>
         [] ~ReplaysUnavailableNative(kind) /\ AdvancesCandidate(kind, send) ->
              /\ candidate' = candidate + 1
              /\ pc' = "prepare"
              /\ UNCHANGED <<continuationAttempt, excluded, lastFailure, deliveryPending,
                             terminalFailure, watermark, counted, cost, finalVars>>
         [] OTHER ->
              /\ UNCHANGED <<candidate, continuationAttempt, excluded>>
              /\ IF kind \in ScheduleKinds /\ lastFailure # {}
                 THEN \E failure \in lastFailure :
                        /\ lastFailure' = {}
                        /\ IF failure.atomic
                           THEN /\ cost' = ObserveCost(cost, "reported", failure.usd)
                                /\ counted' = TRUE
                                /\ TerminalFailure(failure, CurrentSendState)
                           ELSE /\ FinishProviderError(failure.cancelled,
                                     EscalateSendState(CurrentSendState, failure.send))
                                /\ pc' = "finalizing"
                                /\ UNCHANGED <<counted, cost, deliveryPending,
                                               terminalFailure>>
                 ELSE /\ FinishProviderError(FALSE,
                           EscalateSendState(CurrentSendState, send))
                      /\ pc' = "finalizing"
                      /\ UNCHANGED <<lastFailure, counted, cost, deliveryPending,
                                     terminalFailure>>
    /\ UNCHANGED <<req, collecting, prepared, signal, current, recovered,
                   recoveryAccount, pendingRetry, transientCounts, states, countVars,
                   committed, upstreamComplete, priorUsd, storeVars, log>>

\* Mutant: the owner of a native continuation is not checked.
MismatchOfPinOnly(account) ==
    \/ ProviderOf[account] # candidate
    \/ prepared.account \notin {NoAccount, account}

\* The stream is not the one that was asked for: another provider than the
\* candidate's, another account than the pinned one, or another account than
\* the owner of a native continuation.
Mismatch(account) ==
    \/ ProviderOf[account] # candidate
    \/ prepared.account \notin {NoAccount, account}
    \/ /\ req.binding = "pinned"
       /\ continuationAttempt = "Native"
       /\ account # req.pin

ExecuteMismatches(account) ==
    /\ pc = "execute"
    /\ ~Interrupted
    /\ Mismatch(account)
    /\ finalization' = "pending"
    /\ result' = {[outcome |-> "Failed", send |-> CurrentSendState, attempts |-> attempts]}
    /\ pc' = "finalizing"
    /\ UNCHANGED <<req, collecting, prepared, signal, current, retryVars, routeVars,
                   countVars, deliveryVars, watermark, budgetVars, storeVars, log>>

\* The stream is owned by the session, and counted, before the row is written.
\* A selector never returns an excluded account.
ExecuteStreams(account) ==
    /\ pc = "execute"
    /\ ~Interrupted
    /\ ~Mismatch(account)
    /\ account \notin excluded
    /\ attempts' = attempts + 1
    /\ routingAttempts' = IF prepared.recovery THEN routingAttempts ELSE routingAttempts + 1
    /\ current' = [account |-> account, transport |-> prepared.transport, sent |-> FALSE]
    /\ log' = Append(log, [account |-> account, continuation |-> continuationAttempt,
                           candidate |-> candidate, recovery |-> prepared.recovery,
                           send |-> "NotSent", safe |-> FALSE, usd |-> 0, exit |-> "live"])
    /\ IF persisted
       THEN StoreRow({[r EXCEPT !.attempts = attempts + 1] : r \in row})
       ELSE \E ok \in IF StoreFaults THEN BOOLEAN ELSE {TRUE} :
              /\ persisted' = ok
              /\ row' = IF ok THEN {[attempts |-> attempts + 1, send |-> "NotSent",
                                     final |-> {}]}
                        ELSE row
    /\ pc' = "poll"
    /\ UNCHANGED <<req, collecting, prepared, signal, retryVars, routeVars,
                   deliveryVars, watermark, budgetVars, finalVars>>

-------------------------------------------------------------------------------
(* The stream of the current attempt. *)

PollInterrupted ==
    /\ pc = "poll"
    /\ Interrupted
    /\ \E cause \in signal : FinishInterruption(cause)
    /\ pc' = "finalizing"
    /\ UNCHANGED <<req, collecting, prepared, signal, current, retryVars, routeVars,
                   countVars, deliveryVars, budgetVars, log>>

\* An event with a canonical or wire fact proves that the request was sent. An
\* event for the client ends next_event, and waits for the commit if it is the
\* first one; collect_uncommitted keeps it and goes on.
StreamEvent(forClient, observed, carriesState) ==
    /\ pc = "poll"
    /\ ~Interrupted
    /\ ~upstreamComplete
    /\ current' = [current EXCEPT !.sent = TRUE]
    /\ watermark' = "Sent"
    /\ IF current.sent THEN UNCHANGED storeVars ELSE StoreSendState("Sent")
    /\ cost' = observed
    /\ states' = IF carriesState THEN states \cup {ProviderOf[current.account]} ELSE states
    /\ log' = [LogSend("Sent") EXCEPT ![attempts].usd = observed.usd]
    /\ IF forClient /\ ~collecting
       THEN /\ deliveryPending' = ~committed
            /\ pc' = "idle"
       ELSE UNCHANGED <<deliveryPending, pc>>
    /\ UNCHANGED <<req, collecting, prepared, signal, retryVars, candidate,
                   continuationAttempt, excluded, countVars, committed,
                   upstreamComplete, terminalFailure, priorUsd, counted, finalVars>>

\* The end of the stream. A collected result waits for the commit; a stream
\* without any event for the client is left to the caller to cancel.
StreamEnds(collectedAny) ==
    /\ pc = "poll"
    /\ ~Interrupted
    /\ collectedAny => collecting /\ current.sent
    /\ upstreamComplete' = TRUE
    /\ IF ~collecting /\ committed
       THEN FinishSuccess /\ pc' = "finalizing"
       ELSE pc' = "idle" /\ UNCHANGED <<watermark, finalVars>>
    /\ deliveryPending' = collectedAny
    /\ UNCHANGED <<req, collecting, prepared, signal, current, retryVars, routeVars,
                   countVars, committed, terminalFailure, budgetVars, storeVars, log>>

-------------------------------------------------------------------------------
(* handle_stream_error: may this attempt be replayed, and how. *)

ProviderProvedReplaySafe(e) == e.send = "NotSent" \/ (e.send # "Ambiguous" /\ e.safe)

\* What the attempt itself did, not the watermark of the request.
AttemptSend(e) == IF current.sent THEN "Sent" ELSE e.send

\* Mutants: one condition forgotten.
NothingDeliveredOrCommitted(e) == ~deliveryPending /\ AttemptSend(e) # "Ambiguous"
NothingDeliveredOrAmbiguous(e) == ~committed /\ ~deliveryPending

\* The conditions of every hidden replay.
NothingDelivered(e) == ~committed /\ ~deliveryPending /\ AttemptSend(e) # "Ambiguous"

RoutingBudget == routingAttempts < MaxAttempts

Scheduled == req.account = NoAccount

ContinuationRetry(e) ==
    /\ Scheduled
    /\ continuationAttempt # "None"
    /\ NothingDelivered(e)
    /\ ProviderProvedReplaySafe(e)
    /\ RoutingBudget
    /\ ProviderOf[current.account] \in states
    /\ e.disposition \in IF continuationAttempt = "Native"
                         THEN {"RetryExactConnection", "ProviderReplayAllowed"}
                         ELSE {"none", "ProviderReplayAllowed"}

AccountRotationRetry(e) ==
    /\ Scheduled
    /\ continuationAttempt = "None"
    /\ NothingDelivered(e)
    /\ e.hint = "AccountRotation"
    /\ RoutingBudget

TransportRecovery(e) ==
    /\ e.hint \in {"TransportRetry", "TransportFallback"}
    /\ NothingDelivered(e)

OrdinaryRetry(e) ==
    /\ Scheduled
    /\ continuationAttempt = "None"
    /\ NothingDelivered(e)
    /\ ProviderProvedReplaySafe(e)
    /\ RoutingBudget

\* Mutant: the transient rejections of an account are not counted.
TransientRetryUnbounded(e) == e.hint = "SameAccountTransient" /\ OrdinaryRetry(e)

TransientRetry(e) ==
    /\ e.hint = "SameAccountTransient"
    /\ OrdinaryRetry(e)
    /\ transientCounts[current.account] < MaxTransient

\* Mutant: a recovered credential may be recovered again.
SameAccountRetryAgain(e) ==
    /\ e.hint = "SameAccount"
    /\ ProviderProvedReplaySafe(e)
    /\ NothingDelivered(e)
    /\ RoutingBudget

SameAccountRetry(e) ==
    /\ e.hint = "SameAccount"
    /\ ProviderProvedReplaySafe(e)
    /\ NothingDelivered(e)
    /\ RoutingBudget
    /\ current.account \notin recovered

Retryable(e) ==
    \/ ContinuationRetry(e) \/ SameAccountRetry(e) \/ OrdinaryRetry(e)
    \/ AccountRotationRetry(e) \/ TransportRecovery(e)

\* How the next attempt is chosen, in the order in which the code decides.
RetryKind(e) ==
    CASE SameAccountRetry(e) -> "SameAccount"
      [] ~SameAccountRetry(e) /\ TransientRetry(e) -> "transient"
      [] ~SameAccountRetry(e) /\ ~TransientRetry(e) /\ TransportRecovery(e) -> e.hint
      [] OTHER -> IF ContinuationRetry(e) THEN "continuation" ELSE "rotation"

NextTransport(e) ==
    CASE e.hint = "TransportRetry"    -> current.transport + 1
      [] e.hint = "TransportFallback" -> FallbackTransport
      [] OTHER                        -> current.transport

\* prepare_continuation_retry widens the scope of the continuation, or pins or
\* excludes the account, before the other retries are considered.
ContinuationScope(e) ==
    CASE ContinuationRetry(e) /\ continuationAttempt = "Native"
                              /\ e.disposition = "ProviderReplayAllowed" -> "ReplayOwner"
      [] ContinuationRetry(e) /\ continuationAttempt = "ReplayOwner" -> "ReplayAny"
      [] OTHER -> continuationAttempt

ContinuationExcludes(e) ==
    ContinuationRetry(e) /\ continuationAttempt \in {"ReplayOwner", "ReplayAny"}

ContinuationPins(e) ==
    /\ ContinuationRetry(e)
    /\ continuationAttempt = "Native"
    /\ e.disposition = "RetryExactConnection"

Excludes(e) == ContinuationExcludes(e) \/ RetryKind(e) = "rotation"

\* The attempt is hidden: its cost moves to the earlier attempts', its
\* observations are dropped, and its failure is kept in case nothing follows.
DiscardAttempt(e) ==
    LET kind     == RetryKind(e)
        observed == IF e.atomic THEN ObserveCost(cost, "reported", e.usd) ELSE cost
    IN  /\ continuationAttempt' = ContinuationScope(e)
        /\ excluded' = IF Excludes(e)
                       THEN excluded \cup {current.account} ELSE excluded
        /\ recovered' = IF kind = "SameAccount"
                        THEN recovered \cup {current.account} ELSE recovered
        /\ recoveryAccount' = IF kind = "SameAccount" \/ ContinuationPins(e)
                              THEN current.account ELSE recoveryAccount
        /\ transientCounts' = IF TransientRetry(e)
                              THEN [transientCounts EXCEPT ![current.account] = @ + 1]
                              ELSE transientCounts
        /\ pendingRetry' =
             IF kind \in {"transient", "TransportRetry", "TransportFallback"}
             THEN [account |-> current.account, transport |-> NextTransport(e),
                   recovery |-> kind # "transient"]
             ELSE pendingRetry
        /\ lastFailure' = {e}
        /\ priorUsd' = priorUsd + IF counted THEN 0 ELSE observed.usd
        /\ counted' = FALSE
        /\ cost' = NoCost
        /\ upstreamComplete' = FALSE
        /\ current' = NoAttempt
        /\ log' = [LogSend(AttemptSend(e)) EXCEPT
                     ![attempts].exit = kind,
                     ![attempts].safe = ProviderProvedReplaySafe(e),
                     ![attempts].usd = observed.usd]
        /\ pc' = "prepare"
        /\ UNCHANGED <<deliveryPending, terminalFailure, finalVars>>

FailAttempt(e) ==
    LET send == EscalateSendState(watermark, AttemptSend(e))
    IN  /\ cost' = IF e.atomic THEN ObserveCost(cost, "reported", e.usd) ELSE cost
        /\ log' = [LogSend(AttemptSend(e)) EXCEPT ![attempts].exit = "failed",
                                                  ![attempts].usd = cost'.usd]
        /\ IF e.atomic /\ ~collecting
           THEN /\ terminalFailure' = {[cancelled |-> e.cancelled, send |-> send]}
                /\ deliveryPending' = ~committed
                /\ pc' = "idle"
                /\ UNCHANGED finalVars
           ELSE /\ finalization' = "pending"
                /\ result' = {[outcome  |-> IF e.cancelled THEN "Cancelled"
                                            ELSE IF committed THEN "Incomplete"
                                            ELSE "Failed",
                               send     |-> send,
                               attempts |-> attempts]}
                /\ pc' = "finalizing"
                /\ UNCHANGED <<terminalFailure, deliveryPending>>
        /\ UNCHANGED <<continuationAttempt, excluded, recovered, recoveryAccount,
                       transientCounts, pendingRetry, lastFailure, priorUsd, counted,
                       upstreamComplete, current>>

\* A provider stops retrying a transport once it has fallen back, and does not
\* claim that nothing was sent after it has delivered a fact.
Plausible(e) ==
    /\ e.hint = "TransportRetry" => current.transport < MaxTransport
    /\ e.hint = "TransportFallback" => current.transport # FallbackTransport
    /\ current.sent => e.send # "NotSent"

StreamFails(e) ==
    /\ pc = "poll"
    /\ ~Interrupted
    /\ ~upstreamComplete
    /\ Plausible(e)
    /\ watermark' = EscalateSendState(watermark, AttemptSend(e))
    /\ StoreSendState(watermark')
    /\ IF Retryable(e) THEN DiscardAttempt(e) ELSE FailAttempt(e)
    /\ UNCHANGED <<req, collecting, prepared, signal, candidate, states, countVars,
                   committed>>

-------------------------------------------------------------------------------
(* The terminal write, and a caller that goes away. *)

\* Mutant: a row is made up for attempts whose first write was lost.
CreatesRowLate(final) == ~persisted /\ final.send # "Sent"

CreatesRow(final) == ~persisted /\ final.attempts = 0 /\ final.send = "NotSent"

\* The future held by RequestFinalization::Pending. Only a request that never
\* reached an attempt may get its row here.
WriteFinalization ==
    /\ pc \in {"finalizing", "detached", "refused"}
    /\ finalization = "pending"
    /\ \E final \in result, ok \in IF StoreFaults THEN BOOLEAN ELSE {TRUE} :
         LET creates == CreatesRow(final)
             open    == IF creates
                        THEN {[attempts |-> 0, send |-> "NotSent", final |-> {}]} ELSE row
             closed  == {[attempts |-> final.attempts, send |-> final.send,
                          final |-> result]}
         IN  /\ persisted' = (persisted \/ (creates /\ ok))
             /\ row' \in IF ~persisted' THEN {row}
                        ELSE IF StoreFaults THEN {open, closed} ELSE {closed}
    /\ finalization' = "complete"
    /\ pc' = IF pc = "finalizing" THEN "idle" ELSE "closed"
    /\ UNCHANGED <<req, collecting, prepared, signal, current, retryVars, routeVars,
                   countVars, deliveryVars, watermark, budgetVars, result, log>>

\* The token may be set at any time.
Cancel ==
    /\ "cancelled" \notin signal
    /\ signal' = signal \cup {"cancelled"}
    /\ UNCHANGED <<req, callVars, current, retryVars, routeVars, countVars,
                   deliveryVars, watermark, budgetVars, finalVars, storeVars, log>>

DeadlineElapses ==
    /\ "deadline" \notin signal
    /\ signal' = signal \cup {"deadline"}
    /\ UNCHANGED <<req, callVars, current, retryVars, routeVars, countVars,
                   deliveryVars, watermark, budgetVars, finalVars, storeVars, log>>

\* The client goes away: the future of the call in flight is dropped with its
\* locals, and the session moves to a task that finishes it.
Abandon ==
    /\ pc \in {"idle", "execute", "poll", "finalizing"}
    /\ ~Finalized
    /\ pc' = "detached"
    /\ signal' = signal \cup {"cancelled"}
    /\ prepared' = NoRetry
    /\ collecting' = FALSE
    /\ UNCHANGED <<req, current, retryVars, routeVars, countVars,
                   deliveryVars, watermark, budgetVars, finalVars, storeVars, log>>

\* Mutant: a pending write is replaced.
MustFinishUnlessComplete == ~Finalized

MustFinish == finalization = "none"

\* cancel_and_finalize. A write already pending is awaited by WriteFinalization.
DetachFinalize ==
    /\ pc = "detached"
    /\ MustFinish
    /\ deliveryPending' = FALSE
    /\ terminalFailure' = {}
    /\ IF terminalFailure # {}
       THEN /\ \E failure \in terminalFailure :
                 FinishProviderError(failure.cancelled, failure.send)
            /\ UNCHANGED storeVars
       ELSE FinishInterruption("cancelled")
    /\ UNCHANGED <<req, callVars, signal, current, retryVars, routeVars, countVars,
                   committed, upstreamComplete, budgetVars, log>>

-------------------------------------------------------------------------------
Observations == {ObserveCost(cost, source, usd) :
                   source \in {"calculated", "reported"}, usd \in Costs}

PrepareStep ==
    \/ BeginAttempt
    \/ ExecuteInterrupted
    \/ \E kind \in ExecuteKinds, send \in SendStates : ExecuteFails(kind, send)
    \/ \E account \in Accounts : ExecuteMismatches(account) \/ ExecuteStreams(account)

StreamStep ==
    \/ PollInterrupted
    \/ \E forClient, carriesState \in BOOLEAN, observed \in Observations \cup {cost} :
         StreamEvent(forClient, observed, carriesState)
    \/ \E collectedAny \in BOOLEAN : StreamEnds(collectedAny)
    \/ \E e \in StreamErrors : StreamFails(e)

CallStep == Start \/ NextEvent \/ CollectUncommitted \/ CommitDownstream

Next ==
    \/ CallStep \/ PrepareStep \/ StreamStep
    \/ WriteFinalization \/ Cancel \/ DeadlineElapses \/ Abandon \/ DetachFinalize

\* Time passes, timers and wakers fire, and tokio runs its tasks; no provider
\* need answer, and no client need go on reading.
Fairness ==
    /\ WF_vars(Start)
    /\ WF_vars(BeginAttempt)
    /\ WF_vars(ExecuteInterrupted)
    /\ WF_vars(PollInterrupted)
    /\ WF_vars(WriteFinalization)
    /\ WF_vars(DetachFinalize)
    /\ WF_vars(DeadlineElapses)

Spec == Init /\ [][Next]_vars

FairSpec == Spec /\ Fairness

-------------------------------------------------------------------------------
(* Properties. *)

PcValues == {"start", "idle", "prepare", "execute", "poll", "finalizing",
             "refused", "detached", "closed"}

RetryExits == {"SameAccount", "transient", "TransportRetry", "TransportFallback",
               "continuation", "rotation"}

LogEntry == [account : Accounts, continuation : ContinuationAttempts,
             candidate : Candidates, recovery : BOOLEAN, send : SendStates,
             safe : BOOLEAN, usd : Nat, exit : {"live", "failed"} \cup RetryExits]

\* Every variable has the type of the field it stands for.
TypeOK ==
    /\ req \in Requests
    /\ signal \subseteq Signals
    /\ pc \in PcValues
    /\ collecting \in BOOLEAN
    /\ prepared \in [account : Accounts \cup {NoAccount}, transport : Transports,
                     recovery : BOOLEAN]
    /\ current \in [account : Accounts \cup {NoAccount}, transport : Transports,
                    sent : BOOLEAN]
    /\ attempts \in Nat
    /\ routingAttempts \in Nat
    /\ candidate \in Candidates
    /\ continuationAttempt \in ContinuationAttempts
    /\ states \subseteq Candidates
    /\ excluded \subseteq Accounts
    /\ recovered \subseteq Accounts
    /\ recoveryAccount \in Accounts \cup {NoAccount}
    /\ pendingRetry \in [account : Accounts \cup {NoAccount}, transport : Transports,
                         recovery : BOOLEAN]
    /\ transientCounts \in [Accounts -> 0 .. MaxTransient]
    /\ lastFailure \subseteq StreamErrors
    /\ watermark \in SendStates
    /\ committed \in BOOLEAN
    /\ deliveryPending \in BOOLEAN
    /\ upstreamComplete \in BOOLEAN
    /\ terminalFailure \subseteq [cancelled : BOOLEAN, send : SendStates]
    /\ priorUsd \in Nat
    /\ counted \in BOOLEAN
    /\ cost \in [source : {"unavailable", "calculated", "reported"}, usd : Nat]
    /\ finalization \in {"none", "pending", "complete"}
    /\ result \subseteq Result
    /\ persisted \in BOOLEAN
    /\ row \subseteq [attempts : Nat, send : SendStates, final : SUBSET Result]
    /\ log \in Seq(LogEntry)

\* Once the first byte is committed downstream no further attempt is made: the
\* session owns the stream it committed, or a failure to report, or is over.
CommittedIsFinalAttempt ==
    committed => \/ pc \notin {"prepare", "execute"} /\ current # NoAttempt
                 \/ terminalFailure # {}
                 \/ finalization # "none"

\* A response on its way to the client, or already committed to it, is never
\* replaced by that of another attempt.
NoReplayAfterDelivery ==
    [][committed \/ deliveryPending => attempts' = attempts]_vars

\* An attempt is replayed only if the provider proved that nothing was executed,
\* or asked for a hidden retry; never if it cannot tell whether it was sent.
ReplayJustified ==
    \A i \in 1 .. Len(log) :
        log[i].exit \in RetryExits =>
            /\ log[i].send # "Ambiguous"
            /\ log[i].safe \/ log[i].exit \in {"rotation", "TransportRetry",
                                               "TransportFallback"}

\* The terminal outcome never claims less was sent than any of the attempts did,
\* and an interrupted attempt that showed nothing counts as possibly sent.
FinalSendStateCoversAttempts ==
    \A final \in result :
        /\ \A i \in 1 .. Len(log) : AtLeast(final.send, log[i].send)
        /\ final.outcome = "Cancelled" /\ log # <<>>
             => final.send # "NotSent" \/ terminalFailure # {} \/ log[Len(log)].exit # "live"
        /\ final.attempts = Len(log)

\* The key pays the cost each attempt reported, hidden attempts included, once.
BudgetChargeExact ==
    LET SpentUpTo[i \in 0 .. Len(log)] ==
          IF i = 0 THEN 0 ELSE SpentUpTo[i - 1] + log[i].usd
    IN  BudgetCharge = SpentUpTo[Len(log)]

\* From the moment the terminal write is owned by the session nothing that it
\* or the settlement reports changes, whatever is dropped or called afterwards.
OutcomeFrozen ==
    [][finalization # "none" =>
         UNCHANGED <<result, attempts, current, committed, budgetVars, log>>]_vars

\* Of one account an OAuth recovery is replayed once and transient rejections
\* MaxTransient times.
SameAccountRetriesBounded ==
    \A a \in Accounts :
        LET Ended(exit) == {i \in 1 .. Len(log) : log[i].account = a /\ log[i].exit = exit}
        IN  /\ Cardinality(Ended("SameAccount")) <= 1
            /\ Cardinality(Ended("transient")) <= MaxTransient

\* A natively continued response stays with the account that owns it, and a
\* continuation, once widened to a replay, never narrows again.
ContinuationOwnerKept ==
    \A i \in 1 .. Len(log) :
        /\ log[i].continuation = "Native" /\ req.binding = "pinned"
             => log[i].account = req.pin
        /\ \A j \in 1 .. i :
             log[i].continuation = "Native" => log[j].continuation = "Native"
        /\ log[i].continuation = "None" <=> req.binding = "none"

\* The row tells the story of the session: one with no attempt exists only if
\* none was started, and one that is closed carries the outcome of the session.
RowFaithful ==
    \A r \in row :
        /\ r.attempts = 0 => log = <<>>
        /\ r.attempts <= attempts
        /\ AtLeast(watermark, r.send) \/ r.final # {}
        /\ r.final # {} => Finalized /\ r.final = result

\* A recovery pin and the exclusion of accounts never contradict each other:
\* what is pinned for a retry can still be selected.
PinnedAccountSelectable ==
    prepared.account # NoAccount /\ pc = "execute" => prepared.account \notin excluded

\* What the session tells: the watermark until the terminal write was tried, and
\* its outcome from then on.
Tale ==
    LET final == CHOOSE f \in result : TRUE
    IN  [attempts  |-> attempts,
         send      |-> IF Finalized THEN final.send ELSE watermark,
         committed |-> committed,
         ending    |-> IF ~Finalized THEN "running"
                       ELSE IF final.outcome = "Succeeded" THEN "succeeded" ELSE "failed"]

Told == INSTANCE ResponseSession
          WITH Sessions <- {"this"}, tale <- [s \in {"this"} |-> Tale]

\* Whatever is replayed, hidden, cancelled or dropped, the session is a response
\* session to those who only hear what it tells.
IsAResponseSession == Told!SessionsSpec

\* A call in flight always comes back, and a session left by its client, in a call
\* or between two, is finalized.
CallsReturn ==
    /\ pc \in {"prepare", "execute", "poll", "finalizing", "refused"}
         ~> pc \in {"idle", "closed"}
    /\ pc = "detached" ~> Finalized
===============================================================================
