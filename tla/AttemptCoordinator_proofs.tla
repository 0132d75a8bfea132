----------------------- MODULE AttemptCoordinator_proofs -----------------------
(***************************************************************************)
(* Theorems about the response execution session, for all accounts,        *)
(* candidates, budgets, requests and failures of providers.                *)
(***************************************************************************)
EXTENDS AttemptCoordinator, FiniteSetTheorems, WellFoundedInduction, TLAPS

(* Who owns what, by the place of the driving future: the strengthening that *)
(* makes the type invariant and the delivery properties inductive.           *)
Ownership ==
    /\ current # NoAttempt => current.account \in Accounts
    /\ pc = "poll" => current # NoAttempt
    /\ pc \in {"prepare", "execute"} => current = NoAttempt
    /\ pc \in {"prepare", "execute", "poll"} => ~deliveryPending /\ terminalFailure = {}
    /\ pc \in {"start", "idle", "prepare", "execute", "poll"} => finalization # "pending"
    /\ pc \in {"prepare", "execute", "poll"} => finalization = "none"
    /\ pc \in {"prepare", "execute"} => ~committed
    /\ deliveryPending => current # NoAttempt \/ terminalFailure # {}
    /\ terminalFailure # {} => committed \/ deliveryPending

IInv == TypeOK /\ Ownership /\ CommittedIsFinalAttempt

-------------------------------------------------------------------------------
(* What the helpers of the actions return. *)

\* Merging two send states gives a send state (escalate_send_state).
LEMMA EscalateType ==
    ASSUME NEW a \in SendStates, NEW b \in SendStates
    PROVE  EscalateSendState(a, b) \in SendStates
BY DEF EscalateSendState, SendStates

\* Raising what an attempt sent keeps the history well formed.
LEMMA LogSendType ==
    ASSUME TypeOK, NEW send \in SendStates
    PROVE  LogSend(send) \in Seq(LogEntry)
<1>1. log \in Seq(LogEntry) BY DEF TypeOK
<1>2. CASE attempts \in DOMAIN log
  <2>1. log[attempts] \in LogEntry BY <1>1, <1>2
  <2>2. [log[attempts] EXCEPT !.send = EscalateSendState(@, send)] \in LogEntry
    BY <2>1, EscalateType DEF LogEntry
  <2>3. LogSend(send) = [log EXCEPT ![attempts] =
                           [log[attempts] EXCEPT !.send = EscalateSendState(@, send)]]
    BY DEF LogSend
  <2> QED BY <1>1, <1>2, <2>2, <2>3
<1>3. CASE attempts \notin DOMAIN log
  <2>1. DOMAIN LogSend(send) = DOMAIN log BY DEF LogSend
  <2>2. \A i \in DOMAIN log : LogSend(send)[i] = log[i] BY <1>3 DEF LogSend
  <2>3. LogSend(send) = [i \in DOMAIN log |-> log[i]]
    BY <2>1, <2>2 DEF LogSend
  <2> QED BY <1>1, <2>3
<1> QED BY <1>2, <1>3

\* A terminal outcome and the watermark it raises have their types.
LEMMA FinishType ==
    ASSUME TypeOK, NEW outcome \in Outcomes, NEW send \in SendStates,
           Finish(outcome, send)
    PROVE  /\ watermark' \in SendStates
           /\ finalization' = "pending"
           /\ result' \subseteq Result
BY EscalateType DEF TypeOK, Finish, Result

\* The best-effort write of a row keeps rows rows.
LEMMA StoreSendStateType ==
    ASSUME TypeOK, NEW send \in SendStates, StoreSendState(send)
    PROVE  /\ persisted' \in BOOLEAN
           /\ row' \subseteq [attempts : Nat, send : SendStates, final : SUBSET Result]
<1> DEFINE Rows == [attempts : Nat, send : SendStates, final : SUBSET Result]
<1>1. row \subseteq Rows /\ persisted \in BOOLEAN BY DEF TypeOK
<1>2. \A r \in row : [r EXCEPT !.send = EscalateSendState(@, send)] \in Rows
  BY <1>1, EscalateType
<1>3. row' \in {row, {[r EXCEPT !.send = EscalateSendState(@, send)] : r \in row}}
      /\ persisted' = persisted
  BY DEF StoreSendState, StoreRow, storeVars
<1> QED BY <1>1, <1>2, <1>3

\* However a request is interrupted, what it leaves has its type.
LEMMA FinishInterruptionType ==
    ASSUME TypeOK, NEW error \in Signals \cup {"none"}, FinishInterruption(error)
    PROVE  /\ watermark' \in SendStates
           /\ finalization' = "pending"
           /\ result' \subseteq Result
           /\ persisted' \in BOOLEAN
           /\ row' \subseteq [attempts : Nat, send : SendStates, final : SUBSET Result]
<1>1. InterruptionSend \in SendStates BY DEF InterruptionSend, SendStates
<1>2. EscalateSendState(watermark, InterruptionSend) \in SendStates
  BY <1>1, EscalateType DEF TypeOK
<1>3. PICK outcome \in Outcomes : Finish(outcome, InterruptionSend)
  BY DEF FinishInterruption, Outcomes
<1>4. persisted' \in BOOLEAN
      /\ row' \subseteq [attempts : Nat, send : SendStates, final : SUBSET Result]
  BY <1>2, StoreSendStateType DEF FinishInterruption, TypeOK, storeVars
<1> QED BY <1>1, <1>3, <1>4, FinishType

\* The same of a failure a provider reported.
LEMMA FinishProviderErrorType ==
    ASSUME TypeOK, NEW cancelled, NEW send \in SendStates,
           FinishProviderError(cancelled, send)
    PROVE  /\ watermark' \in SendStates
           /\ finalization' = "pending"
           /\ result' \subseteq Result
<1>1. PICK outcome \in Outcomes : Finish(outcome, send)
  BY DEF FinishProviderError, Outcomes
<1> QED BY <1>1, FinishType

-------------------------------------------------------------------------------
(* The invariant holds at the start, and every action preserves it. *)

\* A session begins with nothing made, sent or delivered.
LEMMA InitInv == Init => IInv
<1> SUFFICES ASSUME Init PROVE IInv OBVIOUS
<1> USE ConstantsAssumption, InputsAssumption
<1>1. req \in Request /\ (req.binding = "pinned" => req.pin \in Accounts)
  BY DEF Init
<1>2. candidate \in Candidates BY <1>1 DEF Init, Candidates
<1>3. continuationAttempt \in ContinuationAttempts BY DEF Init, ContinuationAttempts
<1>4. transientCounts \in [Accounts -> 0 .. MaxTransient] BY DEF Init
<1>5. /\ prepared \in [account : Accounts \cup {NoAccount}, transport : Transports,
                       recovery : BOOLEAN]
      /\ pendingRetry \in [account : Accounts \cup {NoAccount}, transport : Transports,
                           recovery : BOOLEAN]
      /\ current \in [account : Accounts \cup {NoAccount}, transport : Transports,
                      sent : BOOLEAN]
  BY DEF Init, NoRetry, NoAttempt, Transports, FallbackTransport
<1>6. states \subseteq Candidates BY <1>1 DEF Init, Request
<1>7. signal \subseteq Signals BY DEF Init
<1>8. log \in Seq(LogEntry) BY DEF Init
<1>9. /\ result \subseteq Result /\ lastFailure \subseteq StreamErrors
      /\ terminalFailure \subseteq [cancelled : BOOLEAN, send : SendStates]
      /\ row \subseteq [attempts : Nat, send : SendStates, final : SUBSET Result]
      /\ cost \in [source : {"unavailable", "calculated", "reported"}, usd : Nat]
  BY DEF Init, NoCost
<1>10. TypeOK
  BY <1>2, <1>3, <1>4, <1>5, <1>6, <1>7, <1>8, <1>9
     DEF TypeOK, Init, PcValues, SendStates
<1>11. Ownership /\ CommittedIsFinalAttempt
  BY DEF Init, Ownership, CommittedIsFinalAttempt
<1> QED BY <1>10, <1>11 DEF IInv

\* The request arrives too late, or its session is handed out.
LEMMA StartInv == IInv /\ Start => IInv'
<1> SUFFICES ASSUME IInv, Start PROVE IInv' OBVIOUS
<1> USE DEF IInv
<1>1. CASE Interrupted
  <2>1. PICK cause \in Signals : FinishInterruption(cause)
    BY <1>1 DEF Start, Signals
  <2>2. TypeOK'
    BY <1>1, <2>1, FinishInterruptionType
       DEF Start, TypeOK, PcValues, retryVars, routeVars, countVars, deliveryVars, budgetVars
  <2> QED
    BY <1>1, <2>1, <2>2, FinishInterruptionType
       DEF Start, Ownership, CommittedIsFinalAttempt, deliveryVars, retryVars
<1>2. CASE ~Interrupted
  BY <1>2 DEF Start, TypeOK, Ownership, CommittedIsFinalAttempt, PcValues, retryVars,
              routeVars, countVars, deliveryVars, budgetVars, finalVars, storeVars
<1> QED BY <1>1, <1>2

\* next_event reports a pending failure, or drives the attempts.
LEMMA NextEventInv == IInv /\ NextEvent => IInv'
<1> SUFFICES ASSUME IInv, NextEvent PROVE IInv' OBVIOUS
<1> USE DEF IInv
<1>1. CASE terminalFailure # {}
  <2>1. PICK failure \in terminalFailure :
          FinishProviderError(failure.cancelled, failure.send)
    BY <1>1 DEF NextEvent
  <2>2. failure.send \in SendStates BY DEF TypeOK
  <2>3. TypeOK'
    BY <1>1, <2>1, <2>2, FinishProviderErrorType
       DEF NextEvent, TypeOK, PcValues, retryVars, routeVars, countVars, budgetVars, storeVars
  <2> QED
    BY <1>1, <2>1, <2>2, <2>3, FinishProviderErrorType
       DEF NextEvent, Ownership, CommittedIsFinalAttempt, retryVars
<1>2. CASE terminalFailure = {}
  <2> pc' \in PcValues /\ collecting' \in BOOLEAN
      /\ UNCHANGED <<watermark, finalVars, terminalFailure>>
      /\ UNCHANGED <<req, prepared, signal, current, retryVars, routeVars, countVars,
                     committed, deliveryPending, upstreamComplete, budgetVars,
                     storeVars, log>>
    BY <1>2 DEF NextEvent, Pull, PcValues
  <2>1. TypeOK'
    BY DEF TypeOK, retryVars, routeVars, countVars, budgetVars, finalVars, storeVars
  <2>2. finalization = "none" /\ pc = "idle" /\ ~deliveryPending
    BY DEF NextEvent, TypeOK, Ownership, Finalized
  <2>3. /\ current' = current /\ committed' = committed /\ finalization' = finalization
        /\ deliveryPending' = deliveryPending /\ terminalFailure' = terminalFailure
        /\ pc' = IF current = NoAttempt THEN "prepare" ELSE "poll"
    BY <1>2 DEF NextEvent, Pull, finalVars
  <2>4. Ownership' /\ CommittedIsFinalAttempt'
    BY <1>2, <2>2, <2>3 DEF Ownership, CommittedIsFinalAttempt
  <2> QED BY <2>1, <2>4
<1> QED BY <1>1, <1>2

\* collect_uncommitted drives the attempts too.
LEMMA CollectUncommittedInv == IInv /\ CollectUncommitted => IInv'
<1> SUFFICES ASSUME IInv, CollectUncommitted PROVE IInv' OBVIOUS
<1>1. TypeOK'
  BY DEF IInv, CollectUncommitted, Pull, TypeOK, PcValues, retryVars, routeVars,
         countVars, budgetVars, finalVars, storeVars
<1>2. terminalFailure = {} /\ finalization = "none"
  BY DEF IInv, TypeOK, CollectUncommitted, Ownership, Finalized
<1>3. /\ current' = current /\ committed' = committed /\ finalization' = finalization
      /\ deliveryPending' = deliveryPending /\ terminalFailure' = terminalFailure
      /\ pc' = IF current = NoAttempt THEN "prepare" ELSE "poll"
  BY DEF CollectUncommitted, Pull, finalVars
<1>4. Ownership' /\ CommittedIsFinalAttempt'
  BY <1>2, <1>3 DEF IInv, CollectUncommitted, Ownership, CommittedIsFinalAttempt
<1> QED BY <1>1, <1>4 DEF IInv

\* The commit ends the possibility of a replay.
LEMMA CommitDownstreamInv == IInv /\ CommitDownstream => IInv'
<1> SUFFICES ASSUME IInv, CommitDownstream PROVE IInv' OBVIOUS
<1>1. /\ finalization' \in {"none", "pending", "complete"}
      /\ watermark' = watermark
      /\ result' \subseteq Result
      /\ pc' \in {"idle", "finalizing"}
  BY DEF IInv, TypeOK, CommitDownstream, FinishSuccess, Result, Outcomes, SendStates,
         finalVars
<1>2. TypeOK'
  <2>1. /\ committed' \in BOOLEAN /\ deliveryPending' \in BOOLEAN
        /\ UNCHANGED <<req, collecting, prepared, signal, current, retryVars, routeVars,
                       countVars, upstreamComplete, terminalFailure, budgetVars,
                       storeVars, log>>
    BY DEF CommitDownstream
  <2> QED
    BY <1>1, <2>1 DEF IInv, TypeOK, PcValues, retryVars, routeVars, countVars,
                      budgetVars, storeVars
<1>3. /\ current' = current /\ terminalFailure' = terminalFailure
      /\ committed' = TRUE /\ deliveryPending' = FALSE
      /\ current # NoAttempt \/ terminalFailure # {}
      /\ pc' = "idle" => finalization' # "pending"
  BY DEF IInv, CommitDownstream, FinishSuccess, Ownership, finalVars
<1>4. Ownership' /\ CommittedIsFinalAttempt'
  BY <1>1, <1>3 DEF IInv, Ownership, CommittedIsFinalAttempt
<1> QED BY <1>2, <1>4 DEF IInv

\* The pin of an attempt is consumed, or there is no budget for another one.
LEMMA BeginAttemptInv == IInv /\ BeginAttempt => IInv'
<1> SUFFICES ASSUME IInv, BeginAttempt PROVE IInv' OBVIOUS
<1>1. /\ NoRetry \in [account : Accounts \cup {NoAccount}, transport : Transports,
                      recovery : BOOLEAN]
      /\ \A a \in Accounts \cup {NoAccount} :
            [NoRetry EXCEPT !.account = a]
              \in [account : Accounts \cup {NoAccount}, transport : Transports,
                   recovery : BOOLEAN]
  <2>1. 0 \in Transports BY ConstantsAssumption DEF Transports, FallbackTransport
  <2> QED BY <2>1 DEF NoRetry
<1>2. req.account \in Accounts \cup {NoAccount}
  BY InputsAssumption DEF IInv, TypeOK, Request
<1>3. CASE RoutingExhausted
  <2>1. /\ FinishInterruption("none") /\ pc' = "finalizing" /\ pendingRetry' = NoRetry
        /\ UNCHANGED <<prepared, recoveryAccount>>
        /\ UNCHANGED <<req, collecting, signal, current, recovered, transientCounts,
                       lastFailure, routeVars, countVars, deliveryVars, budgetVars, log>>
    BY <1>3 DEF BeginAttempt
  <2>2. TypeOK'
    BY <1>1, <2>1, FinishInterruptionType
       DEF IInv, TypeOK, PcValues, routeVars, countVars, deliveryVars, budgetVars
  <2> QED
    BY <2>1, <2>2, FinishInterruptionType
       DEF IInv, Ownership, CommittedIsFinalAttempt, deliveryVars, BeginAttempt
<1>4. CASE ~RoutingExhausted
  <2>1. /\ prepared' \in {pendingRetry, [NoRetry EXCEPT !.account = req.account],
                          [NoRetry EXCEPT !.account = recoveryAccount]}
        /\ recoveryAccount' \in {recoveryAccount, NoAccount}
        /\ pc = "prepare" /\ pc' = "execute" /\ pendingRetry' = NoRetry
        /\ UNCHANGED <<watermark, finalVars, storeVars>>
        /\ UNCHANGED <<req, collecting, signal, current, recovered, transientCounts,
                       lastFailure, routeVars, countVars, deliveryVars, budgetVars, log>>
    BY <1>4 DEF BeginAttempt
  <2>2. prepared' \in [account : Accounts \cup {NoAccount}, transport : Transports,
                       recovery : BOOLEAN]
    BY <1>1, <1>2, <2>1 DEF IInv, TypeOK
  <2>3. TypeOK'
    BY <1>1, <2>1, <2>2
       DEF IInv, TypeOK, PcValues, routeVars, countVars, deliveryVars, budgetVars,
           finalVars, storeVars
  <2> QED
    BY <2>1, <2>3
       DEF IInv, Ownership, CommittedIsFinalAttempt, deliveryVars, finalVars
<1> QED BY <1>3, <1>4

\* A wait is ended by cancellation or the deadline.
LEMMA InterruptedInv == IInv /\ (ExecuteInterrupted \/ PollInterrupted) => IInv'
<1> SUFFICES ASSUME IInv, ExecuteInterrupted \/ PollInterrupted PROVE IInv' OBVIOUS
<1>1. /\ pc \in {"execute", "poll"} /\ pc' = "finalizing"
      /\ UNCHANGED <<req, collecting, prepared, signal, current, retryVars, routeVars,
                     countVars, deliveryVars, budgetVars, log>>
  BY DEF ExecuteInterrupted, PollInterrupted
<1>2. PICK cause \in Signals : FinishInterruption(cause)
  BY DEF ExecuteInterrupted, PollInterrupted, IInv, TypeOK
<1>3. TypeOK'
  BY <1>1, <1>2, FinishInterruptionType
     DEF IInv, TypeOK, PcValues, retryVars, routeVars, countVars, deliveryVars, budgetVars
<1> QED
  BY <1>1, <1>2, <1>3, FinishInterruptionType
     DEF IInv, Ownership, CommittedIsFinalAttempt, deliveryVars

\* A batch of failure events is handed out, or the failure is final.
LEMMA TerminalFailureType ==
    ASSUME TypeOK, NEW failure \in StreamErrors, NEW send \in SendStates,
           TerminalFailure(failure, send)
    PROVE  /\ watermark' \in SendStates
           /\ finalization' \in {finalization, "pending"}
           /\ result' \subseteq Result
           /\ deliveryPending' \in BOOLEAN
           /\ terminalFailure' \subseteq [cancelled : BOOLEAN, send : SendStates]
           /\ pc' \in {"idle", "finalizing"}
           /\ pc' = "idle" => /\ finalization' = finalization
                              /\ terminalFailure' # {}
                              /\ committed \/ deliveryPending'
           /\ pc' = "finalizing" => /\ finalization' = "pending"
                                    /\ terminalFailure' = terminalFailure
                                    /\ deliveryPending' = deliveryPending
<1>1. failure.cancelled \in BOOLEAN BY InputsAssumption DEF ProviderError
<1>2. CASE collecting
  BY <1>2, FinishProviderErrorType DEF TerminalFailure, TypeOK
<1>3. CASE ~collecting
  <2>1. /\ terminalFailure' = {[cancelled |-> failure.cancelled, send |-> send]}
        /\ deliveryPending' = ~committed /\ pc' = "idle"
        /\ UNCHANGED <<watermark, finalVars>>
    BY <1>3 DEF TerminalFailure
  <2>2. deliveryPending' \in BOOLEAN /\ (committed \/ deliveryPending')
    BY <2>1 DEF TypeOK
  <2>3. terminalFailure' # {}
        /\ terminalFailure' \subseteq [cancelled : BOOLEAN, send : SendStates]
    BY <1>1, <2>1
  <2>4. pc' = "idle" /\ UNCHANGED <<watermark, finalization, result>>
    BY <2>1 DEF finalVars
  <2> QED BY <2>2, <2>3, <2>4 DEF TypeOK
<1> QED BY <1>2, <1>3

\* A cost that is observed is a cost.
LEMMA ObserveCostType ==
    ASSUME NEW old \in [source : {"unavailable", "calculated", "reported"}, usd : Nat],
           NEW source \in {"calculated", "reported"}, NEW usd \in Nat
    PROVE  ObserveCost(old, source, usd)
             \in [source : {"unavailable", "calculated", "reported"}, usd : Nat]
BY DEF ObserveCost

\* What a provider reports of a failure.
LEMMA StreamErrorType ==
    ASSUME NEW e \in StreamErrors
    PROVE  /\ e.send \in SendStates /\ e.usd \in Nat
           /\ e.cancelled \in BOOLEAN /\ e.safe \in BOOLEAN
           /\ e.hint \in RetryHints
<1>1. e \in ProviderError BY InputsAssumption
<1>2. e.usd \in Costs \cup {0} BY <1>1 DEF ProviderError
<1>3. e.usd \in Nat
  <2>1. Costs \cup {0} \subseteq Nat BY ConstantsAssumption
  <2> QED BY <1>2, <2>1, Zenon
<1>4. e.cancelled \in BOOLEAN /\ e.safe \in BOOLEAN BY <1>1 DEF ProviderError
<1> QED BY <1>1, <1>3, <1>4 DEF ProviderError

\* Provider::execute fails: another scope, another candidate, or the end.
LEMMA ExecuteFailsInv ==
    ASSUME IInv, NEW kind \in ExecuteKinds, NEW send \in SendStates,
           ExecuteFails(kind, send)
    PROVE  IInv'
<1> DEFINE Native == ReplaysUnavailableNative(kind)
           Advances == AdvancesCandidate(kind, send)
<1>1. /\ pc = "execute" /\ ~Interrupted
      /\ UNCHANGED <<req, collecting, prepared, signal, current, recovered,
                     recoveryAccount, pendingRetry, transientCounts, states, countVars,
                     committed, upstreamComplete, priorUsd, storeVars, log>>
  BY DEF ExecuteFails
<1>2. CASE Native
  <2>1. req.pin \in Accounts
    BY <1>2, InputsAssumption DEF ReplaysUnavailableNative, IInv, TypeOK
  <2>2. /\ continuationAttempt' = "ReplayAny"
        /\ excluded' = excluded \cup {req.pin}
        /\ pc' = "prepare"
        /\ UNCHANGED <<candidate, lastFailure, deliveryPending, terminalFailure,
                       watermark, counted, cost, finalVars>>
    BY <1>2 DEF ExecuteFails
  <2>3. TypeOK'
    BY <1>1, <2>1, <2>2
       DEF IInv, TypeOK, PcValues, ContinuationAttempts, countVars, storeVars, finalVars
  <2> QED
    BY <1>1, <2>2, <2>3 DEF IInv, Ownership, CommittedIsFinalAttempt, finalVars
<1>3. CASE ~Native /\ Advances
  <2>1. /\ candidate' = candidate + 1 /\ candidate < NumCandidates
        /\ pc' = "prepare"
        /\ UNCHANGED <<continuationAttempt, excluded, lastFailure, deliveryPending,
                       terminalFailure, watermark, counted, cost, finalVars>>
    BY <1>3 DEF ExecuteFails, AdvancesCandidate
  <2>2. candidate' \in Candidates
    BY <2>1, ConstantsAssumption DEF IInv, TypeOK, Candidates
  <2>3. TypeOK'
    BY <1>1, <2>1, <2>2 DEF IInv, TypeOK, PcValues, countVars, storeVars, finalVars
  <2> QED
    BY <1>1, <2>1, <2>3 DEF IInv, Ownership, CommittedIsFinalAttempt, finalVars
<1>4. CASE ~Native /\ ~Advances
  <2>1. UNCHANGED <<candidate, continuationAttempt, excluded>>
    BY <1>4 DEF ExecuteFails
  <2>2. CurrentSendState \in SendStates
    BY EscalateType DEF CurrentSendState, IInv, TypeOK, SendStates
  <2>3. CASE kind \in ScheduleKinds /\ lastFailure # {}
    <3>1. PICK failure \in lastFailure :
            /\ lastFailure' = {}
            /\ IF failure.atomic
               THEN /\ cost' = ObserveCost(cost, "reported", failure.usd)
                    /\ counted' = TRUE
                    /\ TerminalFailure(failure, CurrentSendState)
               ELSE /\ FinishProviderError(failure.cancelled,
                         EscalateSendState(CurrentSendState, failure.send))
                    /\ pc' = "finalizing"
                    /\ UNCHANGED <<counted, cost, deliveryPending, terminalFailure>>
      BY <1>4, <2>3 DEF ExecuteFails
    <3>2. failure \in StreamErrors BY DEF IInv, TypeOK
    <3>3. CASE failure.atomic
      <4>1. /\ cost' \in [source : {"unavailable", "calculated", "reported"}, usd : Nat]
            /\ counted' \in BOOLEAN
        <5>1. cost' = ObserveCost(cost, "reported", failure.usd) /\ counted' \in BOOLEAN
          BY <3>1, <3>3
        <5> QED BY <3>2, <5>1, ObserveCostType, StreamErrorType DEF IInv, TypeOK
      <4>2. TerminalFailure(failure, CurrentSendState) BY <3>1, <3>3
      <4>3. TypeOK'
        BY <1>1, <2>1, <2>2, <3>1, <3>2, <4>1, <4>2, TerminalFailureType
           DEF IInv, TypeOK, PcValues, countVars, storeVars
      <4> QED
        BY <1>1, <2>2, <3>2, <4>2, <4>3, TerminalFailureType
           DEF IInv, Ownership, CommittedIsFinalAttempt
    <3>4. CASE ~failure.atomic
      <4>1. EscalateSendState(CurrentSendState, failure.send) \in SendStates
        BY <2>2, <3>2, EscalateType, StreamErrorType
      <4>2. /\ watermark' \in SendStates /\ finalization' = "pending"
            /\ result' \subseteq Result
        BY <3>1, <3>4, <4>1, FinishProviderErrorType DEF IInv
      <4>3. /\ pc' = "finalizing" /\ lastFailure' = {}
            /\ UNCHANGED <<counted, cost, deliveryPending, terminalFailure>>
        BY <3>1, <3>4
      <4>4. TypeOK'
        BY <1>1, <2>1, <4>2, <4>3 DEF IInv, TypeOK, PcValues, countVars, storeVars
      <4> QED
        BY <1>1, <4>2, <4>3, <4>4 DEF IInv, Ownership, CommittedIsFinalAttempt
    <3> QED BY <3>3, <3>4
  <2>4. CASE ~(kind \in ScheduleKinds /\ lastFailure # {})
    <3>1. /\ FinishProviderError(FALSE, EscalateSendState(CurrentSendState, send))
          /\ pc' = "finalizing"
          /\ UNCHANGED <<lastFailure, counted, cost, deliveryPending, terminalFailure>>
      BY <1>4, <2>4 DEF ExecuteFails
    <3>2. EscalateSendState(CurrentSendState, send) \in SendStates
      BY <2>2, EscalateType
    <3>3. /\ watermark' \in SendStates /\ finalization' = "pending"
          /\ result' \subseteq Result
      BY <3>1, <3>2, FinishProviderErrorType DEF IInv
    <3>4. /\ pc' = "finalizing"
          /\ UNCHANGED <<lastFailure, counted, cost, deliveryPending, terminalFailure>>
      BY <3>1
    <3>5. TypeOK'
      BY <1>1, <2>1, <3>3, <3>4 DEF IInv, TypeOK, PcValues, countVars, storeVars
    <3> QED
      BY <1>1, <3>3, <3>4, <3>5 DEF IInv, Ownership, CommittedIsFinalAttempt
  <2> QED BY <2>3, <2>4
<1> QED BY <1>2, <1>3, <1>4

\* The stream is refused: the request fails without another attempt.
LEMMA ExecuteMismatchesInv ==
    ASSUME IInv, NEW account \in Accounts, ExecuteMismatches(account)
    PROVE  IInv'
<1>1. /\ pc = "execute" /\ pc' = "finalizing" /\ finalization' = "pending"
      /\ result' = {[outcome |-> "Failed", send |-> CurrentSendState,
                     attempts |-> attempts]}
      /\ UNCHANGED <<req, collecting, prepared, signal, current, retryVars, routeVars,
                     countVars, deliveryVars, watermark, budgetVars, storeVars, log>>
  BY DEF ExecuteMismatches
<1>2. CurrentSendState \in SendStates
  BY EscalateType DEF CurrentSendState, IInv, TypeOK, SendStates
<1>3. result' \subseteq Result
  BY <1>1, <1>2 DEF Result, Outcomes, IInv, TypeOK
<1>4. TypeOK'
  BY <1>1, <1>3 DEF IInv, TypeOK, PcValues, retryVars, routeVars, countVars,
                    deliveryVars, budgetVars, storeVars
<1> QED BY <1>1, <1>4 DEF IInv, Ownership, CommittedIsFinalAttempt, deliveryVars

\* The session owns a new stream.
LEMMA ExecuteStreamsInv ==
    ASSUME IInv, NEW account \in Accounts, ExecuteStreams(account)
    PROVE  IInv'
<1> DEFINE Rows  == [attempts : Nat, send : SendStates, final : SUBSET Result]
           entry == [account |-> account, continuation |-> continuationAttempt,
                     candidate |-> candidate, recovery |-> prepared.recovery,
                     send |-> "NotSent", safe |-> FALSE, usd |-> 0, exit |-> "live"]
<1>1. /\ pc = "execute" /\ pc' = "poll"
      /\ attempts' = attempts + 1
      /\ routingAttempts' \in {routingAttempts, routingAttempts + 1}
      /\ current' = [account |-> account, transport |-> prepared.transport, sent |-> FALSE]
      /\ log' = Append(log, entry)
      /\ UNCHANGED <<req, collecting, prepared, signal, retryVars, routeVars,
                     deliveryVars, watermark, budgetVars, finalVars>>
  BY DEF ExecuteStreams
<1>2. /\ current' \in [account : Accounts \cup {NoAccount}, transport : Transports,
                       sent : BOOLEAN]
      /\ current'.account = account
  BY <1>1 DEF IInv, TypeOK
<1>3. current' # NoAttempt
  BY <1>2, ConstantsAssumption DEF NoAttempt
<1>4. entry \in LogEntry
  BY DEF LogEntry, IInv, TypeOK, SendStates
<1>5. log' \in Seq(LogEntry) BY <1>1, <1>4 DEF IInv, TypeOK
<1>6. persisted' \in BOOLEAN /\ row' \subseteq Rows
  <2>1. row \subseteq Rows /\ attempts + 1 \in Nat /\ persisted \in BOOLEAN
    BY DEF IInv, TypeOK
  <2>2. CASE persisted
    <3>1. /\ row' \in {row, {[r EXCEPT !.attempts = attempts + 1] : r \in row}}
          /\ persisted' = persisted
      BY <2>2 DEF ExecuteStreams, StoreRow
    <3>2. \A r \in row : [r EXCEPT !.attempts = attempts + 1] \in Rows BY <2>1
    <3> QED BY <2>1, <3>1, <3>2
  <2>3. CASE ~persisted
    <3>1. /\ persisted' \in BOOLEAN
          /\ row' \in {row, {[attempts |-> attempts + 1, send |-> "NotSent", final |-> {}]}}
      BY <2>3 DEF ExecuteStreams
    <3> QED BY <2>1, <3>1 DEF SendStates
  <2> QED BY <2>2, <2>3
<1>7. TypeOK'
  BY <1>1, <1>2, <1>5, <1>6
     DEF IInv, TypeOK, PcValues, retryVars, routeVars, deliveryVars, budgetVars, finalVars
<1> QED
  BY <1>1, <1>2, <1>3, <1>7
     DEF IInv, Ownership, CommittedIsFinalAttempt, deliveryVars, finalVars

\* An entry of the history that is updated stays an entry.
LEMMA EntryUpdateType ==
    ASSUME NEW l \in Seq(LogEntry), NEW i, NEW usd \in Nat, NEW safe \in BOOLEAN,
           NEW exit \in {"live", "failed"} \cup RetryExits
    PROVE  /\ [l EXCEPT ![i].usd = usd] \in Seq(LogEntry)
           /\ [l EXCEPT ![i].exit = exit, ![i].usd = usd] \in Seq(LogEntry)
           /\ [l EXCEPT ![i].exit = exit, ![i].safe = safe, ![i].usd = usd]
                \in Seq(LogEntry)
<1> DEFINE u == [l EXCEPT ![i].usd = usd]
           v == [l EXCEPT ![i].exit = exit, ![i].usd = usd]
           w == [l EXCEPT ![i].exit = exit, ![i].safe = safe, ![i].usd = usd]
<1>1. ASSUME NEW m, DOMAIN m = DOMAIN l, m = [j \in DOMAIN l |-> m[j]],
             \A j \in DOMAIN l : m[j] \in LogEntry
      PROVE  m \in Seq(LogEntry)
  <2>1. DOMAIN m = 1 .. Len(l) /\ Len(l) \in Nat BY <1>1
  <2>2. m \in [1 .. Len(l) -> LogEntry] BY <1>1, <2>1
  <2> QED BY <2>1, <2>2
<1>2. \A j \in DOMAIN l : l[j] \in LogEntry OBVIOUS
<1>3. u \in Seq(LogEntry)
  <2>1. \A j \in DOMAIN l : u[j] \in LogEntry BY <1>2 DEF LogEntry
  <2> QED BY <1>1, <2>1
<1>4. v \in Seq(LogEntry)
  <2>1. \A j \in DOMAIN l : v[j] \in LogEntry BY <1>2 DEF LogEntry
  <2> QED BY <1>1, <2>1
<1>5. w \in Seq(LogEntry)
  <2>1. \A j \in DOMAIN l : w[j] \in LogEntry BY <1>2 DEF LogEntry
  <2> QED BY <1>1, <2>1
<1> QED BY <1>3, <1>4, <1>5

\* An event of the stream is observed and, if it is for the client, handed out.
LEMMA StreamEventInv ==
    ASSUME IInv, NEW forClient \in BOOLEAN, NEW carriesState \in BOOLEAN,
           NEW observed \in Observations \cup {cost},
           StreamEvent(forClient, observed, carriesState)
    PROVE  IInv'
<1>1. /\ pc = "poll"
      /\ current' = [current EXCEPT !.sent = TRUE]
      /\ watermark' = "Sent"
      /\ cost' = observed
      /\ pc' \in {"poll", "idle"}
      /\ pc' = "poll" => deliveryPending' = deliveryPending
      /\ UNCHANGED <<req, collecting, prepared, signal, retryVars, candidate,
                     continuationAttempt, excluded, countVars, committed,
                     upstreamComplete, terminalFailure, priorUsd, counted, finalVars>>
  BY DEF StreamEvent
<1>2. current \in [account : Accounts \cup {NoAccount}, transport : Transports,
                   sent : BOOLEAN]
      /\ current # NoAttempt /\ current.account \in Accounts
  BY <1>1 DEF IInv, TypeOK, Ownership
<1>3. /\ current' \in [account : Accounts \cup {NoAccount}, transport : Transports,
                       sent : BOOLEAN]
      /\ current' # NoAttempt /\ current'.account \in Accounts
  BY <1>1, <1>2, ConstantsAssumption DEF NoAttempt
<1>4. observed \in [source : {"unavailable", "calculated", "reported"}, usd : Nat]
  <2>1. cost \in [source : {"unavailable", "calculated", "reported"}, usd : Nat]
    BY DEF IInv, TypeOK
  <2>2. CASE observed \in Observations
    <3>1. PICK source \in {"calculated", "reported"}, usd \in Costs :
            observed = ObserveCost(cost, source, usd)
      BY <2>2 DEF Observations
    <3>2. usd \in Nat BY ConstantsAssumption
    <3> QED BY <2>1, <3>1, <3>2, ObserveCostType
  <2> QED BY <2>1, <2>2
<1>5. persisted' \in BOOLEAN
      /\ row' \subseteq [attempts : Nat, send : SendStates, final : SUBSET Result]
  BY StoreSendStateType DEF StreamEvent, IInv, TypeOK, SendStates, storeVars
<1>6. states' \subseteq Candidates
  BY <1>2, ConstantsAssumption DEF StreamEvent, IInv, TypeOK
<1>7. log' \in Seq(LogEntry)
  <2>1. LogSend("Sent") \in Seq(LogEntry) BY LogSendType DEF IInv, SendStates
  <2>2. log' = [LogSend("Sent") EXCEPT ![attempts].usd = observed.usd]
    BY DEF StreamEvent
  <2>3. "live" \in {"live", "failed"} \cup RetryExits OBVIOUS
  <2> QED BY <1>4, <2>1, <2>2, <2>3, EntryUpdateType
<1>8. deliveryPending' \in BOOLEAN
  BY DEF StreamEvent, IInv, TypeOK
<1>9. TypeOK'
  BY SMTT(30), <1>1, <1>3, <1>4, <1>5, <1>6, <1>7, <1>8
     DEF IInv, TypeOK, PcValues, SendStates, retryVars, countVars, finalVars
<1> QED
  BY <1>1, <1>3, <1>9 DEF IInv, Ownership, CommittedIsFinalAttempt, finalVars

\* The stream ends: the request has succeeded, or waits for the commit.
LEMMA StreamEndsInv ==
    ASSUME IInv, NEW collectedAny \in BOOLEAN, StreamEnds(collectedAny)
    PROVE  IInv'
<1>1. /\ pc = "poll" /\ pc' \in {"idle", "finalizing"}
      /\ upstreamComplete' \in BOOLEAN /\ deliveryPending' \in BOOLEAN
      /\ UNCHANGED <<req, collecting, prepared, signal, current, retryVars, routeVars,
                     countVars, committed, terminalFailure, budgetVars, storeVars, log>>
  BY DEF StreamEnds
<1>2. /\ watermark' = watermark
      /\ finalization' \in {"none", "pending", "complete"}
      /\ result' \subseteq Result
      /\ pc' = "idle" => finalization' = finalization
      /\ finalization # "none" => finalization' # "none"
  BY DEF StreamEnds, FinishSuccess, IInv, TypeOK, Result, Outcomes, SendStates, finalVars
<1>3. TypeOK'
  BY <1>1, <1>2
     DEF IInv, TypeOK, PcValues, retryVars, routeVars, countVars, budgetVars, storeVars
<1> QED
  BY <1>1, <1>2, <1>3 DEF IInv, Ownership, CommittedIsFinalAttempt

\* Nothing is replayed once a response is committed or on its way.
LEMMA RetryableUndelivered ==
    ASSUME NEW e, Retryable(e)
    PROVE  ~committed /\ ~deliveryPending /\ AttemptSend(e) # "Ambiguous"
BY DEF Retryable, ContinuationRetry, SameAccountRetry, OrdinaryRetry,
       AccountRotationRetry, TransportRecovery, NothingDelivered

\* The attempt whose stream has failed is hidden, and another is prepared.
LEMMA DiscardAttemptType ==
    ASSUME IInv, NEW e \in StreamErrors, pc = "poll", Plausible(e), DiscardAttempt(e)
    PROVE  /\ continuationAttempt' \in ContinuationAttempts
           /\ excluded' \subseteq Accounts /\ recovered' \subseteq Accounts
           /\ recoveryAccount' \in Accounts \cup {NoAccount}
           /\ transientCounts' \in [Accounts -> 0 .. MaxTransient]
           /\ pendingRetry' \in [account : Accounts \cup {NoAccount},
                                transport : Transports, recovery : BOOLEAN]
           /\ lastFailure' \subseteq StreamErrors
           /\ priorUsd' \in Nat /\ counted' \in BOOLEAN
           /\ cost' \in [source : {"unavailable", "calculated", "reported"}, usd : Nat]
           /\ upstreamComplete' \in BOOLEAN
           /\ log' \in Seq(LogEntry)
<1> DEFINE observed == IF e.atomic THEN ObserveCost(cost, "reported", e.usd) ELSE cost
<1>1. /\ current \in [account : Accounts \cup {NoAccount}, transport : Transports,
                      sent : BOOLEAN]
      /\ current.account \in Accounts
  BY DEF IInv, TypeOK, Ownership
<1>2. observed \in [source : {"unavailable", "calculated", "reported"}, usd : Nat]
  BY ObserveCostType, StreamErrorType DEF IInv, TypeOK
<1>3. continuationAttempt' \in ContinuationAttempts
  BY DEF DiscardAttempt, ContinuationScope, ContinuationAttempts, IInv, TypeOK
<1>4. /\ excluded' \subseteq Accounts /\ recovered' \subseteq Accounts
      /\ recoveryAccount' \in Accounts \cup {NoAccount}
      /\ lastFailure' \subseteq StreamErrors
  <2>1. /\ excluded' \in {excluded, excluded \cup {current.account}}
        /\ recovered' \in {recovered, recovered \cup {current.account}}
        /\ recoveryAccount' \in {recoveryAccount, current.account}
        /\ lastFailure' = {e}
    BY DEF DiscardAttempt
  <2> QED BY <1>1, <2>1 DEF IInv, TypeOK
<1>5. transientCounts' \in [Accounts -> 0 .. MaxTransient]
  <2>1. CASE TransientRetry(e)
    <3>1. /\ transientCounts' = [transientCounts EXCEPT ![current.account] = @ + 1]
          /\ transientCounts[current.account] < MaxTransient
      BY <2>1 DEF DiscardAttempt, TransientRetry
    <3> QED BY <1>1, <3>1, ConstantsAssumption DEF IInv, TypeOK
  <2>2. CASE ~TransientRetry(e)
    BY <2>2 DEF DiscardAttempt, IInv, TypeOK
  <2> QED BY <2>1, <2>2
<1>6. pendingRetry' \in [account : Accounts \cup {NoAccount}, transport : Transports,
                        recovery : BOOLEAN]
  <2>1. CASE RetryKind(e) \in {"transient", "TransportRetry", "TransportFallback"}
    <3>1. pendingRetry' = [account |-> current.account, transport |-> NextTransport(e),
                           recovery |-> RetryKind(e) # "transient"]
      BY <2>1 DEF DiscardAttempt
    <3>2. NextTransport(e) \in Transports
      <4>1. CASE e.hint = "TransportRetry"
        <5>1. current.transport < MaxTransport /\ current.transport \in 0 .. MaxTransport + 1
          BY <1>1, <4>1 DEF Plausible, Transports, FallbackTransport
        <5>2. NextTransport(e) = current.transport + 1 BY <4>1 DEF NextTransport
        <5> QED BY <5>1, <5>2, ConstantsAssumption DEF Transports, FallbackTransport
      <4>2. CASE e.hint # "TransportRetry"
        <5>1. NextTransport(e) \in {FallbackTransport, current.transport}
          BY <4>2 DEF NextTransport
        <5>2. FallbackTransport \in Transports
          BY ConstantsAssumption DEF Transports, FallbackTransport
        <5> QED BY <1>1, <5>1, <5>2
      <4> QED BY <4>1, <4>2
    <3> QED BY <1>1, <3>1, <3>2
  <2>2. CASE RetryKind(e) \notin {"transient", "TransportRetry", "TransportFallback"}
    BY <2>2 DEF DiscardAttempt, IInv, TypeOK
  <2> QED BY <2>1, <2>2
<1>7. priorUsd' \in Nat
  <2>1. priorUsd' = priorUsd + (IF counted THEN 0 ELSE observed.usd)
    BY DEF DiscardAttempt
  <2>2. observed.usd \in Nat BY <1>2
  <2>3. priorUsd \in Nat BY DEF IInv, TypeOK
  <2> HIDE DEF observed
  <2> QED BY <2>1, <2>2, <2>3
<1>8. /\ counted' \in BOOLEAN /\ upstreamComplete' \in BOOLEAN
      /\ cost' \in [source : {"unavailable", "calculated", "reported"}, usd : Nat]
  BY DEF DiscardAttempt, NoCost
<1>9. log' \in Seq(LogEntry)
  <2>1. AttemptSend(e) \in SendStates
    BY StreamErrorType DEF AttemptSend, SendStates
  <2>2. LogSend(AttemptSend(e)) \in Seq(LogEntry) BY <2>1, LogSendType DEF IInv
  <2>3. RetryKind(e) \in {"live", "failed"} \cup RetryExits
    <3>1. TransportRecovery(e) => e.hint \in {"TransportRetry", "TransportFallback"}
      BY DEF TransportRecovery
    <3> QED BY <3>1 DEF RetryKind, RetryExits
  <2>4. ProviderProvedReplaySafe(e) \in BOOLEAN BY DEF ProviderProvedReplaySafe
  <2>5. log' = [LogSend(AttemptSend(e)) EXCEPT ![attempts].exit = RetryKind(e),
                                               ![attempts].safe = ProviderProvedReplaySafe(e),
                                               ![attempts].usd = observed.usd]
    BY DEF DiscardAttempt
  <2>6. observed.usd \in Nat BY <1>2
  <2> HIDE DEF observed
  <2> QED BY <2>2, <2>3, <2>4, <2>5, <2>6, EntryUpdateType
<1> QED BY <1>3, <1>4, <1>5, <1>6, <1>7, <1>8, <1>9

\* The stream fails: the attempt is hidden, or its failure ends the request.
LEMMA StreamFailsInv ==
    ASSUME IInv, NEW e \in StreamErrors, StreamFails(e)
    PROVE  IInv'
<1>1. /\ pc = "poll" /\ Plausible(e)
      /\ watermark' = EscalateSendState(watermark, AttemptSend(e))
      /\ StoreSendState(watermark')
      /\ UNCHANGED <<req, collecting, prepared, signal, candidate, states, countVars,
                     committed>>
  BY DEF StreamFails
<1>2. AttemptSend(e) \in SendStates
  BY StreamErrorType DEF AttemptSend, SendStates
<1>3. watermark' \in SendStates
  BY <1>1, <1>2, EscalateType DEF IInv, TypeOK
<1>4. /\ persisted' \in BOOLEAN
      /\ row' \subseteq [attempts : Nat, send : SendStates, final : SUBSET Result]
  BY <1>1, <1>2, EscalateType, StoreSendStateType DEF IInv, TypeOK
<1>5. CASE Retryable(e)
  <2>1. DiscardAttempt(e) BY <1>5 DEF StreamFails
  <2>2. /\ current' = NoAttempt /\ pc' = "prepare"
        /\ UNCHANGED <<deliveryPending, terminalFailure, finalVars>>
    BY <2>1 DEF DiscardAttempt
  <2>3. current' \in [account : Accounts \cup {NoAccount}, transport : Transports,
                      sent : BOOLEAN]
    <3>1. 0 \in Transports BY ConstantsAssumption DEF Transports, FallbackTransport
    <3> QED BY <2>2, <3>1 DEF NoAttempt
  <2>4. ~committed BY <1>5, RetryableUndelivered
  <2>5. TypeOK'
    BY <1>1, <1>3, <1>4, <2>1, <2>2, <2>3, DiscardAttemptType
       DEF IInv, TypeOK, PcValues, countVars, finalVars
  <2> QED
    BY <1>1, <2>2, <2>4, <2>5 DEF IInv, Ownership, CommittedIsFinalAttempt, finalVars
<1>6. CASE ~Retryable(e)
  <2>1. FailAttempt(e) BY <1>6 DEF StreamFails
  <2>2. UNCHANGED <<continuationAttempt, excluded, recovered, recoveryAccount,
                    transientCounts, pendingRetry, lastFailure, priorUsd, counted,
                    upstreamComplete, current>>
    BY <2>1 DEF FailAttempt
  <2>3. cost' \in [source : {"unavailable", "calculated", "reported"}, usd : Nat]
    BY <2>1, ObserveCostType, StreamErrorType DEF FailAttempt, IInv, TypeOK
  <2>4. log' \in Seq(LogEntry)
    <3>1. LogSend(AttemptSend(e)) \in Seq(LogEntry) BY <1>2, LogSendType DEF IInv
    <3>2. log' = [LogSend(AttemptSend(e)) EXCEPT ![attempts].exit = "failed",
                                                 ![attempts].usd = cost'.usd]
      BY <2>1 DEF FailAttempt
    <3>3. cost'.usd \in Nat BY <2>3
    <3> QED BY <3>1, <3>2, <3>3, EntryUpdateType
  <2>5. CASE e.atomic /\ ~collecting
    <3>1. /\ terminalFailure' = {[cancelled |-> e.cancelled,
                                  send |-> EscalateSendState(watermark, AttemptSend(e))]}
          /\ deliveryPending' = ~committed /\ pc' = "idle" /\ UNCHANGED finalVars
      BY <2>1, <2>5 DEF FailAttempt
    <3>2. /\ terminalFailure' # {}
          /\ terminalFailure' \subseteq [cancelled : BOOLEAN, send : SendStates]
      BY <1>1, <1>3, <3>1, StreamErrorType
    <3>3. deliveryPending' \in BOOLEAN /\ (committed \/ deliveryPending')
      BY <3>1 DEF IInv, TypeOK
    <3>4. pc' = "idle" /\ UNCHANGED <<finalization, result>> BY <3>1 DEF finalVars
    <3>5. TypeOK'
      BY <1>1, <1>3, <1>4, <2>2, <2>3, <2>4, <3>2, <3>3, <3>4
         DEF IInv, TypeOK, PcValues, countVars
    <3> QED
      BY <1>1, <2>2, <3>2, <3>3, <3>4, <3>5 DEF IInv, Ownership, CommittedIsFinalAttempt
  <2>6. CASE ~(e.atomic /\ ~collecting)
    <3>1. /\ finalization' = "pending" /\ pc' = "finalizing"
          /\ UNCHANGED <<terminalFailure, deliveryPending>>
      BY <2>1, <2>6 DEF FailAttempt
    <3>2. PICK outcome \in Outcomes :
            result' = {[outcome |-> outcome,
                        send |-> EscalateSendState(watermark, AttemptSend(e)),
                        attempts |-> attempts]}
      BY <2>1, <2>6 DEF FailAttempt, Outcomes
    <3>3. result' \subseteq Result
      BY <1>1, <1>3, <3>2 DEF Result, IInv, TypeOK
    <3>4. TypeOK'
      BY <1>1, <1>3, <1>4, <2>2, <2>3, <2>4, <3>1, <3>3
         DEF IInv, TypeOK, PcValues, countVars
    <3> QED
      BY <1>1, <2>2, <3>1, <3>4 DEF IInv, Ownership, CommittedIsFinalAttempt
  <2> QED BY <2>5, <2>6
<1> QED BY <1>5, <1>6

\* The terminal write ends, whether or not the store took it.
LEMMA WriteFinalizationInv == IInv /\ WriteFinalization => IInv'
<1> SUFFICES ASSUME IInv, WriteFinalization PROVE IInv' OBVIOUS
<1> DEFINE Rows == [attempts : Nat, send : SendStates, final : SUBSET Result]
<1>1. /\ finalization' = "complete" /\ pc' \in {"idle", "closed"}
      /\ UNCHANGED <<req, collecting, prepared, signal, current, retryVars, routeVars,
                     countVars, deliveryVars, watermark, budgetVars, result, log>>
  BY DEF WriteFinalization
<1>2. PICK final \in result, ok \in BOOLEAN :
        /\ persisted' = (persisted \/ (CreatesRow(final) /\ ok))
        /\ row' \in {row, {[attempts |-> 0, send |-> "NotSent", final |-> {}]},
                    {[attempts |-> final.attempts, send |-> final.send,
                      final |-> result]}}
  BY DEF WriteFinalization
<1>3. persisted' \in BOOLEAN BY <1>2
<1>4. row' \subseteq Rows
  <2>1. result \subseteq Result /\ row \subseteq Rows BY DEF IInv, TypeOK
  <2>2. final.attempts \in Nat /\ final.send \in SendStates BY <2>1 DEF Result
  <2>3. {[attempts |-> 0, send |-> "NotSent", final |-> {}],
         [attempts |-> final.attempts, send |-> final.send, final |-> result]}
          \subseteq Rows
    BY <2>1, <2>2 DEF SendStates
  <2> QED BY <1>2, <2>1, <2>3
<1>5. TypeOK'
  BY <1>1, <1>3, <1>4 DEF IInv, TypeOK, PcValues, retryVars, routeVars, countVars,
                          deliveryVars, budgetVars
<1> QED BY <1>1, <1>5 DEF IInv, Ownership, CommittedIsFinalAttempt, deliveryVars

\* Cancellation and the deadline only raise a signal.
LEMMA SignalInv == IInv /\ (Cancel \/ DeadlineElapses) => IInv'
<1> SUFFICES ASSUME IInv, Cancel \/ DeadlineElapses PROVE IInv' OBVIOUS
<1>1. /\ signal' \in {signal \cup {"cancelled"}, signal \cup {"deadline"}}
      /\ UNCHANGED <<req, callVars, current, retryVars, routeVars, countVars,
                     deliveryVars, watermark, budgetVars, finalVars, storeVars, log>>
  BY DEF Cancel, DeadlineElapses
<1>2. signal' \subseteq Signals BY <1>1 DEF IInv, TypeOK, Signals
<1>3. TypeOK'
  BY <1>1, <1>2 DEF IInv, TypeOK, callVars, retryVars, routeVars, countVars, deliveryVars,
                    budgetVars, finalVars, storeVars
<1> QED
  BY <1>1, <1>3 DEF IInv, Ownership, CommittedIsFinalAttempt, callVars, deliveryVars,
                    finalVars

\* The future of a call is dropped with its locals.
LEMMA AbandonInv == IInv /\ Abandon => IInv'
<1> SUFFICES ASSUME IInv, Abandon PROVE IInv' OBVIOUS
<1>1. /\ pc' = "detached" /\ signal' = signal \cup {"cancelled"}
      /\ prepared' = NoRetry /\ collecting' \in BOOLEAN
      /\ UNCHANGED <<req, current, retryVars, routeVars, countVars,
                     deliveryVars, watermark, budgetVars, finalVars, storeVars, log>>
  BY DEF Abandon
<1>2. signal' \subseteq Signals BY <1>1 DEF IInv, TypeOK, Signals
<1>3. prepared' \in [account : Accounts \cup {NoAccount}, transport : Transports,
                     recovery : BOOLEAN]
  <2>1. 0 \in Transports BY ConstantsAssumption DEF Transports, FallbackTransport
  <2> QED BY <1>1, <2>1 DEF NoRetry
<1>4. TypeOK'
  BY <1>1, <1>2, <1>3 DEF IInv, TypeOK, PcValues, retryVars, routeVars, countVars,
                          deliveryVars, budgetVars, finalVars, storeVars
<1>5. committed => current # NoAttempt \/ terminalFailure # {} \/ finalization # "none"
  BY DEF IInv, CommittedIsFinalAttempt
<1> QED
  BY <1>1, <1>4, <1>5 DEF IInv, Ownership, CommittedIsFinalAttempt, deliveryVars, finalVars

\* The detached session drops what it had not delivered and writes its end.
LEMMA DetachFinalizeInv == IInv /\ DetachFinalize => IInv'
<1> SUFFICES ASSUME IInv, DetachFinalize PROVE IInv' OBVIOUS
<1>1. /\ pc = "detached" /\ deliveryPending' \in BOOLEAN /\ ~deliveryPending'
      /\ terminalFailure' = {}
      /\ UNCHANGED <<req, callVars, signal, current, retryVars, routeVars, countVars,
                     committed, upstreamComplete, budgetVars, log>>
  BY DEF DetachFinalize
<1>2. /\ watermark' \in SendStates /\ finalization' = "pending"
      /\ result' \subseteq Result /\ persisted' \in BOOLEAN
      /\ row' \subseteq [attempts : Nat, send : SendStates, final : SUBSET Result]
  <2>1. CASE terminalFailure # {}
    <3>1. PICK failure \in terminalFailure :
            FinishProviderError(failure.cancelled, failure.send)
      BY <2>1 DEF DetachFinalize
    <3>2. failure.send \in SendStates BY DEF IInv, TypeOK
    <3>3. persisted' = persisted /\ row' = row
      BY <2>1 DEF DetachFinalize, storeVars
    <3> QED BY <3>1, <3>2, <3>3, FinishProviderErrorType DEF IInv, TypeOK
  <2>2. CASE terminalFailure = {}
    <3>1. FinishInterruption("cancelled") BY <2>2 DEF DetachFinalize
    <3> QED BY <3>1, FinishInterruptionType DEF IInv, Signals
  <2> QED BY <2>1, <2>2
<1>3. TypeOK'
  BY <1>1, <1>2 DEF IInv, TypeOK, callVars, retryVars, routeVars, countVars, budgetVars
<1> QED
  BY <1>1, <1>2, <1>3 DEF IInv, Ownership, CommittedIsFinalAttempt, callVars

\* A step that changes nothing.
LEMMA StutterInv == IInv /\ UNCHANGED vars => IInv'
<1> SUFFICES ASSUME IInv, UNCHANGED vars PROVE IInv' OBVIOUS
<1>1. TypeOK'
  BY DEF IInv, TypeOK, vars, callVars, retryVars, routeVars, countVars, deliveryVars,
         budgetVars, finalVars, storeVars
<1> QED
  BY <1>1 DEF IInv, Ownership, CommittedIsFinalAttempt, vars, callVars, deliveryVars,
              finalVars

-------------------------------------------------------------------------------
(* The theorems. *)

\* No step of the session breaks the invariant.
LEMMA NextInv == IInv /\ [Next]_vars => IInv'
<1> SUFFICES ASSUME IInv, [Next]_vars PROVE IInv' OBVIOUS
<1>1. CASE CallStep
  BY <1>1, StartInv, NextEventInv, CollectUncommittedInv, CommitDownstreamInv DEF CallStep
<1>2. CASE PrepareStep
  BY <1>2, BeginAttemptInv, InterruptedInv, ExecuteFailsInv, ExecuteMismatchesInv,
     ExecuteStreamsInv DEF PrepareStep
<1>3. CASE StreamStep
  BY <1>3, InterruptedInv, StreamEventInv, StreamEndsInv, StreamFailsInv DEF StreamStep
<1>4. CASE WriteFinalization \/ Cancel \/ DeadlineElapses \/ Abandon \/ DetachFinalize
  BY <1>4, WriteFinalizationInv, SignalInv, AbandonInv, DetachFinalizeInv
<1>5. CASE UNCHANGED vars BY <1>5, StutterInv
<1> QED BY <1>1, <1>2, <1>3, <1>4, <1>5 DEF Next

\* The invariant holds throughout the life of a session.
LEMMA SpecInv == Spec => []IInv
BY InitInv, NextInv, PTL DEF Spec

\* In every reachable state each field of the session has its type: among them,
\* a retry never exceeds the transports a provider has, and a transient
\* rejection is never counted beyond its limit.
THEOREM TypeCorrect == Spec => []TypeOK
BY SpecInv, PTL DEF IInv

\* commit_downstream is a point of no return: after it no attempt is prepared.
THEOREM CommittedFinal == Spec => []CommittedIsFinalAttempt
BY SpecInv, PTL DEF IInv

\* Whatever is dropped, cancelled or retried, an attempt is never begun while a
\* response is on its way to the client or after it was committed.
THEOREM NoReplay == Spec => NoReplayAfterDelivery
<1>1. IInv /\ [Next]_vars
        => [committed \/ deliveryPending => attempts' = attempts]_vars
  <2> SUFFICES ASSUME IInv, Next, committed \/ deliveryPending
               PROVE  attempts' = attempts
    OBVIOUS
  <2>1. CASE CallStep
    BY <2>1 DEF CallStep, Start, NextEvent, CollectUncommitted, CommitDownstream, countVars
  <2>2. CASE PrepareStep
    <3>1. pc \notin {"prepare", "execute"} BY DEF IInv, Ownership
    <3> QED
      BY <2>2, <3>1 DEF PrepareStep, BeginAttempt, ExecuteInterrupted, ExecuteFails,
                        ExecuteMismatches, ExecuteStreams
  <2>3. CASE StreamStep
    BY <2>3 DEF StreamStep, PollInterrupted, StreamEvent, StreamEnds, StreamFails, countVars
  <2>4. CASE WriteFinalization \/ Cancel \/ DeadlineElapses \/ Abandon \/ DetachFinalize
    BY <2>4 DEF WriteFinalization, Cancel, DeadlineElapses, Abandon, DetachFinalize,
                countVars
  <2> QED BY <2>1, <2>2, <2>3, <2>4 DEF Next
<1> QED BY <1>1, SpecInv, PTL DEF Spec, NoReplayAfterDelivery

-------------------------------------------------------------------------------
(* The history of the attempts, by which the properties tell them apart. *)

\* The attempt in hand is the last entry and live; an attempt that was given up
\* is not.
History ==
    /\ Len(log) = attempts
    /\ pc = "start" => finalization = "none"
    /\ current # NoAttempt /\ terminalFailure = {} /\ finalization = "none" =>
         /\ attempts # 0
         /\ log[attempts].account = current.account
         /\ log[attempts].exit = "live"
         /\ log[attempts].send = IF current.sent THEN "Sent" ELSE "NotSent"
    /\ (current = NoAttempt \/ terminalFailure # {}) /\ attempts # 0 =>
         log[attempts].exit # "live"

\* The steps that write the history.
LogStep ==
    \/ \E account \in Accounts : ExecuteStreams(account)
    \/ \E forClient, carriesState \in BOOLEAN, observed \in Observations \cup {cost} :
         StreamEvent(forClient, observed, carriesState)
    \/ \E e \in StreamErrors : StreamFails(e)

\* All other steps leave the history and the current attempt alone.
LEMMA QuietStep ==
    ASSUME IInv, History, [Next]_vars, ~LogStep
    PROVE  /\ UNCHANGED <<req, log, attempts, current>>
           /\ pc' = "start" => pc = "start" /\ finalization' = finalization
           /\ finalization' = "none" =>
                finalization = "none" /\ (terminalFailure' = {} => terminalFailure = {})
           /\ terminalFailure' # {} => terminalFailure # {} \/ current = NoAttempt
<1> DEFINE Goal == /\ UNCHANGED <<req, log, attempts, current>>
                   /\ pc' = "start" => pc = "start" /\ finalization' = finalization
                   /\ finalization' = "none" =>
                        /\ finalization = "none"
                        /\ terminalFailure' = {} => terminalFailure = {}
                   /\ terminalFailure' # {} => terminalFailure # {} \/ current = NoAttempt
<1>1. CASE CallStep
  <2>1. CASE Start
    BY <2>1 DEF Start, FinishInterruption, Finish, countVars, deliveryVars, finalVars
  <2>2. CASE NextEvent
    BY <2>2 DEF NextEvent, FinishProviderError, Finish, Pull, countVars, finalVars
  <2>3. CASE CollectUncommitted
    BY <2>3 DEF CollectUncommitted, Pull, countVars, finalVars
  <2>4. CASE CommitDownstream
    BY <2>4 DEF CommitDownstream, FinishSuccess, countVars, finalVars
  <2> QED BY <1>1, <2>1, <2>2, <2>3, <2>4 DEF CallStep
<1>2. CASE PrepareStep
  <2>1. CASE BeginAttempt
    BY <2>1 DEF BeginAttempt, FinishInterruption, Finish, countVars, deliveryVars, finalVars
  <2>2. CASE ExecuteInterrupted
    BY <2>2 DEF ExecuteInterrupted, FinishInterruption, Finish, countVars, deliveryVars
  <2>3. ASSUME NEW kind \in ExecuteKinds, NEW send \in SendStates, ExecuteFails(kind, send)
        PROVE  Goal
    <3>1. /\ pc = "execute" /\ UNCHANGED <<req, log, current, countVars>>
      BY <2>3 DEF ExecuteFails
    <3>2. current = NoAttempt /\ terminalFailure = {} /\ finalization = "none"
      BY <3>1 DEF IInv, Ownership
    <3>3. pc' \in {"prepare", "finalizing", "idle"}
      BY <2>3 DEF ExecuteFails, TerminalFailure
    <3> QED BY <3>1, <3>2, <3>3 DEF countVars
  <2>4. ASSUME NEW account \in Accounts, ExecuteMismatches(account) PROVE Goal
    BY <2>4 DEF ExecuteMismatches, countVars, deliveryVars
  <2> QED BY <1>2, <2>1, <2>2, <2>3, <2>4 DEF PrepareStep, LogStep
<1>3. CASE StreamStep
  <2>1. CASE PollInterrupted
    BY <2>1 DEF PollInterrupted, FinishInterruption, Finish, countVars, deliveryVars
  <2>2. ASSUME NEW collectedAny \in BOOLEAN, StreamEnds(collectedAny) PROVE Goal
    BY <2>2 DEF StreamEnds, FinishSuccess, countVars, finalVars
  <2> QED BY <1>3, <2>1, <2>2 DEF StreamStep, LogStep
<1>4. CASE WriteFinalization
  BY <1>4 DEF WriteFinalization, countVars, deliveryVars
<1>5. CASE Cancel \/ DeadlineElapses
  BY <1>5 DEF Cancel, DeadlineElapses, callVars, countVars, deliveryVars, finalVars
<1>6. CASE Abandon
  BY <1>6 DEF Abandon, countVars, deliveryVars, finalVars
<1>7. CASE DetachFinalize
  BY <1>7 DEF DetachFinalize, FinishProviderError, FinishInterruption, Finish, callVars,
              countVars
<1>8. CASE UNCHANGED vars
  BY <1>8 DEF vars, callVars, countVars, deliveryVars, finalVars
<1> QED BY <1>1, <1>2, <1>3, <1>4, <1>5, <1>6, <1>7, <1>8 DEF Next

\* l with entry i updated, and nothing else changed that the properties look at.
Updated(m, l, i, send, exit, safe) ==
    /\ Len(m) = Len(l)
    /\ \A j \in 1 .. Len(l) : j # i => m[j] = l[j]
    /\ m[i].account = l[i].account
    /\ m[i].continuation = l[i].continuation
    /\ m[i].send = send /\ m[i].exit = exit /\ m[i].safe = safe

\* The three forms in which the actions update an entry of the history.
LEMMA EntryUpdate ==
    ASSUME NEW l \in Seq(LogEntry), NEW i \in 1 .. Len(l), NEW send \in SendStates,
           NEW usd, NEW safe, NEW exit
    PROVE  /\ Updated([[l EXCEPT ![i].send = send] EXCEPT ![i].usd = usd],
                      l, i, send, l[i].exit, l[i].safe)
           /\ Updated([[l EXCEPT ![i].send = send] EXCEPT ![i].exit = exit, ![i].usd = usd],
                      l, i, send, exit, l[i].safe)
           /\ Updated([[l EXCEPT ![i].send = send] EXCEPT
                         ![i].exit = exit, ![i].safe = safe, ![i].usd = usd],
                      l, i, send, exit, safe)
<1>1. l[i] \in LogEntry /\ DOMAIN l = 1 .. Len(l) /\ Len(l) \in Nat OBVIOUS
<1>2. ASSUME NEW m, m = [j \in 1 .. Len(l) |-> m[j]]
      PROVE  Len(m) = Len(l)
  <2>1. m \in Seq({m[j] : j \in 1 .. Len(l)}) BY <1>1, <1>2
  <2> QED BY <1>1, <1>2, <2>1
<1>3. Updated([[l EXCEPT ![i].send = send] EXCEPT ![i].usd = usd],
              l, i, send, l[i].exit, l[i].safe)
  <2> DEFINE m == [[l EXCEPT ![i].send = send] EXCEPT ![i].usd = usd]
  <2>1. m = [j \in 1 .. Len(l) |-> m[j]] BY <1>1
  <2>2. Len(m) = Len(l)
    <3> HIDE DEF m
    <3> QED BY <1>2, <2>1
  <2> QED BY <1>1, <2>2 DEF LogEntry, Updated
<1>4. Updated([[l EXCEPT ![i].send = send] EXCEPT ![i].exit = exit, ![i].usd = usd],
              l, i, send, exit, l[i].safe)
  <2> DEFINE m == [[l EXCEPT ![i].send = send] EXCEPT ![i].exit = exit, ![i].usd = usd]
  <2>1. m = [j \in 1 .. Len(l) |-> m[j]] BY <1>1
  <2>2. Len(m) = Len(l)
    <3> HIDE DEF m
    <3> QED BY <1>2, <2>1
  <2> QED BY <1>1, <2>2 DEF LogEntry, Updated
<1>5. Updated([[l EXCEPT ![i].send = send] EXCEPT
                 ![i].exit = exit, ![i].safe = safe, ![i].usd = usd],
              l, i, send, exit, safe)
  <2> DEFINE m == [[l EXCEPT ![i].send = send] EXCEPT
                     ![i].exit = exit, ![i].safe = safe, ![i].usd = usd]
  <2>1. m = [j \in 1 .. Len(l) |-> m[j]] BY <1>1
  <2>2. Len(m) = Len(l)
    <3> HIDE DEF m
    <3> QED BY <1>2, <2>1
  <2> QED BY <1>1, <2>2 DEF LogEntry, Updated
<1> QED BY <1>3, <1>4, <1>5

\* The history a hidden attempt and a failed one leave.
LEMMA EndedLog ==
    ASSUME NEW e
    PROVE  /\ DiscardAttempt(e) =>
                /\ log' = [LogSend(AttemptSend(e)) EXCEPT
                             ![attempts].exit = RetryKind(e),
                             ![attempts].safe = ProviderProvedReplaySafe(e),
                             ![attempts].usd =
                               (IF e.atomic THEN ObserveCost(cost, "reported", e.usd)
                                ELSE cost).usd]
                /\ pc' = "prepare" /\ current' = NoAttempt
                /\ continuationAttempt' = ContinuationScope(e)
                /\ UNCHANGED <<terminalFailure, finalVars>>
           /\ FailAttempt(e) =>
                log' = [LogSend(AttemptSend(e)) EXCEPT ![attempts].exit = "failed",
                                                       ![attempts].usd = cost'.usd]
BY Zenon DEF DiscardAttempt, FailAttempt

\* What the attempt in hand has sent is merged into its entry.
LEMMA LogSendEntry ==
    ASSUME IInv, History, pc = "poll", NEW send \in SendStates
    PROVE  /\ attempts \in 1 .. Len(log)
           /\ log[attempts].account = current.account
           /\ log[attempts].exit = "live"
           /\ LogSend(send) =
                [log EXCEPT ![attempts].send = IF current.sent THEN "Sent" ELSE send]
<1>1. current # NoAttempt /\ terminalFailure = {} /\ finalization = "none"
  BY DEF IInv, Ownership
<1>2. attempts \in Nat BY DEF IInv, TypeOK
<1>3. /\ attempts # 0 /\ Len(log) = attempts
      /\ log[attempts].account = current.account
      /\ log[attempts].exit = "live"
      /\ log[attempts].send = IF current.sent THEN "Sent" ELSE "NotSent"
  BY <1>1 DEF History
<1>4. EscalateSendState(log[attempts].send, send) = IF current.sent THEN "Sent" ELSE send
  BY <1>3 DEF EscalateSendState, SendStates
<1>5. LogSend(send) =
        [log EXCEPT ![attempts].send = EscalateSendState(log[attempts].send, send)]
  BY DEF LogSend
<1> QED BY <1>2, <1>3, <1>4, <1>5

\* An attempt begins: a live entry that has sent nothing.
LEMMA ExecuteStreamsLog ==
    ASSUME IInv, History, NEW account \in Accounts, ExecuteStreams(account)
    PROVE  /\ current = NoAttempt /\ terminalFailure = {} /\ finalization = "none"
           /\ attempts' = attempts + 1 /\ Len(log') = Len(log) + 1
           /\ \A i \in 1 .. Len(log) : log'[i] = log[i]
           /\ log'[Len(log')].account = account
           /\ log'[Len(log')].continuation = continuationAttempt
           /\ log'[Len(log')].send = "NotSent"
           /\ log'[Len(log')].exit = "live"
           /\ current'.account = account /\ ~current'.sent
           /\ pc' = "poll"
           /\ UNCHANGED <<req, retryVars, routeVars, deliveryVars, watermark, finalVars>>
<1>1. log \in Seq(LogEntry) BY DEF IInv, TypeOK
<1>2. current = NoAttempt /\ terminalFailure = {} /\ finalization = "none"
  BY DEF IInv, Ownership, ExecuteStreams
<1> DEFINE entry == [account |-> account, continuation |-> continuationAttempt,
                     candidate |-> candidate, recovery |-> prepared.recovery,
                     send |-> "NotSent", safe |-> FALSE, usd |-> 0, exit |-> "live"]
<1>3. log' = Append(log, entry) BY DEF ExecuteStreams
<1> HIDE DEF entry
<1>4. /\ Len(log') = Len(log) + 1
      /\ \A i \in 1 .. Len(log) : log'[i] = log[i]
      /\ log'[Len(log')] = entry
  BY <1>1, <1>3
<1>5. /\ entry.account = account /\ entry.continuation = continuationAttempt
      /\ entry.send = "NotSent" /\ entry.exit = "live"
  BY DEF entry
<1>6. /\ attempts' = attempts + 1
      /\ current'.account = account /\ ~current'.sent
      /\ pc' = "poll"
      /\ UNCHANGED <<req, retryVars, routeVars, deliveryVars, watermark, finalVars>>
  BY DEF ExecuteStreams
<1> QED BY <1>2, <1>4, <1>5, <1>6

\* An event of the stream: the attempt in hand has sent its request.
LEMMA StreamEventLog ==
    ASSUME IInv, History, NEW forClient \in BOOLEAN, NEW carriesState \in BOOLEAN,
           NEW observed \in Observations \cup {cost},
           StreamEvent(forClient, observed, carriesState)
    PROVE  /\ attempts \in 1 .. Len(log) /\ Len(log') = Len(log)
           /\ \A i \in 1 .. Len(log) : i # attempts => log'[i] = log[i]
           /\ log'[attempts].account = log[attempts].account
           /\ log'[attempts].continuation = log[attempts].continuation
           /\ log'[attempts].send = "Sent"
           /\ log'[attempts].exit = "live" /\ log[attempts].exit = "live"
           /\ log'[attempts].safe = log[attempts].safe
           /\ current' # NoAttempt /\ current'.account = current.account /\ current'.sent
           /\ log[attempts].account = current.account
           /\ pc' \in {"poll", "idle"} /\ watermark' = "Sent"
           /\ terminalFailure = {} /\ finalization = "none"
           /\ UNCHANGED <<req, retryVars, continuationAttempt, countVars,
                          terminalFailure, finalVars>>
<1>1. log \in Seq(LogEntry) BY DEF IInv, TypeOK
<1>2. /\ pc = "poll"
      /\ current' = [current EXCEPT !.sent = TRUE] /\ watermark' = "Sent"
      /\ log' = [LogSend("Sent") EXCEPT ![attempts].usd = observed.usd]
      /\ pc' \in {"poll", "idle"}
      /\ UNCHANGED <<req, retryVars, continuationAttempt, countVars,
                     terminalFailure, finalVars>>
  BY DEF StreamEvent
<1>3. /\ attempts \in 1 .. Len(log)
      /\ log[attempts].account = current.account
      /\ log[attempts].exit = "live"
      /\ LogSend("Sent") = [log EXCEPT ![attempts].send = "Sent"]
  BY <1>2, LogSendEntry DEF SendStates
<1>4. /\ Len(log') = Len(log)
      /\ \A i \in 1 .. Len(log) : i # attempts => log'[i] = log[i]
      /\ log'[attempts].account = log[attempts].account
      /\ log'[attempts].continuation = log[attempts].continuation
      /\ log'[attempts].send = "Sent"
      /\ log'[attempts].exit = log[attempts].exit
      /\ log'[attempts].safe = log[attempts].safe
  <2>1. log' = [[log EXCEPT ![attempts].send = "Sent"] EXCEPT
                  ![attempts].usd = observed.usd]
    BY <1>2, <1>3
  <2>2. "Sent" \in SendStates BY DEF SendStates
  <2>3. Updated(log', log, attempts, "Sent", log[attempts].exit, log[attempts].safe)
    BY <1>1, <1>3, <2>1, <2>2, EntryUpdate, Zenon
  <2> QED BY <2>3 DEF Updated
<1>5. /\ current' # NoAttempt /\ current'.account = current.account /\ current'.sent
      /\ terminalFailure = {} /\ finalization = "none"
  BY <1>2 DEF IInv, Ownership, TypeOK, NoAttempt
<1> QED BY <1>2, <1>3, <1>4, <1>5

\* A stream fails: its entry says what it sent and how it ended.
LEMMA StreamFailsLog ==
    ASSUME IInv, History, NEW e \in StreamErrors, StreamFails(e)
    PROVE  /\ attempts \in 1 .. Len(log) /\ Len(log') = Len(log)
           /\ \A i \in 1 .. Len(log) : i # attempts => log'[i] = log[i]
           /\ log'[attempts].account = log[attempts].account
           /\ log'[attempts].continuation = log[attempts].continuation
           /\ log'[attempts].send = AttemptSend(e) /\ AttemptSend(e) \in SendStates
           /\ log[attempts].exit = "live"
           /\ log[attempts].account = current.account
           /\ current # NoAttempt /\ terminalFailure = {} /\ finalization = "none"
           /\ watermark' = EscalateSendState(watermark, AttemptSend(e))
           /\ UNCHANGED <<req, countVars, committed>>
           /\ pc' \in {"prepare", "idle", "finalizing"}
           /\ \/ /\ Retryable(e) /\ current' = NoAttempt
                 /\ log'[attempts].exit = RetryKind(e)
                 /\ log'[attempts].safe = ProviderProvedReplaySafe(e)
                 /\ continuationAttempt' = ContinuationScope(e)
                 /\ UNCHANGED <<terminalFailure, finalVars>>
              \/ /\ ~Retryable(e) /\ UNCHANGED <<continuationAttempt, current>>
                 /\ log'[attempts].exit = "failed"
                 /\ \/ terminalFailure' # {} /\ UNCHANGED finalVars
                    \/ finalization' = "pending" /\ UNCHANGED terminalFailure
<1>1. log \in Seq(LogEntry) BY DEF IInv, TypeOK
<1>2. /\ pc = "poll" /\ watermark' = EscalateSendState(watermark, AttemptSend(e))
      /\ UNCHANGED <<req, countVars, committed>>
      /\ IF Retryable(e) THEN DiscardAttempt(e) ELSE FailAttempt(e)
  BY DEF StreamFails
<1>3. AttemptSend(e) \in SendStates
  BY StreamErrorType DEF AttemptSend, SendStates
<1>4. /\ attempts \in 1 .. Len(log)
      /\ log[attempts].account = current.account
      /\ log[attempts].exit = "live"
      /\ LogSend(AttemptSend(e)) = [log EXCEPT ![attempts].send = AttemptSend(e)]
  <2>1. (IF current.sent THEN "Sent" ELSE AttemptSend(e)) = AttemptSend(e)
    BY DEF AttemptSend
  <2> QED BY <1>2, <1>3, <2>1, LogSendEntry
<1>5. current # NoAttempt /\ terminalFailure = {} /\ finalization = "none"
  BY <1>2 DEF IInv, Ownership
<1> DEFINE observed == IF e.atomic THEN ObserveCost(cost, "reported", e.usd) ELSE cost
<1>6. CASE Retryable(e)
  <2>1. DiscardAttempt(e) BY <1>2, <1>6
  <2>2. log' = [LogSend(AttemptSend(e)) EXCEPT
                  ![attempts].exit = RetryKind(e),
                  ![attempts].safe = ProviderProvedReplaySafe(e),
                  ![attempts].usd = observed.usd]
    BY <2>1, EndedLog, Zenon
  <2>3. /\ pc' = "prepare" /\ current' = NoAttempt
        /\ continuationAttempt' = ContinuationScope(e)
        /\ UNCHANGED <<terminalFailure, finalVars>>
    BY <2>1, EndedLog, Zenon
  <2> HIDE DEF observed
  <2>4. log' = [[log EXCEPT ![attempts].send = AttemptSend(e)] EXCEPT
                  ![attempts].exit = RetryKind(e),
                  ![attempts].safe = ProviderProvedReplaySafe(e),
                  ![attempts].usd = observed.usd]
    BY <1>4, <2>2
  <2>5. Updated(log', log, attempts, AttemptSend(e), RetryKind(e),
                ProviderProvedReplaySafe(e))
    BY <1>1, <1>3, <1>4, <2>4, EntryUpdate, Zenon
  <2> QED BY <1>2, <1>3, <1>4, <1>5, <1>6, <2>3, <2>5 DEF Updated
<1>7. CASE ~Retryable(e)
  <2>1. FailAttempt(e) BY <1>2, <1>7
  <2>2. log' = [LogSend(AttemptSend(e)) EXCEPT ![attempts].exit = "failed",
                                               ![attempts].usd = cost'.usd]
    BY <2>1 DEF FailAttempt
  <2>3. /\ UNCHANGED <<continuationAttempt, current>> /\ pc' \in {"idle", "finalizing"}
        /\ \/ terminalFailure' # {} /\ UNCHANGED finalVars
           \/ finalization' = "pending" /\ UNCHANGED terminalFailure
    BY <2>1 DEF FailAttempt
  <2>4. log' = [[log EXCEPT ![attempts].send = AttemptSend(e)] EXCEPT
                  ![attempts].exit = "failed", ![attempts].usd = cost'.usd]
    BY <1>4, <2>2
  <2>5. Updated(log', log, attempts, AttemptSend(e), "failed", log[attempts].safe)
    BY <1>1, <1>3, <1>4, <2>4, EntryUpdate, Zenon
  <2> QED BY <1>2, <1>3, <1>4, <1>5, <1>7, <2>3, <2>5 DEF Updated
<1> QED BY <1>6, <1>7

\* Every step either keeps the history or is one of the three that write it.
LEMMA HistoryInv == IInv /\ History /\ [Next]_vars => History'
<1> SUFFICES ASSUME IInv, History, [Next]_vars PROVE History' OBVIOUS
<1>1. Len(log) = attempts /\ attempts \in Nat BY DEF History, IInv, TypeOK
<1>2. ASSUME NEW account \in Accounts, ExecuteStreams(account) PROVE History'
  <2>1. /\ attempts' = attempts + 1 /\ Len(log') = Len(log) + 1
        /\ log'[Len(log')].account = account
        /\ log'[Len(log')].exit = "live" /\ log'[Len(log')].send = "NotSent"
        /\ current'.account = account /\ ~current'.sent
        /\ pc' = "poll" /\ terminalFailure = {} /\ UNCHANGED <<terminalFailure, finalization>>
    BY <1>2, ExecuteStreamsLog DEF deliveryVars, finalVars
  <2>2. current' # NoAttempt
    BY <2>1, ConstantsAssumption DEF NoAttempt
  <2> QED BY <1>1, <2>1, <2>2 DEF History
<1>3. ASSUME NEW forClient \in BOOLEAN, NEW carriesState \in BOOLEAN,
             NEW observed \in Observations \cup {cost},
             StreamEvent(forClient, observed, carriesState)
      PROVE  History'
  <2>1. /\ Len(log') = Len(log) /\ attempts' = attempts /\ attempts \in 1 .. Len(log)
        /\ log'[attempts].account = log[attempts].account
        /\ log'[attempts].send = "Sent" /\ log'[attempts].exit = "live"
        /\ current' # NoAttempt /\ current'.account = current.account /\ current'.sent
        /\ log[attempts].account = current.account
        /\ pc' \in {"poll", "idle"} /\ terminalFailure' = {}
    BY <1>3, StreamEventLog DEF countVars
  <2> QED BY <1>1, <2>1 DEF History
<1>4. ASSUME NEW e \in StreamErrors, StreamFails(e) PROVE History'
  <2>1. /\ Len(log') = Len(log) /\ attempts' = attempts /\ attempts \in 1 .. Len(log)
        /\ pc' \in {"prepare", "idle", "finalizing"}
        /\ \/ /\ Retryable(e) /\ current' = NoAttempt
              /\ log'[attempts].exit = RetryKind(e)
           \/ /\ log'[attempts].exit = "failed" /\ current' = current
              /\ terminalFailure' # {} \/ finalization' = "pending"
        /\ current # NoAttempt
    BY <1>4, StreamFailsLog, Zenon DEF countVars
  <2>2. Retryable(e) => RetryKind(e) # "live"
    BY DEF RetryKind, TransportRecovery
  <2> QED BY <1>1, <2>1, <2>2 DEF History
<1>5. CASE ~LogStep
  <2>1. /\ UNCHANGED <<log, attempts, current>>
        /\ pc' = "start" => pc = "start" /\ finalization' = finalization
        /\ finalization' = "none" =>
             finalization = "none" /\ (terminalFailure' = {} => terminalFailure = {})
        /\ terminalFailure' # {} => terminalFailure # {} \/ current = NoAttempt
    BY <1>5, QuietStep
  <2> QED BY <2>1 DEF History
<1> QED BY <1>2, <1>3, <1>4, <1>5 DEF LogStep

\* A hidden retry names why it was justified, in the order the code decides.
LEMMA RetryKindJustified ==
    ASSUME NEW e, Retryable(e)
    PROVE  /\ RetryKind(e) \in RetryExits
           /\ \/ ProviderProvedReplaySafe(e)
              \/ RetryKind(e) \in {"rotation", "TransportRetry", "TransportFallback"}
<1>1. CASE SameAccountRetry(e)
  <2>1. RetryKind(e) = "SameAccount" BY <1>1 DEF RetryKind
  <2>2. RetryKind(e) \in RetryExits BY <2>1 DEF RetryExits
  <2>3. ProviderProvedReplaySafe(e) BY <1>1 DEF SameAccountRetry
  <2> QED BY <2>2, <2>3
<1>2. CASE ~SameAccountRetry(e) /\ TransientRetry(e)
  <2>1. RetryKind(e) = "transient" BY <1>2 DEF RetryKind
  <2>2. RetryKind(e) \in RetryExits BY <2>1 DEF RetryExits
  <2>3. ProviderProvedReplaySafe(e) BY <1>2 DEF TransientRetry, OrdinaryRetry
  <2> QED BY <2>2, <2>3
<1>3. CASE ~SameAccountRetry(e) /\ ~TransientRetry(e) /\ TransportRecovery(e)
  <2>1. RetryKind(e) = e.hint BY <1>3 DEF RetryKind
  <2>2. e.hint \in {"TransportRetry", "TransportFallback"} BY <1>3 DEF TransportRecovery
  <2>3. e.hint \in RetryExits BY <2>2 DEF RetryExits
  <2> QED BY <2>1, <2>2, <2>3
<1>4. CASE ~SameAccountRetry(e) /\ ~TransientRetry(e) /\ ~TransportRecovery(e)
  <2>1. RetryKind(e) = IF ContinuationRetry(e) THEN "continuation" ELSE "rotation"
    BY <1>4 DEF RetryKind
  <2>2. ContinuationRetry(e) => ProviderProvedReplaySafe(e) BY DEF ContinuationRetry
  <2> QED BY <2>1, <2>2 DEF RetryExits
<1> QED BY <1>1, <1>2, <1>3, <1>4

\* A replay stays justified: the entries of the past never change, and the one
\* that ends is replayed only with a proof or a request of the provider.
LEMMA ReplayJustifiedInv ==
    IInv /\ History /\ ReplayJustified /\ [Next]_vars => ReplayJustified'
<1> SUFFICES ASSUME IInv, History, ReplayJustified, [Next]_vars PROVE ReplayJustified'
  OBVIOUS
<1> DEFINE Justified(entry) ==
             entry.exit \in RetryExits =>
               /\ entry.send # "Ambiguous"
               /\ entry.safe \/ entry.exit \in {"rotation", "TransportRetry",
                                                "TransportFallback"}
<1>1. \A i \in 1 .. Len(log) : Justified(log[i]) BY DEF ReplayJustified
<1>2. Len(log) \in Nat BY DEF IInv, TypeOK
<1>3. ASSUME NEW account \in Accounts, ExecuteStreams(account)
      PROVE  \A i \in 1 .. Len(log') : Justified(log'[i])
  <2>1. /\ Len(log') = Len(log) + 1
        /\ \A i \in 1 .. Len(log) : log'[i] = log[i]
        /\ log'[Len(log')].exit = "live"
    BY <1>3, ExecuteStreamsLog
  <2>2. Justified(log'[Len(log')]) BY <2>1 DEF RetryExits
  <2> HIDE DEF Justified
  <2> QED BY <1>1, <1>2, <2>1, <2>2
<1>4. ASSUME NEW forClient \in BOOLEAN, NEW carriesState \in BOOLEAN,
             NEW observed \in Observations \cup {cost},
             StreamEvent(forClient, observed, carriesState)
      PROVE  \A i \in 1 .. Len(log') : Justified(log'[i])
  <2>1. /\ Len(log') = Len(log)
        /\ \A i \in 1 .. Len(log) : i # attempts => log'[i] = log[i]
        /\ log'[attempts].exit = "live"
    BY <1>4, StreamEventLog
  <2>2. Justified(log'[attempts]) BY <2>1 DEF RetryExits
  <2> HIDE DEF Justified
  <2> QED BY <1>1, <2>1, <2>2
<1>5. ASSUME NEW e \in StreamErrors, StreamFails(e)
      PROVE  \A i \in 1 .. Len(log') : Justified(log'[i])
  <2>1. /\ Len(log') = Len(log)
        /\ \A i \in 1 .. Len(log) : i # attempts => log'[i] = log[i]
        /\ log'[attempts].send = AttemptSend(e)
        /\ \/ /\ Retryable(e) /\ log'[attempts].exit = RetryKind(e)
              /\ log'[attempts].safe = ProviderProvedReplaySafe(e)
           \/ log'[attempts].exit = "failed"
    BY <1>5, StreamFailsLog, Zenon
  <2>2. CASE Retryable(e) /\ log'[attempts].exit = RetryKind(e)
             /\ log'[attempts].safe = ProviderProvedReplaySafe(e)
    <3>1. Justified(log'[attempts])
      BY <2>1, <2>2, RetryableUndelivered, RetryKindJustified, Zenon
    <3> HIDE DEF Justified
    <3> QED BY <1>1, <2>1, <3>1
  <2>3. CASE log'[attempts].exit = "failed"
    <3>1. Justified(log'[attempts]) BY <2>3 DEF RetryExits
    <3> HIDE DEF Justified
    <3> QED BY <1>1, <2>1, <3>1
  <2> QED BY <2>1, <2>2, <2>3
<1>6. ASSUME ~LogStep
      PROVE  \A i \in 1 .. Len(log') : Justified(log'[i])
  <2>1. log' = log BY <1>6, QuietStep
  <2> HIDE DEF Justified
  <2> QED BY <1>1, <2>1
<1>7. \A i \in 1 .. Len(log') : Justified(log'[i])
  <2> HIDE DEF Justified
  <2> QED
    BY <1>3, <1>4, <1>5, <1>6 DEF LogStep
<1> QED BY <1>7 DEF ReplayJustified

-------------------------------------------------------------------------------
(* The outcome: once the session owns the terminal write, nothing changes it. *)

\* What a step may still do when the terminal write is pending or complete.
LEMMA FrozenStep ==
    ASSUME IInv, History, [Next]_vars, finalization # "none"
    PROVE  /\ UNCHANGED <<result, attempts, current, committed, budgetVars, log, watermark>>
           /\ finalization' # "none"
           /\ finalization = "complete" => finalization' = "complete"
           /\ UNCHANGED row \/ WriteFinalization
<1>1. pc \notin {"start", "prepare", "execute", "poll"} /\ (pc = "idle" => Finalized)
  BY DEF IInv, Ownership, TypeOK, History, Finalized
<1>2. CASE CallStep
  BY <1>1, <1>2 DEF CallStep, Start, NextEvent, CollectUncommitted, CommitDownstream
<1>3. CASE PrepareStep
  BY <1>1, <1>3 DEF PrepareStep, BeginAttempt, ExecuteInterrupted, ExecuteFails,
                    ExecuteMismatches, ExecuteStreams
<1>4. CASE StreamStep
  BY <1>1, <1>4 DEF StreamStep, PollInterrupted, StreamEvent, StreamEnds, StreamFails
<1>5. CASE WriteFinalization
  BY <1>5 DEF WriteFinalization, countVars, deliveryVars
<1>6. CASE Cancel \/ DeadlineElapses
  BY <1>6 DEF Cancel, DeadlineElapses, countVars, deliveryVars, finalVars, storeVars
<1>7. CASE Abandon
  BY <1>7 DEF Abandon, countVars, deliveryVars, finalVars, storeVars
<1>8. CASE DetachFinalize
  BY <1>8 DEF DetachFinalize, MustFinish
<1>9. CASE UNCHANGED vars
  BY <1>9 DEF vars, countVars, deliveryVars, finalVars, storeVars
<1> QED BY <1>2, <1>3, <1>4, <1>5, <1>6, <1>7, <1>8, <1>9 DEF Next

-------------------------------------------------------------------------------
(* The continuation only ever widens. *)

\* The scope of the continuation, and the entries made under it.
ContinuationScopeInv ==
    /\ continuationAttempt = "Native" =>
         \A i \in 1 .. Len(log) : log[i].continuation = "Native"
    /\ continuationAttempt = "None" <=> req.binding = "none"

\* A step keeps the scope, or widens the native one or the owner's.
LEMMA ContinuationStep ==
    ASSUME IInv, [Next]_vars
    PROVE  /\ req' = req
           /\ \/ continuationAttempt' = continuationAttempt
              \/ /\ continuationAttempt \in {"Native", "ReplayOwner"}
                 /\ continuationAttempt' \in {"ReplayOwner", "ReplayAny"}
<1> DEFINE Goal == /\ req' = req
                   /\ \/ continuationAttempt' = continuationAttempt
                      \/ /\ continuationAttempt \in {"Native", "ReplayOwner"}
                         /\ continuationAttempt' \in {"ReplayOwner", "ReplayAny"}
<1>1. CASE CallStep
  BY <1>1 DEF CallStep, Start, NextEvent, CollectUncommitted, CommitDownstream, routeVars
<1>2. CASE BeginAttempt \/ ExecuteInterrupted \/ PollInterrupted
  BY <1>2 DEF BeginAttempt, ExecuteInterrupted, PollInterrupted, routeVars
<1>3. ASSUME NEW kind \in ExecuteKinds, NEW send \in SendStates, ExecuteFails(kind, send)
      PROVE  Goal
  <2>1. req' = req BY <1>3 DEF ExecuteFails
  <2>2. CASE ReplaysUnavailableNative(kind)
    BY <1>3, <2>1, <2>2 DEF ExecuteFails, ReplaysUnavailableNative
  <2>3. CASE ~ReplaysUnavailableNative(kind)
    BY <1>3, <2>1, <2>3 DEF ExecuteFails
  <2> QED BY <2>2, <2>3
<1>4. ASSUME NEW account \in Accounts, ExecuteMismatches(account) \/ ExecuteStreams(account)
      PROVE  Goal
  BY <1>4 DEF ExecuteMismatches, ExecuteStreams, routeVars
<1>5. ASSUME NEW forClient \in BOOLEAN, NEW carriesState \in BOOLEAN,
             NEW observed \in Observations \cup {cost},
             StreamEvent(forClient, observed, carriesState)
      PROVE  Goal
  BY <1>5 DEF StreamEvent
<1>6. ASSUME NEW collectedAny \in BOOLEAN, StreamEnds(collectedAny) PROVE Goal
  BY <1>6 DEF StreamEnds, routeVars
<1>7. ASSUME NEW e \in StreamErrors, StreamFails(e) PROVE Goal
  <2>1. req' = req BY <1>7 DEF StreamFails
  <2>2. continuationAttempt' \in {continuationAttempt, ContinuationScope(e)}
    BY <1>7 DEF StreamFails, DiscardAttempt, FailAttempt
  <2> QED BY <2>1, <2>2 DEF ContinuationScope
<1>8. CASE WriteFinalization \/ Cancel \/ DeadlineElapses \/ Abandon \/ DetachFinalize
  BY <1>8 DEF WriteFinalization, Cancel, DeadlineElapses, Abandon, DetachFinalize, routeVars
<1>9. CASE UNCHANGED vars BY <1>9 DEF vars, routeVars
<1> QED BY <1>1, <1>2, <1>3, <1>4, <1>5, <1>6, <1>7, <1>8, <1>9
        DEF Next, PrepareStep, StreamStep

\* Entries are made under the scope of their time, and a native one only for the
\* account that owns the response.
LEMMA ContinuationInv ==
    IInv /\ History /\ ContinuationOwnerKept /\ ContinuationScopeInv /\ [Next]_vars
        => ContinuationOwnerKept' /\ ContinuationScopeInv'
<1> SUFFICES ASSUME IInv, History, ContinuationOwnerKept, ContinuationScopeInv, [Next]_vars
             PROVE  ContinuationOwnerKept' /\ ContinuationScopeInv'
  OBVIOUS
<1>1. Len(log) \in Nat BY DEF IInv, TypeOK
<1>2. req' = req BY ContinuationStep
<1>3. /\ continuationAttempt' = "Native" => continuationAttempt = "Native"
      /\ continuationAttempt' = "None" <=> req.binding = "none"
  BY ContinuationStep DEF ContinuationScopeInv
<1>4. CASE /\ Len(log') = Len(log)
           /\ \A i \in 1 .. Len(log) : /\ log'[i].account = log[i].account
                                       /\ log'[i].continuation = log[i].continuation
  BY <1>2, <1>3, <1>4 DEF ContinuationOwnerKept, ContinuationScopeInv
<1>5. ASSUME NEW account \in Accounts, ExecuteStreams(account)
      PROVE  ContinuationOwnerKept' /\ ContinuationScopeInv'
  <2>1. /\ Len(log') = Len(log) + 1
        /\ \A i \in 1 .. Len(log) : log'[i] = log[i]
        /\ log'[Len(log')].account = account
        /\ log'[Len(log')].continuation = continuationAttempt
        /\ continuationAttempt' = continuationAttempt
    BY <1>5, ExecuteStreamsLog DEF routeVars
  <2>2. continuationAttempt = "Native" /\ req.binding = "pinned" => account = req.pin
    BY <1>5 DEF ExecuteStreams, Mismatch
  <2>3. \A i \in 1 .. Len(log') : i = Len(log') \/ i \in 1 .. Len(log)
    BY <1>1, <2>1
  <2>4. \A i \in 1 .. Len(log') :
          log'[i].continuation = "Native" /\ req.binding = "pinned"
            => log'[i].account = req.pin
    BY <2>1, <2>2, <2>3 DEF ContinuationOwnerKept
  <2>5. \A i \in 1 .. Len(log') : \A j \in 1 .. i :
          log'[i].continuation = "Native" => log'[j].continuation = "Native"
    <3>1. ASSUME NEW i \in 1 .. Len(log'), NEW j \in 1 .. i, log'[i].continuation = "Native"
          PROVE  log'[j].continuation = "Native"
      <4>1. CASE i = Len(log')
        <5>1. \A k \in 1 .. Len(log) : log[k].continuation = "Native"
          BY <2>1, <3>1, <4>1 DEF ContinuationScopeInv
        <5> QED BY <1>1, <2>1, <3>1, <4>1, <5>1
      <4>2. CASE i \in 1 .. Len(log)
        BY <1>1, <2>1, <3>1, <4>2 DEF ContinuationOwnerKept
      <4> QED BY <2>3, <4>1, <4>2
    <3> QED BY <3>1
  <2>6. \A i \in 1 .. Len(log') : log'[i].continuation = "None" <=> req.binding = "none"
    BY <2>1, <2>3 DEF ContinuationOwnerKept, ContinuationScopeInv
  <2>7. continuationAttempt' = "Native" =>
          \A i \in 1 .. Len(log') : log'[i].continuation = "Native"
    BY <2>1, <2>3 DEF ContinuationScopeInv
  <2> QED BY <1>2, <1>3, <2>4, <2>5, <2>6, <2>7 DEF ContinuationOwnerKept, ContinuationScopeInv
<1>6. ASSUME NEW forClient \in BOOLEAN, NEW carriesState \in BOOLEAN,
             NEW observed \in Observations \cup {cost},
             StreamEvent(forClient, observed, carriesState)
      PROVE  ContinuationOwnerKept' /\ ContinuationScopeInv'
  BY <1>4, <1>6, StreamEventLog
<1>7. ASSUME NEW e \in StreamErrors, StreamFails(e)
      PROVE  ContinuationOwnerKept' /\ ContinuationScopeInv'
  <2>1. /\ Len(log') = Len(log)
        /\ \A i \in 1 .. Len(log) : i # attempts => log'[i] = log[i]
        /\ log'[attempts].account = log[attempts].account
        /\ log'[attempts].continuation = log[attempts].continuation
    BY <1>7, StreamFailsLog, Zenon
  <2> QED BY <1>4, <2>1
<1>8. CASE ~LogStep
  BY <1>4, <1>8, QuietStep
<1> QED BY <1>5, <1>6, <1>7, <1>8 DEF LogStep

-------------------------------------------------------------------------------
(* The outcome covers what every attempt sent. *)

\* Send states are ordered by what they admit.
LEMMA SendOrder ==
    ASSUME NEW a \in SendStates, NEW b \in SendStates, NEW c \in SendStates
    PROVE  /\ AtLeast(a, a) /\ AtLeast("Sent", a)
           /\ AtLeast(EscalateSendState(a, b), a) /\ AtLeast(EscalateSendState(a, b), b)
           /\ AtLeast(a, b) /\ AtLeast(b, c) => AtLeast(a, c)
BY DEF AtLeast, EscalateSendState, SendStates

\* The watermark covers every attempt, and an outcome the watermark.
Covered ==
    /\ \A i \in 1 .. Len(log) : AtLeast(watermark, log[i].send)
    /\ finalization = "none" => result = {}
    /\ \A final \in result :
         /\ AtLeast(final.send, watermark)
         /\ final.attempts = attempts
         /\ final.outcome = "Cancelled" /\ attempts # 0
              => final.send # "NotSent" \/ log[attempts].exit # "live"

\* What an outcome of this step says is true of the session after it.
OutcomeTrue ==
    \A final \in result' :
        /\ AtLeast(final.send, watermark')
        /\ final.attempts = attempts'
        /\ final.outcome = "Cancelled" /\ attempts' # 0
             => final.send # "NotSent" \/ log'[attempts'].exit # "live"

\* An outcome that is reported merges what was sent into the watermark.
LEMMA FinishCovers ==
    ASSUME IInv, NEW outcome, NEW send \in SendStates, Finish(outcome, send),
           UNCHANGED <<attempts, log>>,
           outcome = "Cancelled" /\ attempts # 0
             => send # "NotSent" \/ log[attempts].exit # "live"
    PROVE  OutcomeTrue /\ AtLeast(watermark', watermark) /\ finalization' = "pending"
<1>1. /\ watermark' = EscalateSendState(watermark, send)
      /\ result' = {[outcome |-> outcome, send |-> EscalateSendState(watermark, send),
                     attempts |-> attempts]}
      /\ finalization' = "pending"
  BY DEF Finish
<1>2. watermark \in SendStates /\ watermark' \in SendStates
  BY <1>1, EscalateType DEF IInv, TypeOK
<1>3. send # "NotSent" => EscalateSendState(watermark, send) # "NotSent"
  BY DEF EscalateSendState, SendStates
<1> QED BY <1>1, <1>2, <1>3, SendOrder DEF OutcomeTrue

\* A cancelled request with an attempt in hand counts it as possibly sent.
LEMMA FinishInterruptionCovers ==
    ASSUME IInv, NEW error, FinishInterruption(error), UNCHANGED <<attempts, log>>
    PROVE  OutcomeTrue /\ AtLeast(watermark', watermark) /\ finalization' = "pending"
<1>1. InterruptionSend \in SendStates BY DEF InterruptionSend, SendStates
<1>2. attempts # 0 => InterruptionSend # "NotSent"
  BY DEF InterruptionSend, IInv, TypeOK
<1>3. PICK outcome : Finish(outcome, InterruptionSend)
  BY DEF FinishInterruption
<1> QED BY <1>1, <1>2, <1>3, FinishCovers

\* A failure a provider reported ends an attempt that is over already.
LEMMA FinishProviderErrorCovers ==
    ASSUME IInv, NEW cancelled, NEW send \in SendStates,
           FinishProviderError(cancelled, send), UNCHANGED <<attempts, log>>,
           attempts # 0 => log[attempts].exit # "live"
    PROVE  OutcomeTrue /\ AtLeast(watermark', watermark) /\ finalization' = "pending"
<1>1. PICK outcome : Finish(outcome, send) BY DEF FinishProviderError
<1> QED BY <1>1, FinishCovers

\* A step that finds no terminal write raises the watermark at most, and begins
\* at most one terminal write, which is true of the session.
LEMMA ResultStep ==
    ASSUME IInv, History, [Next]_vars, finalization = "none", ~LogStep
    PROVE  /\ AtLeast(watermark', watermark)
           /\ OutcomeTrue \/ UNCHANGED <<result, finalization>>
           /\ finalization' = "none" => UNCHANGED <<result, finalization>>
<1> DEFINE Goal == /\ AtLeast(watermark', watermark)
                   /\ OutcomeTrue \/ UNCHANGED <<result, finalization>>
                   /\ finalization' = "none" => UNCHANGED <<result, finalization>>
<1>1. watermark \in SendStates /\ AtLeast(watermark, watermark)
  BY SendOrder DEF IInv, TypeOK
<1>2. ASSUME UNCHANGED <<watermark, finalVars>> PROVE Goal
  BY <1>1, <1>2 DEF finalVars
<1>3. ASSUME AtLeast(watermark', watermark), OutcomeTrue, finalization' = "pending"
      PROVE  Goal
  BY <1>3
<1> HIDE DEF Goal
<1>4. UNCHANGED <<attempts, log>> BY QuietStep
<1>5. (current = NoAttempt \/ terminalFailure # {}) /\ attempts # 0
        => log[attempts].exit # "live"
  BY DEF History
<1>6. \A failure \in terminalFailure : failure.send \in SendStates
  BY DEF IInv, TypeOK
<1>7. ASSUME FinishSuccess PROVE Goal
  <2>1. /\ watermark' = watermark /\ finalization' = "pending"
        /\ result' = {[outcome |-> "Succeeded", send |-> "Sent", attempts |-> attempts]}
    BY <1>7 DEF FinishSuccess
  <2>2. OutcomeTrue BY <1>1, <1>4, <2>1, SendOrder DEF OutcomeTrue
  <2> QED BY <1>1, <1>3, <2>1, <2>2
<1>8. ASSUME NEW error, FinishInterruption(error) PROVE Goal
  BY <1>3, <1>4, <1>8, FinishInterruptionCovers
<1>9. ASSUME NEW failure, NEW send \in SendStates, current = NoAttempt \/ terminalFailure # {},
             FinishProviderError(failure, send)
      PROVE  Goal
  BY <1>3, <1>4, <1>5, <1>9, FinishProviderErrorCovers
<1>10. ASSUME Start PROVE Goal
  BY <1>2, <1>8, <1>10 DEF Start
<1>11. ASSUME NextEvent PROVE Goal
  <2>1. CASE terminalFailure # {}
    <3>1. PICK failure \in terminalFailure :
            FinishProviderError(failure.cancelled, failure.send)
      BY <1>11, <2>1 DEF NextEvent
    <3> QED BY <1>6, <1>9, <2>1, <3>1
  <2>2. CASE terminalFailure = {}
    BY <1>2, <1>11, <2>2 DEF NextEvent, Pull
  <2> QED BY <2>1, <2>2
<1>12. ASSUME CollectUncommitted PROVE Goal
  BY <1>2, <1>12 DEF CollectUncommitted, Pull
<1>13. ASSUME CommitDownstream PROVE Goal
  BY <1>2, <1>7, <1>13 DEF CommitDownstream
<1>14. ASSUME BeginAttempt PROVE Goal
  BY <1>2, <1>8, <1>14 DEF BeginAttempt
<1>15. ASSUME ExecuteInterrupted \/ PollInterrupted PROVE Goal
  BY <1>8, <1>15 DEF ExecuteInterrupted, PollInterrupted
<1>16. ASSUME NEW kind \in ExecuteKinds, NEW send \in SendStates, ExecuteFails(kind, send)
       PROVE  Goal
  <2>1. current = NoAttempt /\ CurrentSendState \in SendStates
    <3>1. current = NoAttempt BY <1>16 DEF ExecuteFails, IInv, Ownership
    <3>2. (IF current.sent THEN "Sent" ELSE "NotSent") \in SendStates BY DEF SendStates
    <3> QED BY <1>1, <3>1, <3>2, EscalateType DEF CurrentSendState
  <2>2. \A failure \in lastFailure : failure.send \in SendStates
    BY StreamErrorType DEF IInv, TypeOK
  <2>3. ASSUME NEW failure, TerminalFailure(failure, CurrentSendState) PROVE Goal
    <3>1. UNCHANGED <<watermark, finalVars>>
          \/ FinishProviderError(failure.cancelled, CurrentSendState)
      BY <2>3 DEF TerminalFailure
    <3> QED BY <1>2, <1>9, <2>1, <3>1
  <2>4. \/ UNCHANGED <<watermark, finalVars>>
        \/ \E failure \in lastFailure :
             \/ TerminalFailure(failure, CurrentSendState)
             \/ FinishProviderError(failure.cancelled,
                                    EscalateSendState(CurrentSendState, failure.send))
        \/ FinishProviderError(FALSE, EscalateSendState(CurrentSendState, send))
    BY <1>16 DEF ExecuteFails
  <2>5. ASSUME NEW failure \in lastFailure,
               FinishProviderError(failure.cancelled,
                                   EscalateSendState(CurrentSendState, failure.send))
        PROVE  Goal
    BY <1>9, <2>1, <2>2, <2>5, EscalateType
  <2>6. ASSUME FinishProviderError(FALSE, EscalateSendState(CurrentSendState, send))
        PROVE  Goal
    BY <1>9, <2>1, <2>6, EscalateType
  <2> QED BY <1>2, <2>3, <2>4, <2>5, <2>6
<1>17. ASSUME NEW account \in Accounts, ExecuteMismatches(account) PROVE Goal
  <2>1. (IF current.sent THEN "Sent" ELSE "NotSent") \in SendStates BY DEF SendStates
  <2>2. /\ watermark' = watermark /\ finalization' = "pending"
        /\ result' = {[outcome |-> "Failed", send |-> CurrentSendState,
                       attempts |-> attempts]}
    BY <1>17 DEF ExecuteMismatches
  <2>3. AtLeast(CurrentSendState, watermark)
    BY <1>1, <2>1, SendOrder DEF CurrentSendState
  <2>4. OutcomeTrue BY <1>4, <2>2, <2>3 DEF OutcomeTrue
  <2> QED BY <1>1, <1>3, <2>2, <2>4
<1>18. ASSUME NEW collectedAny \in BOOLEAN, StreamEnds(collectedAny) PROVE Goal
  BY <1>2, <1>7, <1>18 DEF StreamEnds
<1>19. ASSUME WriteFinalization PROVE Goal
  BY <1>19 DEF WriteFinalization
<1>20. ASSUME Cancel \/ DeadlineElapses \/ Abandon PROVE Goal
  BY <1>2, <1>20 DEF Cancel, DeadlineElapses, Abandon
<1>21. ASSUME DetachFinalize PROVE Goal
  <2>1. CASE terminalFailure # {}
    <3>1. PICK failure \in terminalFailure :
            FinishProviderError(failure.cancelled, failure.send)
      BY <1>21, <2>1 DEF DetachFinalize
    <3> QED BY <1>6, <1>9, <2>1, <3>1
  <2>2. CASE terminalFailure = {}
    BY <1>8, <1>21, <2>2 DEF DetachFinalize
  <2> QED BY <2>1, <2>2
<1>22. ASSUME UNCHANGED vars PROVE Goal
  BY <1>2, <1>22 DEF vars
<1>23. Goal
  BY <1>10, <1>11, <1>12, <1>13, <1>14, <1>15, <1>16, <1>17, <1>18, <1>19, <1>20, <1>21,
     <1>22 DEF Next, CallStep, PrepareStep, StreamStep, LogStep
<1> QED BY <1>23 DEF Goal

\* The watermark and the outcome keep covering what every attempt sent.
LEMMA CoveredInv == IInv /\ History /\ Covered /\ [Next]_vars => Covered'
<1> SUFFICES ASSUME IInv, History, Covered, [Next]_vars PROVE Covered' OBVIOUS
<1>1. /\ watermark \in SendStates /\ Len(log) \in Nat /\ log \in Seq(LogEntry)
      /\ \A i \in 1 .. Len(log) : log[i].send \in SendStates
  <2>1. watermark \in SendStates /\ log \in Seq(LogEntry) BY DEF IInv, TypeOK
  <2>2. \A i \in 1 .. Len(log) : log[i] \in LogEntry BY <2>1
  <2> QED BY <2>1, <2>2 DEF LogEntry
<1>2. watermark' \in SendStates
  <2>1. IInv' BY NextInv
  <2> QED BY <2>1 DEF IInv, TypeOK
<1>3. ASSUME AtLeast(watermark', watermark)
      PROVE  \A i \in 1 .. Len(log) : AtLeast(watermark', log[i].send)
  BY <1>1, <1>2, <1>3, SendOrder DEF Covered
<1>4. CASE finalization # "none"
  <2>1. /\ UNCHANGED <<result, attempts, log, watermark>>
        /\ finalization' # "none"
    BY <1>4, FrozenStep
  <2> QED BY <2>1 DEF Covered
<1>5. CASE finalization = "none" /\ ~LogStep
  <2>1. UNCHANGED <<attempts, log>> BY <1>5, QuietStep
  <2>2. /\ AtLeast(watermark', watermark)
        /\ OutcomeTrue \/ UNCHANGED <<result, finalization>>
        /\ finalization' = "none" => UNCHANGED <<result, finalization>>
    BY <1>5, ResultStep
  <2>3. result = {} BY <1>5 DEF Covered
  <2>4. OutcomeTrue BY <2>2, <2>3 DEF OutcomeTrue
  <2> QED BY <1>3, <2>1, <2>2, <2>3, <2>4 DEF Covered, OutcomeTrue
<1>6. ASSUME finalization = "none", NEW account \in Accounts, ExecuteStreams(account)
      PROVE  Covered'
  <2>1. /\ Len(log') = Len(log) + 1
        /\ \A i \in 1 .. Len(log) : log'[i] = log[i]
        /\ log'[Len(log')].send = "NotSent"
        /\ UNCHANGED <<watermark, finalVars>>
    BY <1>6, ExecuteStreamsLog, Zenon
  <2>2. AtLeast(watermark, "NotSent")
    BY <1>1 DEF AtLeast, EscalateSendState, SendStates
  <2>3. result' = {} BY <1>6, <2>1 DEF Covered, finalVars
  <2> QED BY <1>1, <2>1, <2>2, <2>3 DEF Covered, finalVars
<1>7. ASSUME finalization = "none", NEW forClient \in BOOLEAN, NEW carriesState \in BOOLEAN,
             NEW observed \in Observations \cup {cost},
             StreamEvent(forClient, observed, carriesState)
      PROVE  Covered'
  <2>1. /\ Len(log') = Len(log)
        /\ \A i \in 1 .. Len(log) : i # attempts => log'[i] = log[i]
        /\ log'[attempts].send = "Sent"
        /\ watermark' = "Sent" /\ UNCHANGED finalVars
    BY <1>7, StreamEventLog
  <2>2. AtLeast("Sent", watermark) /\ AtLeast("Sent", "Sent")
    BY <1>1, SendOrder DEF SendStates
  <2>3. result' = {} BY <1>7, <2>1 DEF Covered, finalVars
  <2> QED BY <1>3, <2>1, <2>2, <2>3 DEF Covered, finalVars
<1>8. ASSUME finalization = "none", NEW e \in StreamErrors, StreamFails(e)
      PROVE  Covered'
  <2>1. /\ attempts \in 1 .. Len(log)
        /\ Len(log') = Len(log) /\ attempts' = attempts
        /\ \A i \in 1 .. Len(log) : i # attempts => log'[i] = log[i]
        /\ log'[attempts].send = AttemptSend(e) /\ AttemptSend(e) \in SendStates
        /\ watermark' = EscalateSendState(watermark, AttemptSend(e))
        /\ \/ UNCHANGED finalVars
           \/ ~Retryable(e) /\ finalization' = "pending" /\ log'[attempts].exit = "failed"
    BY <1>8, StreamFailsLog, Zenon DEF countVars
  <2>2. /\ AtLeast(watermark', watermark)
        /\ AtLeast(watermark', AttemptSend(e)) /\ AtLeast(watermark', watermark')
    BY <1>1, <1>2, <2>1, SendOrder
  <2>3. \A i \in 1 .. Len(log') : AtLeast(watermark', log'[i].send)
    BY <1>3, <2>1, <2>2
  <2>4. CASE UNCHANGED finalVars
    BY <1>8, <2>3, <2>4 DEF Covered, finalVars
  <2>5. CASE ~Retryable(e) /\ finalization' = "pending" /\ log'[attempts].exit = "failed"
    <3>1. result' \subseteq {[outcome |-> outcome, send |-> watermark',
                              attempts |-> attempts] : outcome \in Outcomes} \cup result
      BY <1>8, <2>1, <2>5 DEF StreamFails, FailAttempt, Outcomes, finalVars
    <3>2. result = {} BY <1>8 DEF Covered
    <3> QED BY <2>1, <2>2, <2>3, <2>5, <3>1, <3>2 DEF Covered
  <2> QED BY <2>1, <2>4, <2>5
<1> QED BY <1>4, <1>5, <1>6, <1>7, <1>8 DEF LogStep

-------------------------------------------------------------------------------
(* The row of the store. *)

\* The row says of the session what was true when it was written, and is closed
\* only by the outcome.
RowInv ==
    /\ RowFaithful
    /\ \A r \in row : r.attempts = 0 => Finalized

\* The steps that neither begin an attempt nor write the end only raise what the
\* row says was sent, as far as the watermark.
LEMMA RowStep ==
    ASSUME IInv, [Next]_vars, ~WriteFinalization,
           \A account \in Accounts : ~ExecuteStreams(account)
    PROVE  \/ row' = row
           \/ \E send \in SendStates :
                /\ row' = {[r EXCEPT !.send = EscalateSendState(@, send)] : r \in row}
                /\ AtLeast(watermark', send)
<1> DEFINE Goal == \/ row' = row
                   \/ \E send \in SendStates :
                        /\ row' = {[r EXCEPT !.send = EscalateSendState(@, send)] :
                                     r \in row}
                        /\ AtLeast(watermark', send)
<1>1. watermark \in SendStates /\ watermark' \in SendStates
  BY NextInv DEF IInv, TypeOK
<1>2. ASSUME UNCHANGED storeVars PROVE Goal
  BY <1>2 DEF storeVars
<1>3. ASSUME NEW send \in SendStates, StoreSendState(send), AtLeast(watermark', send)
      PROVE  Goal
  <2>1. row' \in {row, {[r EXCEPT !.send = EscalateSendState(@, send)] : r \in row}}
    BY <1>3 DEF StoreSendState, StoreRow, storeVars
  <2> QED BY <1>3, <2>1
<1>4. ASSUME row' = row PROVE Goal
  BY <1>4
<1> HIDE DEF Goal
<1>5. ASSUME NEW error, FinishInterruption(error) PROVE Goal
  <2>1. InterruptionSend \in SendStates BY DEF InterruptionSend, SendStates
  <2>2. watermark' = EscalateSendState(watermark, InterruptionSend)
    BY <1>5 DEF FinishInterruption, Finish
  <2>3. AtLeast(watermark', EscalateSendState(watermark, InterruptionSend))
    BY <1>1, <2>2, SendOrder
  <2>4. StoreSendState(EscalateSendState(watermark, InterruptionSend))
        \/ UNCHANGED storeVars
    BY <1>5 DEF FinishInterruption
  <2>5. EscalateSendState(watermark, InterruptionSend) \in SendStates
    BY <1>1, <2>1, EscalateType
  <2> QED BY <1>2, <1>3, <2>3, <2>4, <2>5
<1>6. ASSUME CallStep PROVE Goal
  BY <1>2, <1>5, <1>6 DEF CallStep, Start, NextEvent, CollectUncommitted, CommitDownstream
<1>7. ASSUME PrepareStep PROVE Goal
  <2>1. ASSUME BeginAttempt \/ ExecuteInterrupted PROVE Goal
    BY <1>2, <1>5, <2>1 DEF BeginAttempt, ExecuteInterrupted
  <2>2. ASSUME NEW kind, NEW send, ExecuteFails(kind, send) PROVE Goal
    BY <1>2, <2>2 DEF ExecuteFails
  <2>3. ASSUME NEW account, ExecuteMismatches(account) PROVE Goal
    BY <1>2, <2>3 DEF ExecuteMismatches
  <2> QED BY <1>7, <2>1, <2>2, <2>3 DEF PrepareStep
<1>8. ASSUME StreamStep PROVE Goal
  <2>1. ASSUME PollInterrupted PROVE Goal
    BY <1>5, <2>1 DEF PollInterrupted
  <2>2. ASSUME NEW forClient, NEW carriesState, NEW observed,
               StreamEvent(forClient, observed, carriesState)
        PROVE  Goal
    <3>1. watermark' = "Sent" /\ (UNCHANGED storeVars \/ StoreSendState("Sent"))
      BY <2>2 DEF StreamEvent
    <3>2. "Sent" \in SendStates /\ AtLeast("Sent", "Sent")
      BY SendOrder DEF SendStates
    <3> QED BY <1>2, <1>3, <3>1, <3>2
  <2>3. ASSUME NEW collectedAny, StreamEnds(collectedAny) PROVE Goal
    BY <1>2, <2>3 DEF StreamEnds
  <2>4. ASSUME NEW e \in StreamErrors, StreamFails(e) PROVE Goal
    <3>1. StoreSendState(watermark') BY <2>4 DEF StreamFails
    <3> QED BY <1>1, <1>3, <3>1, SendOrder
  <2> QED BY <1>8, <2>1, <2>2, <2>3, <2>4 DEF StreamStep
<1>9. ASSUME Cancel \/ DeadlineElapses \/ Abandon PROVE Goal
  BY <1>2, <1>9 DEF Cancel, DeadlineElapses, Abandon
<1>10. ASSUME DetachFinalize PROVE Goal
  BY <1>2, <1>5, <1>10 DEF DetachFinalize
<1>11. ASSUME UNCHANGED vars PROVE Goal
  BY <1>2, <1>11 DEF vars
<1>12. Goal
  BY <1>6, <1>7, <1>8, <1>9, <1>10, <1>11 DEF Next
<1> QED BY <1>12 DEF Goal

\* The row stays faithful to the session.
LEMMA RowInvariant == IInv /\ History /\ Covered /\ RowInv /\ [Next]_vars => RowInv'
<1> SUFFICES ASSUME IInv, History, Covered, RowInv, [Next]_vars PROVE RowInv' OBVIOUS
<1> DEFINE Rows == [attempts : Nat, send : SendStates, final : SUBSET Result]
<1>1. /\ row \subseteq Rows /\ watermark \in SendStates /\ attempts \in Nat
      /\ result \subseteq Result /\ log \in Seq(LogEntry) /\ Len(log) = attempts
  BY DEF IInv, TypeOK, History
<1>2. watermark' \in SendStates /\ attempts' \in Nat
  <2>1. IInv' BY NextInv
  <2> QED BY <2>1 DEF IInv, TypeOK
<1>3. Len(log) = 0 <=> log = <<>> BY <1>1
<1>4. \A r \in row : /\ r.attempts = 0 => log = <<>> /\ Finalized
                     /\ r.attempts <= attempts
                     /\ AtLeast(watermark, r.send) \/ r.final # {}
                     /\ r.final # {} => Finalized /\ r.final = result
  BY DEF RowInv, RowFaithful
<1>5. CASE WriteFinalization
  <2>1. PICK final \in result :
          row' \subseteq row
            \cup (IF CreatesRow(final)
                  THEN {[attempts |-> 0, send |-> "NotSent", final |-> {}]} ELSE {})
            \cup {[attempts |-> final.attempts, send |-> final.send, final |-> result]}
    BY <1>5 DEF WriteFinalization
  <2>2. /\ finalization' = "complete" /\ finalization = "pending"
        /\ UNCHANGED <<result, attempts, log, watermark>>
    BY <1>5 DEF WriteFinalization, countVars
  <2>3. final.attempts = attempts BY DEF Covered
  <2>4. CreatesRow(final) => final.attempts = 0 BY DEF CreatesRow
  <2>5. AtLeast(watermark, "NotSent")
    BY <1>1 DEF AtLeast, EscalateSendState, SendStates
  <2>6. ~Finalized /\ Finalized' BY <2>2 DEF Finalized
  <2>7. ASSUME NEW r \in row'
        PROVE  /\ r.attempts = 0 => log' = <<>> /\ Finalized'
               /\ r.attempts <= attempts'
               /\ AtLeast(watermark', r.send) \/ r.final # {}
               /\ r.final # {} => Finalized' /\ r.final = result'
    <3>1. CASE r \in row
      BY <1>4, <2>2, <2>6, <3>1
    <3>2. CASE CreatesRow(final) /\ r = [attempts |-> 0, send |-> "NotSent", final |-> {}]
      BY <1>1, <1>3, <2>2, <2>3, <2>4, <2>5, <2>6, <3>2
    <3>3. CASE r = [attempts |-> final.attempts, send |-> final.send, final |-> result]
      BY <1>1, <1>3, <2>2, <2>3, <2>6, <3>3
    <3> QED BY <2>1, <3>1, <3>2, <3>3
  <2> QED BY <2>7 DEF RowInv, RowFaithful
<1>6. ASSUME ~WriteFinalization, NEW account \in Accounts, ExecuteStreams(account)
      PROVE  RowInv'
  <2>1. /\ attempts' = attempts + 1 /\ finalization = "none"
        /\ UNCHANGED <<watermark, finalVars>> /\ Len(log') = Len(log) + 1
    BY <1>6, ExecuteStreamsLog, Zenon
  <2>2. row' \subseteq row \cup {[r EXCEPT !.attempts = attempts + 1] : r \in row}
                \cup {[attempts |-> attempts + 1, send |-> "NotSent", final |-> {}]}
    BY <1>6 DEF ExecuteStreams, StoreRow
  <2>3. AtLeast(watermark, "NotSent")
    BY <1>1 DEF AtLeast, EscalateSendState, SendStates
  <2>4. \A r \in row : r.attempts # 0 /\ r.final = {} /\ AtLeast(watermark, r.send)
    BY <1>4, <2>1 DEF Finalized
  <2>5. ASSUME NEW r \in row'
        PROVE  /\ r.attempts # 0 /\ r.attempts <= attempts'
               /\ AtLeast(watermark', r.send) /\ r.final = {}
    <3>1. CASE r \in row BY <1>1, <1>4, <2>1, <2>4, <3>1
    <3>2. CASE \E s \in row : r = [s EXCEPT !.attempts = attempts + 1]
      <4>1. PICK s \in row : r = [s EXCEPT !.attempts = attempts + 1] BY <3>2
      <4>2. s \in Rows BY <1>1
      <4>3. r.attempts = attempts + 1 /\ r.send = s.send /\ r.final = s.final
        BY <4>1, <4>2
      <4> QED BY <1>1, <2>1, <2>4, <4>3
    <3>3. CASE r = [attempts |-> attempts + 1, send |-> "NotSent", final |-> {}]
      BY <1>1, <2>1, <2>3, <3>3
    <3> QED BY <2>2, <3>1, <3>2, <3>3
  <2> QED BY <2>5 DEF RowInv, RowFaithful
<1>7. CASE ~WriteFinalization /\ \A account \in Accounts : ~ExecuteStreams(account)
  <2>1. \/ row' = row
        \/ \E send \in SendStates :
             /\ row' = {[r EXCEPT !.send = EscalateSendState(@, send)] : r \in row}
             /\ AtLeast(watermark', send)
    BY <1>7, RowStep
  <2>2. attempts' = attempts /\ Len(log') = Len(log)
    <3>1. CASE ~LogStep BY <3>1, QuietStep
    <3>2. ASSUME NEW forClient \in BOOLEAN, NEW carriesState \in BOOLEAN,
                 NEW observed \in Observations \cup {cost},
                 StreamEvent(forClient, observed, carriesState)
          PROVE  attempts' = attempts /\ Len(log') = Len(log)
      BY <3>2, StreamEventLog DEF countVars
    <3>3. ASSUME NEW e \in StreamErrors, StreamFails(e)
          PROVE  attempts' = attempts /\ Len(log') = Len(log)
      BY <3>3, StreamFailsLog, Zenon DEF countVars
    <3> QED BY <1>7, <3>1, <3>2, <3>3 DEF LogStep
  <2>3. log' = <<>> <=> log = <<>>
    <3>1. log' \in Seq(LogEntry)
      <4>1. IInv' BY NextInv
      <4> QED BY <4>1 DEF IInv, TypeOK
    <3> QED BY <1>1, <2>2, <3>1
  <2>4. CASE finalization # "none"
    <3>1. /\ row' = row /\ UNCHANGED <<result, watermark>>
          /\ finalization = "complete" => finalization' = "complete"
      BY <1>7, <2>4, FrozenStep
    <3> QED BY <1>4, <2>2, <2>3, <3>1 DEF RowInv, RowFaithful, Finalized
  <2>5. CASE finalization = "none"
    <3>1. \A r \in row : r.attempts # 0 /\ r.final = {} /\ AtLeast(watermark, r.send)
      BY <1>4, <2>5 DEF Finalized
    <3>2. AtLeast(watermark', watermark)
      <4>1. CASE ~LogStep BY <2>5, <4>1, ResultStep
      <4>2. ASSUME NEW forClient \in BOOLEAN, NEW carriesState \in BOOLEAN,
                   NEW observed \in Observations \cup {cost},
                   StreamEvent(forClient, observed, carriesState)
            PROVE  AtLeast(watermark', watermark)
        <5>1. watermark' = "Sent" BY <4>2, StreamEventLog
        <5> QED BY <1>1, <5>1, SendOrder
      <4>3. ASSUME NEW e \in StreamErrors, StreamFails(e)
            PROVE  AtLeast(watermark', watermark)
        <5>1. /\ watermark' = EscalateSendState(watermark, AttemptSend(e))
              /\ AttemptSend(e) \in SendStates
          BY <4>3, StreamFailsLog, Zenon
        <5> QED BY <1>1, <5>1, SendOrder
      <4> QED BY <1>7, <4>1, <4>2, <4>3 DEF LogStep
    <3>3. \A r \in row : AtLeast(watermark', r.send)
      <4>1. \A r \in row : r.send \in SendStates BY <1>1
      <4> QED BY <1>1, <1>2, <3>1, <3>2, <4>1, SendOrder
    <3>4. ASSUME NEW r \in row'
          PROVE  /\ r.attempts # 0 /\ r.attempts <= attempts
                 /\ AtLeast(watermark', r.send) /\ r.final = {}
      <4>1. CASE r \in row BY <1>4, <3>1, <3>3, <4>1
      <4>2. ASSUME NEW send \in SendStates, NEW s \in row, AtLeast(watermark', send),
                   r = [s EXCEPT !.send = EscalateSendState(@, send)]
            PROVE  /\ r.attempts # 0 /\ r.attempts <= attempts
                   /\ AtLeast(watermark', r.send) /\ r.final = {}
        <5>1. s \in Rows BY <1>1
        <5>2. /\ r.attempts = s.attempts /\ r.final = s.final
              /\ r.send = EscalateSendState(s.send, send)
          BY <4>2, <5>1
        <5>3. AtLeast(watermark', s.send) BY <3>3
        <5>4. AtLeast(watermark', EscalateSendState(s.send, send))
          BY <1>2, <4>2, <5>1, <5>3 DEF AtLeast, EscalateSendState, SendStates
        <5> QED BY <1>4, <3>1, <5>2, <5>4
      <4> QED BY <2>1, <4>1, <4>2
    <3> QED BY <2>2, <3>4 DEF RowInv, RowFaithful
  <2> QED BY <2>4, <2>5
<1> QED BY <1>5, <1>6, <1>7

-------------------------------------------------------------------------------
(* Retries of one account are counted. *)

\* The attempts of account a that ended in exit.
Ended(entries, a, exit) ==
    {i \in 1 .. Len(entries) : entries[i].account = a /\ entries[i].exit = exit}

\* A recovered account is remembered, and its transient rejections are counted.
RetriesCounted ==
    \A a \in Accounts :
        /\ Ended(log, a, "SameAccount") # {} => a \in recovered
        /\ Cardinality(Ended(log, a, "SameAccount")) <= 1
        /\ Cardinality(Ended(log, a, "transient")) = transientCounts[a]

\* The sets that are counted are finite.
LEMMA EndedFinite ==
    ASSUME IInv, NEW a, NEW exit
    PROVE  IsFiniteSet(Ended(log, a, exit))
<1>1. Len(log) \in Nat BY DEF IInv, TypeOK
<1>2. IsFiniteSet(1 .. Len(log)) BY <1>1, FS_Interval
<1> QED BY <1>2, FS_Subset DEF Ended

\* Only the failure of a stream counts a retry.
LEMMA RetryCountStep ==
    ASSUME IInv, [Next]_vars, \A e \in StreamErrors : ~StreamFails(e)
    PROVE  UNCHANGED <<recovered, transientCounts>>
<1>1. CASE CallStep
  BY <1>1 DEF CallStep, Start, NextEvent, CollectUncommitted, CommitDownstream, retryVars
<1>2. CASE PrepareStep
  BY <1>2 DEF PrepareStep, BeginAttempt, ExecuteInterrupted, ExecuteFails,
              ExecuteMismatches, ExecuteStreams, retryVars
<1>3. CASE StreamStep
  BY <1>3 DEF StreamStep, PollInterrupted, StreamEvent, StreamEnds, retryVars
<1>4. CASE WriteFinalization \/ Cancel \/ DeadlineElapses \/ Abandon \/ DetachFinalize
  BY <1>4 DEF WriteFinalization, Cancel, DeadlineElapses, Abandon, DetachFinalize, retryVars
<1>5. CASE UNCHANGED vars BY <1>5 DEF vars, retryVars
<1> QED BY <1>1, <1>2, <1>3, <1>4, <1>5 DEF Next

\* What the failure of a stream counts.
LEMMA StreamFailsCounts ==
    ASSUME IInv, NEW e \in StreamErrors, StreamFails(e)
    PROVE  \/ /\ Retryable(e) /\ SameAccountRetry(e) /\ RetryKind(e) = "SameAccount"
              /\ recovered' = recovered \cup {current.account}
              /\ transientCounts' = transientCounts
              /\ current.account \notin recovered
           \/ /\ Retryable(e) /\ TransientRetry(e) /\ RetryKind(e) = "transient"
              /\ recovered' = recovered
              /\ transientCounts' = [transientCounts EXCEPT ![current.account] = @ + 1]
           \/ /\ Retryable(e) => RetryKind(e) \notin {"SameAccount", "transient"}
              /\ UNCHANGED <<recovered, transientCounts>>
<1>1. CASE ~Retryable(e)
  BY <1>1 DEF StreamFails, FailAttempt
<1>2. CASE Retryable(e)
  <2>1. /\ recovered' = IF RetryKind(e) = "SameAccount"
                        THEN recovered \cup {current.account} ELSE recovered
        /\ transientCounts' = IF TransientRetry(e)
                              THEN [transientCounts EXCEPT ![current.account] = @ + 1]
                              ELSE transientCounts
    BY <1>2 DEF StreamFails, DiscardAttempt
  <2>2. CASE SameAccountRetry(e)
    <3>1. RetryKind(e) = "SameAccount" BY <2>2 DEF RetryKind
    <3>2. ~TransientRetry(e) /\ current.account \notin recovered
      BY <2>2 DEF SameAccountRetry, TransientRetry
    <3> QED BY <1>2, <2>1, <2>2, <3>1, <3>2
  <2>3. CASE ~SameAccountRetry(e) /\ TransientRetry(e)
    <3>1. RetryKind(e) = "transient" BY <2>3 DEF RetryKind
    <3> QED BY <1>2, <2>1, <2>3, <3>1
  <2>4. CASE ~SameAccountRetry(e) /\ ~TransientRetry(e)
    <3>1. RetryKind(e) \notin {"SameAccount", "transient"}
      BY <2>4 DEF RetryKind, TransportRecovery
    <3> QED BY <2>1, <2>4, <3>1
  <2> QED BY <2>2, <2>3, <2>4
<1> QED BY <1>1, <1>2

\* The counters keep counting the history.
LEMMA RetriesInv == IInv /\ History /\ RetriesCounted /\ [Next]_vars => RetriesCounted'
<1> SUFFICES ASSUME IInv, History, RetriesCounted, [Next]_vars PROVE RetriesCounted'
  OBVIOUS
<1>1. Len(log) \in Nat /\ transientCounts \in [Accounts -> 0 .. MaxTransient]
  BY DEF IInv, TypeOK
<1>2. ASSUME \A a \in Accounts, exit \in {"SameAccount", "transient"} :
               Ended(log', a, exit) = Ended(log, a, exit),
             UNCHANGED <<recovered, transientCounts>>
      PROVE  RetriesCounted'
  BY <1>2 DEF RetriesCounted
<1>3. CASE ~LogStep
  <2>1. log' = log BY <1>3, QuietStep
  <2>2. \A e \in StreamErrors : ~StreamFails(e) BY <1>3 DEF LogStep
  <2> QED BY <1>2, <2>1, <2>2, RetryCountStep
<1>4. ASSUME NEW account \in Accounts, ExecuteStreams(account)
      PROVE  RetriesCounted'
  <2>1. /\ Len(log') = Len(log) + 1 /\ log'[Len(log')].exit = "live"
        /\ \A i \in 1 .. Len(log) : log'[i] = log[i]
        /\ UNCHANGED retryVars
    BY <1>4, ExecuteStreamsLog
  <2>2. \A i : i \in 1 .. Len(log') <=> i \in 1 .. Len(log) \/ i = Len(log')
    BY <1>1, <2>1
  <2>3. \A a \in Accounts, exit \in {"SameAccount", "transient"} :
          Ended(log', a, exit) = Ended(log, a, exit)
    BY <2>1, <2>2 DEF Ended
  <2> QED BY <1>2, <2>1, <2>3 DEF retryVars
<1>5. ASSUME NEW forClient \in BOOLEAN, NEW carriesState \in BOOLEAN,
             NEW observed \in Observations \cup {cost},
             StreamEvent(forClient, observed, carriesState)
      PROVE  RetriesCounted'
  <2>1. /\ Len(log') = Len(log) /\ attempts \in 1 .. Len(log)
        /\ log'[attempts].exit = "live" /\ log[attempts].exit = "live"
        /\ \A i \in 1 .. Len(log) : i # attempts => log'[i] = log[i]
        /\ UNCHANGED retryVars
    BY <1>5, StreamEventLog
  <2>2. \A a \in Accounts, exit \in {"SameAccount", "transient"} :
          Ended(log', a, exit) = Ended(log, a, exit)
    BY <2>1 DEF Ended
  <2> QED BY <1>2, <2>1, <2>2 DEF retryVars
<1>6. ASSUME NEW e \in StreamErrors, StreamFails(e)
      PROVE  RetriesCounted'
  <2>1. log'[attempts].exit = "failed" \/ (Retryable(e) /\ log'[attempts].exit = RetryKind(e))
    BY <1>6, StreamFailsLog, Zenon
  <2>2. Retryable(e) => log'[attempts].exit = RetryKind(e)
    BY <1>6, StreamFailsLog, Zenon
  <2>3. /\ Len(log') = Len(log) /\ attempts \in 1 .. Len(log)
        /\ log[attempts].exit = "live"
        /\ log[attempts].account = current.account
        /\ log'[attempts].account = log[attempts].account
        /\ \A i \in 1 .. Len(log) : i # attempts => log'[i] = log[i]
        /\ current # NoAttempt
    BY <1>6, StreamFailsLog, Zenon
  <2>4. current.account \in Accounts BY <2>3 DEF IInv, Ownership
  <2>5. \A a \in Accounts, exit \in {"SameAccount", "transient"} :
          Ended(log', a, exit) = IF a = current.account /\ log'[attempts].exit = exit
                                 THEN Ended(log, a, exit) \cup {attempts}
                                 ELSE Ended(log, a, exit)
    BY <2>3 DEF Ended
  <2>6. \A a \in Accounts, exit \in {"SameAccount", "transient"} :
          attempts \notin Ended(log, a, exit)
    BY <2>3 DEF Ended
  <2>7. \A a \in Accounts, exit \in {"SameAccount", "transient"} :
          Cardinality(Ended(log, a, exit) \cup {attempts})
            = Cardinality(Ended(log, a, exit)) + 1
    BY <2>6, EndedFinite, FS_AddElement
  <2>8. CASE /\ RetryKind(e) = "SameAccount" /\ Retryable(e)
             /\ recovered' = recovered \cup {current.account}
             /\ transientCounts' = transientCounts
             /\ current.account \notin recovered
    <3>1. log'[attempts].exit = "SameAccount" BY <2>2, <2>8
    <3>2. Ended(log, current.account, "SameAccount") = {}
      BY <2>4, <2>8 DEF RetriesCounted
    <3>3. Cardinality(Ended(log, current.account, "SameAccount") \cup {attempts}) = 1
      BY <3>2, FS_Singleton
    <3>4. ASSUME NEW a \in Accounts
          PROVE  /\ Ended(log', a, "SameAccount") # {} => a \in recovered'
                 /\ Cardinality(Ended(log', a, "SameAccount")) <= 1
                 /\ Cardinality(Ended(log', a, "transient")) = transientCounts'[a]
      <4>1. Ended(log', a, "transient") = Ended(log, a, "transient")
        BY <2>5, <3>1
      <4>2. CASE a = current.account
        <5>1. Ended(log', a, "SameAccount")
                = Ended(log, current.account, "SameAccount") \cup {attempts}
          BY <2>5, <3>1, <4>2
        <5> QED BY <2>8, <3>3, <4>1, <4>2, <5>1 DEF RetriesCounted
      <4>3. CASE a # current.account
        <5>1. Ended(log', a, "SameAccount") = Ended(log, a, "SameAccount")
          BY <2>5, <4>3
        <5> QED BY <2>8, <4>1, <5>1 DEF RetriesCounted
      <4> QED BY <4>2, <4>3
    <3> QED BY <3>4 DEF RetriesCounted
  <2>9. CASE /\ RetryKind(e) = "transient" /\ Retryable(e)
             /\ recovered' = recovered
             /\ transientCounts' = [transientCounts EXCEPT ![current.account] = @ + 1]
    <3>1. log'[attempts].exit = "transient" BY <2>2, <2>9
    <3>2. ASSUME NEW a \in Accounts
          PROVE  /\ Ended(log', a, "SameAccount") # {} => a \in recovered'
                 /\ Cardinality(Ended(log', a, "SameAccount")) <= 1
                 /\ Cardinality(Ended(log', a, "transient")) = transientCounts'[a]
      <4>1. Ended(log', a, "SameAccount") = Ended(log, a, "SameAccount")
        BY <2>5, <3>1
      <4>2. CASE a = current.account
        <5>1. Ended(log', a, "transient") = Ended(log, a, "transient") \cup {attempts}
          BY <2>5, <3>1, <4>2
        <5>2. transientCounts'[a] = transientCounts[a] + 1 BY <1>1, <2>9, <4>2
        <5> QED BY <2>7, <2>9, <4>1, <5>1, <5>2 DEF RetriesCounted
      <4>3. CASE a # current.account
        <5>1. Ended(log', a, "transient") = Ended(log, a, "transient")
          BY <2>5, <4>3
        <5>2. transientCounts'[a] = transientCounts[a] BY <1>1, <2>9, <4>3
        <5> QED BY <2>9, <4>1, <5>1, <5>2 DEF RetriesCounted
      <4> QED BY <4>2, <4>3
    <3> QED BY <3>2 DEF RetriesCounted
  <2>10. CASE /\ Retryable(e) => RetryKind(e) \notin {"SameAccount", "transient"}
             /\ UNCHANGED <<recovered, transientCounts>>
    <3>1. log'[attempts].exit \notin {"SameAccount", "transient"} BY <2>1, <2>2, <2>10
    <3>2. \A a \in Accounts, exit \in {"SameAccount", "transient"} :
            Ended(log', a, exit) = Ended(log, a, exit)
      BY <2>5, <3>1
    <3> QED BY <1>2, <2>10, <3>2
  <2> QED BY <1>6, <2>8, <2>9, <2>10, StreamFailsCounts
<1> QED BY <1>3, <1>4, <1>5, <1>6 DEF LogStep

-------------------------------------------------------------------------------
(* The charge of the key is what its attempts cost.                        *)

\* Induction up to n, from the well-foundedness of finite sets, which the library
\* proves: if a set has 0 and with every number before n the next one, it has n.
LEMMA UpToInduction ==
    ASSUME NEW n \in Nat, NEW Good, 0 \in Good,
           \A i \in 0 .. n : i # 0 /\ i - 1 \in Good => i \in Good
    PROVE  \A i \in 0 .. n : i \in Good
<1> SUFFICES ASSUME NEW b \in 0 .. n, b \notin Good PROVE FALSE
  OBVIOUS
<1> DEFINE Bad == {i \in 0 .. n : i \notin Good}
           Intervals == {0 .. i : i \in Bad}
<1>1. Intervals # {} OBVIOUS
<1>2. Intervals \subseteq FiniteSubsetsOf(Nat)
  <2>1. ASSUME NEW i \in Bad PROVE 0 .. i \in SUBSET Nat /\ IsFiniteSet(0 .. i)
    BY FS_Interval
  <2> QED BY <2>1 DEF FiniteSubsetsOf
<1>3. PICK I \in Intervals : \A J \in Intervals : ~ (<<J, I>> \in StrictSubsetOrdering(Nat))
  <2> HIDE DEF Intervals
  <2> QED BY <1>1, <1>2, FS_StrictSubsetOrderingWellFounded, WFMin
<1>4. PICK i \in Bad : I = 0 .. i OBVIOUS
<1>5. i # 0 OBVIOUS
<1>6. i - 1 \in Bad BY <1>4, <1>5
<1>7. 0 .. (i - 1) \in Intervals BY <1>6
<1>8. <<0 .. (i - 1), 0 .. i>> \in StrictSubsetOrdering(Nat)
  <2>1. i \in 0 .. i /\ i \notin 0 .. (i - 1) BY <1>4
  <2>2. 0 .. (i - 1) \subseteq 0 .. i /\ 0 .. i \subseteq Nat BY <1>4
  <2> QED BY <2>1, <2>2 DEF StrictSubsetOrdering
<1> QED BY <1>3, <1>4, <1>7, <1>8

\* What the attempts of a history cost, as BudgetChargeExact adds it up.
SpentUpTo(l) ==
    CHOOSE f : f = [i \in 0 .. Len(l) |-> IF i = 0 THEN 0 ELSE f[i - 1] + l[i].usd]

Spent(l) == SpentUpTo(l)[Len(l)]

LEMMA ChargeIs == BudgetChargeExact <=> BudgetCharge = Spent(log)
BY DEF BudgetChargeExact, Spent, SpentUpTo

\* There is such a sum.
LEMMA SpentUpToIs ==
    ASSUME NEW l \in Seq(LogEntry)
    PROVE  /\ SpentUpTo(l) \in [0 .. Len(l) -> Nat]
           /\ SpentUpTo(l)[0] = 0
           /\ \A i \in 1 .. Len(l) : SpentUpTo(l)[i] = SpentUpTo(l)[i - 1] + l[i].usd
<1> DEFINE n == Len(l)
           Sums(k) == {s \in [0 .. k -> Nat] :
                         s[0] = 0 /\ \A i \in 1 .. k : s[i] = s[i - 1] + l[i].usd}
           Good == {k \in 0 .. n : Sums(k) # {}}
           F(f) == [i \in 0 .. n |-> IF i = 0 THEN 0 ELSE f[i - 1] + l[i].usd]
<1>1. n \in Nat OBVIOUS
<1>2. \A i \in 1 .. n : l[i].usd \in Nat
  <2>1. \A i \in 1 .. n : l[i] \in LogEntry OBVIOUS
  <2> QED BY <2>1 DEF LogEntry
<1>3. 0 \in Good
  <2>1. [i \in 0 .. 0 |-> 0] \in Sums(0) OBVIOUS
  <2> QED BY <1>1, <2>1
<1>4. ASSUME NEW k \in 0 .. n, k # 0, k - 1 \in Good PROVE k \in Good
  <2>1. PICK s \in Sums(k - 1) : TRUE BY <1>4
  <2> DEFINE t == [i \in 0 .. k |-> IF i = k THEN s[k - 1] + l[k].usd ELSE s[i]]
  <2>2. k - 1 \in 0 .. (k - 1) /\ l[k].usd \in Nat /\ s \in [0 .. (k - 1) -> Nat]
    BY <1>2, <1>4, <2>1
  <2>3. t \in [0 .. k -> Nat] BY <2>2, <1>4
  <2>4. t[0] = 0 BY <2>1, <1>4
  <2>5. ASSUME NEW i \in 1 .. k PROVE t[i] = t[i - 1] + l[i].usd
    <3>1. CASE i = k BY <3>1, <1>4
    <3>2. CASE i # k
      <4>1. i \in 1 .. (k - 1) BY <3>2
      <4>2. s[i] = s[i - 1] + l[i].usd BY <2>1, <4>1
      <4> QED BY <3>2, <4>1, <4>2
    <3> QED BY <3>1, <3>2
  <2> HIDE DEF t
  <2>6. t \in Sums(k) BY <2>3, <2>4, <2>5
  <2> QED BY <2>6
<1>5. PICK s : s \in Sums(n)
  <2>1. \A i \in 0 .. n : i \in Good
    <3> HIDE DEF Good, n
    <3> QED BY <1>1, <1>3, <1>4, UpToInduction
  <2>2. n \in Good
    <3> HIDE DEF Good, n
    <3> QED BY <1>1, <2>1
  <2>3. Sums(n) # {}
    <3> HIDE DEF Sums, n
    <3> QED BY <2>2
  <2> HIDE DEF Sums
  <2> QED BY <2>3
<1>6. s = F(s) BY <1>1, <1>5
<1>7. SpentUpTo(l) = F(SpentUpTo(l))
  <2>1. SpentUpTo(l) = CHOOSE f : f = F(f) BY DEF SpentUpTo
  <2> HIDE DEF F
  <2> QED BY <1>6, <2>1
<1> DEFINE g == SpentUpTo(l)
           Same == {i \in 0 .. n : g[i] = s[i]}
<1> HIDE DEF n
<1>8. g[0] = 0 /\ \A i \in 1 .. n : g[i] = g[i - 1] + l[i].usd
  <2> HIDE DEF g
  <2> QED BY <1>1, <1>7 DEF g
<1>9. \A i \in 0 .. n : i \in Same
  <2>1. 0 \in Same BY <1>1, <1>5, <1>8
  <2>2. ASSUME NEW i \in 0 .. n, i # 0, i - 1 \in Same PROVE i \in Same
    <3> HIDE DEF g
    <3> QED BY <1>1, <1>5, <1>8, <2>2
  <2> HIDE DEF Same
  <2> QED BY <1>1, <2>1, <2>2, UpToInduction
<1>10. g \in [0 .. n -> Nat]
  <2>1. g = [i \in 0 .. n |-> g[i]]
    <3> HIDE DEF g
    <3> QED BY <1>7 DEF g
  <2>2. \A i \in 0 .. n : g[i] \in Nat BY <1>5, <1>9
  <2> HIDE DEF g
  <2> QED BY <2>1, <2>2
<1> QED BY <1>8, <1>10 DEF n

\* It depends only on the attempts added up.
LEMMA SpentPrefix ==
    ASSUME NEW l \in Seq(LogEntry), NEW m \in Seq(LogEntry), NEW n \in Nat,
           n <= Len(l), n <= Len(m), \A i \in 1 .. n : l[i].usd = m[i].usd
    PROVE  SpentUpTo(l)[n] = SpentUpTo(m)[n]
<1> DEFINE Same == {i \in 0 .. n : SpentUpTo(l)[i] = SpentUpTo(m)[i]}
<1>1. 0 \in Same BY SpentUpToIs
<1>2. ASSUME NEW i \in 0 .. n, i # 0, i - 1 \in Same PROVE i \in Same
  <2>1. i \in 1 .. Len(l) /\ i \in 1 .. Len(m) /\ i \in 1 .. n BY <1>2
  <2>2. /\ SpentUpTo(l)[i] = SpentUpTo(l)[i - 1] + l[i].usd
        /\ SpentUpTo(m)[i] = SpentUpTo(m)[i - 1] + m[i].usd
    BY <2>1, SpentUpToIs
  <2> QED BY <1>2, <2>1, <2>2
<1>3. \A i \in 0 .. n : i \in Same
  <2> HIDE DEF Same
  <2> QED BY <1>1, <1>2, UpToInduction
<1> QED BY <1>3

\* The sum of a history is a number, an attempt more adds its cost, and a change
\* of the last one is a change of the sum.
LEMMA SpentType ==
    ASSUME NEW l \in Seq(LogEntry)
    PROVE  Spent(l) \in Nat
<1>1. Len(l) \in Nat OBVIOUS
<1>2. Len(l) \in 0 .. Len(l) BY <1>1
<1> QED BY <1>2, SpentUpToIs DEF Spent

LEMMA SpentGrows ==
    ASSUME NEW l \in Seq(LogEntry), NEW m \in Seq(LogEntry), Len(m) = Len(l) + 1,
           \A i \in 1 .. Len(l) : m[i] = l[i]
    PROVE  Spent(m) = Spent(l) + m[Len(m)].usd
<1>1. /\ Len(l) \in Nat /\ Len(l) <= Len(l) /\ Len(l) <= Len(m)
      /\ Len(m) - 1 = Len(l) /\ Len(m) \in 1 .. Len(m)
  OBVIOUS
<1>2. \A i \in 1 .. Len(l) : l[i].usd = m[i].usd OBVIOUS
<1>3. SpentUpTo(l)[Len(l)] = SpentUpTo(m)[Len(l)] BY <1>1, <1>2, SpentPrefix
<1>4. SpentUpTo(m)[Len(m)] = SpentUpTo(m)[Len(m) - 1] + m[Len(m)].usd
  BY <1>1, SpentUpToIs
<1> QED BY <1>1, <1>3, <1>4 DEF Spent

LEMMA SpentChanges ==
    ASSUME NEW l \in Seq(LogEntry), NEW m \in Seq(LogEntry), NEW n \in Nat, n # 0,
           Len(l) = n, Len(m) = n, \A i \in 1 .. n : i # n => m[i] = l[i]
    PROVE  \E x \in Nat : Spent(l) = x + l[n].usd /\ Spent(m) = x + m[n].usd
<1>1. n - 1 \in Nat /\ n - 1 <= n /\ n - 1 \in 0 .. n /\ n \in 1 .. n OBVIOUS
<1>2. \A i \in 1 .. n - 1 : l[i].usd = m[i].usd
  <2>1. \A i \in 1 .. n - 1 : i \in 1 .. n /\ i # n BY <1>1
  <2> QED BY <2>1
<1>3. SpentUpTo(l)[n - 1] = SpentUpTo(m)[n - 1] BY <1>1, <1>2, SpentPrefix
<1>4. SpentUpTo(l)[n - 1] \in Nat BY <1>1, SpentUpToIs
<1>5. SpentUpTo(l)[n] = SpentUpTo(l)[n - 1] + l[n].usd BY <1>1, SpentUpToIs
<1>6. SpentUpTo(m)[n] = SpentUpTo(m)[n - 1] + m[n].usd BY <1>1, SpentUpToIs
<1> QED BY <1>3, <1>4, <1>5, <1>6 DEF Spent

\* Entry i of a history costs usd.
Costing(m, i, usd) == m[i].usd = usd

\* What an update of an entry makes of its cost.
LEMMA EntryUsd ==
    ASSUME NEW l \in Seq(LogEntry), NEW i \in 1 .. Len(l), NEW send, NEW usd, NEW safe, NEW exit
    PROVE  /\ Costing([[l EXCEPT ![i].send = send] EXCEPT ![i].usd = usd], i, usd)
           /\ Costing([[l EXCEPT ![i].send = send] EXCEPT ![i].exit = exit, ![i].usd = usd],
                      i, usd)
           /\ Costing([[l EXCEPT ![i].send = send] EXCEPT
                         ![i].exit = exit, ![i].safe = safe, ![i].usd = usd], i, usd)
<1>1. l[i] \in LogEntry /\ DOMAIN l = 1 .. Len(l) OBVIOUS
<1> QED BY <1>1 DEF LogEntry, Costing

\* The charge so far is what the attempts cost. The cost of the attempt in hand
\* is that of its entry; between attempts none is pending, unless it is that of a
\* failure handed out again, which its attempt has paid for.
ChargeInv ==
    /\ BudgetCharge = Spent(log)
    /\ counted => current = NoAttempt /\ (terminalFailure # {} \/ finalization # "none")
    /\ current # NoAttempt => attempts # 0 /\ cost.usd = log[attempts].usd
    /\ current = NoAttempt /\ ~counted => cost.usd = 0

\* A new attempt has cost nothing yet.
LEMMA ExecuteStreamsCharge ==
    ASSUME IInv, History, ChargeInv, NEW account \in Accounts, ExecuteStreams(account), IInv'
    PROVE  ChargeInv'
<1>1. /\ log \in Seq(LogEntry) /\ log' \in Seq(LogEntry) /\ priorUsd \in Nat
      /\ cost.usd \in Nat /\ attempts \in Nat
  BY DEF IInv, TypeOK
<1>2. /\ current = NoAttempt /\ terminalFailure = {} /\ finalization = "none"
      /\ Len(log') = Len(log) + 1 /\ \A i \in 1 .. Len(log) : log'[i] = log[i]
      /\ attempts' = attempts + 1 /\ Len(log) = attempts
      /\ UNCHANGED <<terminalFailure, finalization>>
  BY ExecuteStreamsLog DEF History, deliveryVars, finalVars
<1>3. log'[Len(log')].usd = 0
  <2> DEFINE entry == [account |-> account, continuation |-> continuationAttempt,
                       candidate |-> candidate, recovery |-> prepared.recovery,
                       send |-> "NotSent", safe |-> FALSE, usd |-> 0, exit |-> "live"]
  <2>1. log' = Append(log, entry) BY DEF ExecuteStreams
  <2>2. entry.usd = 0 OBVIOUS
  <2> HIDE DEF entry
  <2> QED BY <1>1, <2>1, <2>2
<1>4. UNCHANGED <<priorUsd, counted, cost>> BY DEF ExecuteStreams, budgetVars
<1>5. ~counted BY <1>2 DEF ChargeInv
<1>6. cost.usd = 0 BY <1>2, <1>5 DEF ChargeInv
<1>7. Spent(log') = Spent(log) + 0 BY <1>1, <1>2, <1>3, SpentGrows
<1>8. Spent(log) \in Nat BY <1>1, SpentType
<1>9. BudgetCharge' = Spent(log')
  BY <1>1, <1>4, <1>5, <1>7, <1>8 DEF ChargeInv, BudgetCharge
<1>10. attempts' # 0 /\ cost'.usd = log'[attempts'].usd
  BY <1>1, <1>2, <1>3, <1>4, <1>6
<1>11. current' # NoAttempt
  BY ExecuteStreamsLog, ConstantsAssumption DEF NoAttempt
<1> QED BY <1>4, <1>5, <1>9, <1>10, <1>11 DEF ChargeInv

\* What a stream reports replaces the cost of the attempt in hand.
LEMMA StreamEventCharge ==
    ASSUME IInv, History, ChargeInv, NEW forClient \in BOOLEAN, NEW carriesState \in BOOLEAN,
           NEW observed \in Observations \cup {cost},
           StreamEvent(forClient, observed, carriesState), IInv'
    PROVE  ChargeInv'
<1>1. /\ log \in Seq(LogEntry) /\ log' \in Seq(LogEntry) /\ priorUsd \in Nat
      /\ cost.usd \in Nat /\ cost'.usd \in Nat /\ attempts \in Nat
  BY DEF IInv, TypeOK
<1>2. /\ attempts \in 1 .. Len(log) /\ Len(log') = Len(log)
      /\ \A i \in 1 .. Len(log) : i # attempts => log'[i] = log[i]
      /\ current' # NoAttempt
  BY StreamEventLog
<1>3. pc = "poll" /\ cost' = observed /\ UNCHANGED <<priorUsd, counted, attempts>>
      /\ log' = [LogSend("Sent") EXCEPT ![attempts].usd = observed.usd]
  BY DEF StreamEvent, countVars
<1>4. current # NoAttempt /\ Len(log) = attempts
  BY <1>3 DEF IInv, Ownership, History
<1>5. log'[attempts].usd = cost'.usd
  <2>1. LogSend("Sent") = [log EXCEPT ![attempts].send = "Sent"]
    BY <1>3, LogSendEntry DEF SendStates
  <2>2. log' = [[log EXCEPT ![attempts].send = "Sent"] EXCEPT
                  ![attempts].usd = observed.usd]
    BY <1>3, <2>1
  <2> QED BY <1>1, <1>2, <1>3, <2>2, EntryUsd DEF Costing
<1>6. ~counted /\ cost.usd = log[attempts].usd BY <1>4 DEF ChargeInv
<1>7. PICK x \in Nat : /\ Spent(log) = x + log[attempts].usd
                       /\ Spent(log') = x + log'[attempts].usd
  <2>1. /\ Len(log) = attempts /\ Len(log') = attempts /\ attempts # 0
        /\ \A i \in 1 .. attempts : i # attempts => log'[i] = log[i]
    BY <1>2, <1>4
  <2> QED BY <1>1, <2>1, SpentChanges
<1>8. BudgetCharge' = Spent(log')
  <2>1. priorUsd + cost.usd = x + cost.usd
    BY <1>6, <1>7 DEF ChargeInv, BudgetCharge
  <2>2. priorUsd = x BY <1>1, <1>7, <2>1
  <2>3. BudgetCharge' = priorUsd + cost'.usd BY <1>3, <1>6 DEF BudgetCharge
  <2> QED BY <1>5, <1>7, <2>2, <2>3
<1>9. attempts' # 0 BY <1>2, <1>3
<1>10. current' # NoAttempt /\ ~counted' BY <1>2, <1>3, <1>6
<1> QED BY <1>5, <1>8, <1>9, <1>10, <1>3 DEF ChargeInv

\* A hidden attempt leaves its cost to the request, a failed one keeps it.
LEMMA StreamFailsCharge ==
    ASSUME IInv, History, ChargeInv, NEW e \in StreamErrors, StreamFails(e), IInv'
    PROVE  ChargeInv'
<1>1. /\ log \in Seq(LogEntry) /\ log' \in Seq(LogEntry) /\ priorUsd \in Nat
      /\ cost.usd \in Nat /\ cost'.usd \in Nat /\ attempts \in Nat
  BY DEF IInv, TypeOK
<1>2. /\ attempts \in 1 .. Len(log) /\ Len(log') = Len(log)
      /\ \A i \in 1 .. Len(log) : i # attempts => log'[i] = log[i]
      /\ current # NoAttempt /\ UNCHANGED attempts
      /\ AttemptSend(e) \in SendStates
  BY StreamFailsLog, Zenon DEF countVars
<1>3. pc = "poll" /\ IF Retryable(e) THEN DiscardAttempt(e) ELSE FailAttempt(e)
  BY DEF StreamFails
<1>4. Len(log) = attempts BY DEF History
<1>5. ~counted /\ cost.usd = log[attempts].usd BY <1>2 DEF ChargeInv
<1>6. PICK x \in Nat : /\ Spent(log) = x + log[attempts].usd
                       /\ Spent(log') = x + log'[attempts].usd
  <2>1. /\ Len(log) = attempts /\ Len(log') = attempts /\ attempts # 0
        /\ \A i \in 1 .. attempts : i # attempts => log'[i] = log[i]
    BY <1>2, <1>4
  <2> QED BY <1>1, <2>1, SpentChanges
<1>7. x = priorUsd
  <2>1. BudgetCharge = priorUsd + cost.usd BY <1>5 DEF BudgetCharge
  <2>2. BudgetCharge = Spent(log) BY DEF ChargeInv
  <2>3. priorUsd + cost.usd = x + cost.usd BY <1>5, <1>6, <2>1, <2>2
  <2> QED BY <1>1, <2>3
<1>8. LogSend(AttemptSend(e)) = [log EXCEPT ![attempts].send = AttemptSend(e)]
  <2>1. (IF current.sent THEN "Sent" ELSE AttemptSend(e)) = AttemptSend(e)
    BY DEF AttemptSend
  <2> QED BY <1>2, <1>3, <2>1, LogSendEntry
<1> DEFINE observed == IF e.atomic THEN ObserveCost(cost, "reported", e.usd) ELSE cost
<1>9. CASE Retryable(e)
  <2>1. DiscardAttempt(e) BY <1>3, <1>9
  <2>2. log' = [[log EXCEPT ![attempts].send = AttemptSend(e)] EXCEPT
                  ![attempts].exit = RetryKind(e),
                  ![attempts].safe = ProviderProvedReplaySafe(e),
                  ![attempts].usd = observed.usd]
    BY <1>8, <2>1, EndedLog, Zenon
  <2>3. /\ priorUsd' = priorUsd + IF counted THEN 0 ELSE observed.usd
        /\ counted' = FALSE /\ cost' = NoCost /\ current' = NoAttempt
    BY <2>1 DEF DiscardAttempt
  <2> HIDE DEF observed
  <2>4. Costing(log', attempts, observed.usd)
    BY <1>1, <1>2, <2>2, EntryUsd, Zenon
  <2>5. log'[attempts].usd \in Nat
    <3>1. log'[attempts] \in LogEntry BY <1>1, <1>2
    <3> QED BY <3>1 DEF LogEntry
  <2>6. BudgetCharge' = Spent(log')
    <3>1. BudgetCharge' = priorUsd' + 0 BY <2>3 DEF BudgetCharge, NoCost
    <3>2. priorUsd' = priorUsd + observed.usd BY <1>5, <2>3
    <3> QED BY <1>1, <1>6, <1>7, <2>4, <2>5, <3>1, <3>2 DEF Costing
  <2> QED BY <2>3, <2>6 DEF ChargeInv, NoCost
<1>10. CASE ~Retryable(e)
  <2>1. FailAttempt(e) BY <1>3, <1>10
  <2>2. log' = [LogSend(AttemptSend(e)) EXCEPT ![attempts].exit = "failed",
                                               ![attempts].usd = cost'.usd]
        /\ UNCHANGED <<priorUsd, counted, current>>
    BY <2>1 DEF FailAttempt
  <2>3. log' = [[log EXCEPT ![attempts].send = AttemptSend(e)] EXCEPT
                  ![attempts].exit = "failed", ![attempts].usd = cost'.usd]
    BY <1>8, <2>2
  <2>4. log'[attempts].usd = cost'.usd BY <1>1, <1>2, <2>3, EntryUsd DEF Costing
  <2>5. BudgetCharge' = Spent(log')
    BY <1>1, <1>5, <1>6, <1>7, <2>2, <2>4 DEF BudgetCharge
  <2> QED BY <1>2, <1>5, <2>2, <2>4, <2>5 DEF ChargeInv
<1> QED BY <1>9, <1>10

\* Apart from those only a failure that is handed out again touches the cost.
LEMMA QuietCharge ==
    ASSUME [Next]_vars, ~LogStep
    PROVE  \/ UNCHANGED <<priorUsd, counted, cost>>
           \/ \E kind \in ExecuteKinds, send \in SendStates : ExecuteFails(kind, send)
<1>1. CASE CallStep
  BY <1>1 DEF CallStep, Start, NextEvent, CollectUncommitted, CommitDownstream, budgetVars
<1>2. CASE PrepareStep
  <2>1. CASE BeginAttempt BY <2>1 DEF BeginAttempt, budgetVars
  <2>2. CASE ExecuteInterrupted BY <2>2 DEF ExecuteInterrupted, budgetVars
  <2>3. CASE \E account \in Accounts : ExecuteMismatches(account)
    BY <2>3 DEF ExecuteMismatches, budgetVars
  <2> QED BY <1>2, <2>1, <2>2, <2>3 DEF PrepareStep, LogStep
<1>3. CASE StreamStep
  <2>1. CASE PollInterrupted BY <2>1 DEF PollInterrupted, budgetVars
  <2>2. CASE \E collectedAny \in BOOLEAN : StreamEnds(collectedAny)
    BY <2>2 DEF StreamEnds, budgetVars
  <2> QED BY <1>3, <2>1, <2>2 DEF StreamStep, LogStep
<1>4. CASE WriteFinalization \/ Cancel \/ DeadlineElapses \/ Abandon \/ DetachFinalize
  BY <1>4 DEF WriteFinalization, Cancel, DeadlineElapses, Abandon, DetachFinalize, budgetVars
<1>5. CASE UNCHANGED vars BY <1>5 DEF vars, budgetVars
<1> QED BY <1>1, <1>2, <1>3, <1>4, <1>5 DEF Next

\* No step charges what no attempt cost.
LEMMA ChargeInvariant == IInv /\ History /\ ChargeInv /\ [Next]_vars => ChargeInv'
<1> SUFFICES ASSUME IInv, History, ChargeInv, [Next]_vars PROVE ChargeInv' OBVIOUS
<1>1. IInv' BY NextInv
<1>2. CASE LogStep
  BY <1>1, <1>2, ExecuteStreamsCharge, StreamEventCharge, StreamFailsCharge, Zenon DEF LogStep
<1>3. CASE ~LogStep
  <2>1. /\ UNCHANGED <<log, attempts, current>>
        /\ finalization' = "none" =>
             finalization = "none" /\ (terminalFailure' = {} => terminalFailure = {})
    BY <1>3, QuietStep
  <2>2. CASE UNCHANGED <<priorUsd, counted, cost>>
    BY <2>1, <2>2 DEF ChargeInv, BudgetCharge
  <2>3. ASSUME NEW kind \in ExecuteKinds, NEW send \in SendStates, ExecuteFails(kind, send)
        PROVE  ChargeInv'
    <3>1. pc = "execute" /\ UNCHANGED priorUsd BY <2>3 DEF ExecuteFails
    <3>2. current = NoAttempt /\ terminalFailure = {} /\ finalization = "none"
      BY <3>1 DEF IInv, Ownership
    <3>3. ~counted /\ cost.usd = 0 /\ priorUsd \in Nat
      BY <3>2 DEF ChargeInv, IInv, TypeOK
    <3>4. \/ UNCHANGED <<counted, cost>>
          \/ counted' = TRUE /\ (terminalFailure' # {} \/ finalization' = "pending")
      BY <2>3 DEF ExecuteFails, TerminalFailure, FinishProviderError, Finish
    <3>5. CASE UNCHANGED <<counted, cost>> BY <2>2, <3>1, <3>5
    <3>6. CASE counted' = TRUE /\ (terminalFailure' # {} \/ finalization' = "pending")
      <4>1. BudgetCharge' = BudgetCharge BY <3>1, <3>3, <3>6 DEF BudgetCharge
      <4> QED BY <2>1, <3>2, <3>6, <4>1 DEF ChargeInv
    <3> QED BY <3>4, <3>5, <3>6
  <2> QED BY <1>3, <2>2, <2>3, QuietCharge
<1> QED BY <1>2, <1>3

-------------------------------------------------------------------------------
(* The theorems about the history. *)

\* The whole inductive invariant.
HInv == /\ IInv /\ History /\ ReplayJustified /\ Covered /\ RowInv /\ RetriesCounted
        /\ ContinuationOwnerKept /\ ContinuationScopeInv /\ ChargeInv

\* A session begins without a history.
LEMMA InitHInv == Init => HInv
<1> SUFFICES ASSUME Init PROVE HInv OBVIOUS
<1>1. IInv BY InitInv
<1>2. log = <<>> /\ Len(log) = 0 /\ attempts = 0 /\ row = {} /\ result = {}
      /\ terminalFailure = {} /\ current = NoAttempt /\ finalization = "none"
  BY DEF Init
<1>3. History BY <1>2 DEF History
<1>4. ReplayJustified /\ Covered /\ RowInv /\ ContinuationOwnerKept
  BY <1>2 DEF ReplayJustified, Covered, RowInv, RowFaithful, ContinuationOwnerKept
<1>5. ContinuationScopeInv
  <2>1. req \in Request BY InputsAssumption DEF Init
  <2> QED BY <1>2, <2>1 DEF Init, ContinuationScopeInv, Request
<1>6. RetriesCounted
  <2>1. \A a, exit : Ended(log, a, exit) = {} BY <1>2 DEF Ended
  <2>2. transientCounts = [a \in Accounts |-> 0] BY DEF Init
  <2> QED BY <2>1, <2>2, FS_EmptySet DEF RetriesCounted
<1>7. ChargeInv
  <2>1. cost = NoCost /\ priorUsd = 0 /\ counted = FALSE BY DEF Init
  <2>2. Spent(log) = 0 BY <1>1, <1>2, SpentUpToIs DEF Spent, IInv, TypeOK
  <2> QED BY <1>2, <2>1, <2>2 DEF ChargeInv, BudgetCharge, NoCost
<1> QED BY <1>1, <1>3, <1>4, <1>5, <1>6, <1>7 DEF HInv

\* No step of the session breaks it.
LEMMA NextHInv == HInv /\ [Next]_vars => HInv'
BY NextInv, HistoryInv, ReplayJustifiedInv, CoveredInv, RowInvariant, RetriesInv,
   ContinuationInv, ChargeInvariant DEF HInv

\* It holds throughout the life of a session.
LEMMA SpecHInv == Spec => []HInv
BY InitHInv, NextHInv, PTL DEF Spec

\* An attempt is replayed only with a proof of the provider that nothing was
\* executed, or for a hidden retry it asked for; never an ambiguous one.
THEOREM ReplaysJustified == Spec => []ReplayJustified
BY SpecHInv, PTL DEF HInv

\* What HInv says of the outcome.
LEMMA CoveredOutcome == HInv => FinalSendStateCoversAttempts
<1> SUFFICES ASSUME HInv, NEW final \in result
             PROVE  /\ \A i \in 1 .. Len(log) : AtLeast(final.send, log[i].send)
                    /\ final.outcome = "Cancelled" /\ log # <<>>
                         => final.send # "NotSent" \/ log[Len(log)].exit # "live"
                    /\ final.attempts = Len(log)
  BY DEF FinalSendStateCoversAttempts
<1>1. /\ log \in Seq(LogEntry) /\ watermark \in SendStates /\ final.send \in SendStates
      /\ Len(log) = attempts
  BY DEF HInv, IInv, TypeOK, History, Result
<1>2. /\ AtLeast(final.send, watermark) /\ final.attempts = attempts
      /\ final.outcome = "Cancelled" /\ attempts # 0
           => final.send # "NotSent" \/ log[attempts].exit # "live"
      /\ \A i \in 1 .. Len(log) : AtLeast(watermark, log[i].send)
  BY DEF HInv, Covered
<1>3. \A i \in 1 .. Len(log) : log[i].send \in SendStates
  <2>1. \A i \in 1 .. Len(log) : log[i] \in LogEntry BY <1>1
  <2> QED BY <2>1 DEF LogEntry
<1>4. log # <<>> => attempts # 0 BY <1>1
<1> QED BY <1>1, <1>2, <1>3, <1>4, SendOrder

\* The outcome never claims less was sent than any attempt did.
THEOREM OutcomeCovers == Spec => []FinalSendStateCoversAttempts
BY SpecHInv, CoveredOutcome, PTL

\* The row of the store never says more than happened, and is closed only by the
\* outcome of the session.
THEOREM RowsFaithful == Spec => []RowFaithful
<1>1. HInv => RowFaithful BY DEF HInv, RowInv
<1> QED BY <1>1, SpecHInv, PTL

\* The key is charged what the attempts cost, the hidden ones included, once.
THEOREM ChargeExact == Spec => []BudgetChargeExact
<1>1. HInv => BudgetChargeExact BY ChargeIs DEF HInv, ChargeInv
<1> QED BY <1>1, SpecHInv, PTL

\* What HInv says of the retries of one account.
LEMMA CountedBounded == HInv => SameAccountRetriesBounded
<1> SUFFICES ASSUME HInv, NEW a \in Accounts
             PROVE  /\ Cardinality(Ended(log, a, "SameAccount")) <= 1
                    /\ Cardinality(Ended(log, a, "transient")) <= MaxTransient
  BY DEF SameAccountRetriesBounded, Ended
<1>1. transientCounts[a] \in 0 .. MaxTransient BY DEF HInv, IInv, TypeOK
<1> QED BY <1>1, ConstantsAssumption DEF HInv, RetriesCounted

\* Of one account a recovery is replayed once, and transient rejections
\* max_retries times.
THEOREM RetriesBounded == Spec => []SameAccountRetriesBounded
BY SpecHInv, CountedBounded, PTL

\* A natively continued response stays with its owner, and a widened
\* continuation never narrows again.
THEOREM ContinuationKept == Spec => []ContinuationOwnerKept
<1>1. HInv => ContinuationOwnerKept BY DEF HInv
<1> QED BY <1>1, SpecHInv, PTL

\* Once the session owns the terminal write, nothing it reports changes.
THEOREM OutcomeIsFrozen == Spec => OutcomeFrozen
<1>1. HInv /\ [Next]_vars
        => [finalization # "none" =>
              UNCHANGED <<result, attempts, current, committed, budgetVars, log>>]_vars
  BY FrozenStep DEF HInv
<1> QED BY <1>1, SpecHInv, PTL DEF Spec, OutcomeFrozen

-------------------------------------------------------------------------------
(* The coordinator implements the abstract response session.                 *)

\* Once there is an outcome there is only one, and a success was sent and
\* committed; who has a stream or a failure has made an attempt.
Tells ==
    /\ finalization # "none" => \E final \in Result : result = {final}
    /\ \A final \in result :
         final.outcome = "Succeeded" => committed /\ final.send = "Sent"
    /\ current # NoAttempt \/ lastFailure # {} \/ terminalFailure # {} => attempts # 0

\* A step that begins the terminal write begins it with one outcome, which is a
\* success only of a committed response.
OneOutcome ==
    /\ \E final : result' = {final} /\ (final.outcome = "Succeeded" =>
                                          committed' /\ final.send = "Sent")
    /\ finalization' = "pending"

\* Every way in which the code finishes a request begins one outcome; only
\* finish_success claims a success.
LEMMA FinishIsOne ==
    ASSUME NEW outcome, NEW send, outcome # "Succeeded", Finish(outcome, send)
    PROVE  OneOutcome
<1> DEFINE final == [outcome |-> outcome, send |-> EscalateSendState(watermark, send),
                     attempts |-> attempts]
<1>1. result' = {final} /\ finalization' = "pending" BY DEF Finish
<1>2. final.outcome # "Succeeded" OBVIOUS
<1> HIDE DEF final
<1> QED BY <1>1, <1>2 DEF OneOutcome

LEMMA FinishInterruptionIsOne ==
    ASSUME NEW error, FinishInterruption(error) PROVE OneOutcome
<1>1. PICK outcome \in {"Cancelled", "Incomplete", "Failed"} :
        Finish(outcome, InterruptionSend)
  BY DEF FinishInterruption
<1> QED BY <1>1, FinishIsOne

LEMMA FinishProviderErrorIsOne ==
    ASSUME NEW cancelled, NEW send, FinishProviderError(cancelled, send) PROVE OneOutcome
<1>1. PICK outcome \in {"Cancelled", "Incomplete", "Failed"} : Finish(outcome, send)
  BY DEF FinishProviderError
<1> QED BY <1>1, FinishIsOne

LEMMA FinishSuccessIsOne == FinishSuccess /\ committed' => OneOutcome
<1> DEFINE final == [outcome |-> "Succeeded", send |-> "Sent", attempts |-> attempts]
<1>1. FinishSuccess => result' = {final} /\ finalization' = "pending" BY DEF FinishSuccess
<1>2. final.send = "Sent" OBVIOUS
<1> HIDE DEF final
<1> QED BY <1>1, <1>2 DEF OneOutcome

\* What a step does to the outcome before there is one.
LEMMA OutcomeStep ==
    ASSUME IInv, [Next]_vars, finalization = "none"
    PROVE  OneOutcome \/ UNCHANGED <<result, finalization>>
<1> DEFINE Goal == OneOutcome \/ UNCHANGED <<result, finalization>>
<1>1. ASSUME UNCHANGED finalVars PROVE Goal BY <1>1 DEF finalVars
<1>2. ASSUME OneOutcome PROVE Goal BY <1>2
<1> HIDE DEF Goal
<1>3. ASSUME Start PROVE Goal
  BY <1>1, <1>2, <1>3, FinishInterruptionIsOne DEF Start
<1>4. ASSUME NextEvent PROVE Goal
  BY <1>1, <1>2, <1>4, FinishProviderErrorIsOne DEF NextEvent, Pull
<1>5. ASSUME CollectUncommitted PROVE Goal
  BY <1>1, <1>5 DEF CollectUncommitted, Pull
<1>6. ASSUME CommitDownstream PROVE Goal
  BY <1>1, <1>2, <1>6, FinishSuccessIsOne DEF CommitDownstream
<1>7. ASSUME BeginAttempt PROVE Goal
  BY <1>1, <1>2, <1>7, FinishInterruptionIsOne DEF BeginAttempt
<1>8. ASSUME ExecuteInterrupted \/ PollInterrupted PROVE Goal
  BY <1>2, <1>8, FinishInterruptionIsOne DEF ExecuteInterrupted, PollInterrupted
<1>9. ASSUME NEW kind \in ExecuteKinds, NEW send \in SendStates, ExecuteFails(kind, send)
      PROVE  Goal
  <2>1. \/ UNCHANGED finalVars
        \/ \E cancelled, sent : FinishProviderError(cancelled, sent)
    BY <1>9 DEF ExecuteFails, TerminalFailure
  <2> QED BY <1>1, <1>2, <2>1, FinishProviderErrorIsOne
<1>10. ASSUME NEW account \in Accounts, ExecuteMismatches(account) PROVE Goal
  <2> DEFINE final == [outcome |-> "Failed", send |-> CurrentSendState, attempts |-> attempts]
  <2>1. result' = {final} /\ finalization' = "pending" BY <1>10 DEF ExecuteMismatches
  <2>2. final.outcome # "Succeeded" OBVIOUS
  <2> HIDE DEF final
  <2> QED BY <1>2, <2>1, <2>2 DEF OneOutcome
<1>11. ASSUME NEW account \in Accounts, ExecuteStreams(account) PROVE Goal
  BY <1>1, <1>11 DEF ExecuteStreams
<1>12. ASSUME NEW forClient, NEW carriesState, NEW observed,
              StreamEvent(forClient, observed, carriesState)
       PROVE  Goal
  BY <1>1, <1>12 DEF StreamEvent
<1>13. ASSUME NEW collectedAny, StreamEnds(collectedAny) PROVE Goal
  BY <1>1, <1>2, <1>13, FinishSuccessIsOne DEF StreamEnds
<1>14. ASSUME NEW e \in StreamErrors, StreamFails(e) PROVE Goal
  <2>1. CASE DiscardAttempt(e) BY <1>1, <2>1 DEF DiscardAttempt
  <2>2. CASE FailAttempt(e)
    <3> DEFINE final == [outcome  |-> IF e.cancelled THEN "Cancelled"
                                      ELSE IF committed THEN "Incomplete" ELSE "Failed",
                         send     |-> EscalateSendState(watermark, AttemptSend(e)),
                         attempts |-> attempts]
    <3>1. UNCHANGED finalVars \/ (result' = {final} /\ finalization' = "pending")
      BY <2>2 DEF FailAttempt
    <3>2. final.outcome # "Succeeded" OBVIOUS
    <3> HIDE DEF final
    <3> QED BY <1>1, <1>2, <3>1, <3>2 DEF OneOutcome
  <2> QED BY <1>14, <2>1, <2>2 DEF StreamFails
<1>15. ASSUME WriteFinalization PROVE Goal
  BY <1>15 DEF WriteFinalization
<1>16. ASSUME Cancel \/ DeadlineElapses \/ Abandon PROVE Goal
  BY <1>1, <1>16 DEF Cancel, DeadlineElapses, Abandon
<1>17. ASSUME DetachFinalize PROVE Goal
  BY <1>2, <1>17, FinishInterruptionIsOne, FinishProviderErrorIsOne DEF DetachFinalize
<1>18. ASSUME UNCHANGED vars PROVE Goal
  BY <1>1, <1>18 DEF vars
<1> QED
  BY <1>3, <1>4, <1>5, <1>6, <1>7, <1>8, <1>9, <1>10, <1>11, <1>12, <1>13, <1>14, <1>15,
     <1>16, <1>17, <1>18 DEF Next, CallStep, PrepareStep, StreamStep, Goal

\* Attempts and the commitment change in one step each, and the watermark rises
\* at most.
LEMMA TellingStep ==
    ASSUME IInv, History, [Next]_vars, finalization = "none"
    PROVE  \/ UNCHANGED <<attempts, committed>> /\ AtLeast(watermark', watermark)
           \/ /\ ~committed /\ attempts' = attempts + 1
              /\ UNCHANGED <<committed, watermark, finalization>>
           \/ /\ deliveryPending /\ ~committed /\ committed'
              /\ UNCHANGED <<attempts, watermark>>
<1>1. watermark \in SendStates /\ AtLeast(watermark, watermark)
  BY SendOrder DEF IInv, TypeOK
<1>2. CASE CommitDownstream
  BY <1>2 DEF CommitDownstream, FinishSuccess, countVars
<1>3. ASSUME NEW account \in Accounts, ExecuteStreams(account)
      PROVE  ~committed /\ attempts' = attempts + 1
             /\ UNCHANGED <<committed, watermark, finalization>>
  BY <1>3 DEF ExecuteStreams, IInv, Ownership, deliveryVars, finalVars
<1>4. ASSUME NEW forClient, NEW carriesState, NEW observed,
             StreamEvent(forClient, observed, carriesState)
      PROVE  UNCHANGED <<attempts, committed>> /\ AtLeast(watermark', watermark)
  BY <1>1, <1>4, SendOrder DEF StreamEvent, countVars
<1>5. ASSUME NEW e \in StreamErrors, StreamFails(e)
      PROVE  UNCHANGED <<attempts, committed>> /\ AtLeast(watermark', watermark)
  <2>1. AttemptSend(e) \in SendStates
    BY StreamErrorType DEF AttemptSend, SendStates
  <2> QED BY <1>1, <1>5, <2>1, SendOrder DEF StreamFails, countVars
<1>6. ASSUME ~LogStep, ~CommitDownstream
      PROVE  UNCHANGED <<attempts, committed>> /\ AtLeast(watermark', watermark)
  <2>1. UNCHANGED attempts BY <1>6, QuietStep
  <2>2. AtLeast(watermark', watermark) BY <1>6, ResultStep
  <2>3. UNCHANGED committed
    <3>1. CASE CallStep
      BY <1>6, <3>1 DEF CallStep, Start, NextEvent, CollectUncommitted, deliveryVars
    <3>2. CASE PrepareStep
      BY <1>6, <3>2 DEF PrepareStep, BeginAttempt, ExecuteInterrupted, ExecuteFails,
                        ExecuteMismatches, LogStep, deliveryVars
    <3>3. CASE StreamStep
      BY <1>6, <3>3 DEF StreamStep, PollInterrupted, StreamEnds, LogStep, deliveryVars
    <3>4. CASE WriteFinalization \/ Cancel \/ DeadlineElapses \/ Abandon \/ DetachFinalize
      BY <3>4 DEF WriteFinalization, Cancel, DeadlineElapses, Abandon, DetachFinalize,
                  deliveryVars
    <3>5. CASE UNCHANGED vars BY <3>5 DEF vars, deliveryVars
    <3> QED BY <3>1, <3>2, <3>3, <3>4, <3>5 DEF Next
  <2> QED BY <2>1, <2>2, <2>3
<1> QED BY <1>2, <1>3, <1>4, <1>5, <1>6 DEF LogStep

\* A stream or a failure is only ever had of an attempt.
LEMMA AttemptedStep ==
    ASSUME IInv, History, Tells, [Next]_vars
    PROVE  current' # NoAttempt \/ lastFailure' # {} \/ terminalFailure' # {} => attempts' # 0
<1> DEFINE Goal == current' # NoAttempt \/ lastFailure' # {} \/ terminalFailure' # {}
                     => attempts' # 0
<1>1. attempts \in Nat BY DEF IInv, TypeOK
<1>2. ASSUME UNCHANGED <<attempts, current>>, lastFailure' \in {lastFailure, {}},
             terminalFailure' = {} \/ terminalFailure' = terminalFailure \/ lastFailure # {}
      PROVE  Goal
  BY <1>2 DEF Tells
<1>3. ASSUME attempts' # 0 PROVE Goal BY <1>3
<1> HIDE DEF Goal
<1>4. ASSUME CallStep PROVE Goal
  BY <1>2, <1>4 DEF CallStep, Start, NextEvent, CollectUncommitted, CommitDownstream, Pull,
                    countVars, retryVars, deliveryVars
<1>5. ASSUME BeginAttempt \/ ExecuteInterrupted PROVE Goal
  BY <1>2, <1>5 DEF BeginAttempt, ExecuteInterrupted, countVars, retryVars, deliveryVars
<1>6. ASSUME NEW kind \in ExecuteKinds, NEW send \in SendStates, ExecuteFails(kind, send)
      PROVE  Goal
  <2>1. UNCHANGED <<attempts, current>> /\ lastFailure' \in {lastFailure, {}}
        /\ (UNCHANGED terminalFailure \/ lastFailure # {})
    BY <1>6 DEF ExecuteFails, TerminalFailure, countVars
  <2> QED BY <1>2, <2>1
<1>7. ASSUME NEW account \in Accounts, ExecuteMismatches(account) PROVE Goal
  BY <1>2, <1>7 DEF ExecuteMismatches, countVars, retryVars, deliveryVars
<1>8. ASSUME NEW account \in Accounts, ExecuteStreams(account) PROVE Goal
  BY <1>1, <1>3, <1>8 DEF ExecuteStreams
<1>9. ASSUME StreamStep PROVE Goal
  <2>1. pc = "poll" /\ UNCHANGED attempts
    BY <1>9 DEF StreamStep, PollInterrupted, StreamEvent, StreamEnds, StreamFails, countVars
  <2>2. current # NoAttempt BY <2>1 DEF IInv, Ownership
  <2> QED BY <1>3, <2>1, <2>2 DEF Tells
<1>10. ASSUME WriteFinalization \/ Cancel \/ DeadlineElapses \/ Abandon PROVE Goal
  BY <1>2, <1>10 DEF WriteFinalization, Cancel, DeadlineElapses, Abandon, countVars,
                     retryVars, deliveryVars
<1>11. ASSUME DetachFinalize PROVE Goal
  BY <1>2, <1>11 DEF DetachFinalize, countVars, retryVars
<1>12. ASSUME UNCHANGED vars PROVE Goal
  BY <1>2, <1>12 DEF vars, countVars, retryVars, deliveryVars
<1>13. Goal
  BY <1>4, <1>5, <1>6, <1>7, <1>8, <1>9, <1>10, <1>11, <1>12 DEF Next, PrepareStep
<1> QED BY <1>13 DEF Goal

\* No step breaks it.
LEMMA TellsInv == IInv /\ History /\ Covered /\ Tells /\ [Next]_vars => Tells'
<1> SUFFICES ASSUME IInv, History, Covered, Tells, [Next]_vars PROVE Tells' OBVIOUS
<1>1. (current # NoAttempt \/ lastFailure # {} \/ terminalFailure # {} => attempts # 0)'
  BY AttemptedStep
<1>2. result' \subseteq Result BY NextInv DEF IInv, TypeOK
<1>3. CASE finalization # "none"
  <2>1. UNCHANGED <<result, committed>> BY <1>3, FrozenStep
  <2> QED BY <1>1, <1>3, <2>1 DEF Tells
<1>4. CASE finalization = "none"
  <2>1. CASE OneOutcome BY <1>1, <1>2, <2>1 DEF OneOutcome, Tells
  <2>2. CASE UNCHANGED <<result, finalization>>
    BY <1>1, <1>4, <2>2 DEF Tells, Covered
  <2> QED BY <1>4, <2>1, <2>2, OutcomeStep
<1> QED BY <1>3, <1>4

\* The levels of the abstract session are the order of the send states.
LEMMA LevelOrder ==
    ASSUME NEW a \in SendStates, NEW b \in SendStates, AtLeast(a, b)
    PROVE  /\ Told!Level[a] >= Told!Level[b]
           /\ a # b => Told!Level[a] > Told!Level[b]
BY DEF AtLeast, EscalateSendState, SendStates, Told!Level

\* What the session tells before its end, and at it.
TaleIs ==
    /\ ~Finalized => Tale = [attempts |-> attempts, send |-> watermark,
                             committed |-> committed, ending |-> "running"]
    /\ \A final : Finalized /\ result = {final} =>
         Tale = [attempts |-> attempts, send |-> final.send, committed |-> committed,
                 ending |-> IF final.outcome = "Succeeded" THEN "succeeded" ELSE "failed"]

LEMMA TaleIsSo == TaleIs /\ TaleIs'
<1>1. \A S, final : S = {final} => (CHOOSE f \in S : TRUE) = final
  OBVIOUS
<1>2. TaleIs BY <1>1 DEF TaleIs, Tale
<1>3. TaleIs' BY <1>1 DEF TaleIs, Tale
<1> QED BY <1>2, <1>3

\* Before the terminal write was tried a step tells one thing more, or nothing.
LEMMA RunningStep ==
    ASSUME IInv, History, Covered, Tells, [Next]_vars, finalization = "none"
    PROVE  Told!SessionsNext \/ UNCHANGED [s \in {"this"} |-> Tale]
<1> DEFINE tale == [s \in {"this"} |-> Tale]
           told == [attempts |-> attempts, send |-> watermark, committed |-> committed,
                    ending |-> "running"]
<1>1. ~Finalized /\ ~Finalized'
  BY OutcomeStep DEF Finalized, OneOutcome
<1>2. Tale = told /\ Tale' = told'
  <2>1. Tale = told BY <1>1, TaleIsSo DEF TaleIs
  <2>2. Tale' = told' BY <1>1, TaleIsSo DEF TaleIs
  <2> QED BY <2>1, <2>2
<1>3. tale["this"].ending = "running" BY <1>2
<1>4. watermark \in SendStates /\ watermark' \in SendStates /\ attempts \in Nat
  BY NextInv DEF IInv, TypeOK
<1>5. CASE UNCHANGED <<attempts, committed>> /\ AtLeast(watermark', watermark)
  <2>1. CASE watermark' = watermark BY <1>2, <1>5, <2>1
  <2>2. CASE watermark' # watermark
    <3>1. Told!Level[watermark'] > Told!Level[watermark] BY <1>4, <1>5, <2>2, LevelOrder
    <3>2. tale' = [tale EXCEPT !["this"].send = watermark'] BY <1>2, <1>5
    <3>3. tale'["this"].send = watermark' /\ tale["this"].send = watermark BY <1>2
    <3>4. Told!Rise("this") BY <3>1, <3>2, <3>3 DEF Told!Rise
    <3> QED BY <1>3, <3>4 DEF Told!SessionsNext
  <2> QED BY <2>1, <2>2
<1>6. CASE ~committed /\ attempts' = attempts + 1 /\ UNCHANGED <<committed, watermark>>
  <2>1. ~tale["this"].committed BY <1>2, <1>6
  <2>2. tale' = [tale EXCEPT !["this"].attempts = @ + 1] BY <1>2, <1>6
  <2>3. Told!Begin("this") BY <2>1, <2>2 DEF Told!Begin
  <2> QED BY <1>3, <2>3 DEF Told!SessionsNext
<1>7. CASE deliveryPending /\ ~committed /\ committed' /\ UNCHANGED <<attempts, watermark>>
  <2>1. attempts > 0
    BY <1>4, <1>7 DEF Tells, IInv, Ownership
  <2>2. tale["this"].attempts > 0 /\ ~tale["this"].committed BY <1>2, <1>7, <2>1
  <2>3. committed' = TRUE BY <1>7, NextInv DEF IInv, TypeOK
  <2>4. tale' = [tale EXCEPT !["this"].committed = TRUE] BY <1>2, <1>7, <2>3
  <2>5. Told!Commit("this") BY <2>2, <2>4 DEF Told!Commit
  <2> QED BY <1>3, <2>5 DEF Told!SessionsNext
<1> QED BY <1>5, <1>6, <1>7, TellingStep

\* The terminal write tells the outcome; from then on nothing is told.
LEMMA EndingStep ==
    ASSUME IInv, History, Covered, Tells, [Next]_vars, finalization # "none"
    PROVE  Told!SessionsNext \/ UNCHANGED [s \in {"this"} |-> Tale]
<1> DEFINE tale == [s \in {"this"} |-> Tale]
<1>1. /\ UNCHANGED <<result, attempts, committed, watermark>>
      /\ finalization' # "none" /\ (finalization = "complete" => finalization' = "complete")
  BY FrozenStep
<1>2. PICK final \in Result : result = {final}
  BY DEF Tells
<1> DEFINE ending == IF final.outcome = "Succeeded" THEN "succeeded" ELSE "failed"
           told == [attempts |-> attempts, send |-> watermark, committed |-> committed,
                    ending |-> "running"]
           last == [attempts |-> attempts, send |-> final.send, committed |-> committed,
                    ending |-> ending]
<1>3. ASSUME ~Finalized PROVE Tale = told BY <1>3, TaleIsSo DEF TaleIs
<1>4. ASSUME ~Finalized' PROVE Tale' = told BY <1>1, <1>4, TaleIsSo DEF TaleIs
<1>5. ASSUME Finalized PROVE Tale = last BY <1>2, <1>5, TaleIsSo DEF TaleIs
<1>6. ASSUME Finalized' PROVE Tale' = last BY <1>1, <1>2, <1>6, TaleIsSo DEF TaleIs
<1> HIDE DEF told, last
<1>7. CASE Finalized BY <1>1, <1>5, <1>6, <1>7 DEF Finalized
<1>8. CASE ~Finalized' /\ ~Finalized BY <1>3, <1>4, <1>8
<1>9. CASE ~Finalized /\ Finalized'
  <2>1. tale["this"] = told /\ tale'["this"] = last BY <1>3, <1>6, <1>9
  <2>2. /\ watermark \in SendStates /\ final.send \in SendStates
        /\ AtLeast(final.send, watermark)
    BY <1>2 DEF IInv, TypeOK, Result, Covered
  <2>3. Told!Level[final.send] >= Told!Level[watermark] BY <2>2, LevelOrder
  <2>4. last.ending = "succeeded" => told.committed /\ last.send = "Sent"
    BY <1>2 DEF Tells, last, told
  <2>5. /\ told.ending = "running" /\ last.ending \in {"succeeded", "failed"}
        /\ last.send = final.send /\ told.send = watermark
        /\ last = [attempts |-> told.attempts, send |-> last.send,
                   committed |-> told.committed, ending |-> last.ending]
    <3>1. ending \in {"succeeded", "failed"} OBVIOUS
    <3> HIDE DEF ending
    <3> QED BY <3>1, Zenon DEF last, told
  <2>6. tale' = [tale EXCEPT !["this"] =
                   [attempts |-> tale["this"].attempts, send |-> last.send,
                    committed |-> tale["this"].committed, ending |-> last.ending]]
    BY <1>3, <1>6, <1>9, <2>1, <2>5
  <2>7. Told!End("this") BY <2>1, <2>3, <2>4, <2>5, <2>6 DEF Told!End
  <2> QED BY <2>1, <2>5, <2>7 DEF Told!SessionsNext
<1> QED BY <1>7, <1>8, <1>9

\* The coordinator is a response session to those who only hear what it tells:
\* every step of it tells one thing more, as ResponseSession allows, or nothing.
THEOREM SessionImplemented == Spec => IsAResponseSession
<1> DEFINE tale == [s \in {"this"} |-> Tale]
           All == HInv /\ Tells
<1>1. Init => Tells /\ Told!SessionsInit
  <2> SUFFICES ASSUME Init PROVE Tells /\ Told!SessionsInit OBVIOUS
  <2>1. /\ finalization = "none" /\ result = {} /\ current = NoAttempt /\ lastFailure = {}
        /\ terminalFailure = {} /\ attempts = 0 /\ watermark = "NotSent" /\ committed = FALSE
    BY DEF Init
  <2>2. Tale = [attempts |-> 0, send |-> "NotSent", committed |-> FALSE, ending |-> "running"]
    BY <2>1, TaleIsSo DEF TaleIs, Finalized
  <2> QED BY <2>1, <2>2 DEF Tells, Told!SessionsInit
<1>2. All /\ [Next]_vars => All' BY NextHInv, TellsInv DEF HInv
<1>3. All /\ [Next]_vars => Told!SessionsNext \/ UNCHANGED tale
  BY RunningStep, EndingStep DEF HInv
<1> HIDE DEF All
<1>4. Init => All BY <1>1, InitHInv DEF All
<1> QED BY <1>1, <1>2, <1>3, <1>4, PTL DEF Spec, IsAResponseSession, Told!SessionsSpec
===============================================================================
