---------------------------- MODULE BudgetLedger ----------------------------
(***************************************************************************)
(* The USD ledger of the client API keys: PgClientBudgetStore and the      *)
(* manual reset.  Every transaction first locks the row of the key, so one *)
(* transaction is one step; what surrounds it in the process (reading the  *)
(* retry map, settling each charge found there, updating the map with the  *)
(* outcome) takes steps of its own that interleave with other requests,    *)
(* with the administrator and with the end of the process.                 *)
(*                                                                         *)
(* Time is counted in ticks; a day has DayTicks ticks and begins at a      *)
(* multiple of it (midnight in Asia/Shanghai in the code).                 *)
(***************************************************************************)
EXTENDS Integers, FiniteSets, FiniteSetsExt

CONSTANTS
    Keys,           \* client API keys
    Requests,       \* model requests
    KeyOf,          \* [Requests -> Keys]
    Amounts,        \* costs, in units of USD, a request can end with
    Limits,         \* pairs of daily and weekly limits an administrator sets
    DayTicks,       \* ticks of a day (24 hours)
    WeekTicks,      \* ticks of a weekly window (168 hours)
    MaxTime,        \* bound on the clock
    Faults          \* whether transactions can fail and the process can exit

Periods == {"daily", "weekly"}
Length == [daily |-> DayTicks, weekly |-> WeekTicks]

ASSUME LedgerAssumption ==
    /\ IsFiniteSet(Requests)
    /\ KeyOf \in [Requests -> Keys]
    /\ Amounts \subseteq Nat
    /\ Limits \subseteq [Periods -> Nat] /\ Limits # {}
    /\ DayTicks \in Nat \ {0}
    /\ WeekTicks \in Nat \ {0} /\ WeekTicks % DayTicks = 0
    /\ MaxTime \in Nat
    /\ Faults \in BOOLEAN

VARIABLES
    now,        \* the clock
    \* --- PostgreSQL -------------------------------------------------------
    status,     \* row of the key: "enabled", "disabled" or "deleted"
    limits,     \* daily_limit_usd and weekly_limit_usd of the key
    opened,     \* keys that have a row in client_key_budget_windows
    window,     \* that row: start, end and used amount of each period
    posted,     \* requests with a row in client_key_charge_events
    \* --- the process ------------------------------------------------------
    retry,      \* requests whose charge is kept in PgClientBudgetStore.retry
    charge,     \* ClientBudgetCharge of a request: amount and completed_at
    pc,         \* where the future of the request is
    todo,       \* charges cloned from the retry map, still to be settled
    job,        \* the request whose charge this future is settling
    outcome,    \* what settle_inner reported
    \* --- history, for the properties -------------------------------------
    seen,       \* charges the admission of the request found in the map
    lost,       \* charges given up by a dropped future or the process exit
    resetAt     \* when the period of the key was last reset, 0 if never

dbVars == <<status, limits, opened, window, posted>>
futureVars == <<pc, todo, job, outcome>>
vars == <<now, dbVars, retry, charge, futureVars, seen, lost, resetAt>>

Places == {"idle", "retries", "checking", "posting", "noting", "running",
           "refused", "settled", "dropped"}
Outcomes == {"ok", "error"}

-----------------------------------------------------------------------------
(* Windows.                                                                *)

DayStart(t) == t - (t % DayTicks)

FreshWindow(p, t) ==
    [start |-> DayStart(t), end |-> DayStart(t) + Length[p], used |-> 0]

Expired(w, t) == w.end <= t

\* advance_windows: opens the row of the key, or restarts each period that is
\* over at the beginning of the current day.
AdvanceWindows(k, t) ==
    [p \in Periods |-> IF k \notin opened \/ Expired(window[k][p], t)
                       THEN FreshWindow(p, t) ELSE window[k][p]]

\* Whether a window contains the time a request completed at.
Covers(w, t) == w.start <= t /\ t < w.end

\* The update of the windows after a charge event was inserted.
AddCharge(ws, c) ==
    [p \in Periods |-> IF Covers(ws[p], c.completed)
                       THEN [ws[p] EXCEPT !.used = @ + c.amount] ELSE ws[p]]

\* The limits, 0 being no limit, that the used amounts have reached.
Exceeded(ws, l) == {p \in Periods : l[p] # 0 /\ ws[p].used >= l[p]}

-----------------------------------------------------------------------------
Init ==
    /\ now = 0
    /\ status = [k \in Keys |-> "enabled"]
    /\ limits \in [Keys -> Limits]
    /\ opened = {}
    /\ window = [k \in Keys |-> [p \in Periods |-> FreshWindow(p, 0)]]
    /\ posted = {}
    /\ retry = {}
    /\ charge = [r \in Requests |-> [amount |-> 0, completed |-> 0]]
    /\ pc = [r \in Requests |-> "idle"]
    /\ todo = [r \in Requests |-> {}]
    /\ job = [r \in Requests |-> r]
    /\ outcome = [r \in Requests |-> "ok"]
    /\ seen = [r \in Requests |-> {}]
    /\ lost = {}
    /\ resetAt = [k \in Keys |-> [p \in Periods |-> 0]]

-----------------------------------------------------------------------------
(* Admission.                                                              *)

\* Mutant: the charges waiting for a retry are left for later.
BeginAdmitUnsettled(r) ==
    /\ pc[r] = "idle"
    /\ seen' = [seen EXCEPT ![r] = {c \in retry : KeyOf[c] = KeyOf[r]}]
    /\ pc' = [pc EXCEPT ![r] = "checking"]
    /\ UNCHANGED <<now, dbVars, retry, charge, todo, job, outcome, lost, resetAt>>

\* admit_inner clones the charges of this key out of the retry map.
BeginAdmit(r) ==
    /\ pc[r] = "idle"
    /\ LET found == {c \in retry : KeyOf[c] = KeyOf[r]} IN
         /\ todo' = [todo EXCEPT ![r] = found]
         /\ seen' = [seen EXCEPT ![r] = found]
         /\ pc' = [pc EXCEPT ![r] = IF found = {} THEN "checking" ELSE "retries"]
    /\ UNCHANGED <<now, dbVars, retry, charge, job, outcome, lost, resetAt>>

\* The loop settles the next of them.
NextRetry(r) ==
    /\ pc[r] = "retries"
    /\ \E c \in todo[r] :
         /\ todo' = [todo EXCEPT ![r] = @ \ {c}]
         /\ job' = [job EXCEPT ![r] = c]
    /\ pc' = [pc EXCEPT ![r] = "posting"]
    /\ UNCHANGED <<now, dbVars, retry, charge, outcome, seen, lost, resetAt>>

\* The admission transaction refuses: the database is unavailable, the key is
\* gone or disabled, or a used amount has reached its limit.  The transaction
\* is rolled back, so the windows it advanced stay as they were.
RefuseAdmit(r) ==
    LET k == KeyOf[r] IN
    /\ pc[r] = "checking"
    /\ \/ Faults
       \/ status[k] # "enabled"
       \/ Exceeded(AdvanceWindows(k, now), limits[k]) # {}
    /\ pc' = [pc EXCEPT ![r] = "refused"]
    /\ UNCHANGED <<now, dbVars, retry, charge, todo, job, outcome, seen, lost, resetAt>>

\* The admission transaction commits the advanced windows.  The answer to the
\* commit can be lost, and the request is then refused all the same.
Admit(r) ==
    LET k == KeyOf[r] IN
    /\ pc[r] = "checking"
    /\ status[k] = "enabled"
    /\ Exceeded(AdvanceWindows(k, now), limits[k]) = {}
    /\ opened' = opened \cup {k}
    /\ window' = [window EXCEPT ![k] = AdvanceWindows(k, now)]
    /\ \E answer \in IF Faults THEN {"running", "refused"} ELSE {"running"} :
         pc' = [pc EXCEPT ![r] = answer]
    /\ UNCHANGED <<now, status, limits, posted, retry, charge, todo, job, outcome,
                   seen, lost, resetAt>>

-----------------------------------------------------------------------------
(* Settlement: by the request that ends, and by the admissions that retry. *)

\* The request is final: its cost and completed_at are fixed, and its session
\* begins to settle the charge.
Finish(r) ==
    /\ pc[r] = "running"
    /\ \E a \in Amounts : charge' = [charge EXCEPT ![r] = [amount |-> a, completed |-> now]]
    /\ job' = [job EXCEPT ![r] = r]
    /\ pc' = [pc EXCEPT ![r] = "posting"]
    /\ UNCHANGED <<now, dbVars, retry, todo, outcome, seen, lost, resetAt>>

\* settle_inner fails before its commit.
PostFails(r) ==
    /\ Faults
    /\ pc[r] = "posting"
    /\ outcome' = [outcome EXCEPT ![r] = "error"]
    /\ pc' = [pc EXCEPT ![r] = "noting"]
    /\ UNCHANGED <<now, dbVars, retry, charge, todo, job, seen, lost, resetAt>>

\* settle_inner for a deleted key has nothing to do.
PostToDeletedKey(r) ==
    /\ pc[r] = "posting"
    /\ status[KeyOf[job[r]]] = "deleted"
    /\ outcome' = [outcome EXCEPT ![r] = "ok"]
    /\ pc' = [pc EXCEPT ![r] = "noting"]
    /\ UNCHANGED <<now, dbVars, retry, charge, todo, job, seen, lost, resetAt>>

\* Mutant: the amount is added whether or not the event was inserted.
PostAgain(r) ==
    LET c == job[r]
        k == KeyOf[c] IN
    /\ pc[r] = "posting"
    /\ status[k] # "deleted"
    /\ opened' = opened \cup {k}
    /\ window' = [window EXCEPT ![k] = AddCharge(AdvanceWindows(k, now), charge[c])]
    /\ posted' = posted \cup {c}
    /\ \E answer \in IF Faults THEN Outcomes ELSE {"ok"} :
         outcome' = [outcome EXCEPT ![r] = answer]
    /\ pc' = [pc EXCEPT ![r] = "noting"]
    /\ UNCHANGED <<now, status, limits, retry, charge, todo, job, seen, lost, resetAt>>

\* settle_in_transaction: advances the windows, inserts the event unless the
\* request already has one, and adds the amount only when it inserted.  The
\* commit takes effect; its answer can be lost.
Post(r) ==
    LET c == job[r]
        k == KeyOf[c]
        advanced == AdvanceWindows(k, now) IN
    /\ pc[r] = "posting"
    /\ status[k] # "deleted"
    /\ opened' = opened \cup {k}
    /\ window' = [window EXCEPT ![k] =
                    IF c \in posted THEN advanced ELSE AddCharge(advanced, charge[c])]
    /\ posted' = posted \cup {c}
    /\ \E answer \in IF Faults THEN Outcomes ELSE {"ok"} :
         outcome' = [outcome EXCEPT ![r] = answer]
    /\ pc' = [pc EXCEPT ![r] = "noting"]
    /\ UNCHANGED <<now, status, limits, retry, charge, todo, job, seen, lost, resetAt>>

\* Where a future goes after the map was updated.
AfterNote(r) ==
    IF job[r] = r THEN "settled"
    ELSE IF outcome[r] = "error" THEN "refused"
    ELSE IF todo[r] = {} THEN "checking" ELSE "retries"

\* Mutant: a failure is not kept.
NoteForgets(r) ==
    /\ pc[r] = "noting"
    /\ retry' = retry \ {job[r]}
    /\ pc' = [pc EXCEPT ![r] = AfterNote(r)]
    /\ UNCHANGED <<now, dbVars, charge, todo, job, outcome, seen, lost, resetAt>>

\* settle updates the retry map with the outcome.  The ending request is then
\* done; an admission goes on with its loop, or refuses after a failure.
Note(r) ==
    /\ pc[r] = "noting"
    /\ retry' = IF outcome[r] = "ok" THEN retry \ {job[r]} ELSE retry \cup {job[r]}
    /\ pc' = [pc EXCEPT ![r] = AfterNote(r)]
    /\ UNCHANGED <<now, dbVars, charge, todo, job, outcome, seen, lost, resetAt>>

-----------------------------------------------------------------------------
(* Dropped futures, the end of the process, the administrator, the clock.  *)

\* The charge a future owns while it settles the end of its own request.
OwnCharge(r) == IF pc[r] \in {"posting", "noting"} /\ job[r] = r THEN {r} ELSE {}

Started(r) == pc[r] \in {"retries", "checking", "posting", "noting", "running"}

\* The future is dropped where it awaits: a client that left during admission,
\* or a session dropped with its cleanup.
Drop(r) ==
    /\ Faults
    /\ Started(r)
    /\ lost' = lost \cup OwnCharge(r)
    /\ pc' = [pc EXCEPT ![r] = "dropped"]
    /\ UNCHANGED <<now, dbVars, retry, charge, todo, job, outcome, seen, resetAt>>

\* The process exits and starts again; the retry map is gone.
Restart ==
    /\ Faults
    /\ \E r \in Requests : Started(r) \/ r \in retry
    /\ lost' = lost \cup retry \cup UNION {OwnCharge(r) : r \in Requests}
    /\ retry' = {}
    /\ pc' = [r \in Requests |-> IF Started(r) THEN "dropped" ELSE pc[r]]
    /\ UNCHANGED <<now, dbVars, charge, todo, job, outcome, seen, resetAt>>

\* The update of reset_client_key_budget: nothing is used, and the start of a
\* running period moves to the reset.  A key without windows gets none.
ResetWindow(w, t) ==
    [start |-> IF Expired(w, t) THEN w.start ELSE t, end |-> w.end, used |-> 0]

ResetWindows(k, ps, t) ==
    [p \in Periods |-> IF p \in ps /\ k \in opened THEN ResetWindow(window[k][p], t)
                       ELSE window[k][p]]

\* reset_client_key_budget.  The clock is read under the row lock: the boundary
\* is later than every completed_at before it (timestamps have microseconds).
Reset(k, ps) ==
    /\ now < MaxTime
    /\ status[k] # "deleted"
    /\ now' = now + 1
    /\ window' = [window EXCEPT ![k] = ResetWindows(k, ps, now + 1)]
    /\ resetAt' = [resetAt EXCEPT ![k] = [p \in Periods |-> IF p \in ps THEN now + 1 ELSE resetAt[k][p]]]
    /\ UNCHANGED <<status, limits, opened, posted, retry, charge, futureVars, seen, lost>>

\* update_client_api_key_in_transaction leaves the windows alone.
SetLimits(k, l) ==
    /\ status[k] # "deleted" /\ limits[k] # l
    /\ limits' = [limits EXCEPT ![k] = l]
    /\ UNCHANGED <<now, status, opened, window, posted, retry, charge, futureVars,
                   seen, lost, resetAt>>

SetEnabled(k, s) ==
    /\ status[k] # "deleted" /\ status[k] # s
    /\ status' = [status EXCEPT ![k] = s]
    /\ UNCHANGED <<now, limits, opened, window, posted, retry, charge, futureVars,
                   seen, lost, resetAt>>

\* Deleting the key deletes its windows and its charge events with it.
DeleteKey(k) ==
    /\ status[k] # "deleted"
    /\ status' = [status EXCEPT ![k] = "deleted"]
    /\ opened' = opened \ {k}
    /\ posted' = {r \in posted : KeyOf[r] # k}
    /\ UNCHANGED <<now, limits, window, retry, charge, futureVars, seen, lost, resetAt>>

Tick ==
    /\ now < MaxTime
    /\ now' = now + 1
    /\ UNCHANGED <<dbVars, retry, charge, futureVars, seen, lost, resetAt>>

-----------------------------------------------------------------------------
RequestNext(r) ==
    \/ BeginAdmit(r) \/ NextRetry(r) \/ RefuseAdmit(r) \/ Admit(r)
    \/ Finish(r) \/ PostFails(r) \/ PostToDeletedKey(r) \/ Post(r) \/ Note(r)
    \/ Drop(r)

AdminNext(k) ==
    \/ \E ps \in {{"daily"}, {"weekly"}, Periods} : Reset(k, ps)
    \/ \E l \in Limits : SetLimits(k, l)
    \/ \E s \in {"enabled", "disabled"} : SetEnabled(k, s)
    \/ DeleteKey(k)

Next ==
    \/ \E r \in Requests : RequestNext(r)
    \/ \E k \in Keys : AdminNext(k)
    \/ Restart
    \/ Tick

Spec == Init /\ [][Next]_vars

-----------------------------------------------------------------------------
(* Properties.                                                             *)

Window == [start : Nat, end : Nat, used : Nat]

\* The shape of the state.
TypeOK ==
    /\ now \in Nat
    /\ status \in [Keys -> {"enabled", "disabled", "deleted"}]
    /\ limits \in [Keys -> Limits]
    /\ opened \subseteq Keys
    /\ window \in [Keys -> [Periods -> Window]]
    /\ posted \subseteq Requests /\ retry \subseteq Requests /\ lost \subseteq Requests
    /\ charge \in [Requests -> [amount : Nat, completed : Nat]]
    /\ pc \in [Requests -> Places]
    /\ todo \in [Requests -> SUBSET Requests]
    /\ job \in [Requests -> Requests]
    /\ outcome \in [Requests -> Outcomes]
    /\ seen \in [Requests -> SUBSET Requests]
    /\ resetAt \in [Keys -> [Periods -> Nat]]

\* What the events of the key add up to between the ends of a window.
SpentIn(k, w) ==
    MapThenSumSet(LAMBDA r : charge[r].amount,
                  {r \in posted : KeyOf[r] = k /\ Covers(w, charge[r].completed)})

\* A window that is still running shows exactly the charges of its key that
\* were completed inside it: none twice, none of another window, whatever
\* failures, retries, late settlements and resets came between.
UsageMatchesCharges ==
    \A k \in opened, p \in Periods :
        ~Expired(window[k][p], now) => window[k][p].used = SpentIn(k, window[k][p])

\* A charge that was handed to settle is never forgotten while the process
\* lives and the future is not dropped: it is in the ledger, kept for a retry,
\* or still with the future of its own request.  (The retry map is updated
\* after the transaction, and several admissions can retry the same charge.)
NoChargeForgotten ==
    \A r \in Requests :
        /\ pc[r] = "settled"
        /\ r \notin lost
        /\ status[KeyOf[r]] # "deleted"
        => r \in posted \cup retry

\* An admission is granted only when the charges of its key that were waiting
\* for a retry when it began are in the ledger, even if other admissions settle
\* or fail to settle the same charges meanwhile.
RetriesSettledFirst ==
    [][\A r \in Requests :
         pc[r] # "running" /\ pc'[r] = "running" => seen[r] \subseteq posted]_vars

\* It is granted only below every limit of the key, counting the charges of the
\* running windows themselves, those it found waiting included, and not what
\* the windows say was used.
AdmissionWithinBudget ==
    [][\A r \in Requests :
         pc[r] # "running" /\ pc'[r] = "running" =>
           \A p \in Periods :
             LET k == KeyOf[r]
                 known == {c \in posted \cup seen[r] :
                             KeyOf[c] = k /\ Covers(window'[k][p], charge[c].completed)} IN
             limits[k][p] # 0 =>
               MapThenSumSet(LAMBDA c : charge[c].amount, known) < limits[k][p]]_vars

\* What the code says of a reset: a charge completed before it is not counted
\* again in the period, even when it reaches the ledger later.
ResetForgetsEarlierCharges ==
    \A k \in opened, p \in Periods :
        ~Expired(window[k][p], now) =>
          window[k][p].used =
            MapThenSumSet(LAMBDA r : charge[r].amount,
                          {r \in posted : /\ KeyOf[r] = k
                                          /\ Covers(window[k][p], charge[r].completed)
                                          /\ resetAt[k][p] <= charge[r].completed})
=============================================================================
