# Codex Proxy RS: TLA+ models and proofs

Codex Proxy RS (`src/backend`) is a gateway in front of the OpenAI
and xAI coding services. Clients hold API keys of the gateway; the gateway holds
provider accounts, chooses one for each request, hides failures that are safe to
hide, streams the answer back, charges the key, and keeps a record of the request.
These modules model the parts of it whose correctness depends on the order in
which things happen.

## The system

A deployment is one gateway process (several may share the database) on a tokio
runtime, with PostgreSQL for durable facts
and Redis for coordination that may be lost. The crates are layers: `gateway-core`
(no I/O), `gateway-store` (PostgreSQL and Redis adapters), `providers/openai` and
`providers/xai`, `gateway-admin` (use cases of the console), `gateway-api` (HTTP,
SSE, WebSocket), `gateway-host` (workers, slots, updates) and the apps.

| component | state | operations | hard behaviour |
|---|---|---|---|
| Attempt coordinator (`core/engine/coordinator.rs`) | one session per request: current attempt, budgets, scope of the continuation, pins and exclusions, send watermark, commit, cost, terminal write | `start`, `next_event`, `collect_uncommitted`, `commit_downstream`, `cancel`, `cancel_and_finalize` | hidden replays against delivery; futures dropped at any await; cost of hidden attempts |
| Execution service (`core/engine/execution.rs`) | the admission lease, the settlement owed, the clean-up future | `start`, `next_event`, `finalize_detached`, `Drop` | exactly one settlement and one release, whichever of the callers, drops and errors comes first |
| Client admission (`store/redis/client_admission.rs`) | active leases and recent requests of a key | admit, release, restore, abandon | lost answers, expiry, an abandoned admit that arrives after its release |
| Concurrency wait queue (`core/concurrency.rs`) | tickets per key | enqueue, turn, retry, can_try, drop | lost wake-ups, barging, cancellation while waiting |
| Client budget ledger (`store/postgres/client_budgets.rs`) | windows of a key, settled events, unsettled charges in memory | admit, settle, reset | a settlement that fails and is retried, windows that move, concurrent requests |
| Execution buffer (`store/postgres/execution_buffer.rs`) | a bounded queue of observations | enqueue, writer, shutdown | the queue at its limit, failure of a batch, drain at shutdown |
| `model_requests` rows (`store/postgres/execution.rs`) | a row per request | create, attempts, send state, finalize, recover | late and repeated writes, recovery of rows whose process died |
| Runtime snapshot (`core/runtime/mod.rs`) | the published routing snapshot | publish, suspend, refresh, acquire | a refresh that races a newer commit, a lost notification |
| Credential leases (`store/redis/credential_leases.rs`) | leases with fences and expiry | acquire, renew, release | expiry while held, a stale holder |
| Credential cooldown, state, provider circuit, native continuation, session affinity, coordination buffer, OAuth pending (`store/redis`) | keys with expiry | read-modify-write scripts | stale writes, lost coordination data |
| OpenAI transport (`providers/openai/src/transport/websocket`) | connection pool, breaker, pump per connection | acquire, exchange, return, retire | connection reuse against failure, hand-over between tasks |
| Credential refresh (`providers/*/credential/refresh.rs`) | tokens and their revision | refresh, recover, publish | two refreshes of one token, a late answer |
| Host workers (`gateway-host/src/workers`), slots, system update | supervised tasks, containers, update state | start, restart, stop; reconcile; install, swap, roll back | a crash between two steps |
| Admin use cases (backup, import tasks, freeze recovery, accounts, keys, settings) | rows, tasks | create, claim, finish, expire | tasks cancelled or abandoned half way |
| API (`gateway-api`) | a connection and the session it drives | HTTP, SSE, WebSocket | a client that leaves at any time |

### How the components interact

A request enters through `gateway-api`, which asks the execution service for a
session. The service takes a slot of the client key: budget ledger, Redis script,
and, when the key has no slot, the waiting line until a slot is free (`Client
admission`, `Concurrency wait queue`). The session then drives the attempt
coordinator: each call of the API is one poll of a provider stream, and any of its
futures may be dropped when the client leaves. The coordinator writes the request's
row through the execution buffer, which is a queue and never makes it wait. When the
session ends, its clean-up first settles the charge with the ledger and then puts
the release of the slot into the queue of the coordination buffer; if the session is
dropped, the same clean-up runs in a task of its own. What a request may use (keys,
limits, accounts, models) comes from the runtime snapshot, which administrators'
commits, notifications and a periodic reconciliation refresh.

### What makes each component correct

- *Attempt coordinator*: an attempt is hidden from the client only when nothing of
  it was shown and its repetition was allowed; at most one attempt is ever
  delivered; every attempt's cost is charged exactly once; the outcome and the row
  never claim that less was sent upstream than was; a continuation stays with its
  owner; whatever is dropped, the session ends with one outcome.
- *Budget ledger*: a charge is counted once, in the window it was completed in,
  through failures and retries; a request is admitted only below the limits, all
  known charges counted.
- *Client admission and execution service*: no more requests run than the key has
  slots; a slot is given back after the charge is known and never kept by someone
  who is gone; the overspend of concurrent requests is bounded; every request ends.
- *Wait queue*: only the head of a line tries; no wake-up is lost; the bounds of a
  line and of all lines hold together.
- *Runtime snapshot*: after a refresh nothing older than the configuration of its
  beginning is served; a snapshot never mixes catalogs; reconciliation suffices to
  become current.
- *Execution buffer and rows*: whatever writes are lost, a row never says what did
  not happen, is opened once and closed once and for good; a failure counts as made
  up for by one later success; the slots of requests that were lost with their process
  are held again before the host serves.
- *Account leases and affinity*: no account runs more than it may; no lease is left
  behind; the first turns of a conversation meet on one account; no waiter is woken in
  vain or forgotten.
- *Credential refresh*: tokens that the upstream rotated are not lost while a refresher
  could store them; a verdict is written only on the credential it was observed of; an
  account whose refreshes fail beyond the recovery window is settled as such.
- *Capacity freeze*: a freeze that waits for a probe is lifted only by a probe begun
  after it was written, is always found by the recovery, and ends once the upstream has
  recovered and probes are not kept from succeeding by something else.
- *Connection pool and circuit*: a connection serves one exchange at a time, nobody who
  comes back late takes the slot of another, a lease that is dropped frees its slot, an
  opening tells those who joined it and the circuit that lets one probe through hears of
  it, and a shutdown ends with an empty pool.
- *Workers, update* (not modelled): one leader per task; after any failure or crash of
  an update a complete release is installed.

## Modules

| module | models | composed with |
|---|---|---|
| `ResponseSession` | what the store, admission and settlement rely on of a session: the abstract life of one | implemented by `AttemptCoordinator` and by the sessions of `ExecutionBuffer` |
| `AttemptCoordinator` | `engine/coordinator.rs`, one session with its request | implements `ResponseSession` (`IsAResponseSession` is a property) |
| `BudgetLedger` | `postgres/client_budgets.rs` and the limits and resets of `client_keys.rs` | - |
| `WaitQueue` | `concurrency.rs`, both as a specification of its own (`QueueSpec`) and as operators | used by `ExecutionAdmission` and `AccountAdmission`, which implement it |
| `ExecutionAdmission` | `acquire_client_admission`, the admission lease and the clean-up of `engine/execution.rs`; `redis/client_admission.rs`; the release queue of `redis/coordination_buffer.rs` | extends `WaitQueue`, which it implements (`QueueSpec` is a property) |
| `SnapshotPublisher` | `runtime/mod.rs`, the compilation of `routing/snapshot.rs`, the subscription and reconciliation workers | - |
| `ModelRequestRow` | the statements of `postgres/execution.rs` on a row of `model_requests`, as operators | used by `ExecutionBuffer` |
| `ExecutionBuffer` | `postgres/execution_buffer.rs`, the sessions that feed it, the recovery of expired rows, the end of the process and the restoration of its slots | extends `ModelRequestRow`, implements `RowLifecycle`; its sessions implement `ResponseSession` |
| `RowLifecycle` | what readers of `model_requests` rely on: the abstract life of a row | refined by `ExecutionBuffer` |
| `AccountAdmission` | `select_inner` of the credential selector, `redis/credential_leases.rs`, the session affinity | extends `WaitQueue`, which it implements (a theorem) |
| `TokenRefresh` | the refresh of an OAuth credential (`credential/refresh.rs`) with its leases, and every other writer of the credential's row | - |
| `CapacityFreeze` | `redis/credential_cooldown.rs`, the requests that report to it, the freeze recovery task, the administrator | - |
| `OriginBreaker` | the circuit of `transport/websocket/breaker.rs`, as operators | used by `ConnectionPool` |
| `ConnectionPool` | the pool, its leases, the calls and the tasks that open connections (`transport/websocket/pool`, `coordinator.rs`, `exchange/stream.rs`) | extends `OriginBreaker` |
| `MC...` | the values of the constants for TLC | extend their module |
| `..._proofs` | the theorems | extend their module; `OpenAiProvider_proofs` extends `TokenRefresh` and `ConnectionPool`, which share no variable, and `ExecutionAdmission_proofs` is also about `WaitQueue` |

Definitions keep the names of the code where they can, and `PROJECT.json` gives the
lines each one stands for. Operators introduced by a comment `Mutant` are wrong
variants of the definition they precede, named in `PROJECT.json`: put in its place,
each makes TLC refute the property it is listed with.

### AttemptCoordinator

One `ResponseExecutionSession`. Its variables are the fields of the session (grouped
as counters, scopes, budget, finalization and store), `pc` says at which await its
future is, and `log` is a history of the attempts for the properties. An API call is
a sequence of actions from `idle` to `idle`: `NextEvent`, `CollectUncommitted` and
`CommitDownstream` begin one; `BeginAttempt` and the `Execute...` actions are
`prepare_attempt` and the provider's answer; `StreamEvent`, `StreamEnds`,
`StreamFails` and `PollInterrupted` are the outcomes of the poll;
`WriteFinalization` is the terminal write. `Cancel`, `DeadlineElapses` and `Abandon`
(a dropped future) may come at every place, `DetachFinalize` is
`cancel_and_finalize`. `RetryKind` is the decision of `handle_stream_error`
between its gates (rotation, transport recovery, retries of one account), in the
order of the code; `DiscardAttempt` and `FailAttempt` are what follows from it.

Abstractions:
- The production store is the execution buffer: its writes never suspend and may be
  lost, so that a write is part of the action that makes it (`StoreFaults`).
- Waiting for a back-off and for the provider to answer is one wait.
- What a provider may yield or fail with is a parameter (`StreamErrors`): the
  combinations of send state, proof of safe replay, hint and continuation
  disposition that the adapters under `src/backend/crates/providers` produce.
- `record_client_status` and the outcomes reported to the circuit are left out. The
  account scope check and unregistered providers are failures of the kind `Other`.
- Only a diagnostic request gives an account (`execution.rs:815`); a scheduled one
  never does (`execution.rs:580`).
- The callers are those of `gateway-api`: a dropped poll cancels and detaches the
  session (`responses/http.rs:456`), and one that failed to start is dropped
  (`refused`). After a call that returned without finalizing only a cancellation
  and another event follow.

`ResponseSession` is the abstract specification: what a session has told of its attempts,
of what was sent, of the commit and of its end. Attempts begin one at a time until the
commit, the send state rises, a success was sent and committed, and after the end nothing
is told. `Tale` is what the coordinator tells: the counters and the watermark until the
terminal write was tried, and the outcome from then on; selection, pins, hidden failures,
the charge and a pending write do not show.

### BudgetLedger

Every transaction locks the row of its key first, so a transaction is one step:
`Admit`, `RefuseAdmit`, `Post`, `PostToDeletedKey`, `Reset`, `SetLimits`,
`SetEnabled`, `DeleteKey`. What the process does around it takes steps of its own:
`BeginAdmit` reads the retry map, `NextRetry` takes up the next charge, `PostFails`
is a failed transaction or a commit whose answer was lost, `Note` updates the map.
`Drop` and `Restart` lose what only memory held (`lost`). A reading of the clock is
taken under the lock; a refused admission rolls its advanced windows back. A day has
`DayTicks` ticks and a week `WeekTicks`. Weekly windows restart with the day of
their next use, so a charge of a day between two windows that is settled late
belongs to none; `UsageMatchesCharges` says what belongs to which.

### WaitQueue

A ticket is a number in the order of the `VecDeque`; a line is the set of tickets of
a key. `turn` is a future of several polls: `Register` stores the waker, `Check`
looks at the line under the lock, `WakeUp` is the runtime polling again after a
wake, `TimeOut` the deadline. `Leave` (the drop of a ticket) takes the lock, and
`WakeNext`, a step later, wakes the new head. A poll is synchronous, so no ticket is
dropped in the middle of one; polls nobody asked for change nothing and are left
out. `Enqueue` chooses the shortest of the lines offered; `CanTry` is the question a
newcomer asks. The line on its own (`QueueSpec`) lets its users wait and leave
whenever they like.

### ExecutionAdmission

A request asks (`Ask`), its command is executed at some later time (`RedisAdmit`) or
not at all, and the answer comes back or does not (`NoAnswer`). Refused for
concurrency, it checks its budget, waits in the line and asks again as its head.
Granted, it checks its budget again and runs. `Finish` and `Settle` are the
clean-up: the charge, then the release. `Drop` is a caller that goes away at any
place; an armed lease gives its slot back. `GiveBack` is the release queue, which is
bounded and drops what it cannot hold; `RedisRelease` and `ReleaseFails` are its
writer.

Assumptions: admissions and releases share one connection and Redis executes its
commands in order, so a release never overtakes its own admit (a reconnection
between the two is excluded). The TTL of a slot is the time left to the request, so
a slot expires only after the deadline (`over`); the minute of the rate limit is the
set `recent`, from which a request disappears at any time after 60 seconds
(`Ages`). The ledger is abstract: a charge is known once it is posted or in the
retry map, which is what `NoChargeForgotten` (a property of the runs) and
`RetriesSettledFirst` (a theorem) of `BudgetLedger` establish. The end of the process
and the restoration of its slots at the next start are in `ExecutionBuffer`.

### SnapshotPublisher

Each task of a process (the boot, the subscription, the reconciliation, calls of
administrators) runs a refresh, one action per await: `Enter` takes
`refresh_lock`, `Check` reads the revision, `ReadFacts` and `ObserveRevision` load
the facts, `QueryCatalogs` and `CompareCatalogs` are the stability loop of the
compilation. Each may fail (`MaxFaults`), and a failed refresh suspends the snapshot
or keeps it as the code decides. `DropCall` drops an administrator's handler whose
client disconnected, `Restart` begins a new process with its first compilation,
`Restore` puts an older database in place. Notifications carry a revision nobody
reads, so the inbox is a flag. A configuration is its revision; the catalogs of a
process have one generation, and a snapshot's content is the set of generations its
catalogs were read in.

Processes share only the database and the notifications. TLC has one; the theorems
hold for any set of processes and tasks. After a `Restore` no commit follows, so
that a revision names one configuration: the code compares revisions, and two
configurations of one number are beyond what it distinguishes.

### ModelRequestRow, ExecutionBuffer and RowLifecycle

`ModelRequestRow` gives each SQL statement as an operator from a row to a row, its
`WHERE` clause as a condition under which the row stays as it is. `Finalize` is the
only statement that touches several rows: the request that ends may count as the
recovery of an earlier failure of its conversation.

In `ExecutionBuffer` the sessions (`Start`, `BeginStream`, `ObserveSend`,
`CommitDownstream`, `EndSession`) are a summary of `AttemptCoordinator`: what a session
knows only grows, and each step hands one write to the queue. A write is dropped when
the channel is full or closed; `Persist` applies the head of the queue and
`PersistFails` loses it. `CloseQueue` and `GoDown` are the shutdown with its limited
drain, or a crash; `StartUp` and `Restore` the two steps of
`restore_client_admission_startup`; `RecoverExpired` the periodic task, `SlotExpires`
the TTL in Redis. That the summary tells nothing a response session would not is the theorem
`SessionsImplemented`. It is narrower than the coordinator in two places: it commits only
what is known to be sent, and nothing is sent before an attempt. The coordinator may end
with a send state above `NotSent` and no attempt, when a provider fails to begin; no row is
created then, which is a lost `create` here.

Abstractions: the byte budget of the queue drops a write as a failed write does; taking
a write and persisting it is one step; a drain that runs out of time is `GoDown` with
what is left in the queue; the client status, the number of recovery attempts, the
retention of old rows and the restoration of the minute limit are left out; all requests
are of one key and one conversation.

`RowLifecycle` is the abstract specification: a story per request with a phase, marks
that only grow, and whether a failure was made up for. `ExecutionBuffer` maps its rows
to stories (`StoryOf`); `RowsHaveALifecycle` says that the mapped rows satisfy
`RowLifecycleSpec`, including that an opened row is closed in the end.

### AccountAdmission

A request loads the accounts it may use (`Load`, which stands for the reads of
selection: status, binding, leases in use), takes the bound account or one of the free
ones (`Choose`), asks Redis for a lease (`RedisAcquire`) and, when it has one, claims the
conversation for its account if it is the first turn. When no account is free it waits
in the shortest line among those of its accounts, and starts again when it is woken.
`Release` is the guard that is dropped; its command may fail, and then the lease
lasts until its deadline.

Abstractions: the ranking of candidates is open (any permitted account may be chosen);
the three reads of `Load` are one step; the minimal interval between requests is zero;
bindings do not expire and a session inherits none from its root; exclusions are part of
the accounts a request may use (`Scope`); the completion of a request and the end of its
lease are one step; the TTL of a lease is the deadline of its request (both are 10
minutes in the code, so no lease of a request that goes on expires). Requests outside
`Frail` meet no fault and no deadline, so that being served can be asked of them.

### TokenRefresh

One credential. The upstream side is the set of tokens it honours (`live`), the row has
a revision and the tokens, a status and the time of the next refresh. Scheduled cycles,
manual refreshes and requests of the administrator run concurrently, one action per
await: list, lease, load, exchange, persist, release, with their failures. Everything
else that writes the row is there as well: cookies captured from an answer, a 401 or a
deactivation seen by an inference request, a success that restores the account, new
authorization, disabling and recovery by the administrator.

The age of the access token is that of its expiry: fresh, due, late, exhausted (beyond the
recovery window) or unknown. What a refresh stores (`StoredAges`) is the expiry of the new
access token, or unknown if it cannot be read; the upstream may also answer without an
access token, and `persist_success` then keeps the expiry it loaded (`refresh.rs:447-450`)
and writes the row ready all the same. A credential from a login or pasted by the
administrator may have any age.

Abstractions: the revision is an identity and not a counter, and an update under a
revision that moved changes nothing, as in the SQL; the instants of an observation and
of its write are one; every credential has a refresh token (one pasted without it is
never refreshed); a new access token whose expiry can be read is fresh; the upstream rotates a refresh token at each use and revokes
nothing on its own; the back-off counter is left out (any delay is possible); both leases
are outlived together; one account. New grants, captures, lost answers, deaths of a
refresher, failed releases and outlived leases are bounded by `MaxEvents` each.

### CapacityFreeze

The cooldown of one account is a hash with an expiry, an index by time and a counter of
failures; `WRITE`, `READ`, `SUCCESS` and `FINISH_FREEZE` are one step each, since Redis
runs a script alone. Requests send, are limited, meet a lack of capacity, write and
succeed (`Send`, `RateLimited`, `CapacityFailure`, `Put`, `Succeed`, ...), the recovery
cycle loads its policy, lists the index, examines, probes, lifts or postpones, and may be
cut short at every await (`Abort`). A probe succeeds only while the upstream has capacity
and may fail at any time: no model to probe with, a test that cannot start and any failed
event postpone as a lack of capacity does (`freeze_recovery.rs:188-217`, `294-304`); outside are the administrator, the policy, the
credential's revision, the upstream's capacity, and the clock.

Abstractions: a point in time is the number of ticks left until it; the generation of a
freeze (a UUID in the code) is a number nothing else holds; the cached policy is any
policy; a switched-off policy leaves a freeze to its end; the peak of requests in flight
with the adaptive limit, cooldowns of single models and the unused `clear` script are left
out. A cooldown that cannot be read counts as none, as in the code.

### ConnectionPool and OriginBreaker

A slot of the pool is idle with a connection, busy with a reservation, or connecting. A
call (`Acquire`) reuses, joins or reserves; `AcquireExact` takes the connection of an
earlier response and opens none. `StartConnect` asks the circuit and starts the task,
which goes on by itself: `Connected`, `ConnectFails`, `ConnectCancelled`, `CleanUp`,
`HandOver`. `Miss` is a call that does not wait beyond its 800 ms, `Drop` one whose future
is gone, `EndExchange`, `Complete` and `Return` the stream task. `Evict`, `Maintain` and
the three steps of a shutdown take slots from their holders (`TakeSlots`), who find out
by the identity of their reservation. Every method of the pool runs under its mutex and is
one step; the steps are where the code awaits or another task may come in.

Abstractions: a reservation is named by its connection and a connect lease by its task,
in place of their UUIDs; `revoked` is a history. Response ids, tombstones (which word a
refusal) and calls without a pool are left out; the keys are those of one conversation
and account; an opening never reaches `max_age`, because it ends in 15 seconds. A
connection's pump can end while the connection is idle; with a call it is one more way for
the exchange to end.

## What TLC checks

| run | instance | distinct states | shows |
|---|---|---|---|
| `ac_replay` | scheduled and diagnostic new chains, 3 attempts, 1 transient retry, lost writes | 3.3 M | which failures are replayed and how often; nothing delivered is replayed; the charge is exact; outcome and row agree with what was sent; the outcome is frozen once the terminal write is owned; the session implements `ResponseSession` |
| `ac_live` | any request incl. pinned and external continuations, 2 attempts, transport retry and fallback | 0.8 M | calls return, abandoned sessions are finalized; the owner of a continuation is kept |
| `bl_faults` | 2 requests, failures, restarts, limits that change, 4 ticks | 2.5 M | the used amounts are the sums of the charges; nothing is forgotten; admissions stay below the limits |
| `ea_faults` | 3 requests, one of them frail (its commands, answers, caller and deadline may fail it), 1 slot, 1 a minute, budget 1, a line of 2 | 0.3 M | slots, overspend, no slot left behind, first come first served, everyone else in the line is served, every request ends, the line is used as `QueueSpec` says |
| `sp_converge` | 1 process, 4 tasks, 3 revisions, 2 generations, 1 fault, 1 restart | 0.9 M | nothing stale after a refresh, no mixed catalogs, convergence |
| `eb_rows` | 2 requests of a conversation, a queue of 2, lost writes, 1 restart | 1.0 M | rows tell the truth, a failure is made up for once, lost requests hold their slots, rows implement `RowLifecycle` with its liveness |
| `aa_accounts` | 3 requests (a conversation, another, a pinned one that fails in every way), 2 accounts of one lease, 1 change of status | 0.4 M | lines stay bounded, no lease left behind and no account above its limit, turns of a conversation share the account, no lost wake-up, the others are served |
| `tr_refresh` | a cycle, a manual refresh and a request, 2 at once, 3 credentials, 1 fault of each kind | 0.7 M | tokens kept, no verdict on another credential, an exhausted account is settled unless refreshes keep bringing no access token |
| `cf_freeze` | 1 request, 1 recovery cycle, threshold 2, 2 revisions, 1 abort | 1.2 M | who may lift or replace a freeze, that it is found, that it ends unless probes keep failing for other reasons than capacity |
| `cp_pool` | 2 calls, 1 key, 2 tasks of which 1 may connect, 2 connections, a circuit of 2 failures, a shutdown | 0.25 M | slots and leases agree and a connection has one user; calls, openings, probes and the shutdown end |
| `bl_reset`, `ac_pinned_excluded` | small | < 2 k | counterexamples, see *Findings* |

`TypeOK` is not among the properties of the runs; where a module has proofs, it is proved
(below).

The accounts of the coordinator are three over two providers, so that a rotation within
a provider and one to another exist. Three attempts allow a replay of a replay; one
transient retry and one transport retry are enough to reach their limits and the step
beyond. Two days of two ticks and a week of four let a charge be settled in its window,
in the next one and after a weekly restart. Three requests for one slot give a holder, a
head and one behind it, or two waiters and a newcomer; one of them is frail, in every
place in turn, and the other two must be served in spite of it. In `eb_rows` the queue
of two overflows, the chain breaks after two attempts, and the other request may succeed
or not, before or after the restart. In `aa_accounts` the pinned request holds what others
need, and the account that changes is one of two. In `tr_refresh` a lease can be outlived
while its holder exchanges, so that two refreshers use one token. In `cf_freeze` a request
writes twice in a cycle's life: the freeze, and what replaces it. In `cp_pool` one call
can lose its slot while another opens a connection for the same key, so that the first
returns to a slot it does not own, and a call can join an opening that fails, is cancelled
or outlives the call that started it. Tickets
(`MaxTickets`), the clock (`MaxTime`), revisions, generations, faults and restarts are
bounded in guards; `MaxTickets` never binds where each request draws at most one.
`MaxStability` is 2 where the code has 4: one failed comparison and one after which the
loop gives up.

`cf_freeze` checks for deadlock: its clock and its cycle never stop. The other runs do
not, because sessions, requests and processes really end and bounded clocks, tickets and
revisions stop; that nothing waits forever is what their liveness properties say.

### Fairness

- `AttemptCoordinator`: a task that can run runs, and timers fire. A provider need
  never answer (the deadline ends the call), a client need never call again.
- `WaitQueue`: timers fire and woken tasks are polled; nobody has to wait or leave.
- `ExecutionAdmission`, `TimelySpec`: tasks run, commands are executed or fail,
  deadlines pass and TTLs end. A running request ends: a frail one at its deadline, the
  others because theirs, which is not modelled, bounds them too.
- `ExecutionBuffer`: deadlines pass, the recovery task runs, and a process that went
  down is started again. Nothing is assumed of the writer: it may lose every write.
- `AccountAdmission`: tasks run, commands to Redis are executed, requests end, releases
  succeed or fail, and leases expire.
- `TokenRefresh`: a refresher goes on, and a lease nobody holds any more expires.
  Nothing is assumed of what the token endpoint answers; that it does not answer without
  an access token forever is a condition in `ExhaustedSettled` itself.
- `ConnectionPool`: tasks run, an opening ends by its time limit and an exchange by its
  idle limit or the deadline of its request, and a shutdown that began goes on. Nobody has
  to call, to be dropped or to shut down, and no time limit of 800 ms has to strike.
- `CapacityFreeze`: time passes, and the recovery cycle goes on and comes round again
  every 30 seconds; it may be cut short `MaxAborts` times. Probes need not succeed: the
  condition of `FreezeEnds` names the upstream's capacity, the enabled account, and that
  probes do not fail again and again with capacity there, which the code does not bound.
- `SnapshotPublisher`: refreshes go on, and the reconciliation worker comes round
  again (`gateway-host/src/workers/mod.rs`). Notifications may all be lost.

All of it is weak fairness, of single actions or of whatever step a task takes next: the
tokio scheduler, its timers and supervised periodic workers give that. Where something
happens once and for all, its liveness is stated as what holds from some time on
(`RequestsEnd`, `RowsClose`), which says the same as a leads-to and is checked faster.

### Findings

1. `ac_pinned_excluded`: a failure of a continuation replay can exclude the failed
   account (`prepare_continuation_retry`) and pin it for a retry of the transport or
   a recovered credential in the same handler (`coordinator.rs:1311`). The next
   attempt then requires an account it excludes and ends the request, although
   another account was free.
2. `bl_reset`: a reset of a period that is over but not yet rolled over leaves its
   start alone (`client_budgets.rs:59`), and a charge completed before the reset is
   counted after it, against the comment in line 55 and `docs/architecture.md:421`.

### Observations

Met while modelling, visible in the modules, without a run of their own:

- A refresh loads the credential before it takes its leases and does not look at the
  revision again before the exchange (`refresh.rs`). When the row is deferred or captures
  cookies in between, the exchanged tokens cannot be stored (`Stale` in `TokenRefresh`) and
  only the recovery log has them. Cookie captures advance the revision outside the lease.
- `docs/api.md:753` allows a terminal state only after an explicit permanent error of an
  OAuth refresh; a 401 of an inference request writes `Expired`
  (`credential/selector.rs:936-968`), the quota task writes `Banned`
  (`quota/mod.rs:883`), and repeated transport failures of a refresh write `Expired`
  (`refresh.rs:295-328`).
- Recovering an enabled account whose access token has expired removes the expiry, after
  which no refresh is scheduled for it.
- A 429 observed under a newer credential revision replaces a freeze that waits for a
  probe, even by an earlier end. `docs/architecture.md:501-502` says that the success of
  an inference cannot lift such a freeze and that results of probes are applied per
  generation; it says nothing of a newer revision. `FreezeHolds` allows the replacement.
- An account stays frozen as long as its probe fails for any reason, for example while
  no model can be found to probe with (`freeze_recovery.rs:188-192`).
- A refresh that is answered without an access token counts as a success, whatever the
  age of the access token that is kept: an account beyond the recovery window stays ready
  and is refreshed again and again (`refresh.rs:447-450`, `477-479`).
- In the 60 seconds after its end a freeze without a probe still refuses a rate limit
  until a read removes it.
- A cooldown whose read fails counts as none (`selector.rs:421`), so a frozen account can
  be selected.
- The WebSocket stream forwards the completion to the client before it returns the
  connection (`exchange/stream.rs:321-344`), and the busy slot still carries the response
  id before that one. A continuation that arrives at once is told
  `ContinuationNotFound` instead of busy.
- `CodexWebSocketPool::shutdown` has no caller outside tests; the process ends without it.
- A dropped lease, an eviction and a stale reservation leave no tombstone, so that a later
  exact continuation learns less than after a lost connection.
- The documentation of `with_pre_delivery_transport_fallback` (`error.rs:586`) says the
  fallback is refused to continuations, given accounts and beyond the budget; the gate
  (`coordinator.rs:1217-1235`) looks at none of these.
- An update renames the binary and the web assets one after the other
  (`system_update/swap.rs:53`), so that a crash between the two leaves a mixed release.

## What TLAPS proves

The theorems hold for all values of the constants that satisfy the named assumption
of their module (`ConstantsAssumption`,
`InputsAssumption`, `LedgerAssumption`, `QueueAssumption`,
`AdmissionAssumption`, `BoundsAssumption`, `NamesAssumption`, `BufferAssumption`,
`RefreshAssumption`, `FreezeAssumption`, `AccountAssumption`, `BreakerAssumption` and
`PoolAssumption`), which TLC evaluates in every run of
a module that has them. Each module proves that an invariant
is inductive, one lemma per action or per group of actions, and draws its theorems from
it. Every invariant and every safety action property of the runs is stated by one.

- `AttemptCoordinator_proofs`: `IInv` is the types, `Ownership` (which fields of the
  session are set at which place: who owns the current attempt, the pending
  delivery, the result) and `CommittedIsFinalAttempt`. Alone the latter is not
  inductive: nothing would say that no attempt is being prepared while a delivery is
  pending. From it follow `TypeCorrect`, `CommittedFinal` and `NoReplay`. `HInv` adds what
  ties the history of the attempts to the session: the last entry is live exactly while
  the session owns its stream (`History`), which three actions write (`LogStep`) and all
  others leave alone (`QuietStep`); the watermark covers every entry and the outcome the
  watermark (`Covered`, by `ResultStep`); a row without attempts is closed (`RowInv`, by
  `RowStep`); the counters count the history (`RetriesCounted`); the scope of the
  continuation is that of the entries (`ContinuationScopeInv`). From it follow
  `ReplaysJustified`, `OutcomeCovers`, `RowsFaithful`, `RetriesBounded` and
  `ContinuationKept`, and from `FrozenStep` `OutcomeIsFrozen`. `ChargeExact` rests on the
  counters as well: what the session has spent is a recursive function over the history
  (`SpentUpTo`), and an entry that is added or closed changes it by its own charge.
  `SessionImplemented` is the refinement: `Spec` implies `ResponseSession` under `Tale`.
  It needs that an outcome is one, and a success only of what was sent and committed, and
  that a stream or a failure is had of an attempt (`Tells`). Before the outcome a step
  changes one of the attempts, the watermark and the commit (`TellingStep`); then only the
  terminal write tells something (`EndingStep`).
- `BudgetLedger_proofs`: `IInv` is the types and `Kept`: a future's job and to-do
  list are of its own key, a job that reports success is posted, a finished charge is
  posted, in the map, at hand or given up, and what an admission saw is posted, still
  to be done, or the reason it will fail. From it follow `TypeCorrect`,
  `ChargesKept` and `RetriesFirst`. `LInv` adds `UsageMatchesCharges` with
  what it needs: the cost of what is settled, waits to be or is being settled is fixed
  (`ChargesFinal`), and a window ends at the beginning of a day, after every charge of its
  key in the ledger, so that one that begins when it is over has none (`WindowsOpen`).
  The sums are folds over finite sets, characterised by `SumEmpty`, `SumAdd` and `SumSame`.
  From it follow `UsageCorrect` and `AdmissionWithin`.
- `ExecutionAdmission_proofs`, the line: `IInv` is the types with `total` as the
  cardinality of the tickets, the order of tickets and of those that try (`Ordered`), and
  the bounds. From it follow, for `QueueSpec`, `TypeCorrect`, `Bounded`, `HeadsTry` and
  `WakeupsKept`, the latter because whoever leaves the front holds the number of the next
  head until it has woken it. Its users: `SlotInv` is the types and a protocol per request
  (idle, asking, holding, leaving: when its cleanup is armed, its command on the way,
  its slot held). From it follow `StateTyped`, `SlotsReturned`, `RunningBounded`
  (with the slots of Redis bounded by the script) and `OverspendBounded` (what is
  spent plus what may still be charged by those that passed the check). `LineUsed`
  shows, action by action, that the steps on the line are steps of `QueueSpec` or
  leave it alone; `ServedInOrder` rests on the order of what newcomers saw.
- `SnapshotPublisher_proofs`: `Inductive` adds mutual exclusion (`OneInside`), that a
  refresh has read nothing older than what was current when it began or than what an
  earlier one confirmed (`ReadsConfirmed`), and the order of generation and query
  (`QueriesInOrder`). From it follow `TypeCorrect`, `NeverStale` and `NeverMixed`,
  for any number of processes, administrators and faults.

- `ExecutionBuffer_proofs`: `IInv` adds two facts about the queue to the properties. Each
  queued write is true of its session (`QueueTrue`: it tells no more than the session
  knows, and a finalization tells all), and the send states on their way to a row rise
  from what the row says now (`SendsRise`), without which a late mark could lower a row.
  From it follow `TypeCorrect`, `RowsTellTheTruth`, `RecoveredOnce`, `SlotsRestored`, and
  `RowsImplementLifecycle`: `Spec` implies the safety part of `RowLifecycle` under the
  mapping of the rows, step by step (`PersistMaps`, `RecoveryMaps`; all other steps
  stutter). `SessionsImplemented` says the same of the sessions and `ResponseSession`: with
  `SessionsSound` (what is committed was sent, what was sent is an attempt's) every step of
  a session is one of the abstract session, and a process that goes down falls silent.
- `AccountAdmission_proofs`: `AccountInv` is the types, `OwnLease` (what a request at each
  place has of a lease, a command on its way and an answer) and `OwnTurn` (what it believes
  of the binding). `LimitInv` adds that a request that goes on has its lease in the set of
  its account (`Entitled`) and that a set is never larger than the limit (`RoomKept`); the
  requests of an account inject into its leases (`UsersCounted`). From them follow
  `LeasesMatch` and `FirstTurnsMeet`. `AccountLinesUsed` says that `Spec` implies
  `QueueSpec`, so that `Bounded`, `WakeupsKept` and `HeadsTry` hold of the selection.
  `AccountTypes` is `TypeOK`; of the lines it needs that `total` is the number of tickets
  and that nobody outside of a line has one (`LinesTyped`).
- `OpenAiProvider_proofs`, the refresh: for the verdicts, `CurrentViews` (what a refresher
  or a request believes current is the credential it saw). For the tokens, the leases
  exclude (`LeaseExclusive`), who works holds one (`LeasedHeld`), and the live tokens are
  where the property looks for them (`TokensLive`). From them follow `TypeCorrect`,
  `NoStaleVerdictHolds` and `TokensKeptHolds`.
- `OpenAiProvider_proofs`, the pool: `SharedInv` is the types with the shape of slots, calls
  and tasks, and `LeaseInv`: no two slots, calls or tasks have one connection, and an idle
  one nobody; a busy slot has a holder (`Reserved`); and who holds a connection or a connect
  lease has the slot, unless the pool took it away (`CallEntitled`, `TaskEntitled`,
  `LeaseEntitled`). From it follow `PoolTypeCorrect` and `SlotsMatch`. Two theorems state
  the safety behind `PoolSettles`: `ProbeTells` (a half-open circuit has a probe under way,
  whose task tells the circuit even when it is cancelled) and `StaysDrained` (nothing
  enters the pool after the drain of a shutdown, and nothing is in use once it has
  stopped).
- `CapacityFreeze_proofs`: `IInv` adds that a generation belongs to one kind of cooldown
  and that a cycle which is about to decide on the freeze in force began its probe since
  it was written (`Views`). From it follow `TypeCorrect`, `FreezeStaysFindable` and
  `FreezeHoldsAlways`, for any number of requests and cycles; that a new generation always
  exists is a pigeonhole argument over the finite set of cycles.

Only model-checked is all liveness (`CallsReturn`, `RequestsEnd`, `WaitersServed`, `Converges`, `FreezeEnds`, `PoolSettles`, `ExhaustedSettled`
and the liveness of `RowsHaveALifecycle`), because neither fairness nor ENABLED is within
the prover's reach. `ProbeUnderWay` and `DrainedForGood`, the properties of `ProbeTells` and
`StaysDrained`, are in no run; the liveness that `cp_pool` checks depends on them.

## Plan

Done, in this order because they decide what a client gets, pays and may use, and then
what survives failures: `AttemptCoordinator` with `ResponseSession`, `BudgetLedger`,
`WaitQueue` with `ExecutionAdmission`, `SnapshotPublisher`, `ExecutionBuffer` with
`ModelRequestRow` and `RowLifecycle`, `AccountAdmission`, `TokenRefresh`, `CapacityFreeze`, `ConnectionPool`
with `OriginBreaker`. Left:

1. `WorkerSupervisor`: leases and their renewal against a running cycle, restart with
   back-off, shutdown.
2. `ReleaseSwap`: the renames of an update and a rollback with a crash between any two.
3. `ImportTasks` and the backup tasks; the provider circuit with its feedback queue; the
   xAI credentials as an instance of `TokenRefresh`.
4. Account selection as pure operators against a reference definition.

Proofs left: none of what the runs state; the new modules come with theirs.

## Not modelled

Parsing and formatting of protocols, profiles and prices, HTTP and SQL themselves,
read-only queries, authentication of the console, the OAuth exchange, containers, the
front end, and the components `PROJECT.json` lists as `not_modelled` with their
reason. Caches that may be lost at any time (native continuation, circuit) are left to the choices
of their users: the coordinator takes any account that may be chosen. One listed hazard has
no property yet, the renewal of a worker's lease against its running cycle
(`workers/mod.rs:502`). Two more are outside the models: the feedback to the circuit that
a dropped call loses (`execution.rs:1214`) and a restored database that reaches an old
revision number with another configuration (`runtime/mod.rs:357`). `PROJECT.json` lists
the hazards.
