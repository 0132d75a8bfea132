-------------------------- MODULE SnapshotPublisher --------------------------
(* Publication of the runtime configuration (gateway-core runtime/mod.rs   *)
(* and routing/snapshot.rs): every gateway process compiles a snapshot     *)
(* from the configuration PostgreSQL holds and from the model catalogs of  *)
(* its providers, and serves requests with it until it is replaced or      *)
(* suspended.  A refresh is asked for by an administrator's commit, by a   *)
(* notification, which can be lost, and by the reconciliation worker.      *)
(*                                                                         *)
(* A configuration is identified by its revision.  The awaits of a refresh *)
(* are the places where other tasks, other processes and failures come in. *)
EXTENDS Naturals

CONSTANTS
    Processes,
    Admins,         \* administrator calls a process can have at the same time
    MaxStability,   \* MAXIMUM_CATALOG_STABILITY_ATTEMPTS
    MaxRevision,    \* bound of the commits
    MaxGeneration,  \* bound of the changes of a process's catalogs
    MaxFaults,      \* bound of failed store calls and invalid data
    MaxRestarts,    \* bound of process restarts
    NoTask

Boot == "boot"
Subscription == "subscription"
Reconciliation == "reconciliation"

Tasks == Admins \cup {Boot, Subscription, Reconciliation}

ASSUME BoundsAssumption ==
    /\ MaxStability \in Nat \ {0}
    /\ {MaxRevision, MaxGeneration, MaxFaults, MaxRestarts} \subseteq Nat

ASSUME NamesAssumption ==
    /\ Admins \cap {Boot, Subscription, Reconciliation} = {}
    /\ NoTask \notin Tasks

VARIABLES
    persisted,   \* runtime_settings.config_revision
    restored,    \* the database was replaced by an older one
    generation,  \* catalog_generations() of each process
    snapshot,    \* RuntimeSnapshotHandle.current
    lock,        \* the task that holds refresh_lock
    pc, work,    \* where each task is, and its local variables
    inbox,       \* a notification waits in the subscription
    confirmed,   \* the newest revision that was current before a refresh that is over
    faults, restarts

vars == <<persisted, restored, generation, snapshot, lock, pc, work, inbox, confirmed,
          faults, restarts>>
external == <<persisted, restored, generation, restarts>>

\* No snapshot is published: revisions begin with 1.
NoSnapshot == [revision |-> 0, generation |-> 0, content |-> {}]

NoWork == [changed |-> TRUE, began |-> 0, revision |-> 0, generation |-> 0,
           content |-> {}, tries |-> 0]

Alive(p) == pc[p][Boot] = "idle"

Init ==
    /\ persisted = 1
    /\ restored = FALSE
    /\ generation = [p \in Processes |-> 0]
    /\ snapshot = [p \in Processes |-> NoSnapshot]
    /\ lock = [p \in Processes |-> Boot]
    /\ pc = [p \in Processes |-> [t \in Tasks |-> IF t = Boot THEN "reading" ELSE "idle"]]
    /\ work = [p \in Processes |-> [t \in Tasks |-> NoWork]]
    /\ inbox = [p \in Processes |-> FALSE]
    /\ confirmed = [p \in Processes |-> 0]
    /\ faults = 0
    /\ restarts = 0

-----------------------------------------------------------------------------
(* What asks for a refresh.                                                *)

\* An administrator's transaction commits, and publish_committed is called.
Commit(p, a) ==
    /\ Alive(p)
    /\ pc[p][a] = "idle"
    /\ ~restored /\ persisted < MaxRevision
    /\ persisted' = persisted + 1
    /\ pc' = [pc EXCEPT ![p][a] = "locking"]
    /\ UNCHANGED <<restored, generation, snapshot, lock, work, inbox, confirmed, faults, restarts>>

\* The subscription has a notification; its revision is not looked at.
Notified(p) ==
    /\ Alive(p)
    /\ pc[p][Subscription] = "idle"
    /\ inbox[p]
    /\ inbox' = [inbox EXCEPT ![p] = FALSE]
    /\ pc' = [pc EXCEPT ![p][Subscription] = "locking"]
    /\ UNCHANGED <<external, snapshot, lock, work, confirmed, faults>>

\* A cycle of the reconciliation worker.
Reconcile(p) ==
    /\ Alive(p)
    /\ pc[p][Reconciliation] = "idle"
    /\ pc' = [pc EXCEPT ![p][Reconciliation] = "locking"]
    /\ UNCHANGED <<external, snapshot, lock, work, inbox, confirmed, faults>>

\* publish_snapshot_revision: whoever is subscribed at that time may get it.
Notify(p, a) ==
    /\ pc[p][a] = "notifying"
    /\ pc' = [pc EXCEPT ![p][a] = "idle"]
    /\ \E reached \in SUBSET Processes :
         inbox' = [q \in Processes |-> inbox[q] \/ (q \in reached /\ Alive(q))]
    /\ UNCHANGED <<external, snapshot, lock, work, confirmed, faults>>

-----------------------------------------------------------------------------
(* refresh_with_mode, under refresh_lock, and compile.                     *)

Began == [NoWork EXCEPT !.began = persisted]

\* Mutant: the lock is not taken before the facts are read.
EnterUnlocked(p, t) ==
    /\ pc[p][t] = "locking"
    /\ lock' = [lock EXCEPT ![p] = t]
    /\ pc' = [pc EXCEPT ![p][t] = IF t = Reconciliation THEN "checking" ELSE "reading"]
    /\ work' = [work EXCEPT ![p][t] = Began]
    /\ UNCHANGED <<external, snapshot, inbox, confirmed, faults>>

\* refresh_lock.lock(): RefreshMode::Reconcile looks at the revision first.
Enter(p, t) ==
    /\ pc[p][t] = "locking"
    /\ lock[p] = NoTask
    /\ lock' = [lock EXCEPT ![p] = t]
    /\ pc' = [pc EXCEPT ![p][t] = IF t = Reconciliation THEN "checking" ELSE "reading"]
    /\ work' = [work EXCEPT ![p][t] = Began]
    /\ UNCHANGED <<external, snapshot, inbox, confirmed, faults>>

\* The end of a refresh: the lock is released, an administrator's call goes on
\* to the notification, and a process whose first compilation failed is started again.
Leave(p, t, s) ==
    LET again == t = Boot /\ s = NoSnapshot IN
    /\ snapshot' = [snapshot EXCEPT ![p] = s]
    /\ lock' = [lock EXCEPT ![p] = IF again THEN Boot ELSE NoTask]
    /\ pc' = [pc EXCEPT ![p][t] = IF again THEN "reading"
                                  ELSE IF t \in Admins THEN "notifying" ELSE "idle"]
    /\ work' = [work EXCEPT ![p][t] = NoWork]
    /\ confirmed' = [confirmed EXCEPT ![p] =
                       IF work[p][t].began > confirmed[p] THEN work[p][t].began
                       ELSE confirmed[p]]
    /\ UNCHANGED <<external, inbox>>

\* A failed compilation suspends new requests unless only the catalogs changed.
Failed(p, t) == Leave(p, t, IF work[p][t].changed THEN NoSnapshot ELSE snapshot[p])

Fault == faults < MaxFaults /\ faults' = faults + 1

\* Mutant: only a newer revision is a change.
NeedsRefreshIfNewer(p) == snapshot[p].revision < persisted

\* runtime_revision_needs_refresh.
NeedsRefresh(p) == snapshot[p].revision # persisted

\* current_config_revision of a reconciliation.
Check(p, t) ==
    /\ pc[p][t] = "checking"
    /\ \/ /\ NeedsRefresh(p) \/ snapshot[p].generation # generation[p]
          /\ work' = [work EXCEPT ![p][t].changed = NeedsRefresh(p)]
          /\ pc' = [pc EXCEPT ![p][t] = "reading"]
          /\ UNCHANGED <<external, snapshot, lock, inbox, confirmed, faults>>
       \/ /\ ~NeedsRefresh(p) /\ snapshot[p].generation = generation[p]
          /\ Leave(p, t, snapshot[p])
          /\ UNCHANGED faults
       \/ Fault /\ Leave(p, t, NoSnapshot)

\* load_snapshot_facts: the transaction that reads the configuration.
ReadFacts(p, t) ==
    /\ pc[p][t] = "reading"
    /\ \/ /\ work' = [work EXCEPT ![p][t].generation = generation[p],
                                  ![p][t].revision = persisted]
          /\ pc' = [pc EXCEPT ![p][t] = "observing"]
          /\ UNCHANGED <<external, snapshot, lock, inbox, confirmed, faults>>
       \/ Fault /\ Failed(p, t)

\* observed_current_revision, after that transaction: RevisionChanged.
ObserveRevision(p, t) ==
    /\ pc[p][t] = "observing"
    /\ \/ /\ persisted = work[p][t].revision
          /\ pc' = [pc EXCEPT ![p][t] = "querying"]
          /\ UNCHANGED <<external, snapshot, lock, work, inbox, confirmed, faults>>
       \/ persisted # work[p][t].revision /\ Failed(p, t) /\ UNCHANGED faults
       \/ Fault /\ Failed(p, t)

\* compile_runtime_snapshot: a catalog that cannot be queried is left out, data
\* that makes no sense fails.
QueryCatalogs(p, t) ==
    /\ pc[p][t] = "querying"
    /\ \/ /\ \E c \in {{generation[p]}, {}} : work' = [work EXCEPT ![p][t].content = c]
          /\ pc' = [pc EXCEPT ![p][t] = "comparing"]
          /\ UNCHANGED <<external, snapshot, lock, inbox, confirmed, faults>>
       \/ Fault /\ Failed(p, t)

\* Mutant: the catalogs are not looked at again.
StableAnyway(p, t) == TRUE

Stable(p, t) == work[p][t].generation = generation[p]

\* Mutant: one attempt too many.
LastTryLate(p, t) == work[p][t].tries >= MaxStability

LastTry(p, t) == work[p][t].tries + 1 >= MaxStability

\* The generations again: publish, compile again, or CatalogChanged.
CompareCatalogs(p, t) ==
    /\ pc[p][t] = "comparing"
    /\ \/ /\ Stable(p, t)
          /\ Leave(p, t, [revision |-> work[p][t].revision,
                          generation |-> generation[p],
                          content |-> work[p][t].content])
       \/ /\ ~Stable(p, t)
          /\ ~LastTry(p, t)
          /\ work' = [work EXCEPT ![p][t].tries = @ + 1]
          /\ pc' = [pc EXCEPT ![p][t] = "reading"]
          /\ UNCHANGED <<external, snapshot, lock, inbox, confirmed>>
       \/ /\ ~Stable(p, t)
          /\ LastTry(p, t)
          /\ Failed(p, t)
    /\ UNCHANGED faults

-----------------------------------------------------------------------------
(* What happens to the processes.                                          *)

\* The administrator's connection is gone, and the call with it; a refresh in
\* progress gives the lock back.
DropCall(p, a) ==
    /\ pc[p][a] # "idle"
    /\ pc' = [pc EXCEPT ![p][a] = "idle"]
    /\ work' = [work EXCEPT ![p][a] = NoWork]
    /\ lock' = [lock EXCEPT ![p] = IF @ = a THEN NoTask ELSE @]
    /\ UNCHANGED <<external, snapshot, inbox, confirmed, faults>>

\* The process ends and starts again: the first snapshot is compiled before
\* anything else runs.
Restart(p) ==
    /\ restarts < MaxRestarts
    /\ restarts' = restarts + 1
    /\ snapshot' = [snapshot EXCEPT ![p] = NoSnapshot]
    /\ lock' = [lock EXCEPT ![p] = Boot]
    /\ pc' = [pc EXCEPT ![p] = [t \in Tasks |-> IF t = Boot THEN "reading" ELSE "idle"]]
    /\ work' = [work EXCEPT ![p] = [t \in Tasks |-> NoWork]]
    /\ inbox' = [inbox EXCEPT ![p] = FALSE]
    /\ UNCHANGED <<persisted, restored, generation, confirmed, faults>>

\* A provider's catalog in this process changes.
CatalogChange(p) ==
    /\ generation[p] < MaxGeneration
    /\ generation' = [generation EXCEPT ![p] = @ + 1]
    /\ UNCHANGED <<persisted, restored, snapshot, lock, pc, work, inbox, confirmed, faults,
                   restarts>>

\* The database is restored from a backup with an older revision; no commit
\* comes after that, so that a revision still names one configuration.
Restore ==
    /\ persisted > 1
    /\ restored' = TRUE
    /\ persisted' \in 1..(persisted - 1)
    /\ UNCHANGED <<generation, snapshot, lock, pc, work, inbox, confirmed, faults, restarts>>

-----------------------------------------------------------------------------
TaskStep(p, t) ==
    \/ Enter(p, t) \/ Check(p, t) \/ ReadFacts(p, t) \/ ObserveRevision(p, t)
    \/ QueryCatalogs(p, t) \/ CompareCatalogs(p, t)

Next ==
    \/ \E p \in Processes :
         \/ \E t \in Tasks : TaskStep(p, t)
         \/ \E a \in Admins : Commit(p, a) \/ Notify(p, a) \/ DropCall(p, a)
         \/ Notified(p) \/ Reconcile(p) \/ Restart(p) \/ CatalogChange(p)
    \/ Restore

Spec == Init /\ [][Next]_vars

\* Tasks run, and the reconciliation worker has its cycle; notifications may
\* all be lost, administrators need not call.
FairSpec ==
    /\ Spec
    /\ \A p \in Processes :
         /\ WF_vars(Reconcile(p))
         /\ \A t \in Tasks : WF_vars(TaskStep(p, t))

-----------------------------------------------------------------------------
Places == {"idle", "locking", "checking", "reading", "observing", "querying", "comparing",
           "notifying"}
Snapshots == [revision : Nat, generation : Nat, content : SUBSET Nat]
WorkRecords ==
    [changed : BOOLEAN, began : Nat, revision : Nat, generation : Nat,
     content : SUBSET Nat, tries : 0..(MaxStability - 1)]

\* The variables have their types.
TypeOK ==
    /\ persisted \in Nat
    /\ restored \in BOOLEAN
    /\ generation \in [Processes -> Nat]
    /\ snapshot \in [Processes -> Snapshots]
    /\ lock \in [Processes -> Tasks \cup {NoTask}]
    /\ pc \in [Processes -> [Tasks -> Places]]
    /\ work \in [Processes -> [Tasks -> WorkRecords]]
    /\ inbox \in [Processes -> BOOLEAN]
    /\ confirmed \in [Processes -> Nat]
    /\ faults \in Nat /\ restarts \in Nat

\* Once a refresh is over, however it ended and whatever other refreshes were
\* under way, its process no longer serves a configuration older than the one
\* that was current when the refresh began: a revoked grant is gone when the
\* administrator's call returns (refresh_with_mode's critical section).
NothingStale ==
    \A p \in Processes :
        ~restored /\ snapshot[p] # NoSnapshot => snapshot[p].revision >= confirmed[p]

\* A snapshot never mixes catalogs: what it knows of a provider's models is of
\* the generation it records, by which reconciliation finds it out of date
\* (compile's second look at the generations).
CatalogsAgree ==
    \A p \in Processes :
        snapshot[p] # NoSnapshot => snapshot[p].content \subseteq {snapshot[p].generation}

\* Reconciliation alone brings every process to the persisted configuration and
\* to its own catalogs, after lost notifications, failed refreshes, restarts and
\* a database that went back (runtime_revision_needs_refresh).
Current(p) ==
    /\ snapshot[p].revision = persisted
    /\ snapshot[p].generation = generation[p]
Converges == <>[](\A p \in Processes : Current(p))

-----------------------------------------------------------------------------
(* Why NothingStale and CatalogsAgree hold.                                *)

Loaded == {"observing", "querying", "comparing"}
Compiling == Loaded \cup {"reading"}
Inside == Compiling \cup {"checking"}

\* Only the task that holds the lock is inside of the critical section.
OneInside ==
    \A p \in Processes : \A t \in Tasks : pc[p][t] \in Inside => lock[p] = t

\* What a refresh has read, or keeps because nothing changed, is not older than
\* the configuration it began with, nor than what an earlier refresh confirmed.
ReadsConfirmed ==
    \A p \in Processes :
        /\ confirmed[p] <= persisted
        /\ snapshot[p] # NoSnapshot => snapshot[p].revision >= confirmed[p]
        /\ \A t \in Tasks :
             /\ pc[p][t] \in Inside => work[p][t].began <= persisted
             /\ pc[p][t] \in Loaded =>
                  /\ work[p][t].revision >= work[p][t].began
                  /\ work[p][t].revision >= confirmed[p]
             /\ pc[p][t] \in Compiling /\ ~work[p][t].changed =>
                  snapshot[p].revision >= work[p][t].began

\* A catalog was queried after the generation in work was read.
QueriesInOrder ==
    \A p \in Processes : \A t \in Tasks :
        /\ pc[p][t] \in Loaded => work[p][t].generation <= generation[p]
        /\ pc[p][t] = "comparing" =>
             \A c \in work[p][t].content : work[p][t].generation <= c /\ c <= generation[p]

\* The inductive invariant.
Inductive ==
    TypeOK /\ OneInside /\ (~restored => ReadsConfirmed) /\ QueriesInOrder /\ CatalogsAgree
=============================================================================
