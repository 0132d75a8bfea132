---------------------------- MODULE CapacityFreeze ----------------------------
(***************************************************************************)
(* The cooldown of one account in Redis (redis/credential_cooldown.rs) and *)
(* its writers: requests that report rate limits, rejections for capacity  *)
(* and successes (openai/src/credential/quota/mod.rs), the recovery task   *)
(* (gateway-admin/src/freeze_recovery.rs) and the administrator.  A freeze *)
(* for capacity may wait for a probe: it then outlives its time, and ends  *)
(* with a probe that succeeds.  A probe may fail for many reasons; only    *)
(* the lack of capacity is a state of the upstream.                        *)
(*                                                                         *)
(* Abstractions.  Time is what is left until a moment; one tick passes for *)
(* all.  A generation (a UUID) is a number that nothing else holds.  The   *)
(* peak of requests in flight and the lowering of the concurrency limit,   *)
(* the cooldowns of single models and clear, which nothing calls, are left *)
(* out.                                                                    *)
(***************************************************************************)
EXTENDS Naturals, FiniteSets

CONSTANTS
    Requests,       \* requests, each of which comes again
    Workers,        \* cycles of the recovery task; a leader lease can be outlived
    Threshold,      \* policy.threshold, failures in the window
    FreezeTime,     \* policy.freeze_duration, in ticks
    MaxRevision,    \* bound on the revisions of the credential
    MaxAborts       \* bound on recovery cycles that end early

ASSUME FreezeAssumption ==
    /\ IsFiniteSet(Workers)
    /\ Threshold \in Nat \ {0}
    /\ FreezeTime \in Nat \ {0}
    /\ MaxRevision \in Nat \ {0}
    /\ MaxAborts \in Nat

VARIABLES
    cooldown,       \* the hash of the account: revision, kind, left, generation
    indexed,        \* whether active-cooldowns has the account
    failures,       \* the counter of capacity failures, up to Threshold
    revision,       \* credential_revision of the account
    enabled,        \* whether the account is enabled
    policy,         \* account_auto_freeze settings: whether a freeze is probed
    healthy,        \* whether the upstream has capacity
    place,          \* where each request is
    known,          \* the revision a request was sent with
    pending,        \* the cooldown a request is about to write: kind and left
    task,           \* where each recovery cycle is
    rules,          \* the policy a cycle loaded
    view,           \* the freeze a cycle listed
    aborts,         \* cycles that ended early, so far
    tested          \* history: cycles that began to probe since the freeze was written last

accountVars == <<revision, enabled>>
recordVars == <<cooldown, indexed, failures>>
requestVars == <<place, known, pending>>
workerVars == <<task, rules, view, aborts>>
vars == <<recordVars, accountVars, policy, healthy, requestVars, workerVars, tested>>

\* To the recovery task, off is like wait; to a request, it is GiveUp.
Policies == {"wait", "probe"}
Lefts == 0..FreezeTime
Revisions == 1..MaxRevision
\* One for the hash, one for each view, and one that is new.
Generations == 1..(Cardinality(Workers) + 2)

NoCooldown == [revision |-> 0, kind |-> "none", left |-> 0, generation |-> 0]
NoWrite == [kind |-> "none", left |-> 0]
IsFreeze(c) == c.kind \in {"freeze", "probe"}

\* AccountCooldown::is_active.
Blocks == cooldown.kind = "probe" \/ cooldown.left > 0

Init ==
    /\ cooldown = NoCooldown
    /\ indexed = FALSE
    /\ failures = 0
    /\ revision = 1
    /\ enabled = TRUE
    /\ policy = "probe"
    /\ healthy = TRUE
    /\ place = [q \in Requests |-> "idle"]
    /\ known = [q \in Requests |-> 0]
    /\ pending = [q \in Requests |-> NoWrite]
    /\ task = [w \in Workers |-> "idle"]
    /\ rules = [w \in Workers |-> "wait"]
    /\ view = [w \in Workers |-> NoCooldown]
    /\ aborts = 0
    /\ tested = {}

-----------------------------------------------------------------------------
(* The scripts, each one step of Redis.                                    *)

NewGeneration ==
    CHOOSE g \in Generations :
        g # cooldown.generation /\ \A w \in Workers : g # view[w].generation

\* Mutant: what is past its time leaves the index, probe or not.
ReadScriptByTime ==
    IF cooldown.left > 0
      THEN UNCHANGED <<cooldown, indexed>>
      ELSE /\ cooldown' = IF Blocks THEN cooldown ELSE NoCooldown
           /\ indexed' = FALSE

\* READ_SCRIPT removes what blocks no longer, from the index as well.
ReadScript ==
    IF Blocks
      THEN UNCHANGED <<cooldown, indexed>>
      ELSE cooldown' = NoCooldown /\ indexed' = FALSE

\* WRITE_SCRIPT: within a revision the later moment counts, and a rate limit
\* does not replace a freeze.
Keeps(r, c) ==
    /\ cooldown.revision = r
    /\ \/ IsFreeze(cooldown) /\ c.kind = "rate"
       \/ cooldown.kind = c.kind /\ cooldown.left >= c.left
Later(a, b) == IF a > b THEN a ELSE b
WriteScript(r, c) ==
    LET left == IF cooldown.revision = r THEN Later(cooldown.left, c.left) ELSE c.left
    IN  IF cooldown.revision > r \/ Keeps(r, c) \/ (left = 0 /\ c.kind # "probe")
          THEN UNCHANGED <<cooldown, indexed, tested>>
          ELSE /\ cooldown' = [revision |-> r, kind |-> c.kind, left |-> left,
                               generation |-> NewGeneration]
               /\ indexed' = TRUE
               /\ tested' = {}

Delete ==
    /\ cooldown' = NoCooldown
    /\ failures' = 0
    /\ indexed' = FALSE

\* SUCCESS_SCRIPT.
SuccessScript(r) ==
    IF cooldown.revision > r \/ IsFreeze(cooldown)
      THEN UNCHANGED recordVars
      ELSE Delete

\* Mutant: the generation is not compared.
ListedRevision(w) ==
    IsFreeze(cooldown) /\ cooldown.revision = view[w].revision

\* FINISH_FREEZE_SCRIPT acts on the freeze that was listed.
ListedFreeze(w) ==
    /\ IsFreeze(cooldown)
    /\ cooldown.generation = view[w].generation
    /\ cooldown.revision = view[w].revision

-----------------------------------------------------------------------------
(* Requests.                                                               *)

Goes(q, there) == place' = [place EXCEPT ![q] = there]
Sends(q, as) ==
    /\ place[q] = "idle"
    /\ enabled
    /\ Goes(q, as)
    /\ known' = [known EXCEPT ![q] = revision]
    /\ UNCHANGED <<failures, accountVars, policy, healthy, pending, workerVars, tested>>

\* The selection reads the cooldown; a read that fails counts as none.
Send(q) ==
    /\ \/ ~Blocks /\ ReadScript
       \/ UNCHANGED <<cooldown, indexed>>
    /\ Sends(q, "sent")

\* A connection test, of the recovery task too, reads no cooldown; one of a
\* disabled account reports nothing.
SendDiagnostic(q) ==
    /\ Sends(q, "testing")
    /\ UNCHANGED <<cooldown, indexed>>

Answerable(q) == place[q] \in {"sent", "testing"}
Ends(q) ==
    /\ Goes(q, "idle")
    /\ known' = [known EXCEPT ![q] = 0]
    /\ pending' = [pending EXCEPT ![q] = NoWrite]

RateLimited(q) ==
    /\ Answerable(q)
    /\ Goes(q, "writing")
    /\ \E left \in Lefts \ {0} : pending' = [pending EXCEPT ![q] = [kind |-> "rate", left |-> left]]
    /\ UNCHANGED <<recordVars, accountVars, policy, healthy, known, workerVars, tested>>

\* apply_capacity_failure counts, and writes at the threshold, under the policy
\* of its cache, which may be older; what a connection test meets does not count.
CapacityFailure(q) ==
    /\ place[q] = "sent"
    /\ ~healthy
    /\ failures' = IF failures = Threshold THEN failures ELSE failures + 1
    /\ IF failures + 1 >= Threshold
         THEN \E kind \in {"freeze", "probe"} :
              /\ Goes(q, "writing")
              /\ pending' = [pending EXCEPT ![q] =
                                [kind |-> kind, left |-> FreezeTime]]
              /\ UNCHANGED known
         ELSE Ends(q)
    /\ UNCHANGED <<cooldown, indexed, accountVars, policy, healthy, workerVars, tested>>

Put(q) ==
    /\ place[q] = "writing"
    /\ WriteScript(known[q], pending[q])
    /\ Ends(q)
    /\ UNCHANGED <<failures, accountVars, policy, healthy, workerVars>>

\* restore_recoverable_account_state reads the account before it clears.
Succeed(q) ==
    /\ Answerable(q)
    /\ IF known[q] = revision /\ enabled
         THEN Goes(q, "clearing") /\ UNCHANGED <<known, pending>>
         ELSE Ends(q)
    /\ UNCHANGED <<recordVars, accountVars, policy, healthy, workerVars, tested>>

ClearAfterSuccess(q) ==
    /\ place[q] = "clearing"
    /\ SuccessScript(known[q])
    /\ Ends(q)
    /\ UNCHANGED <<accountVars, policy, healthy, workerVars, tested>>

\* Another failure, a command that fails or a future that is dropped.
GiveUp(q) ==
    /\ place[q] # "idle"
    /\ Ends(q)
    /\ UNCHANGED <<recordVars, accountVars, policy, healthy, workerVars, tested>>

-----------------------------------------------------------------------------
(* The recovery task.                                                      *)

TaskGoes(w, there) == task' = [task EXCEPT ![w] = there]
CycleEnds(w) ==
    /\ TaskGoes(w, "idle")
    /\ rules' = [rules EXCEPT ![w] = "wait"]
    /\ view' = [view EXCEPT ![w] = NoCooldown]

LoadPolicy(w) ==
    /\ task[w] = "idle"
    /\ TaskGoes(w, "listing")
    /\ rules' = [rules EXCEPT ![w] = policy]
    /\ UNCHANGED <<recordVars, accountVars, policy, healthy, requestVars, view, aborts, tested>>

\* Mutant: a freeze that is due is no longer in force.
ListFreezesInForce(w) ==
    /\ task[w] = "listing"
    /\ IF indexed
         THEN /\ ReadScript
              /\ IF IsFreeze(cooldown) /\ cooldown.left > 0
                   THEN /\ view' = [view EXCEPT ![w] = cooldown]
                        /\ TaskGoes(w, "listed")
                        /\ UNCHANGED rules
                   ELSE CycleEnds(w)
         ELSE CycleEnds(w) /\ UNCHANGED <<cooldown, indexed>>
    /\ UNCHANGED <<failures, accountVars, policy, healthy, requestVars, aborts, tested>>

\* active_freezes reads what the index names, those that are due as well.
ListFreezes(w) ==
    /\ task[w] = "listing"
    /\ IF indexed
         THEN /\ ReadScript
              /\ IF IsFreeze(cooldown) /\ Blocks
                   THEN /\ view' = [view EXCEPT ![w] = cooldown]
                        /\ TaskGoes(w, "listed")
                        /\ UNCHANGED rules
                   ELSE CycleEnds(w)
         ELSE CycleEnds(w) /\ UNCHANGED <<cooldown, indexed>>
    /\ UNCHANGED <<failures, accountVars, policy, healthy, requestVars, aborts, tested>>

\* What is due is probed if policy and freeze ask for it, and lifted otherwise;
\* a disabled account is not probed.
Examine(w) ==
    /\ task[w] = "listed"
    /\ IF view[w].left > 0
         THEN CycleEnds(w) /\ UNCHANGED tested
         ELSE IF rules[w] = "probe" /\ view[w].kind = "probe"
         THEN IF enabled
                THEN /\ TaskGoes(w, "probing")
                     /\ tested' = tested \cup {w}
                     /\ UNCHANGED <<rules, view>>
                ELSE CycleEnds(w) /\ UNCHANGED tested
         ELSE TaskGoes(w, "lifting") /\ UNCHANGED <<rules, view, tested>>
    /\ UNCHANGED <<recordVars, accountVars, policy, healthy, requestVars, aborts>>

\* test_connection; what its request reports besides is SendDiagnostic's.  No
\* model to probe with, a test that cannot start and a failure of any kind, a
\* 401 say, postpone like a lack of capacity.
Probe(w) ==
    /\ task[w] = "probing"
    /\ \/ healthy /\ TaskGoes(w, "lifting")
       \/ TaskGoes(w, "postponing")
    /\ UNCHANGED <<recordVars, accountVars, policy, healthy, requestVars, rules, view, aborts, tested>>

Lift(w) ==
    /\ task[w] = "lifting"
    /\ IF ListedFreeze(w) THEN Delete ELSE UNCHANGED recordVars
    /\ CycleEnds(w)
    /\ tested' = tested \ {w}
    /\ UNCHANGED <<accountVars, policy, healthy, requestVars, aborts>>

Postpone(w) ==
    /\ task[w] = "postponing"
    /\ IF ListedFreeze(w)
         THEN /\ cooldown' = [cooldown EXCEPT !.left = Later(cooldown.left, FreezeTime),
                                              !.generation = NewGeneration]
              /\ indexed' = TRUE
         ELSE UNCHANGED <<cooldown, indexed>>
    /\ CycleEnds(w)
    /\ tested' = tested \ {w}
    /\ UNCHANGED <<failures, accountVars, policy, healthy, requestVars, aborts>>

\* A command fails, the lease of the cycle is lost or the process goes.
Abort(w) ==
    /\ task[w] # "idle"
    /\ aborts < MaxAborts
    /\ aborts' = aborts + 1
    /\ CycleEnds(w)
    /\ tested' = tested \ {w}
    /\ UNCHANGED <<recordVars, accountVars, policy, healthy, requestVars>>

-----------------------------------------------------------------------------
(* The administrator, the credential, the upstream and time.               *)

\* delete_account_cooldowns, before recover_account enables the account.
ClearAll ==
    /\ Delete
    /\ UNCHANGED <<accountVars, policy, healthy, requestVars, workerVars, tested>>

SetEnabled ==
    /\ enabled' = ~enabled
    /\ UNCHANGED <<recordVars, revision, policy, healthy, requestVars, workerVars, tested>>

ChangePolicy ==
    /\ policy' \in Policies \ {policy}
    /\ UNCHANGED <<recordVars, accountVars, healthy, requestVars, workerVars, tested>>

\* A refresh, a new grant or captured cookies.
AdvanceRevision ==
    /\ revision < MaxRevision
    /\ revision' = revision + 1
    /\ UNCHANGED <<recordVars, enabled, policy, healthy, requestVars, workerVars, tested>>

CapacityChanges ==
    /\ healthy' = ~healthy
    /\ UNCHANGED <<recordVars, accountVars, policy, requestVars, workerVars, tested>>

Less(n) == IF n = 0 THEN 0 ELSE n - 1
Tick ==
    /\ cooldown' = [cooldown EXCEPT !.left = Less(cooldown.left)]
    /\ pending' = [q \in Requests |-> [kind |-> pending[q].kind, left |-> Less(pending[q].left)]]
    /\ view' = [w \in Workers |-> [revision |-> view[w].revision, kind |-> view[w].kind,
                                   left |-> Less(view[w].left), generation |-> view[w].generation]]
    /\ UNCHANGED <<indexed, failures, accountVars, policy, healthy, place, known, task, rules, aborts, tested>>

\* The time to live of a hash that no probe has to lift; the index keeps it.
HashExpires ==
    /\ cooldown.kind \in {"rate", "freeze"}
    /\ cooldown.left = 0
    /\ cooldown' = NoCooldown
    /\ UNCHANGED <<indexed, failures, accountVars, policy, healthy, requestVars, workerVars, tested>>

WindowEnds ==
    /\ failures > 0
    /\ failures' = 0
    /\ UNCHANGED <<cooldown, indexed, accountVars, policy, healthy, requestVars, workerVars, tested>>

RequestStep(q) ==
    \/ Send(q) \/ SendDiagnostic(q) \/ RateLimited(q) \/ CapacityFailure(q) \/ Put(q)
    \/ Succeed(q) \/ ClearAfterSuccess(q) \/ GiveUp(q)
CycleStep(w) ==
    LoadPolicy(w) \/ ListFreezes(w) \/ Examine(w) \/ Probe(w) \/ Lift(w) \/ Postpone(w)
Outside ==
    \/ ClearAll \/ SetEnabled \/ ChangePolicy \/ AdvanceRevision
    \/ CapacityChanges \/ Tick \/ HashExpires \/ WindowEnds

Next ==
    \/ \E q \in Requests : RequestStep(q)
    \/ \E w \in Workers : CycleStep(w) \/ Abort(w)
    \/ Outside

Spec == Init /\ [][Next]_vars
FairSpec ==
    /\ Spec
    /\ WF_vars(Tick)
    /\ \A w \in Workers : WF_vars(CycleStep(w))

-----------------------------------------------------------------------------
Places == {"idle", "sent", "testing", "writing", "clearing"}
Tasks == {"idle", "listing", "listed", "probing", "lifting", "postponing"}
Kinds == {"none", "rate", "freeze", "probe"}
Cooldowns == [revision : 0..MaxRevision, kind : Kinds, left : Lefts, generation : Nat]

TypeOK ==
    /\ cooldown \in Cooldowns
    /\ indexed \in BOOLEAN
    /\ failures \in 0..Threshold
    /\ revision \in Revisions
    /\ enabled \in BOOLEAN
    /\ policy \in Policies
    /\ healthy \in BOOLEAN
    /\ place \in [Requests -> Places]
    /\ known \in [Requests -> 0..MaxRevision]
    /\ pending \in [Requests -> [kind : Kinds, left : Lefts]]
    /\ task \in [Workers -> Tasks]
    /\ rules \in [Workers -> Policies]
    /\ view \in [Workers -> Cooldowns]
    /\ aborts \in 0..MaxAborts
    /\ tested \in SUBSET Workers

AwaitsProbe(c) == c.kind = "probe"

\* A freeze that waits for a probe ends with a probe that began after it was
\* written last and succeeded, whatever older probes report (finish_freeze) and
\* whatever requests report (SUCCESS_SCRIPT, WRITE_SCRIPT); or by the hand of
\* the administrator, a recovery or a freeze under a policy without probes, or
\* a cooldown of a newer credential.  Only a request begins one.
FreezeHolds ==
    [][ /\ AwaitsProbe(cooldown) /\ ~AwaitsProbe(cooldown)' =>
             \/ ClearAll
             \/ \E w \in Workers : Lift(w) /\ (w \in tested \/ rules[w] # "probe")
             \/ \E q \in Requests :
                   Put(q) /\ (pending[q].kind = "freeze" \/ known[q] > cooldown.revision)
        /\ ~AwaitsProbe(cooldown) /\ AwaitsProbe(cooldown)' => \E q \in Requests : Put(q)
      ]_vars

\* A freeze that waits for a probe is in the index, where the recovery task
\* finds it, through expiry, recovery and rewriting (the scripts keep hash and
\* index together); nothing else would ever lift it.
FreezeFindable == AwaitsProbe(cooldown) => indexed

FailsDespiteCapacity(w) == Probe(w) /\ healthy /\ task'[w] = "postponing"

\* When the upstream has capacity again and the account stays enabled, it does
\* not stay frozen, though probes failed, came too late or were cut short;
\* unless probes keep failing for reasons other than capacity
\* (probe_and_recover), to which the code sets no limit.
FreezeEnds ==
    <>[](healthy /\ enabled) =>
        \/ []<>~AwaitsProbe(cooldown)
        \/ []<><<\E w \in Workers : FailsDespiteCapacity(w)>>_vars
=============================================================================
