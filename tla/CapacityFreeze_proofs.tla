------------------------- MODULE CapacityFreeze_proofs -------------------------
(* What is proved of CapacityFreeze.                                       *)
EXTENDS CapacityFreeze, FiniteSetTheorems, TLAPS

\* A hash has a generation.
Numbered == cooldown.kind # "none" => cooldown.generation # 0

\* What a request is about to write is a cooldown.
Pendings == \A q \in Requests : place[q] = "writing" => pending[q].kind # "none"

SameFreeze(w) == IsFreeze(cooldown) /\ view[w].generation = cooldown.generation

\* A generation is of one kind, as long as the freeze lasts.
OneKind(w) == SameFreeze(w) => view[w].kind = cooldown.kind

\* A cycle that decides on the freeze in force under a policy with probes has
\* begun its probe since that freeze was written.
Decided == {"probing", "lifting", "postponing"}
Probed(w) ==
    /\ SameFreeze(w)
    /\ task[w] \in Decided
    /\ rules[w] = "probe"
    /\ view[w].kind = "probe"
    => w \in tested
Views == \A w \in Workers : OneKind(w) /\ Probed(w)

IInv ==
    /\ TypeOK
    /\ Numbered
    /\ FreezeFindable
    /\ Pendings
    /\ Views

-----------------------------------------------------------------------------
(* The operators.                                                          *)

\* There is always a generation that nothing holds.
LEMMA GenerationIsNew ==
  ASSUME TypeOK
  PROVE  /\ NewGeneration \in Nat \ {0}
         /\ NewGeneration # cooldown.generation
         /\ \A w \in Workers : NewGeneration # view[w].generation
<1> DEFINE f == [w \in Workers |-> view[w].generation]
           T == {f[w] : w \in Workers}
           U == T \cup {cooldown.generation}
<1>1. IsFiniteSet(Workers) /\ Cardinality(Workers) \in Nat
  BY FreezeAssumption, FS_CardinalityType
<1>2. f \in Surjection(Workers, T)
  BY DEF Surjection
<1>3. IsFiniteSet(T) /\ Cardinality(T) <= Cardinality(Workers)
  BY <1>1, <1>2, FS_Surjection
<1>4. Cardinality(T) \in Nat
  BY <1>3, FS_CardinalityType
<1>5. IsFiniteSet(U) /\ Cardinality(U) <= Cardinality(Workers) + 1
  <2>1. /\ IsFiniteSet(U)
        /\ Cardinality(U) = IF cooldown.generation \in T
                              THEN Cardinality(T) ELSE Cardinality(T) + 1
    BY <1>3, FS_AddElement
  <2> HIDE DEF U, T
  <2> QED
    BY <1>1, <1>3, <1>4, <2>1
<1>6. IsFiniteSet(Generations) /\ Cardinality(Generations) = Cardinality(Workers) + 2
  <2>1. 1 \in Int /\ Cardinality(Workers) + 2 \in Int /\ ~(1 > Cardinality(Workers) + 2)
    BY <1>1
  <2>2. /\ IsFiniteSet(1 .. Cardinality(Workers) + 2)
        /\ Cardinality(1 .. Cardinality(Workers) + 2) = (Cardinality(Workers) + 2) - 1 + 1
    BY <2>1, FS_Interval
  <2> QED
    BY <1>1, <2>2 DEF Generations
<1>7. ~(Generations \subseteq U)
  <2>1. SUFFICES ASSUME Generations \in SUBSET U PROVE FALSE
    OBVIOUS
  <2>2. Cardinality(Generations) <= Cardinality(U)
    BY <1>5, <2>1, FS_Subset
  <2>3. Cardinality(U) \in Nat
    BY <1>5, FS_CardinalityType
  <2> HIDE DEF U, T
  <2> QED
    BY <1>1, <1>5, <1>6, <2>2, <2>3
<1>8. PICK g \in Generations : g \notin U
  BY <1>7
<1>9. g # cooldown.generation /\ \A w \in Workers : g # view[w].generation
  BY <1>8
<1>10. /\ NewGeneration \in Generations
       /\ NewGeneration # cooldown.generation
       /\ \A w \in Workers : NewGeneration # view[w].generation
  BY <1>9 DEF NewGeneration
<1> QED
  BY <1>1, <1>10 DEF Generations

\* What WRITE_SCRIPT leaves: the hash as it was, or the incoming kind under a
\* generation of its own, in the index and probed by nobody.
LEMMA Written ==
  ASSUME TypeOK, NEW r \in 0 .. MaxRevision, NEW c \in [kind : Kinds, left : Lefts],
         WriteScript(r, c)
  PROVE  \/ UNCHANGED <<cooldown, indexed, tested>>
         \/ /\ cooldown' \in Cooldowns
            /\ cooldown'.kind = c.kind
            /\ cooldown'.generation = NewGeneration
            /\ indexed' = TRUE
            /\ tested' = {}
            /\ ~(cooldown.revision > r) /\ ~Keeps(r, c)
<1> DEFINE left == IF cooldown.revision = r THEN Later(cooldown.left, c.left) ELSE c.left
<1>1. left \in Lefts /\ c.kind \in Kinds
  BY DEF TypeOK, Cooldowns, Later
<1>2. NewGeneration \in Nat
  BY GenerationIsNew
<1> HIDE DEF left
<1>3. CASE cooldown.revision > r \/ Keeps(r, c) \/ (left = 0 /\ c.kind # "probe")
  BY <1>3 DEF WriteScript, left
<1>4. CASE ~(cooldown.revision > r \/ Keeps(r, c) \/ (left = 0 /\ c.kind # "probe"))
  <2>1. /\ cooldown' = [revision |-> r, kind |-> c.kind, left |-> left, generation |-> NewGeneration]
        /\ indexed' = TRUE
        /\ tested' = {}
    BY <1>4 DEF WriteScript, left
  <2>2. cooldown' \in Cooldowns
    BY <1>1, <1>2, <2>1 DEF Cooldowns
  <2> QED
    BY <1>4, <2>1, <2>2
<1> QED
  BY <1>3, <1>4

\* A deletion and a read leave the hash as it was or none.
LEMMA NoneTyped == NoCooldown \in Cooldowns /\ NoCooldown.kind = "none" /\ ~IsFreeze(NoCooldown)
<1>1. 0 \in Lefts /\ 0 \in 0 .. MaxRevision
  BY FreezeAssumption DEF Lefts
<1> QED
  BY <1>1 DEF NoCooldown, Cooldowns, Kinds, IsFreeze

-----------------------------------------------------------------------------
(* Type correctness.                                                       *)

RecordTyped == cooldown \in Cooldowns /\ indexed \in BOOLEAN /\ failures \in 0 .. Threshold
AccountTyped == revision \in Revisions /\ enabled \in BOOLEAN /\ policy \in Policies /\ healthy \in BOOLEAN
RequestTyped ==
    /\ place \in [Requests -> Places]
    /\ known \in [Requests -> 0 .. MaxRevision]
    /\ pending \in [Requests -> [kind : Kinds, left : Lefts]]
WorkerTyped ==
    /\ task \in [Workers -> Tasks]
    /\ rules \in [Workers -> Policies]
    /\ view \in [Workers -> Cooldowns]
    /\ aborts \in 0 .. MaxAborts
    /\ tested \in SUBSET Workers

LEMMA TypeParts == TypeOK <=> RecordTyped /\ AccountTyped /\ RequestTyped /\ WorkerTyped
BY DEF TypeOK, RecordTyped, AccountTyped, RequestTyped, WorkerTyped

LEMMA TypePartsNext == RecordTyped' /\ AccountTyped' /\ RequestTyped' /\ WorkerTyped' => TypeOK'
BY DEF TypeOK, RecordTyped, AccountTyped, RequestTyped, WorkerTyped

\* A step leaves the variables of a part alone, or says what they become.
LEMMA RecordKept ==
  ASSUME RecordTyped, UNCHANGED recordVars PROVE RecordTyped'
BY DEF RecordTyped, recordVars

LEMMA AccountKept ==
  ASSUME AccountTyped, UNCHANGED <<accountVars, policy, healthy>> PROVE AccountTyped'
BY DEF AccountTyped, accountVars

LEMMA RequestKept ==
  ASSUME RequestTyped, UNCHANGED requestVars PROVE RequestTyped'
BY DEF RequestTyped, requestVars

LEMMA WorkerKept ==
  ASSUME WorkerTyped, UNCHANGED <<workerVars, tested>> PROVE WorkerTyped'
BY DEF WorkerTyped, workerVars

LEMMA Deleted ==
  ASSUME RecordTyped, Delete PROVE RecordTyped'
<1>1. cooldown' \in Cooldowns
  BY NoneTyped DEF Delete
<1>2. failures' = 0 /\ indexed' = FALSE
  BY DEF Delete
<1>3. failures' \in 0 .. Threshold
  BY <1>2, FreezeAssumption
<1>4. indexed' \in BOOLEAN
  BY <1>2
<1> QED
  BY <1>1, <1>3, <1>4 DEF RecordTyped

LEMMA ReadTyped ==
  ASSUME RecordTyped, ReadScript, UNCHANGED failures PROVE RecordTyped'
<1>1. cooldown' \in Cooldowns /\ indexed' \in BOOLEAN
  BY NoneTyped DEF ReadScript, RecordTyped
<1> QED
  BY <1>1 DEF RecordTyped

LEMMA Ended ==
  ASSUME RequestTyped, NEW q \in Requests, Ends(q) PROVE RequestTyped'
<1>1. NoWrite \in [kind : Kinds, left : Lefts]
  BY FreezeAssumption DEF NoWrite, Kinds, Lefts
<1>2. 0 \in 0 .. MaxRevision
  BY FreezeAssumption
<1>3. /\ place' = [place EXCEPT ![q] = "idle"]
      /\ known' = [known EXCEPT ![q] = 0]
      /\ pending' = [pending EXCEPT ![q] = NoWrite]
  BY DEF Ends, Goes
<1>4. place' \in [Requests -> Places]
  BY <1>3 DEF RequestTyped, Places
<1>5. known' \in [Requests -> 0 .. MaxRevision]
  BY <1>2, <1>3 DEF RequestTyped
<1>6. pending' \in [Requests -> [kind : Kinds, left : Lefts]]
  BY <1>1, <1>3 DEF RequestTyped
<1> QED
  BY <1>4, <1>5, <1>6 DEF RequestTyped

LEMMA CycleEnded ==
  ASSUME WorkerTyped, NEW w \in Workers, CycleEnds(w), aborts' \in 0 .. MaxAborts,
         tested' \in SUBSET Workers
  PROVE  WorkerTyped'
<1>1. /\ task' = [task EXCEPT ![w] = "idle"]
      /\ rules' = [rules EXCEPT ![w] = "wait"]
      /\ view' = [view EXCEPT ![w] = NoCooldown]
  BY DEF CycleEnds, TaskGoes
<1>2. task' \in [Workers -> Tasks]
  BY <1>1 DEF WorkerTyped, Tasks
<1>3. rules' \in [Workers -> Policies]
  BY <1>1 DEF WorkerTyped, Policies
<1>4. view' \in [Workers -> Cooldowns]
  BY <1>1, NoneTyped DEF WorkerTyped
<1> QED
  BY <1>2, <1>3, <1>4 DEF WorkerTyped

LEMMA InitTyped == Init => TypeOK
<1> SUFFICES ASSUME Init PROVE TypeOK
  OBVIOUS
<1>1. RecordTyped
  <2>1. cooldown \in Cooldowns /\ failures \in 0 .. Threshold
    BY NoneTyped, FreezeAssumption DEF Init
  <2>2. indexed \in BOOLEAN
    BY DEF Init
  <2> QED
    BY <2>1, <2>2 DEF RecordTyped
<1>2. AccountTyped
  BY FreezeAssumption DEF Init, AccountTyped, Revisions, Policies
<1>3. NoWrite \in [kind : Kinds, left : Lefts] /\ 0 \in 0 .. MaxRevision
  BY FreezeAssumption DEF NoWrite, Kinds, Lefts
<1>4. RequestTyped
  BY <1>3 DEF Init, RequestTyped, Places
<1>5. WorkerTyped
  BY NoneTyped, FreezeAssumption DEF Init, WorkerTyped, Tasks, Policies
<1> QED
  BY <1>1, <1>2, <1>4, <1>5, TypeParts

\* The steps of a request keep the types.
LEMMA RequestStepTyped ==
  ASSUME RecordTyped, AccountTyped, RequestTyped, WorkerTyped, NEW q \in Requests, RequestStep(q)
  PROVE  RecordTyped' /\ AccountTyped' /\ RequestTyped' /\ WorkerTyped'
<1>1. TypeOK
  BY TypeParts
<1>2. ASSUME NEW as \in {"sent", "testing"}, Sends(q, as)
      PROVE  RequestTyped' /\ AccountTyped' /\ WorkerTyped'
  <2>1. /\ place' = [place EXCEPT ![q] = as]
        /\ known' = [known EXCEPT ![q] = revision]
        /\ UNCHANGED pending
        /\ UNCHANGED <<accountVars, policy, healthy>>
        /\ UNCHANGED <<workerVars, tested>>
    BY <1>2 DEF Sends, Goes
  <2>2. place' \in [Requests -> Places]
    BY <2>1 DEF RequestTyped, Places
  <2>3. known' \in [Requests -> 0 .. MaxRevision]
    BY <2>1, FreezeAssumption DEF RequestTyped, AccountTyped, Revisions
  <2>4. RequestTyped'
    BY <2>1, <2>2, <2>3 DEF RequestTyped
  <2> QED
    BY <2>1, <2>4, AccountKept, WorkerKept
<1>3. CASE Send(q)
  <2>1. (ReadScript \/ UNCHANGED <<cooldown, indexed>>) /\ Sends(q, "sent") /\ UNCHANGED failures
    BY <1>3 DEF Send, Sends
  <2>2. RecordTyped'
    <3>1. CASE ReadScript
      BY <2>1, <3>1, ReadTyped
    <3>2. CASE UNCHANGED <<cooldown, indexed>>
      BY <2>1, <3>2, RecordKept DEF recordVars
    <3> QED
      BY <2>1, <3>1, <3>2
  <2> QED
    BY <1>2, <2>1, <2>2
<1>4. CASE SendDiagnostic(q)
  <2>1. Sends(q, "testing") /\ UNCHANGED recordVars
    BY <1>4 DEF SendDiagnostic, Sends, recordVars
  <2> QED
    BY <1>2, <2>1, RecordKept
<1>5. CASE RateLimited(q)
  <2>1. PICK left \in Lefts \ {0} :
           pending' = [pending EXCEPT ![q] = [kind |-> "rate", left |-> left]]
    BY <1>5 DEF RateLimited
  <2>2. /\ place' = [place EXCEPT ![q] = "writing"]
        /\ UNCHANGED known
        /\ UNCHANGED recordVars
        /\ UNCHANGED <<accountVars, policy, healthy>>
        /\ UNCHANGED <<workerVars, tested>>
    BY <1>5 DEF RateLimited, Goes
  <2>3. place' \in [Requests -> Places]
    BY <2>2 DEF RequestTyped, Places
  <2>4. pending' \in [Requests -> [kind : Kinds, left : Lefts]]
    BY <2>1 DEF RequestTyped, Kinds
  <2>5. RequestTyped'
    BY <2>2, <2>3, <2>4 DEF RequestTyped
  <2> QED
    BY <2>2, <2>5, RecordKept, AccountKept, WorkerKept
<1>6. CASE CapacityFailure(q)
  <2>1. /\ failures' = IF failures = Threshold THEN failures ELSE failures + 1
        /\ UNCHANGED <<cooldown, indexed>>
        /\ UNCHANGED <<accountVars, policy, healthy>>
        /\ UNCHANGED <<workerVars, tested>>
    BY <1>6 DEF CapacityFailure
  <2>2. failures' \in 0 .. Threshold
    BY <2>1, FreezeAssumption DEF RecordTyped
  <2>3. RecordTyped'
    BY <2>1, <2>2 DEF RecordTyped
  <2>4. RequestTyped'
    <3>1. CASE failures + 1 >= Threshold
      <4>1. PICK kind \in {"freeze", "probe"} :
              /\ place' = [place EXCEPT ![q] = "writing"]
              /\ pending' = [pending EXCEPT ![q] = [kind |-> kind, left |-> FreezeTime]]
              /\ UNCHANGED known
        BY <1>6, <3>1 DEF CapacityFailure, Goes
      <4>2. place' \in [Requests -> Places]
        BY <4>1 DEF RequestTyped, Places
      <4>3. [kind |-> kind, left |-> FreezeTime] \in [kind : Kinds, left : Lefts]
        BY FreezeAssumption DEF Kinds, Lefts
      <4>4. pending' \in [Requests -> [kind : Kinds, left : Lefts]]
        BY <4>1, <4>3 DEF RequestTyped
      <4> QED
        BY <4>1, <4>2, <4>4 DEF RequestTyped
    <3>2. CASE ~(failures + 1 >= Threshold)
      <4>1. Ends(q)
        BY <1>6, <3>2 DEF CapacityFailure
      <4> QED
        BY <4>1, Ended
    <3> QED
      BY <3>1, <3>2
  <2> QED
    BY <2>1, <2>3, <2>4, AccountKept, WorkerKept
<1>7. CASE Put(q)
  <2>1. /\ WriteScript(known[q], pending[q])
        /\ Ends(q)
        /\ UNCHANGED failures
        /\ UNCHANGED <<accountVars, policy, healthy>>
        /\ UNCHANGED workerVars
    BY <1>7 DEF Put
  <2>2. known[q] \in 0 .. MaxRevision /\ pending[q] \in [kind : Kinds, left : Lefts]
    BY DEF RequestTyped
  <2>3. CASE UNCHANGED <<cooldown, indexed, tested>>
    <3>1. RecordTyped'
      BY <2>1, <2>3, RecordKept DEF recordVars
    <3> QED
      BY <2>1, <2>3, <3>1, Ended, AccountKept, WorkerKept
  <2>4. CASE cooldown' \in Cooldowns /\ indexed' = TRUE /\ tested' = {}
    <3>1. indexed' \in BOOLEAN
      BY <2>4
    <3>2. RecordTyped'
      BY <2>1, <2>4, <3>1 DEF RecordTyped
    <3>3. WorkerTyped'
      BY <2>1, <2>4 DEF WorkerTyped, workerVars
    <3> QED
      BY <2>1, <3>2, <3>3, Ended, AccountKept
  <2> QED
    BY <1>1, <2>1, <2>2, <2>3, <2>4, Written
<1>8. CASE Succeed(q)
  <2>1. /\ UNCHANGED recordVars
        /\ UNCHANGED <<accountVars, policy, healthy>>
        /\ UNCHANGED <<workerVars, tested>>
        /\ \/ place' = [place EXCEPT ![q] = "clearing"] /\ UNCHANGED <<known, pending>>
           \/ Ends(q)
    BY <1>8 DEF Succeed, Goes
  <2>2. RequestTyped'
    <3>1. CASE Ends(q)
      BY <3>1, Ended
    <3>2. CASE place' = [place EXCEPT ![q] = "clearing"] /\ UNCHANGED <<known, pending>>
      <4>1. place' \in [Requests -> Places]
        BY <3>2 DEF RequestTyped, Places
      <4> QED
        BY <3>2, <4>1 DEF RequestTyped
    <3> QED
      BY <2>1, <3>1, <3>2
  <2> QED
    BY <2>1, <2>2, RecordKept, AccountKept, WorkerKept
<1>9. CASE ClearAfterSuccess(q)
  <2>1. /\ UNCHANGED recordVars \/ Delete
        /\ Ends(q)
        /\ UNCHANGED <<accountVars, policy, healthy>>
        /\ UNCHANGED <<workerVars, tested>>
    BY <1>9 DEF ClearAfterSuccess, SuccessScript
  <2> QED
    BY <2>1, Ended, Deleted, RecordKept, AccountKept, WorkerKept
<1>10. CASE GiveUp(q)
  <2>1. /\ UNCHANGED recordVars
        /\ Ends(q)
        /\ UNCHANGED <<accountVars, policy, healthy>>
        /\ UNCHANGED <<workerVars, tested>>
    BY <1>10 DEF GiveUp
  <2> QED
    BY <2>1, Ended, RecordKept, AccountKept, WorkerKept
<1> QED
  BY <1>3, <1>4, <1>5, <1>6, <1>7, <1>8, <1>9, <1>10 DEF RequestStep

\* The steps of a recovery cycle keep the types.
LEMMA CycleStepTyped ==
  ASSUME RecordTyped, AccountTyped, RequestTyped, WorkerTyped, NEW w \in Workers,
         CycleStep(w) \/ Abort(w)
  PROVE  RecordTyped' /\ AccountTyped' /\ RequestTyped' /\ WorkerTyped'
<1> DEFINE Others == UNCHANGED <<accountVars, policy, healthy>> /\ UNCHANGED requestVars
<1>1. TypeOK
  BY TypeParts
<1>2. ASSUME Others PROVE AccountTyped' /\ RequestTyped'
  BY <1>2, AccountKept, RequestKept
<1>3. \A there \in Tasks : [task EXCEPT ![w] = there] \in [Workers -> Tasks]
  BY DEF WorkerTyped
<1>4. CASE LoadPolicy(w)
  <2>1. /\ task' = [task EXCEPT ![w] = "listing"]
        /\ rules' = [rules EXCEPT ![w] = policy]
        /\ UNCHANGED <<view, aborts, tested>>
        /\ UNCHANGED recordVars
        /\ Others
    BY <1>4 DEF LoadPolicy, TaskGoes
  <2>2. task' \in [Workers -> Tasks]
    BY <1>3, <2>1 DEF Tasks
  <2>3. rules' \in [Workers -> Policies]
    BY <2>1 DEF WorkerTyped, AccountTyped
  <2>4. WorkerTyped'
    BY <2>1, <2>2, <2>3 DEF WorkerTyped
  <2> QED
    BY <1>2, <2>1, <2>4, RecordKept
<1>5. CASE ListFreezes(w)
  <2>1. /\ \/ ReadScript
           \/ UNCHANGED <<cooldown, indexed>>
        /\ UNCHANGED failures
        /\ UNCHANGED <<aborts, tested>>
        /\ Others
        /\ \/ CycleEnds(w)
           \/ /\ view' = [view EXCEPT ![w] = cooldown]
              /\ task' = [task EXCEPT ![w] = "listed"]
              /\ UNCHANGED rules
    BY <1>5 DEF ListFreezes, TaskGoes
  <2>2. RecordTyped'
    <3>1. CASE ReadScript
      BY <2>1, <3>1, ReadTyped
    <3>2. CASE UNCHANGED <<cooldown, indexed>>
      BY <2>1, <3>2, RecordKept DEF recordVars
    <3> QED
      BY <2>1, <3>1, <3>2
  <2>3. WorkerTyped'
    <3>1. CASE CycleEnds(w)
      <4>1. aborts' \in 0 .. MaxAborts /\ tested' \in SUBSET Workers
        BY <2>1 DEF WorkerTyped
      <4> QED
        BY <3>1, <4>1, CycleEnded
    <3>2. CASE /\ view' = [view EXCEPT ![w] = cooldown]
               /\ task' = [task EXCEPT ![w] = "listed"]
               /\ UNCHANGED rules
      <4>1. task' \in [Workers -> Tasks]
        BY <1>3, <3>2 DEF Tasks
      <4>2. view' \in [Workers -> Cooldowns]
        BY <3>2 DEF WorkerTyped, RecordTyped
      <4> QED
        BY <2>1, <3>2, <4>1, <4>2 DEF WorkerTyped
    <3> QED
      BY <2>1, <3>1, <3>2
  <2> QED
    BY <1>2, <2>1, <2>2, <2>3
<1>6. CASE Examine(w)
  <2>1. UNCHANGED recordVars /\ UNCHANGED aborts /\ Others
    BY <1>6 DEF Examine
  <2>2. \/ CycleEnds(w) /\ UNCHANGED tested
        \/ /\ UNCHANGED <<rules, view>>
           /\ \E there \in {"probing", "lifting"} : task' = [task EXCEPT ![w] = there]
           /\ tested' = tested \cup {w} \/ UNCHANGED tested
    BY <1>6 DEF Examine, TaskGoes
  <2>3. tested' \in SUBSET Workers /\ aborts' \in 0 .. MaxAborts
    BY <2>1, <2>2 DEF WorkerTyped
  <2>4. CASE CycleEnds(w)
    BY <1>2, <2>1, <2>3, <2>4, CycleEnded, RecordKept
  <2>5. CASE /\ UNCHANGED <<rules, view>>
             /\ \E there \in {"probing", "lifting"} : task' = [task EXCEPT ![w] = there]
    <3>1. task' \in [Workers -> Tasks]
      BY <1>3, <2>5 DEF Tasks
    <3>2. WorkerTyped'
      BY <2>3, <2>5, <3>1 DEF WorkerTyped
    <3> QED
      BY <1>2, <2>1, <3>2, RecordKept
  <2> QED
    BY <2>2, <2>4, <2>5
<1>7. CASE Probe(w)
  <2>1. /\ \E there \in {"lifting", "postponing"} : task' = [task EXCEPT ![w] = there]
        /\ UNCHANGED <<rules, view, aborts, tested>>
        /\ UNCHANGED recordVars
        /\ Others
    BY <1>7 DEF Probe, TaskGoes
  <2>2. task' \in [Workers -> Tasks]
    BY <1>3, <2>1 DEF Tasks
  <2>3. WorkerTyped'
    BY <2>1, <2>2 DEF WorkerTyped
  <2> QED
    BY <1>2, <2>1, <2>3, RecordKept
<1>8. CASE Lift(w)
  <2>1. /\ Delete \/ UNCHANGED recordVars
        /\ CycleEnds(w)
        /\ tested' = tested \ {w}
        /\ UNCHANGED aborts
        /\ Others
    BY <1>8 DEF Lift
  <2>2. tested' \in SUBSET Workers /\ aborts' \in 0 .. MaxAborts
    BY <2>1 DEF WorkerTyped
  <2> QED
    BY <1>2, <2>1, <2>2, CycleEnded, Deleted, RecordKept
<1>9. CASE Postpone(w)
  <2>1. /\ CycleEnds(w)
        /\ tested' = tested \ {w}
        /\ UNCHANGED <<failures, aborts>>
        /\ Others
        /\ \/ /\ cooldown' = [cooldown EXCEPT !.left = Later(cooldown.left, FreezeTime),
                                              !.generation = NewGeneration]
              /\ indexed' = TRUE
           \/ UNCHANGED <<cooldown, indexed>>
    BY <1>9 DEF Postpone
  <2>2. tested' \in SUBSET Workers /\ aborts' \in 0 .. MaxAborts
    BY <2>1 DEF WorkerTyped
  <2>3. RecordTyped'
    <3>1. CASE UNCHANGED <<cooldown, indexed>>
      BY <2>1, <3>1, RecordKept DEF recordVars
    <3>2. CASE /\ cooldown' = [cooldown EXCEPT !.left = Later(cooldown.left, FreezeTime),
                                               !.generation = NewGeneration]
               /\ indexed' = TRUE
      <4>1. NewGeneration \in Nat
        BY <1>1, GenerationIsNew
      <4>2. Later(cooldown.left, FreezeTime) \in Lefts
        BY FreezeAssumption DEF RecordTyped, Cooldowns, Lefts, Later
      <4>3. cooldown' \in Cooldowns
        BY <3>2, <4>1, <4>2 DEF RecordTyped, Cooldowns
      <4>4. indexed' \in BOOLEAN
        BY <3>2
      <4> QED
        BY <2>1, <4>3, <4>4 DEF RecordTyped
    <3> QED
      BY <2>1, <3>1, <3>2
  <2> QED
    BY <1>2, <2>1, <2>2, <2>3, CycleEnded
<1>10. CASE Abort(w)
  <2>1. /\ aborts < MaxAborts
        /\ aborts' = aborts + 1
        /\ CycleEnds(w)
        /\ tested' = tested \ {w}
        /\ UNCHANGED recordVars
        /\ Others
    BY <1>10 DEF Abort
  <2>2. tested' \in SUBSET Workers /\ aborts' \in 0 .. MaxAborts
    BY <2>1, FreezeAssumption DEF WorkerTyped
  <2> QED
    BY <1>2, <2>1, <2>2, CycleEnded, RecordKept
<1> QED
  BY <1>4, <1>5, <1>6, <1>7, <1>8, <1>9, <1>10 DEF CycleStep

\* So do the administrator, the credential, the upstream and time.
LEMMA OutsideTyped ==
  ASSUME RecordTyped, AccountTyped, RequestTyped, WorkerTyped, Outside
  PROVE  RecordTyped' /\ AccountTyped' /\ RequestTyped' /\ WorkerTyped'
<1>1. \A n \in Lefts : Less(n) \in Lefts
  BY FreezeAssumption DEF Lefts, Less
<1>2. CASE ClearAll
  <2>1. Delete /\ UNCHANGED <<accountVars, policy, healthy>> /\ UNCHANGED requestVars
        /\ UNCHANGED <<workerVars, tested>>
    BY <1>2 DEF ClearAll
  <2> QED
    BY <2>1, Deleted, AccountKept, RequestKept, WorkerKept
<1>3. CASE SetEnabled \/ ChangePolicy \/ AdvanceRevision \/ CapacityChanges
  <2>1. UNCHANGED recordVars /\ UNCHANGED requestVars /\ UNCHANGED <<workerVars, tested>>
    BY <1>3 DEF SetEnabled, ChangePolicy, AdvanceRevision, CapacityChanges
  <2>2. enabled' \in BOOLEAN
    BY <1>3 DEF SetEnabled, ChangePolicy, AdvanceRevision, CapacityChanges, AccountTyped, accountVars
  <2>3. healthy' \in BOOLEAN
    BY <1>3 DEF SetEnabled, ChangePolicy, AdvanceRevision, CapacityChanges, AccountTyped
  <2>4. policy' \in Policies
    BY <1>3 DEF SetEnabled, ChangePolicy, AdvanceRevision, CapacityChanges, AccountTyped
  <2>5. \/ revision' = revision
        \/ revision < MaxRevision /\ revision' = revision + 1
    BY <1>3 DEF SetEnabled, ChangePolicy, AdvanceRevision, CapacityChanges, accountVars
  <2>6. revision' \in Revisions
    BY <2>5, FreezeAssumption DEF AccountTyped, Revisions
  <2>7. AccountTyped'
    BY <2>2, <2>3, <2>4, <2>6 DEF AccountTyped
  <2> QED
    BY <2>1, <2>7, RecordKept, RequestKept, WorkerKept
<1>4. CASE Tick
  <2>1. /\ cooldown' = [cooldown EXCEPT !.left = Less(cooldown.left)]
        /\ pending' = [q \in Requests |-> [kind |-> pending[q].kind, left |-> Less(pending[q].left)]]
        /\ view' = [w \in Workers |-> [revision |-> view[w].revision, kind |-> view[w].kind,
                                       left |-> Less(view[w].left), generation |-> view[w].generation]]
        /\ UNCHANGED <<accountVars, policy, healthy>>
        /\ UNCHANGED <<indexed, failures, place, known, task, rules, aborts, tested>>
    BY <1>4 DEF Tick
  <2>2. cooldown' \in Cooldowns
    BY <1>1, <2>1 DEF RecordTyped, Cooldowns
  <2>3. RecordTyped'
    BY <2>1, <2>2 DEF RecordTyped
  <2>4. pending' \in [Requests -> [kind : Kinds, left : Lefts]]
    BY <1>1, <2>1 DEF RequestTyped
  <2>5. RequestTyped'
    BY <2>1, <2>4 DEF RequestTyped
  <2>6. view' \in [Workers -> Cooldowns]
    BY <1>1, <2>1 DEF WorkerTyped, Cooldowns
  <2>7. WorkerTyped'
    BY <2>1, <2>6 DEF WorkerTyped
  <2> QED
    BY <2>1, <2>3, <2>5, <2>7, AccountKept
<1>5. CASE HashExpires
  <2>1. /\ cooldown' = NoCooldown
        /\ UNCHANGED <<indexed, failures>>
        /\ UNCHANGED <<accountVars, policy, healthy>>
        /\ UNCHANGED requestVars
        /\ UNCHANGED <<workerVars, tested>>
    BY <1>5 DEF HashExpires
  <2>2. RecordTyped'
    BY <2>1, NoneTyped DEF RecordTyped
  <2> QED
    BY <2>1, <2>2, AccountKept, RequestKept, WorkerKept
<1>6. CASE WindowEnds
  <2>1. /\ failures' = 0
        /\ UNCHANGED <<cooldown, indexed>>
        /\ UNCHANGED <<accountVars, policy, healthy>>
        /\ UNCHANGED requestVars
        /\ UNCHANGED <<workerVars, tested>>
    BY <1>6 DEF WindowEnds
  <2>2. RecordTyped'
    BY <2>1, FreezeAssumption DEF RecordTyped
  <2> QED
    BY <2>1, <2>2, AccountKept, RequestKept, WorkerKept
<1> QED
  BY <1>2, <1>3, <1>4, <1>5, <1>6 DEF Outside

LEMMA NextTyped == TypeOK /\ [Next]_vars => TypeOK'
<1> SUFFICES ASSUME TypeOK, [Next]_vars PROVE TypeOK'
  OBVIOUS
<1>1. RecordTyped /\ AccountTyped /\ RequestTyped /\ WorkerTyped
  BY TypeParts
<1>2. CASE UNCHANGED vars
  <2>1. UNCHANGED recordVars /\ UNCHANGED <<accountVars, policy, healthy>> /\ UNCHANGED requestVars
        /\ UNCHANGED <<workerVars, tested>>
    BY <1>2 DEF vars
  <2> QED
    BY <1>1, <2>1, RecordKept, AccountKept, RequestKept, WorkerKept, TypePartsNext
<1>3. ASSUME NEW q \in Requests, RequestStep(q) PROVE TypeOK'
  BY <1>1, <1>3, RequestStepTyped, TypePartsNext
<1>4. ASSUME NEW w \in Workers, CycleStep(w) \/ Abort(w) PROVE TypeOK'
  BY <1>1, <1>4, CycleStepTyped, TypePartsNext
<1>5. CASE Outside
  BY <1>1, <1>5, OutsideTyped, TypePartsNext
<1> QED
  BY <1>2, <1>3, <1>4, <1>5 DEF Next

\* Cooldown, requests and cycles keep their types for every number of requests
\* and cycles; the generations never run out.
THEOREM TypeCorrect == Spec => []TypeOK
BY InitTyped, NextTyped, PTL DEF Spec
-----------------------------------------------------------------------------
(* What a step does to the hash, and what follows for the views.           *)

Same == cooldown'.kind = cooldown.kind /\ cooldown'.generation = cooldown.generation
        /\ indexed' = indexed
Gone == cooldown' = NoCooldown
Fresh == cooldown'.generation = NewGeneration /\ indexed' = TRUE

LEMMA HashHeld ==
  ASSUME TypeOK, Numbered, FreezeFindable, Same \/ Gone \/ Fresh
  PROVE  Numbered' /\ FreezeFindable'
<1>1. NewGeneration # 0
  BY GenerationIsNew
<1>2. CASE Same
  BY <1>2 DEF Same, Numbered, FreezeFindable, AwaitsProbe
<1>3. CASE Gone
  BY <1>3, NoneTyped DEF Gone, Numbered, FreezeFindable, AwaitsProbe
<1>4. CASE Fresh
  BY <1>1, <1>4 DEF Fresh, Numbered, FreezeFindable
<1> QED
  BY <1>2, <1>3, <1>4

\* A cycle that keeps its view sees the freeze in force only if it did before.
LEMMA ViewKept ==
  ASSUME TypeOK, Same \/ Gone \/ Fresh, NEW w \in Workers,
         view'[w].generation = view[w].generation, SameFreeze(w)'
  PROVE  Same /\ SameFreeze(w)
<1>1. NewGeneration # view[w].generation
  BY GenerationIsNew
<1>2. ~Gone
  BY NoneTyped DEF Gone, SameFreeze, IsFreeze
<1>3. ~Fresh
  BY <1>1 DEF Fresh, SameFreeze
<1>4. Same
  BY <1>2, <1>3
<1> QED
  BY <1>4 DEF Same, SameFreeze, IsFreeze

LEMMA CycleKept ==
  ASSUME TypeOK, Same \/ Gone \/ Fresh, NEW w \in Workers, OneKind(w), Probed(w),
         view'[w].generation = view[w].generation, view'[w].kind = view[w].kind,
         task'[w] = task[w], rules'[w] = rules[w], Fresh \/ (w \in tested => w \in tested')
  PROVE  OneKind(w)' /\ Probed(w)'
<1>1. OneKind(w)'
  BY ViewKept DEF OneKind, Same
<1>2. Probed(w)'
  <2>1. SUFFICES ASSUME SameFreeze(w)', task'[w] \in Decided, rules'[w] = "probe",
                        view'[w].kind = "probe"
                 PROVE  w \in tested'
    BY DEF Probed
  <2>2. Same /\ SameFreeze(w)
    BY <2>1, ViewKept
  <2>3. w \in tested
    BY <2>1, <2>2 DEF Probed
  <2>4. ~Fresh
    BY <2>2, GenerationIsNew DEF Same, Fresh
  <2> QED
    BY <2>3, <2>4
<1> QED
  BY <1>1, <1>2

LEMMA CycleDropped ==
  ASSUME Numbered', NEW w \in Workers, view'[w] = NoCooldown
  PROVE  OneKind(w)' /\ Probed(w)'
<1>1. ~SameFreeze(w)'
  BY DEF Numbered, SameFreeze, IsFreeze, NoCooldown
<1> QED
  BY <1>1 DEF OneKind, Probed

\* No step of the requests or of the world moves a cycle.
LEMMA CyclesKept ==
  ASSUME TypeOK, Views, Same \/ Gone \/ Fresh, UNCHANGED workerVars, Fresh \/ UNCHANGED tested
  PROVE  Views'
<1>1. \A w \in Workers : OneKind(w)' /\ Probed(w)'
  <2> SUFFICES ASSUME NEW w \in Workers PROVE OneKind(w)' /\ Probed(w)'
    OBVIOUS
  <2>1. OneKind(w) /\ Probed(w)
    BY DEF Views
  <2> QED
    BY <2>1, CycleKept DEF workerVars
<1> QED
  BY <1>1 DEF Views

\* A step of one cycle keeps the others.
LEMMA OthersKept ==
  ASSUME TypeOK, Views, Same \/ Gone \/ Fresh, NEW w \in Workers, NEW v \in Workers \ {w},
         view'[v] = view[v], task'[v] = task[v], rules'[v] = rules[v],
         v \in tested => v \in tested'
  PROVE  OneKind(v)' /\ Probed(v)'
<1>1. OneKind(v) /\ Probed(v)
  BY DEF Views
<1> QED
  BY <1>1, CycleKept

LEMMA RequestsKept ==
  ASSUME Pendings, UNCHANGED requestVars PROVE Pendings'
BY DEF Pendings, requestVars

LEMMA RequestEnded ==
  ASSUME TypeOK, Pendings, NEW q \in Requests, Ends(q) PROVE Pendings'
<1>1. /\ place \in [Requests -> Places] /\ pending \in [Requests -> [kind : Kinds, left : Lefts]]
      /\ place' = [place EXCEPT ![q] = "idle"]
      /\ pending' = [pending EXCEPT ![q] = NoWrite]
  BY DEF TypeOK, Ends, Goes
<1>2. ASSUME NEW r \in Requests, place'[r] = "writing" PROVE pending'[r].kind # "none"
  <2>1. r # q /\ place[r] = "writing" /\ pending'[r] = pending[r]
    BY <1>1, <1>2
  <2> QED
    BY <2>1 DEF Pendings
<1> QED
  BY <1>2 DEF Pendings

\* READ_SCRIPT removes nothing that waits for a probe.
LEMMA ReadEffect ==
  ASSUME ReadScript PROVE (Same /\ UNCHANGED cooldown) \/ (Gone /\ ~AwaitsProbe(cooldown))
BY DEF ReadScript, Same, Gone, Blocks, AwaitsProbe

\* What FreezeHolds says of a step.
FreezeStep ==
    /\ AwaitsProbe(cooldown) /\ ~AwaitsProbe(cooldown)' =>
         \/ ClearAll
         \/ \E w \in Workers : Lift(w) /\ (w \in tested \/ rules[w] # "probe")
         \/ \E q \in Requests :
               Put(q) /\ (pending[q].kind = "freeze" \/ known[q] > cooldown.revision)
    /\ ~AwaitsProbe(cooldown) /\ AwaitsProbe(cooldown)' => \E q \in Requests : Put(q)

LEMMA QuietStep ==
  ASSUME Same \/ (Gone /\ ~AwaitsProbe(cooldown)) PROVE FreezeStep
<1>1. CASE Same
  BY <1>1 DEF Same, FreezeStep, AwaitsProbe
<1>2. CASE Gone /\ ~AwaitsProbe(cooldown)
  BY <1>2, NoneTyped DEF Gone, FreezeStep, AwaitsProbe
<1> QED
  BY <1>1, <1>2
-----------------------------------------------------------------------------
(* The invariant and the action property, action by action.                *)

LEMMA InitHeld == Init => IInv
<1> SUFFICES ASSUME Init PROVE IInv
  OBVIOUS
<1>1. Numbered /\ FreezeFindable
  BY NoneTyped DEF Init, Numbered, FreezeFindable, AwaitsProbe
<1>2. Pendings
  BY DEF Init, Pendings
<1>3. Views
  BY NoneTyped DEF Init, Views, OneKind, Probed, SameFreeze
<1> QED
  BY <1>1, <1>2, <1>3, InitTyped DEF IInv

\* What a request writes is of a kind, and replaces a freeze that waits for a
\* probe only as the property says.
LEMMA PutHeld ==
  ASSUME IInv, TypeOK', NEW q \in Requests, Put(q) PROVE IInv' /\ FreezeStep
<1>1. /\ place[q] = "writing"
      /\ WriteScript(known[q], pending[q])
      /\ Ends(q)
      /\ UNCHANGED workerVars
  BY DEF Put
<1>2. /\ known[q] \in 0 .. MaxRevision
      /\ pending[q] \in [kind : Kinds, left : Lefts]
      /\ pending[q].kind # "none"
      /\ cooldown \in Cooldowns
  BY <1>1 DEF IInv, TypeOK, Pendings
<1>3. Pendings'
  BY <1>1, RequestEnded DEF IInv
<1>4. CASE UNCHANGED <<cooldown, indexed, tested>>
  <2>1. Same
    BY <1>4 DEF Same
  <2> QED
    BY <1>1, <1>3, <1>4, <2>1, HashHeld, CyclesKept, QuietStep DEF IInv
<1>5. CASE /\ cooldown'.kind = pending[q].kind
           /\ cooldown'.generation = NewGeneration
           /\ indexed' = TRUE
           /\ ~(cooldown.revision > known[q]) /\ ~Keeps(known[q], pending[q])
  <2>1. Fresh
    BY <1>5 DEF Fresh
  <2>2. ASSUME AwaitsProbe(cooldown), ~AwaitsProbe(cooldown)'
        PROVE  pending[q].kind = "freeze" \/ known[q] > cooldown.revision
    <3>1. cooldown.kind = "probe" /\ pending[q].kind # "probe"
      BY <1>5, <2>2 DEF AwaitsProbe
    <3>2. cooldown.revision # known[q] \/ pending[q].kind # "rate"
      BY <1>5, <3>1 DEF Keeps, IsFreeze
    <3>3. pending[q].kind \in {"none", "rate", "freeze", "probe"}
      BY <1>2 DEF Kinds
    <3>4. cooldown.revision \in Nat /\ known[q] \in Nat
      BY <1>2 DEF Cooldowns
    <3> QED
      BY <1>2, <1>5, <3>1, <3>2, <3>3, <3>4
  <2>3. FreezeStep
    BY <2>2 DEF FreezeStep
  <2> QED
    BY <1>1, <1>3, <2>1, <2>3, HashHeld, CyclesKept DEF IInv
<1> QED
  BY <1>1, <1>2, <1>4, <1>5, Written DEF IInv

LEMMA RequestStepHeld ==
  ASSUME IInv, TypeOK', NEW q \in Requests, RequestStep(q) PROVE IInv' /\ FreezeStep
<1>1. /\ TypeOK
      /\ place \in [Requests -> Places] /\ pending \in [Requests -> [kind : Kinds, left : Lefts]]
  BY DEF IInv, TypeOK
<1>2. ASSUME UNCHANGED <<cooldown, indexed>> PROVE Same
  BY <1>2 DEF Same
<1>3. ASSUME Same \/ (Gone /\ ~AwaitsProbe(cooldown)), UNCHANGED workerVars, UNCHANGED tested,
             Pendings'
      PROVE  IInv' /\ FreezeStep
  BY <1>3, HashHeld, CyclesKept, QuietStep DEF IInv
<1>4. CASE Send(q) \/ SendDiagnostic(q)
  <2>1. /\ UNCHANGED workerVars /\ UNCHANGED tested /\ UNCHANGED pending
        /\ \E as \in {"sent", "testing"} : place' = [place EXCEPT ![q] = as]
        /\ ReadScript \/ UNCHANGED <<cooldown, indexed>>
    BY <1>4 DEF Send, SendDiagnostic, Sends, Goes
  <2>2. Pendings'
    BY <1>1, <2>1 DEF IInv, Pendings
  <2>3. Same \/ (Gone /\ ~AwaitsProbe(cooldown))
    BY <1>2, <2>1, ReadEffect
  <2> QED
    BY <1>3, <2>1, <2>2, <2>3
<1>5. CASE RateLimited(q)
  <2>1. PICK left \in Lefts \ {0} :
           pending' = [pending EXCEPT ![q] = [kind |-> "rate", left |-> left]]
    BY <1>5 DEF RateLimited
  <2>2. /\ place' = [place EXCEPT ![q] = "writing"]
        /\ UNCHANGED <<cooldown, indexed>> /\ UNCHANGED workerVars /\ UNCHANGED tested
    BY <1>5 DEF RateLimited, Goes, recordVars
  <2>3. Pendings'
    BY <1>1, <2>1, <2>2 DEF IInv, Pendings
  <2> QED
    BY <1>2, <1>3, <2>2, <2>3
<1>6. CASE CapacityFailure(q)
  <2>1. UNCHANGED <<cooldown, indexed>> /\ UNCHANGED workerVars /\ UNCHANGED tested
    BY <1>6 DEF CapacityFailure
  <2>2. Pendings'
    <3>1. CASE Ends(q)
      BY <1>1, <3>1, RequestEnded DEF IInv
    <3>2. CASE \E kind \in {"freeze", "probe"} :
                 /\ place' = [place EXCEPT ![q] = "writing"]
                 /\ pending' = [pending EXCEPT ![q] = [kind |-> kind, left |-> FreezeTime]]
      BY <1>1, <3>2 DEF IInv, Pendings
    <3> QED
      BY <1>6, <3>1, <3>2 DEF CapacityFailure, Goes
  <2> QED
    BY <1>2, <1>3, <2>1, <2>2
<1>7. CASE Put(q)
  BY <1>7, PutHeld
<1>8. CASE Succeed(q)
  <2>1. /\ UNCHANGED <<cooldown, indexed>> /\ UNCHANGED workerVars /\ UNCHANGED tested
        /\ \/ place' = [place EXCEPT ![q] = "clearing"] /\ UNCHANGED pending
           \/ Ends(q)
    BY <1>8 DEF Succeed, Goes, recordVars
  <2>2. Pendings'
    <3>1. CASE Ends(q)
      BY <1>1, <3>1, RequestEnded DEF IInv
    <3>2. CASE place' = [place EXCEPT ![q] = "clearing"] /\ UNCHANGED pending
      BY <1>1, <3>2 DEF IInv, Pendings
    <3> QED
      BY <2>1, <3>1, <3>2
  <2> QED
    BY <1>2, <1>3, <2>1, <2>2
<1>9. CASE ClearAfterSuccess(q)
  <2>1. /\ UNCHANGED recordVars \/ (~IsFreeze(cooldown) /\ Delete)
        /\ Ends(q) /\ UNCHANGED workerVars /\ UNCHANGED tested
    BY <1>9 DEF ClearAfterSuccess, SuccessScript
  <2>2. Same \/ (Gone /\ ~AwaitsProbe(cooldown))
    BY <1>2, <2>1 DEF recordVars, Delete, Gone, IsFreeze, AwaitsProbe
  <2> QED
    BY <1>1, <1>3, <2>1, <2>2, RequestEnded DEF IInv
<1>10. CASE GiveUp(q)
  <2>1. /\ UNCHANGED <<cooldown, indexed>> /\ UNCHANGED workerVars /\ UNCHANGED tested
        /\ Ends(q)
    BY <1>10 DEF GiveUp, recordVars
  <2> QED
    BY <1>1, <1>2, <1>3, <2>1, RequestEnded DEF IInv
<1> QED
  BY <1>4, <1>5, <1>6, <1>7, <1>8, <1>9, <1>10 DEF RequestStep

\* A step of a cycle that moves its own view only, and drops it or keeps the
\* two facts about it.
LEMMA OneCycle ==
  ASSUME IInv, TypeOK', NEW w \in Workers, Same \/ Gone \/ Fresh, UNCHANGED requestVars,
         \A v \in Workers \ {w} :
            /\ view'[v] = view[v] /\ task'[v] = task[v] /\ rules'[v] = rules[v]
            /\ v \in tested => v \in tested',
         view'[w] = NoCooldown \/ (OneKind(w)' /\ Probed(w)')
  PROVE  IInv'
<1>1. Numbered' /\ FreezeFindable'
  BY HashHeld DEF IInv
<1>2. OneKind(w)' /\ Probed(w)'
  BY <1>1, CycleDropped
<1>3. \A v \in Workers \ {w} : OneKind(v)' /\ Probed(v)'
  BY OthersKept DEF IInv
<1>4. Views'
  BY <1>2, <1>3 DEF Views
<1> QED
  BY <1>1, <1>4, RequestsKept DEF IInv

LEMMA CycleStepHeld ==
  ASSUME IInv, TypeOK', NEW w \in Workers, CycleStep(w) \/ Abort(w)
  PROVE  IInv' /\ FreezeStep
<1> DEFINE Elsewhere ==
             \A v \in Workers \ {w} :
                /\ view'[v] = view[v] /\ task'[v] = task[v] /\ rules'[v] = rules[v]
                /\ v \in tested => v \in tested'
<1>1. /\ TypeOK
      /\ task \in [Workers -> Tasks] /\ rules \in [Workers -> Policies]
      /\ view \in [Workers -> Cooldowns]
      /\ OneKind(w) /\ Probed(w)
  BY DEF IInv, TypeOK, Views
<1>2. ASSUME CycleEnds(w)
      PROVE  /\ view'[w] = NoCooldown
             /\ \A v \in Workers \ {w} :
                   view'[v] = view[v] /\ task'[v] = task[v] /\ rules'[v] = rules[v]
  BY <1>1, <1>2 DEF CycleEnds, TaskGoes
<1>3. ASSUME UNCHANGED <<cooldown, indexed>> PROVE Same
  BY <1>3 DEF Same
<1>4. CASE LoadPolicy(w)
  <2>1. /\ task' = [task EXCEPT ![w] = "listing"]
        /\ rules' = [rules EXCEPT ![w] = policy]
        /\ UNCHANGED <<view, tested>> /\ UNCHANGED <<cooldown, indexed>> /\ UNCHANGED requestVars
    BY <1>4 DEF LoadPolicy, TaskGoes, recordVars
  <2>2. Same
    BY <1>3, <2>1
  <2>3. Elsewhere
    BY <1>1, <2>1
  <2>4. OneKind(w)'
    BY <1>1, <2>1, <2>2, ViewKept DEF OneKind, Same
  <2>5. task'[w] = "listing"
    BY <1>1, <2>1
  <2>6. Probed(w)'
    BY <2>5 DEF Probed, Decided
  <2> QED
    BY <2>1, <2>2, <2>3, <2>4, <2>6, OneCycle, QuietStep
<1>5. CASE ListFreezes(w)
  <2>1. /\ UNCHANGED tested /\ UNCHANGED requestVars
        /\ \/ CycleEnds(w) /\ (ReadScript \/ UNCHANGED <<cooldown, indexed>>)
           \/ /\ ReadScript /\ Blocks
              /\ view' = [view EXCEPT ![w] = cooldown]
              /\ task' = [task EXCEPT ![w] = "listed"]
              /\ UNCHANGED rules
    BY <1>5 DEF ListFreezes, TaskGoes
  <2>2. CASE CycleEnds(w) /\ (ReadScript \/ UNCHANGED <<cooldown, indexed>>)
    <3>1. Same \/ (Gone /\ ~AwaitsProbe(cooldown))
      BY <1>3, <2>2, ReadEffect
    <3> QED
      BY <1>2, <2>1, <2>2, <3>1, OneCycle, QuietStep
  <2>3. CASE /\ ReadScript /\ Blocks
             /\ view' = [view EXCEPT ![w] = cooldown]
             /\ task' = [task EXCEPT ![w] = "listed"]
             /\ UNCHANGED rules
    <3>1. UNCHANGED <<cooldown, indexed>>
      BY <2>3 DEF ReadScript
    <3>2. view'[w] = cooldown /\ task'[w] = "listed"
      BY <1>1, <2>3
    <3>3. OneKind(w)'
      BY <3>1, <3>2 DEF OneKind
    <3>4. Probed(w)'
      BY <3>2 DEF Probed, Decided
    <3>5. Elsewhere
      BY <1>1, <2>1, <2>3
    <3> QED
      BY <1>3, <2>1, <3>1, <3>3, <3>4, <3>5, OneCycle, QuietStep
  <2> QED
    BY <2>1, <2>2, <2>3
<1>6. CASE Examine(w)
  <2>1. UNCHANGED <<cooldown, indexed>> /\ UNCHANGED requestVars
    BY <1>6 DEF Examine, recordVars
  <2>2. Same
    BY <1>3, <2>1
  <2>3. CASE CycleEnds(w) /\ UNCHANGED tested
    BY <1>2, <2>1, <2>2, <2>3, OneCycle, QuietStep
  <2>4. CASE /\ task' = [task EXCEPT ![w] = "probing"]
             /\ tested' = tested \cup {w}
             /\ UNCHANGED <<rules, view>>
    <3>1. Elsewhere
      BY <1>1, <2>4
    <3>2. OneKind(w)'
      BY <1>1, <2>2, <2>4, ViewKept DEF OneKind, Same
    <3>3. Probed(w)'
      BY <2>4 DEF Probed
    <3> QED
      BY <2>1, <2>2, <3>1, <3>2, <3>3, OneCycle, QuietStep
  <2>5. CASE /\ ~(rules[w] = "probe" /\ view[w].kind = "probe")
             /\ task' = [task EXCEPT ![w] = "lifting"]
             /\ UNCHANGED <<rules, view, tested>>
    <3>1. Elsewhere
      BY <1>1, <2>5
    <3>2. OneKind(w)'
      BY <1>1, <2>2, <2>5, ViewKept DEF OneKind, Same
    <3>3. Probed(w)'
      BY <2>5 DEF Probed
    <3> QED
      BY <2>1, <2>2, <3>1, <3>2, <3>3, OneCycle, QuietStep
  <2> QED
    BY <1>6, <2>3, <2>4, <2>5 DEF Examine, TaskGoes
<1>7. CASE Probe(w)
  <2>1. /\ task[w] = "probing"
        /\ \E there \in {"lifting", "postponing"} : task' = [task EXCEPT ![w] = there]
        /\ UNCHANGED <<rules, view, tested>>
        /\ UNCHANGED <<cooldown, indexed>> /\ UNCHANGED requestVars
    BY <1>7 DEF Probe, TaskGoes, recordVars
  <2>2. Same
    BY <1>3, <2>1
  <2>3. Elsewhere
    BY <1>1, <2>1
  <2>4. OneKind(w)'
    BY <1>1, <2>1, <2>2, ViewKept DEF OneKind, Same
  <2>5. Probed(w)'
    <3>1. SUFFICES ASSUME SameFreeze(w)', rules'[w] = "probe", view'[w].kind = "probe"
                   PROVE  w \in tested'
      BY DEF Probed
    <3>2. SameFreeze(w)
      BY <1>1, <2>1, <2>2, <3>1, ViewKept
    <3> QED
      BY <1>1, <2>1, <3>1, <3>2 DEF Probed, Decided
  <2> QED
    BY <2>1, <2>2, <2>3, <2>4, <2>5, OneCycle, QuietStep
<1>8. CASE Lift(w)
  <2>1. /\ task[w] = "lifting"
        /\ CycleEnds(w) /\ tested' = tested \ {w} /\ UNCHANGED requestVars
        /\ \/ ListedFreeze(w) /\ Delete
           \/ UNCHANGED recordVars
    BY <1>8 DEF Lift
  <2>2. Same \/ Gone
    BY <1>3, <2>1 DEF recordVars, Delete, Gone
  <2>3. IInv'
    BY <1>2, <2>1, <2>2, OneCycle
  <2>4. CASE UNCHANGED recordVars
    <3>1. Same
      BY <1>3, <2>4 DEF recordVars
    <3> QED
      BY <2>3, <3>1, QuietStep
  <2>5. CASE ListedFreeze(w) /\ Delete
    <3>1. ASSUME AwaitsProbe(cooldown) PROVE w \in tested \/ rules[w] # "probe"
      <4>1. SameFreeze(w)
        BY <2>5 DEF ListedFreeze, SameFreeze
      <4>2. view[w].kind = "probe"
        BY <1>1, <3>1, <4>1 DEF OneKind, AwaitsProbe
      <4> QED
        BY <1>1, <2>1, <4>1, <4>2 DEF Probed, Decided
    <3>2. ~AwaitsProbe(cooldown)'
      BY <2>5, NoneTyped DEF Delete, AwaitsProbe
    <3>3. FreezeStep
      BY <1>8, <3>1, <3>2 DEF FreezeStep
    <3> QED
      BY <2>3, <3>3
  <2> QED
    BY <2>1, <2>4, <2>5
<1>9. CASE Postpone(w)
  <2>1. /\ CycleEnds(w) /\ tested' = tested \ {w} /\ UNCHANGED requestVars
        /\ \/ /\ cooldown' = [cooldown EXCEPT !.left = Later(cooldown.left, FreezeTime),
                                              !.generation = NewGeneration]
              /\ indexed' = TRUE
           \/ UNCHANGED <<cooldown, indexed>>
    BY <1>9 DEF Postpone
  <2>2. cooldown \in Cooldowns
    BY <1>1 DEF TypeOK
  <2>3. (Same \/ Fresh) /\ cooldown'.kind = cooldown.kind
    BY <2>1, <2>2 DEF Same, Fresh, Cooldowns
  <2>4. FreezeStep
    BY <2>3 DEF FreezeStep, AwaitsProbe
  <2> QED
    BY <1>2, <2>1, <2>3, <2>4, OneCycle
<1>10. CASE Abort(w)
  <2>1. /\ CycleEnds(w) /\ tested' = tested \ {w} /\ UNCHANGED requestVars
        /\ UNCHANGED <<cooldown, indexed>>
    BY <1>10 DEF Abort, recordVars
  <2> QED
    BY <1>2, <1>3, <2>1, OneCycle, QuietStep
<1> QED
  BY <1>4, <1>5, <1>6, <1>7, <1>8, <1>9, <1>10 DEF CycleStep

LEMMA OutsideHeld ==
  ASSUME IInv, TypeOK', Outside PROVE IInv' /\ FreezeStep
<1>1. ASSUME Same \/ Gone, UNCHANGED workerVars, UNCHANGED tested, UNCHANGED requestVars
      PROVE  IInv'
  BY <1>1, HashHeld, CyclesKept, RequestsKept DEF IInv
<1>2. ASSUME UNCHANGED <<cooldown, indexed>> PROVE Same
  BY <1>2 DEF Same
<1>3. CASE ClearAll
  <2>1. Gone /\ UNCHANGED workerVars /\ UNCHANGED tested /\ UNCHANGED requestVars
    BY <1>3 DEF ClearAll, Delete, Gone
  <2>2. FreezeStep
    BY <1>3, <2>1, NoneTyped DEF FreezeStep, Gone, AwaitsProbe
  <2> QED
    BY <1>1, <2>1, <2>2
<1>4. CASE SetEnabled \/ ChangePolicy \/ AdvanceRevision \/ CapacityChanges \/ WindowEnds
  <2>1. UNCHANGED <<cooldown, indexed>> /\ UNCHANGED workerVars /\ UNCHANGED tested
        /\ UNCHANGED requestVars
    BY <1>4 DEF SetEnabled, ChangePolicy, AdvanceRevision, CapacityChanges, WindowEnds, recordVars
  <2> QED
    BY <1>1, <1>2, <2>1, QuietStep
<1>5. CASE Tick
  <2>1. /\ cooldown' = [cooldown EXCEPT !.left = Less(cooldown.left)]
        /\ pending' = [q \in Requests |-> [kind |-> pending[q].kind, left |-> Less(pending[q].left)]]
        /\ view' = [w \in Workers |-> [revision |-> view[w].revision, kind |-> view[w].kind,
                                       left |-> Less(view[w].left), generation |-> view[w].generation]]
        /\ UNCHANGED <<indexed, place, task, rules, tested>>
    BY <1>5 DEF Tick
  <2>2. TypeOK /\ Numbered /\ FreezeFindable /\ Pendings /\ Views
    BY DEF IInv
  <2>3. Same
    BY <2>1, <2>2 DEF Same, TypeOK, Cooldowns
  <2>4. Pendings'
    BY <2>1, <2>2 DEF Pendings
  <2>5. \A w \in Workers : OneKind(w)' /\ Probed(w)'
    <3> SUFFICES ASSUME NEW w \in Workers PROVE OneKind(w)' /\ Probed(w)'
      OBVIOUS
    <3>1. /\ view'[w].kind = view[w].kind /\ view'[w].generation = view[w].generation
          /\ task'[w] = task[w] /\ rules'[w] = rules[w] /\ tested' = tested
      BY <2>1
    <3>2. OneKind(w) /\ Probed(w)
      BY <2>2 DEF Views
    <3> QED
      BY <2>2, <2>3, <3>1, <3>2, CycleKept
  <2>6. Views'
    BY <2>5 DEF Views
  <2> QED
    BY <2>2, <2>3, <2>4, <2>6, HashHeld, QuietStep DEF IInv
<1>6. CASE HashExpires
  <2>1. /\ cooldown.kind \in {"rate", "freeze"} /\ Gone
        /\ UNCHANGED workerVars /\ UNCHANGED tested /\ UNCHANGED requestVars
    BY <1>6 DEF HashExpires, Gone
  <2>2. ~AwaitsProbe(cooldown)
    BY <2>1 DEF AwaitsProbe
  <2> QED
    BY <1>1, <2>1, <2>2, QuietStep
<1> QED
  BY <1>3, <1>4, <1>5, <1>6 DEF Outside

LEMMA StepHeld == IInv /\ [Next]_vars => IInv' /\ (FreezeStep \/ UNCHANGED vars)
<1> SUFFICES ASSUME IInv, [Next]_vars PROVE IInv' /\ (FreezeStep \/ UNCHANGED vars)
  OBVIOUS
<1>1. TypeOK'
  BY NextTyped DEF IInv
<1>2. CASE UNCHANGED vars
  <2>1. Same /\ UNCHANGED workerVars /\ UNCHANGED tested /\ UNCHANGED requestVars
    BY <1>2 DEF vars, Same, recordVars
  <2> QED
    BY <1>1, <1>2, <2>1, HashHeld, CyclesKept, RequestsKept DEF IInv
<1>3. ASSUME NEW q \in Requests, RequestStep(q) PROVE IInv' /\ FreezeStep
  BY <1>1, <1>3, RequestStepHeld
<1>4. ASSUME NEW w \in Workers, CycleStep(w) \/ Abort(w) PROVE IInv' /\ FreezeStep
  BY <1>1, <1>4, CycleStepHeld
<1>5. CASE Outside
  BY <1>1, <1>5, OutsideHeld
<1> QED
  BY <1>2, <1>3, <1>4, <1>5 DEF Next

\* The index names every freeze that waits for a probe, however many requests
\* and cycles interleave their scripts.
THEOREM FreezeStaysFindable == Spec => []FreezeFindable
<1>1. IInv => FreezeFindable
  BY DEF IInv
<1>2. IInv /\ [Next]_vars => IInv'
  BY StepHeld
<1> QED
  BY InitHeld, <1>1, <1>2, PTL DEF Spec

\* A freeze that waits for a probe ends only with a probe begun since it was
\* written last (finish_freeze), by hand, or as the other cases of FreezeHolds
\* say; an older probe never ends it, however many cycles overlap.
THEOREM FreezeHoldsAlways == Spec => FreezeHolds
<1>1. IInv /\ [Next]_vars => IInv'
  BY StepHeld
<1>2. IInv /\ [Next]_vars => [FreezeStep]_vars
  BY StepHeld
<1>3. Spec => [][FreezeStep]_vars
  BY InitHeld, <1>1, <1>2, PTL DEF Spec
<1> QED
  BY <1>3 DEF FreezeStep, FreezeHolds
=============================================================================
