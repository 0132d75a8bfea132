----------------------- MODULE SnapshotPublisher_proofs -----------------------
(* Proofs about SnapshotPublisher: whatever the processes, the calls and   *)
(* the bounds are, the critical section of a refresh keeps a process from  *)
(* serving a configuration older than one it has confirmed, and a snapshot *)
(* from mixing catalogs.                                                   *)
EXTENDS SnapshotPublisher, TLAPS

\* The records of a task that is not refreshing, and of one that begins.
LEMMA IdleWork ==
    /\ NoWork \in WorkRecords
    /\ NoSnapshot \in Snapshots
    /\ persisted \in Nat => Began \in WorkRecords /\ Began.began = persisted
<1>1. 0 \in 0..(MaxStability - 1)
  BY BoundsAssumption
<1>2. NoWork \in WorkRecords
  BY <1>1 DEF NoWork, WorkRecords
<1>3. NoSnapshot \in Snapshots
  BY DEF NoSnapshot, Snapshots
<1>4. ASSUME persisted \in Nat PROVE Began \in WorkRecords /\ Began.began = persisted
  BY <1>4, <1>1 DEF NoWork, Began, WorkRecords
<1> QED
  BY <1>2, <1>3, <1>4

LEMMA InductiveInit == Init => Inductive
<1> SUFFICES ASSUME Init PROVE Inductive
  OBVIOUS
<1>1. NoWork \in WorkRecords /\ NoSnapshot \in Snapshots
  BY IdleWork
<1>2. Boot \in Tasks
  BY DEF Tasks
<1>3. TypeOK
  BY <1>1, <1>2 DEF Init, TypeOK, Places
<1>4. OneInside
  BY DEF Init, OneInside, Inside, Compiling, Loaded
<1>5. ReadsConfirmed
  <2> SUFFICES ASSUME NEW p \in Processes
               PROVE  /\ confirmed[p] <= persisted
                      /\ snapshot[p] = NoSnapshot
                      /\ \A t \in Tasks :
                           /\ pc[p][t] \notin Loaded
                           /\ work[p][t].began <= persisted
                           /\ work[p][t].changed
    BY DEF ReadsConfirmed
  <2>1. NoWork.began = 0 /\ NoWork.changed
    BY DEF NoWork
  <2> QED
    BY <2>1 DEF Init, Loaded
<1>6. QueriesInOrder
  BY DEF Init, QueriesInOrder, Loaded
<1>7. CatalogsAgree
  BY DEF Init, CatalogsAgree
<1> QED
  BY <1>3, <1>4, <1>5, <1>6, <1>7 DEF Inductive

-----------------------------------------------------------------------------
\* The end of a refresh keeps the invariant, if what is then served is not
\* older than what the process has confirmed and was current at the beginning.
LEMMA LeaveKeeps ==
    ASSUME Inductive, NEW p \in Processes, NEW t \in Tasks, pc[p][t] \in Inside,
           NEW s \in Snapshots, Leave(p, t, s), faults' \in Nat,
           s # NoSnapshot /\ ~restored =>
               s.revision >= confirmed[p] /\ s.revision >= work[p][t].began,
           s # NoSnapshot => s.content \subseteq {s.generation}
    PROVE  Inductive'
<1> DEFINE began == work[p][t].began
<1>1. TypeOK /\ OneInside /\ QueriesInOrder /\ CatalogsAgree /\ (~restored => ReadsConfirmed)
  BY DEF Inductive
<1>2. /\ UNCHANGED <<persisted, restored, generation, restarts, inbox>>
      /\ snapshot' = [snapshot EXCEPT ![p] = s]
      /\ work' = [work EXCEPT ![p][t] = NoWork]
      /\ \E l \in {Boot, NoTask} : lock' = [lock EXCEPT ![p] = l] /\ (l = Boot => t = Boot)
      /\ \E q \in {"reading", "notifying", "idle"} :
           pc' = [pc EXCEPT ![p][t] = q] /\ (q = "reading" => t = Boot /\ lock'[p] = Boot)
      /\ confirmed' = [confirmed EXCEPT ![p] = IF began > confirmed[p] THEN began
                                               ELSE confirmed[p]]
  <2> DEFINE again == t = Boot /\ s = NoSnapshot
  <2>1. UNCHANGED <<persisted, restored, generation, restarts, inbox>>
    BY DEF Leave, external
  <2>2. /\ snapshot' = [snapshot EXCEPT ![p] = s]
        /\ work' = [work EXCEPT ![p][t] = NoWork]
        /\ confirmed' = [confirmed EXCEPT ![p] = IF began > confirmed[p] THEN began
                                                 ELSE confirmed[p]]
    BY DEF Leave
  <2>3. CASE again
    <3>1. lock' = [lock EXCEPT ![p] = Boot] /\ pc' = [pc EXCEPT ![p][t] = "reading"]
      BY <2>3 DEF Leave
    <3>2. lock'[p] = Boot
      BY <3>1, <1>1 DEF TypeOK
    <3> QED
      BY <2>1, <2>2, <2>3, <3>1, <3>2
  <2>4. CASE ~again
    <3>1. lock' = [lock EXCEPT ![p] = NoTask]
      BY <2>4 DEF Leave
    <3>2. pc' = [pc EXCEPT ![p][t] = IF t \in Admins THEN "notifying" ELSE "idle"]
      BY <2>4 DEF Leave
    <3>3. \E q \in {"reading", "notifying", "idle"} :
            pc' = [pc EXCEPT ![p][t] = q] /\ q # "reading"
      BY <3>2
    <3>4. \E l \in {Boot, NoTask} :
            lock' = [lock EXCEPT ![p] = l] /\ (l = Boot => t = Boot)
      <4>1. Boot # NoTask
        BY NamesAssumption DEF Tasks
      <4> QED
        BY <3>1, <4>1
    <3> QED
      BY <2>1, <2>2, <3>3, <3>4
  <2> QED
    BY <2>3, <2>4
<1>3. began \in Nat /\ work[p][t] \in WorkRecords
  BY <1>1 DEF TypeOK, WorkRecords
<1>4. TypeOK'
  <2>1. NoWork \in WorkRecords /\ Boot \in Tasks
    BY IdleWork DEF Tasks
  <2>2. lock' \in [Processes -> Tasks \cup {NoTask}]
    BY <1>1, <1>2, <2>1 DEF TypeOK
  <2>3. pc' \in [Processes -> [Tasks -> Places]]
    BY <1>1, <1>2 DEF TypeOK, Places
  <2>4. work' \in [Processes -> [Tasks -> WorkRecords]]
    BY <1>1, <1>2, <2>1 DEF TypeOK
  <2>5. confirmed' \in [Processes -> Nat]
    BY <1>1, <1>2, <1>3 DEF TypeOK
  <2>6. snapshot' \in [Processes -> Snapshots]
    BY <1>1, <1>2 DEF TypeOK
  <2>7. restored' \in BOOLEAN
    BY <1>1, <1>2 DEF TypeOK
  <2> QED
    BY <1>1, <1>2, <2>2, <2>3, <2>4, <2>5, <2>6, <2>7 DEF TypeOK
<1>5. lock[p] = t
  BY <1>1 DEF OneInside
<1>6. \A u \in Tasks : u # t => pc[p][u] \notin Inside
  BY <1>1, <1>5 DEF OneInside
<1>7. OneInside'
  BY <1>1, <1>2, <1>6 DEF OneInside, TypeOK, Inside, Compiling, Loaded
<1>8. (~restored => ReadsConfirmed)'
  <2> SUFFICES ASSUME ~restored' PROVE ReadsConfirmed'
    OBVIOUS
  <2>1. ~restored /\ ReadsConfirmed
    BY <1>1, <1>2
  <2>2. began <= persisted
    BY <2>1 DEF ReadsConfirmed
  <2>3. confirmed[p] <= persisted /\ confirmed[p] \in Nat /\ persisted \in Nat
    BY <1>1, <2>1 DEF ReadsConfirmed, TypeOK
  <2>4. /\ confirmed'[p] <= persisted
        /\ s # NoSnapshot => s.revision >= confirmed'[p]
        /\ snapshot'[p] = s
    BY <1>1, <1>2, <1>3, <2>1, <2>2, <2>3 DEF TypeOK, Snapshots
  <2>5. ASSUME NEW u \in Tasks
        PROVE  \/ pc'[p][u] \notin Inside
               \/ pc'[p][u] = "reading" /\ work'[p][u].began = 0 /\ work'[p][u].changed
    <3>1. CASE u = t
      <4>1. work'[p][u] = NoWork
        BY <1>1, <1>2, <3>1 DEF TypeOK
      <4>2. pc'[p][u] \in {"reading", "notifying", "idle"}
        BY <1>1, <1>2, <3>1 DEF TypeOK
      <4> QED
        BY <4>1, <4>2 DEF NoWork, Inside, Compiling, Loaded
    <3>2. CASE u # t
      BY <1>1, <1>2, <1>6, <3>2 DEF TypeOK
    <3> QED
      BY <3>1, <3>2
  <2>6. \A q \in Processes : q # p =>
          /\ confirmed'[q] = confirmed[q] /\ snapshot'[q] = snapshot[q]
          /\ pc'[q] = pc[q] /\ work'[q] = work[q]
    BY <1>1, <1>2 DEF TypeOK
  <2>7. ASSUME NEW q \in Processes, q # p
        PROVE  /\ confirmed'[q] <= persisted'
               /\ snapshot'[q] # NoSnapshot => snapshot'[q].revision >= confirmed'[q]
               /\ \A u \in Tasks :
                    /\ pc'[q][u] \in Inside => work'[q][u].began <= persisted'
                    /\ pc'[q][u] \in Loaded =>
                         /\ work'[q][u].revision >= work'[q][u].began
                         /\ work'[q][u].revision >= confirmed'[q]
                    /\ pc'[q][u] \in Compiling /\ ~work'[q][u].changed =>
                         snapshot'[q].revision >= work'[q][u].began
    BY <1>2, <2>1, <2>6, <2>7 DEF ReadsConfirmed
  <2>8. /\ confirmed'[p] <= persisted'
        /\ snapshot'[p] # NoSnapshot => snapshot'[p].revision >= confirmed'[p]
    BY <1>2, <2>4
  <2>9. ASSUME NEW u \in Tasks
        PROVE  /\ pc'[p][u] \in Inside => work'[p][u].began <= persisted'
               /\ pc'[p][u] \in Loaded =>
                    /\ work'[p][u].revision >= work'[p][u].began
                    /\ work'[p][u].revision >= confirmed'[p]
               /\ pc'[p][u] \in Compiling /\ ~work'[p][u].changed =>
                    snapshot'[p].revision >= work'[p][u].began
    <3>1. CASE pc'[p][u] \notin Inside
      BY <3>1 DEF Inside, Compiling
    <3>2. CASE pc'[p][u] = "reading" /\ work'[p][u].began = 0 /\ work'[p][u].changed
      <4>1. 0 <= persisted'
        BY <1>2, <2>3
      <4> QED
        BY <3>2, <4>1 DEF Loaded
    <3> QED
      BY <2>5, <3>1, <3>2
  <2> QED
    BY <2>7, <2>8, <2>9 DEF ReadsConfirmed
<1>9. QueriesInOrder'
  BY <1>1, <1>2 DEF QueriesInOrder, TypeOK, Loaded
<1>10. CatalogsAgree'
  BY <1>1, <1>2 DEF CatalogsAgree, TypeOK
<1> QED
  BY <1>4, <1>7, <1>8, <1>9, <1>10 DEF Inductive
-----------------------------------------------------------------------------
\* A refresh that goes on under the lock: what its next place demands of what it
\* has read is all there is to show.
LEMMA WorkKeeps ==
    ASSUME Inductive, NEW p \in Processes, NEW t \in Tasks, pc[p][t] \in Inside,
           NEW q \in Inside, NEW w \in WorkRecords,
           pc' = [pc EXCEPT ![p][t] = q], work' = [work EXCEPT ![p][t] = w],
           UNCHANGED <<external, snapshot, lock, inbox, confirmed, faults>>,
           ~restored =>
             /\ w.began = work[p][t].began
             /\ q \in Loaded => w.revision >= w.began /\ w.revision >= confirmed[p]
             /\ q \in Compiling /\ ~w.changed => snapshot[p].revision >= w.began,
           q \in Loaded => w.generation <= generation[p],
           q = "comparing" => \A c \in w.content : w.generation <= c /\ c <= generation[p]
    PROVE  Inductive'
<1>1. TypeOK /\ OneInside /\ QueriesInOrder /\ CatalogsAgree /\ (~restored => ReadsConfirmed)
  BY DEF Inductive
<1>2. UNCHANGED <<persisted, restored, generation, snapshot, lock, inbox, confirmed, faults,
                  restarts>>
  BY DEF external
<1>3. q \in Places
  BY DEF Places, Inside, Compiling, Loaded
<1>4. pc'[p][t] = q /\ work'[p][t] = w
  BY <1>1 DEF TypeOK
<1>5. \A r \in Processes : \A u \in Tasks :
        r # p \/ u # t => pc'[r][u] = pc[r][u] /\ work'[r][u] = work[r][u]
  BY <1>1 DEF TypeOK
<1>6. TypeOK'
  <2>1. pc' \in [Processes -> [Tasks -> Places]]
    BY <1>1, <1>3 DEF TypeOK
  <2>2. work' \in [Processes -> [Tasks -> WorkRecords]]
    BY <1>1 DEF TypeOK
  <2>3. restored' \in BOOLEAN
    BY <1>1, <1>2 DEF TypeOK
  <2> QED
    BY <1>1, <1>2, <2>1, <2>2, <2>3 DEF TypeOK
<1>7. OneInside'
  BY <1>1, <1>2, <1>4, <1>5 DEF OneInside
<1>8. (~restored => ReadsConfirmed)'
  <2> SUFFICES ASSUME ~restored' PROVE ReadsConfirmed'
    OBVIOUS
  <2>1. ~restored /\ ReadsConfirmed
    BY <1>1, <1>2
  <2>2. ASSUME NEW r \in Processes, NEW u \in Tasks
        PROVE  /\ pc'[r][u] \in Inside => work'[r][u].began <= persisted
               /\ pc'[r][u] \in Loaded =>
                    /\ work'[r][u].revision >= work'[r][u].began
                    /\ work'[r][u].revision >= confirmed[r]
               /\ pc'[r][u] \in Compiling /\ ~work'[r][u].changed =>
                    snapshot[r].revision >= work'[r][u].began
    <3>1. CASE r = p /\ u = t
      <4>1. work[p][t].began <= persisted
        BY <2>1 DEF ReadsConfirmed
      <4> QED
        BY <1>4, <2>1, <3>1, <4>1
    <3>2. CASE r # p \/ u # t
      BY <1>5, <2>1, <3>2 DEF ReadsConfirmed
    <3> QED
      BY <3>1, <3>2
  <2> QED
    BY <1>2, <2>1, <2>2 DEF ReadsConfirmed
<1>9. QueriesInOrder'
  BY <1>1, <1>2, <1>4, <1>5 DEF QueriesInOrder
<1>10. CatalogsAgree'
  BY <1>1, <1>2 DEF CatalogsAgree
<1> QED
  BY <1>6, <1>7, <1>8, <1>9, <1>10 DEF Inductive

\* A task moves outside of the critical section.
LEMMA OutsideKeeps ==
    ASSUME Inductive, NEW p \in Processes, NEW t \in Tasks,
           NEW q \in Places \ Inside, pc' = [pc EXCEPT ![p][t] = q],
           work' = work, lock' = lock, restored' = restored, generation' = generation,
           snapshot' = snapshot, confirmed' = confirmed, faults' = faults, restarts' = restarts,
           persisted' \in Nat, persisted' >= persisted,
           inbox' \in [Processes -> BOOLEAN]
    PROVE  Inductive'
<1>1. TypeOK /\ OneInside /\ QueriesInOrder /\ CatalogsAgree /\ (~restored => ReadsConfirmed)
  BY DEF Inductive
<1>2. pc'[p][t] = q
  BY <1>1 DEF TypeOK
<1>3. \A r \in Processes : \A u \in Tasks : r # p \/ u # t => pc'[r][u] = pc[r][u]
  BY <1>1 DEF TypeOK
<1>4. q \notin Inside /\ q \notin Compiling /\ q \notin Loaded /\ q # "comparing"
  BY DEF Inside, Compiling, Loaded
<1>5. TypeOK'
  <2>1. pc' \in [Processes -> [Tasks -> Places]]
    BY <1>1 DEF TypeOK
  <2>2. restored' \in BOOLEAN
    BY <1>1 DEF TypeOK
  <2> QED
    BY <1>1, <2>1, <2>2 DEF TypeOK
<1>6. OneInside'
  BY <1>1, <1>2, <1>3, <1>4 DEF OneInside
<1>7. (~restored => ReadsConfirmed)'
  <2> SUFFICES ASSUME ~restored' PROVE ReadsConfirmed'
    OBVIOUS
  <2>1. ReadsConfirmed
    BY <1>1
  <2>2. ASSUME NEW r \in Processes
        PROVE  /\ confirmed[r] <= persisted'
               /\ \A u \in Tasks : pc[r][u] \in Inside => work[r][u].began <= persisted'
    BY <1>1, <2>1 DEF ReadsConfirmed, TypeOK, WorkRecords
  <2> QED
    BY <1>2, <1>3, <1>4, <2>1, <2>2 DEF ReadsConfirmed
<1>8. QueriesInOrder'
  BY <1>1, <1>2, <1>3, <1>4 DEF QueriesInOrder
<1>9. CatalogsAgree'
  BY <1>1 DEF CatalogsAgree
<1> QED
  BY <1>5, <1>6, <1>7, <1>8, <1>9 DEF Inductive
-----------------------------------------------------------------------------
(* The steps of a refresh.                                                 *)

LEMMA EnterKeeps ==
    ASSUME Inductive, NEW p \in Processes, NEW t \in Tasks, Enter(p, t)
    PROVE  Inductive'
<1>1. TypeOK /\ OneInside /\ QueriesInOrder /\ CatalogsAgree /\ (~restored => ReadsConfirmed)
  BY DEF Inductive
<1> DEFINE q == IF t = Reconciliation THEN "checking" ELSE "reading"
<1>2. /\ pc[p][t] = "locking" /\ lock[p] = NoTask
      /\ lock' = [lock EXCEPT ![p] = t]
      /\ pc' = [pc EXCEPT ![p][t] = q]
      /\ work' = [work EXCEPT ![p][t] = Began]
      /\ UNCHANGED <<persisted, restored, generation, restarts, snapshot, inbox, confirmed, faults>>
  BY DEF Enter, external
<1>3. q \in {"checking", "reading"} /\ q \in Places
  BY DEF Places
<1> HIDE DEF q
<1>4. Began \in WorkRecords /\ Began.began = persisted /\ Began.changed
  <2>1. Began.changed
    BY DEF Began, NoWork
  <2> QED
    BY <1>1, <2>1, IdleWork DEF TypeOK
<1>5. pc'[p][t] = q /\ work'[p][t] = Began
  BY <1>1, <1>2 DEF TypeOK
<1>6. \A r \in Processes : \A u \in Tasks :
        r # p \/ u # t => pc'[r][u] = pc[r][u] /\ work'[r][u] = work[r][u]
  BY <1>1, <1>2 DEF TypeOK
<1>7. TypeOK'
  <2>1. pc' \in [Processes -> [Tasks -> Places]]
    BY <1>1, <1>2, <1>3 DEF TypeOK
  <2>2. work' \in [Processes -> [Tasks -> WorkRecords]]
    BY <1>1, <1>2, <1>4 DEF TypeOK
  <2>3. restored' \in BOOLEAN /\ lock' \in [Processes -> Tasks \cup {NoTask}]
    BY <1>1, <1>2 DEF TypeOK
  <2> QED
    BY <1>1, <1>2, <2>1, <2>2, <2>3 DEF TypeOK
<1>8. OneInside'
  <2> SUFFICES ASSUME NEW r \in Processes, NEW u \in Tasks, pc'[r][u] \in Inside
               PROVE  lock'[r] = u
    BY DEF OneInside
  <2>1. CASE r = p /\ u = t
    BY <1>1, <1>2, <2>1 DEF TypeOK
  <2>2. CASE r = p /\ u # t
    <3>1. lock[p] = u
      BY <1>1, <1>6, <2>2 DEF OneInside
    <3>2. NoTask \notin Tasks
      BY NamesAssumption
    <3> QED
      BY <1>2, <3>1, <3>2
  <2>3. CASE r # p
    BY <1>1, <1>2, <1>6, <2>3 DEF OneInside, TypeOK
  <2> QED
    BY <2>1, <2>2, <2>3
<1>9. (~restored => ReadsConfirmed)'
  <2> SUFFICES ASSUME ~restored' PROVE ReadsConfirmed'
    OBVIOUS
  <2>1. ReadsConfirmed /\ persisted \in Nat
    BY <1>1, <1>2 DEF TypeOK
  <2>2. ASSUME NEW r \in Processes, NEW u \in Tasks
        PROVE  /\ pc'[r][u] \in Inside => work'[r][u].began <= persisted
               /\ pc'[r][u] \in Loaded =>
                    /\ work'[r][u].revision >= work'[r][u].began
                    /\ work'[r][u].revision >= confirmed[r]
               /\ pc'[r][u] \in Compiling /\ ~work'[r][u].changed =>
                    snapshot[r].revision >= work'[r][u].began
    <3>1. CASE r = p /\ u = t
      BY <1>3, <1>4, <1>5, <2>1, <3>1 DEF Loaded
    <3>2. CASE r # p \/ u # t
      BY <1>6, <2>1, <3>2 DEF ReadsConfirmed
    <3> QED
      BY <3>1, <3>2
  <2> QED
    BY <1>2, <2>1, <2>2 DEF ReadsConfirmed
<1>10. QueriesInOrder'
  <2>1. q \notin Loaded /\ q # "comparing"
    BY <1>3 DEF Loaded
  <2> QED
    BY <1>1, <1>2, <1>5, <1>6, <2>1 DEF QueriesInOrder
<1>11. CatalogsAgree'
  BY <1>1, <1>2 DEF CatalogsAgree
<1> QED
  BY <1>7, <1>8, <1>9, <1>10, <1>11 DEF Inductive

\* The facts about the task inside that each of its steps uses.
LEMMA InsideFacts ==
    ASSUME Inductive, NEW p \in Processes, NEW t \in Tasks, pc[p][t] \in Inside
    PROVE  /\ work[p][t] \in WorkRecords /\ snapshot[p] \in Snapshots
           /\ persisted \in Nat /\ generation[p] \in Nat /\ confirmed[p] \in Nat
           /\ snapshot[p] # NoSnapshot => snapshot[p].content \subseteq {snapshot[p].generation}
           /\ ~restored =>
                /\ work[p][t].began <= persisted /\ confirmed[p] <= persisted
                /\ snapshot[p] # NoSnapshot => snapshot[p].revision >= confirmed[p]
                /\ pc[p][t] \in Loaded => work[p][t].revision >= work[p][t].began
                                          /\ work[p][t].revision >= confirmed[p]
                /\ pc[p][t] \in Compiling /\ ~work[p][t].changed =>
                     snapshot[p].revision >= work[p][t].began
           /\ pc[p][t] \in Loaded => work[p][t].generation <= generation[p]
           /\ pc[p][t] = "comparing" =>
                \A c \in work[p][t].content : work[p][t].generation <= c /\ c <= generation[p]
  BY DEF Inductive, TypeOK, ReadsConfirmed, QueriesInOrder, CatalogsAgree

\* A compilation that fails, under any of its conditions.
LEMMA FailedKeeps ==
    ASSUME Inductive, NEW p \in Processes, NEW t \in Tasks, pc[p][t] \in Compiling,
           Failed(p, t), faults' \in Nat
    PROVE  Inductive'
<1>1. pc[p][t] \in Inside
  BY DEF Inside
<1> DEFINE s == IF work[p][t].changed THEN NoSnapshot ELSE snapshot[p]
<1>2. Leave(p, t, s)
  BY DEF Failed
<1>3. s \in Snapshots
  BY <1>1, InsideFacts, IdleWork
<1>4. s # NoSnapshot => s = snapshot[p] /\ ~work[p][t].changed
  OBVIOUS
<1> HIDE DEF s
<1>5. s # NoSnapshot /\ ~restored => s.revision >= confirmed[p] /\ s.revision >= work[p][t].began
  BY <1>1, <1>4, InsideFacts
<1>6. s # NoSnapshot => s.content \subseteq {s.generation}
  BY <1>1, <1>4, InsideFacts
<1> QED
  BY <1>1, <1>2, <1>3, <1>5, <1>6, LeaveKeeps

LEMMA CheckKeeps ==
    ASSUME Inductive, NEW p \in Processes, NEW t \in Tasks, Check(p, t)
    PROVE  Inductive'
<1>1. pc[p][t] = "checking" /\ pc[p][t] \in Inside /\ pc[p][t] \notin Loaded
  BY DEF Check, Inside, Compiling, Loaded
<1>2. /\ work[p][t] \in WorkRecords /\ snapshot[p] \in Snapshots /\ faults \in Nat
      /\ ~restored => work[p][t].began <= persisted
      /\ work \in [Processes -> [Tasks -> WorkRecords]]
  BY <1>1, InsideFacts DEF Inductive, TypeOK
<1>3. CASE /\ work' = [work EXCEPT ![p][t].changed = NeedsRefresh(p)]
           /\ pc' = [pc EXCEPT ![p][t] = "reading"]
           /\ UNCHANGED <<external, snapshot, lock, inbox, confirmed, faults>>
  <2> DEFINE w == [work[p][t] EXCEPT !.changed = NeedsRefresh(p)]
  <2>1. work' = [work EXCEPT ![p][t] = w]
    BY <1>2, <1>3
  <2>2. /\ w \in WorkRecords /\ w.began = work[p][t].began
        /\ ~w.changed => snapshot[p].revision = persisted
    BY <1>2 DEF WorkRecords, NeedsRefresh
  <2> HIDE DEF w
  <2>3. "reading" \in Inside /\ "reading" \notin Loaded /\ "reading" # "comparing"
    BY DEF Inside, Compiling, Loaded
  <2>4. ~restored =>
          /\ w.began = work[p][t].began
          /\ "reading" \in Loaded => w.revision >= w.began /\ w.revision >= confirmed[p]
          /\ "reading" \in Compiling /\ ~w.changed => snapshot[p].revision >= w.began
    BY <1>2, <2>2, <2>3
  <2>5. /\ "reading" \in Loaded => w.generation <= generation[p]
        /\ "reading" = "comparing" =>
             \A c \in w.content : w.generation <= c /\ c <= generation[p]
    BY <2>3
  <2>6. UNCHANGED <<external, snapshot, lock, inbox, confirmed, faults>>
    BY <1>3
  <2>7. pc' = [pc EXCEPT ![p][t] = "reading"]
    BY <1>3
  <2> QED
    BY <1>1, <2>1, <2>2, <2>3, <2>4, <2>5, <2>6, <2>7, WorkKeeps
<1>4. CASE ~NeedsRefresh(p) /\ Leave(p, t, snapshot[p]) /\ UNCHANGED faults
  <2>1. snapshot[p].revision = persisted
    BY <1>4 DEF NeedsRefresh
  <2>2. faults' \in Nat
    BY <1>2, <1>4
  <2>3. /\ snapshot[p] # NoSnapshot /\ ~restored =>
              snapshot[p].revision >= confirmed[p] /\ snapshot[p].revision >= work[p][t].began
        /\ snapshot[p] # NoSnapshot => snapshot[p].content \subseteq {snapshot[p].generation}
    BY <1>1, <1>2, <2>1, InsideFacts
  <2> QED
    BY <1>1, <1>2, <1>4, <2>2, <2>3, LeaveKeeps
<1>5. CASE Fault /\ Leave(p, t, NoSnapshot)
  <2>1. faults' \in Nat
    BY <1>2, <1>5 DEF Fault
  <2> QED
    BY <1>1, <1>5, <2>1, IdleWork, LeaveKeeps
<1> QED
  BY <1>3, <1>4, <1>5 DEF Check

LEMMA FaultKeeps ==
    ASSUME Inductive, NEW p \in Processes, NEW t \in Tasks, pc[p][t] \in Compiling,
           Fault, Failed(p, t)
    PROVE  Inductive'
<1>1. faults' \in Nat
  BY DEF Fault, Inductive, TypeOK
<1> QED
  BY <1>1, FailedKeeps

LEMMA ReadFactsKeeps ==
    ASSUME Inductive, NEW p \in Processes, NEW t \in Tasks, ReadFacts(p, t)
    PROVE  Inductive'
<1>1. pc[p][t] = "reading" /\ pc[p][t] \in Inside /\ pc[p][t] \in Compiling
  BY DEF ReadFacts, Inside, Compiling
<1>2. CASE /\ work' = [work EXCEPT ![p][t].generation = generation[p],
                                   ![p][t].revision = persisted]
           /\ pc' = [pc EXCEPT ![p][t] = "observing"]
           /\ UNCHANGED <<external, snapshot, lock, inbox, confirmed, faults>>
  <2> DEFINE w == [work[p][t] EXCEPT !.generation = generation[p], !.revision = persisted]
  <2>1. /\ work[p][t] \in WorkRecords /\ persisted \in Nat /\ generation[p] \in Nat
        /\ ~restored => work[p][t].began <= persisted /\ confirmed[p] <= persisted
        /\ ~restored => (~work[p][t].changed => snapshot[p].revision >= work[p][t].began)
    BY <1>1, InsideFacts
  <2>2. work \in [Processes -> [Tasks -> WorkRecords]]
    BY DEF Inductive, TypeOK
  <2>3. work' = [work EXCEPT ![p][t] = w]
    BY <1>2, <2>1, <2>2
  <2>4. /\ w \in WorkRecords /\ w.began = work[p][t].began /\ w.revision = persisted
        /\ w.generation = generation[p] /\ w.changed = work[p][t].changed
    BY <2>1 DEF WorkRecords
  <2> HIDE DEF w
  <2>5. "observing" \in Inside /\ "observing" # "comparing"
    BY DEF Inside, Compiling, Loaded
  <2>6. ~restored =>
          /\ w.began = work[p][t].began
          /\ "observing" \in Loaded => w.revision >= w.began /\ w.revision >= confirmed[p]
          /\ "observing" \in Compiling /\ ~w.changed => snapshot[p].revision >= w.began
    BY <2>1, <2>4
  <2>7. /\ "observing" \in Loaded => w.generation <= generation[p]
        /\ "observing" = "comparing" =>
             \A c \in w.content : w.generation <= c /\ c <= generation[p]
    BY <2>1, <2>4
  <2>8. UNCHANGED <<external, snapshot, lock, inbox, confirmed, faults>>
    BY <1>2
  <2>9. pc' = [pc EXCEPT ![p][t] = "observing"]
    BY <1>2
  <2> QED
    BY <1>1, <2>3, <2>4, <2>5, <2>6, <2>7, <2>8, <2>9, WorkKeeps
<1>3. CASE Fault /\ Failed(p, t)
  BY <1>1, <1>3, FaultKeeps
<1> QED
  BY <1>2, <1>3 DEF ReadFacts

LEMMA ObserveRevisionKeeps ==
    ASSUME Inductive, NEW p \in Processes, NEW t \in Tasks, ObserveRevision(p, t)
    PROVE  Inductive'
<1>1. /\ pc[p][t] = "observing" /\ pc[p][t] \in Inside /\ pc[p][t] \in Compiling
      /\ pc[p][t] \in Loaded /\ "querying" \in Inside /\ "querying" # "comparing"
  BY DEF ObserveRevision, Inside, Compiling, Loaded
<1>2. CASE /\ pc' = [pc EXCEPT ![p][t] = "querying"]
           /\ UNCHANGED <<external, snapshot, lock, work, inbox, confirmed, faults>>
  <2>1. work' = [work EXCEPT ![p][t] = work[p][t]]
    BY <1>2 DEF Inductive, TypeOK
  <2> QED
    BY ZenonT(60), <1>1, <1>2, <2>1, InsideFacts, WorkKeeps
<1>3. CASE Failed(p, t) /\ UNCHANGED faults
  <2>1. faults' \in Nat
    BY <1>3 DEF Inductive, TypeOK
  <2> QED
    BY <1>1, <1>3, <2>1, FailedKeeps
<1>4. CASE Fault /\ Failed(p, t)
  BY <1>1, <1>4, FaultKeeps
<1> QED
  BY <1>2, <1>3, <1>4 DEF ObserveRevision

LEMMA QueryCatalogsKeeps ==
    ASSUME Inductive, NEW p \in Processes, NEW t \in Tasks, QueryCatalogs(p, t)
    PROVE  Inductive'
<1>1. /\ pc[p][t] = "querying" /\ pc[p][t] \in Inside /\ pc[p][t] \in Compiling
      /\ pc[p][t] \in Loaded /\ "comparing" \in Inside
  BY DEF QueryCatalogs, Inside, Compiling, Loaded
<1>2. ASSUME NEW c \in {{generation[p]}, {}},
             work' = [work EXCEPT ![p][t].content = c],
             pc' = [pc EXCEPT ![p][t] = "comparing"],
             UNCHANGED <<external, snapshot, lock, inbox, confirmed, faults>>
      PROVE  Inductive'
  <2> DEFINE w == [work[p][t] EXCEPT !.content = c]
  <2>1. work[p][t] \in WorkRecords /\ generation[p] \in Nat
    BY <1>1, InsideFacts
  <2>2. work' = [work EXCEPT ![p][t] = w]
    BY <1>2, <2>1 DEF Inductive, TypeOK
  <2>3. /\ w \in WorkRecords /\ w.began = work[p][t].began
        /\ w.revision = work[p][t].revision /\ w.changed = work[p][t].changed
        /\ w.generation = work[p][t].generation /\ w.content = c
    BY <1>2, <2>1 DEF WorkRecords
  <2> HIDE DEF w
  <2>4. w.generation <= generation[p]
    BY <1>1, <2>3, InsideFacts
  <2>5. \A d \in w.content : w.generation <= d /\ d <= generation[p]
    BY <1>2, <2>1, <2>3, <2>4
  <2>6. ~restored => /\ w.began = work[p][t].began
                     /\ w.revision >= w.began /\ w.revision >= confirmed[p]
                     /\ ~w.changed => snapshot[p].revision >= w.began
    BY <1>1, <2>3, InsideFacts
  <2> QED
    BY ZenonT(60), <1>1, <1>2, <2>2, <2>3, <2>4, <2>5, <2>6, WorkKeeps
<1>3. CASE Fault /\ Failed(p, t)
  BY <1>1, <1>3, FaultKeeps
<1> QED
  BY <1>2, <1>3 DEF QueryCatalogs

LEMMA CompareCatalogsKeeps ==
    ASSUME Inductive, NEW p \in Processes, NEW t \in Tasks, CompareCatalogs(p, t)
    PROVE  Inductive'
<1>1. /\ pc[p][t] = "comparing" /\ pc[p][t] \in Inside /\ pc[p][t] \in Compiling
      /\ pc[p][t] \in Loaded
  BY DEF CompareCatalogs, Inside, Compiling, Loaded
<1>2. /\ work[p][t] \in WorkRecords /\ generation[p] \in Nat
      /\ faults' = faults /\ faults' \in Nat
      /\ work \in [Processes -> [Tasks -> WorkRecords]]
  BY <1>1, InsideFacts DEF CompareCatalogs, Inductive, TypeOK
<1>3. ASSUME Stable(p, t),
             Leave(p, t, [revision |-> work[p][t].revision, generation |-> generation[p],
                          content |-> work[p][t].content])
      PROVE  Inductive'
  <2> DEFINE s == [revision |-> work[p][t].revision, generation |-> generation[p],
                   content |-> work[p][t].content]
  <2>1. s \in Snapshots /\ s.revision = work[p][t].revision
    BY <1>2 DEF Snapshots, WorkRecords
  <2>2. s.content \subseteq {s.generation}
    <3> SUFFICES ASSUME NEW c \in work[p][t].content PROVE c = generation[p]
      OBVIOUS
    <3>1. work[p][t].generation = generation[p]
      BY <1>3 DEF Stable
    <3>2. generation[p] <= c /\ c <= generation[p]
      BY <1>1, <3>1, InsideFacts
    <3>3. c \in Nat
      BY <1>2 DEF WorkRecords
    <3> QED
      BY <1>2, <3>2, <3>3
  <2>3. Leave(p, t, s)
    BY <1>3
  <2> HIDE DEF s
  <2>4. s # NoSnapshot /\ ~restored => s.revision >= confirmed[p] /\ s.revision >= work[p][t].began
    BY <1>1, <2>1, InsideFacts
  <2> QED
    BY <1>1, <1>2, <2>1, <2>2, <2>3, <2>4, LeaveKeeps
<1>4. ASSUME ~LastTry(p, t),
             work' = [work EXCEPT ![p][t].tries = @ + 1],
             pc' = [pc EXCEPT ![p][t] = "reading"],
             UNCHANGED <<external, snapshot, lock, inbox, confirmed, faults>>
      PROVE  Inductive'
  <2> DEFINE w == [work[p][t] EXCEPT !.tries = work[p][t].tries + 1]
  <2>1. work' = [work EXCEPT ![p][t] = w]
    BY <1>2, <1>4
  <2>2. work[p][t].tries + 1 \in 0..(MaxStability - 1)
    <3>1. work[p][t].tries \in Nat
      BY <1>2 DEF WorkRecords
    <3> QED
      BY <1>4, <3>1, BoundsAssumption DEF LastTry
  <2>3. w \in WorkRecords /\ w.began = work[p][t].began /\ w.changed = work[p][t].changed
    BY <1>2, <2>2 DEF WorkRecords
  <2> HIDE DEF w
  <2>4. "reading" \in Inside /\ "reading" \notin Loaded /\ "reading" # "comparing"
    BY DEF Inside, Compiling, Loaded
  <2>5. ~restored =>
          /\ w.began = work[p][t].began
          /\ "reading" \in Loaded => w.revision >= w.began /\ w.revision >= confirmed[p]
          /\ "reading" \in Compiling /\ ~w.changed => snapshot[p].revision >= w.began
    BY <1>1, <2>3, <2>4, InsideFacts
  <2>6. /\ "reading" \in Loaded => w.generation <= generation[p]
        /\ "reading" = "comparing" =>
             \A c \in w.content : w.generation <= c /\ c <= generation[p]
    BY <2>4
  <2>7. UNCHANGED <<external, snapshot, lock, inbox, confirmed, faults>>
    BY <1>4
  <2>8. pc' = [pc EXCEPT ![p][t] = "reading"]
    BY <1>4
  <2> QED
    BY <1>1, <2>1, <2>3, <2>4, <2>5, <2>6, <2>7, <2>8, WorkKeeps
<1>5. CASE Failed(p, t)
  BY <1>1, <1>2, <1>5, FailedKeeps
<1> QED
  <2>1. UNCHANGED faults
    BY <1>2
  <2> QED
    BY <2>1, <1>3, <1>4, <1>5 DEF CompareCatalogs

-----------------------------------------------------------------------------
(* The steps outside of a refresh.                                         *)

LEMMA CommitKeeps ==
    ASSUME Inductive, NEW p \in Processes, NEW a \in Admins, Commit(p, a)
    PROVE  Inductive'
<1>1. a \in Tasks /\ "locking" \in Places \ Inside
  BY DEF Tasks, Places, Inside, Compiling, Loaded
<1>2. persisted \in Nat /\ inbox \in [Processes -> BOOLEAN]
  BY DEF Inductive, TypeOK
<1>3. persisted' \in Nat /\ persisted' >= persisted
  BY <1>2 DEF Commit
<1> QED
  BY <1>1, <1>2, <1>3, OutsideKeeps DEF Commit

LEMMA NotifiedKeeps ==
    ASSUME Inductive, NEW p \in Processes, Notified(p)
    PROVE  Inductive'
<1>1. Subscription \in Tasks /\ "locking" \in Places \ Inside
  BY DEF Tasks, Places, Inside, Compiling, Loaded
<1>2. persisted \in Nat /\ persisted' = persisted /\ persisted' >= persisted
  BY DEF Notified, external, Inductive, TypeOK
<1>3. inbox' \in [Processes -> BOOLEAN]
  BY DEF Notified, Inductive, TypeOK
<1> QED
  BY <1>1, <1>2, <1>3, OutsideKeeps DEF Notified, external

LEMMA ReconcileKeeps ==
    ASSUME Inductive, NEW p \in Processes, Reconcile(p)
    PROVE  Inductive'
<1>1. Reconciliation \in Tasks /\ "locking" \in Places \ Inside
  BY DEF Tasks, Places, Inside, Compiling, Loaded
<1>2. persisted \in Nat /\ persisted' = persisted /\ persisted' >= persisted
  BY DEF Reconcile, external, Inductive, TypeOK
<1>3. inbox' \in [Processes -> BOOLEAN]
  BY DEF Reconcile, Inductive, TypeOK
<1> QED
  BY <1>1, <1>2, <1>3, OutsideKeeps DEF Reconcile, external

LEMMA NotifyKeeps ==
    ASSUME Inductive, NEW p \in Processes, NEW a \in Admins, Notify(p, a)
    PROVE  Inductive'
<1>1. a \in Tasks /\ "idle" \in Places \ Inside
  BY DEF Tasks, Places, Inside, Compiling, Loaded
<1>2. persisted \in Nat /\ persisted' = persisted /\ persisted' >= persisted
  BY DEF Notify, external, Inductive, TypeOK
<1>3. inbox' \in [Processes -> BOOLEAN]
  BY Zenon DEF Notify, Inductive, TypeOK
<1> QED
  BY <1>1, <1>2, <1>3, OutsideKeeps DEF Notify, external

LEMMA DropCallKeeps ==
    ASSUME Inductive, NEW p \in Processes, NEW a \in Admins, DropCall(p, a)
    PROVE  Inductive'
<1>1. TypeOK /\ OneInside /\ QueriesInOrder /\ CatalogsAgree /\ (~restored => ReadsConfirmed)
  BY DEF Inductive
<1>2. a \in Tasks /\ "idle" \in Places \ Inside
  BY DEF Tasks, Places, Inside, Compiling, Loaded
<1>3. /\ pc' = [pc EXCEPT ![p][a] = "idle"] /\ work' = [work EXCEPT ![p][a] = NoWork]
      /\ lock' = [lock EXCEPT ![p] = IF lock[p] = a THEN NoTask ELSE lock[p]]
      /\ UNCHANGED <<persisted, restored, generation, restarts, snapshot, inbox, confirmed,
                     faults>>
  BY <1>1 DEF DropCall, external, TypeOK
<1>4. pc'[p][a] = "idle"
  BY <1>1, <1>2, <1>3 DEF TypeOK
<1>5. \A r \in Processes : \A u \in Tasks :
        r # p \/ u # a => pc'[r][u] = pc[r][u] /\ work'[r][u] = work[r][u]
  BY <1>1, <1>3 DEF TypeOK
<1>6. "idle" \notin Inside /\ "idle" \notin Compiling /\ "idle" \notin Loaded
  BY DEF Inside, Compiling, Loaded
<1>7. TypeOK'
  <2>1. NoWork \in WorkRecords
    BY IdleWork
  <2>2. pc' \in [Processes -> [Tasks -> Places]]
    BY <1>1, <1>2, <1>3 DEF TypeOK
  <2>3. work' \in [Processes -> [Tasks -> WorkRecords]]
    BY <1>1, <1>2, <1>3, <2>1 DEF TypeOK
  <2>4. lock' \in [Processes -> Tasks \cup {NoTask}]
    BY <1>1, <1>3 DEF TypeOK
  <2>5. restored' \in BOOLEAN
    BY <1>1, <1>3 DEF TypeOK
  <2> QED
    BY <1>1, <1>3, <2>2, <2>3, <2>4, <2>5 DEF TypeOK
<1>8. OneInside'
  <2> SUFFICES ASSUME NEW r \in Processes, NEW u \in Tasks, pc'[r][u] \in Inside
               PROVE  lock'[r] = u
    BY DEF OneInside
  <2>1. r # p \/ u # a
    BY <1>4, <1>6
  <2>2. lock[r] = u
    BY <1>1, <1>5, <2>1 DEF OneInside
  <2> QED
    BY <1>1, <1>3, <2>1, <2>2 DEF TypeOK
<1>9. (~restored => ReadsConfirmed)'
  <2> SUFFICES ASSUME ~restored' PROVE ReadsConfirmed'
    OBVIOUS
  <2>1. ReadsConfirmed
    BY <1>1, <1>3
  <2> QED
    BY <1>3, <1>4, <1>5, <1>6, <2>1 DEF ReadsConfirmed
<1>10. QueriesInOrder'
  BY <1>1, <1>3, <1>4, <1>5, <1>6 DEF QueriesInOrder, Loaded
<1>11. CatalogsAgree'
  BY <1>1, <1>3 DEF CatalogsAgree
<1> QED
  BY <1>7, <1>8, <1>9, <1>10, <1>11 DEF Inductive

LEMMA RestartKeeps ==
    ASSUME Inductive, NEW p \in Processes, Restart(p)
    PROVE  Inductive'
<1>1. TypeOK /\ OneInside /\ QueriesInOrder /\ CatalogsAgree /\ (~restored => ReadsConfirmed)
  BY DEF Inductive
<1> DEFINE start == [t \in Tasks |-> IF t = Boot THEN "reading" ELSE "idle"]
           fresh == [t \in Tasks |-> NoWork]
<1>2. /\ pc' = [pc EXCEPT ![p] = start] /\ work' = [work EXCEPT ![p] = fresh]
      /\ lock' = [lock EXCEPT ![p] = Boot] /\ snapshot' = [snapshot EXCEPT ![p] = NoSnapshot]
      /\ inbox' = [inbox EXCEPT ![p] = FALSE] /\ restarts' = restarts + 1
      /\ UNCHANGED <<persisted, restored, generation, confirmed, faults>>
  BY DEF Restart
<1>3. /\ NoWork \in WorkRecords /\ NoSnapshot \in Snapshots /\ Boot \in Tasks
      /\ NoWork.began = 0 /\ NoWork.changed
  BY IdleWork DEF NoWork, Tasks
<1>4. /\ start \in [Tasks -> Places] /\ fresh \in [Tasks -> WorkRecords]
      /\ \A t \in Tasks : /\ start[t] \in Inside => t = Boot
                           /\ start[t] \notin Loaded
                           /\ fresh[t].began = 0 /\ fresh[t].changed
  BY <1>3 DEF Places, Inside, Compiling, Loaded
<1>12. ASSUME NEW t \in Tasks
      PROVE  /\ pc'[p][t] = start[t] /\ work'[p][t] = NoWork
             /\ pc'[p][t] \in Inside => t = Boot
             /\ pc'[p][t] \notin Loaded /\ pc'[p][t] # "comparing"
  <2>1. pc'[p][t] = start[t] /\ work'[p][t] = NoWork
    BY <1>1, <1>2 DEF TypeOK
  <2>2. start[t] \in {"reading", "idle"} /\ (start[t] = "reading" => t = Boot)
    OBVIOUS
  <2> QED
    BY <2>1, <2>2 DEF Inside, Compiling, Loaded
<1> HIDE DEF start, fresh
<1>5. pc'[p] = start /\ work'[p] = fresh /\ lock'[p] = Boot /\ snapshot'[p] = NoSnapshot
  BY <1>1, <1>2 DEF TypeOK
<1>6. \A r \in Processes : r # p =>
        pc'[r] = pc[r] /\ work'[r] = work[r] /\ lock'[r] = lock[r] /\ snapshot'[r] = snapshot[r]
  BY <1>1, <1>2 DEF TypeOK
<1>7. TypeOK'
  <2>1. pc' \in [Processes -> [Tasks -> Places]] /\ work' \in [Processes -> [Tasks -> WorkRecords]]
    BY <1>1, <1>2, <1>4 DEF TypeOK
  <2>2. lock' \in [Processes -> Tasks \cup {NoTask}] /\ snapshot' \in [Processes -> Snapshots]
    BY <1>1, <1>2, <1>3 DEF TypeOK
  <2>3. restored' \in BOOLEAN /\ inbox' \in [Processes -> BOOLEAN]
    BY <1>1, <1>2 DEF TypeOK
  <2> QED
    BY <1>1, <1>2, <2>1, <2>2, <2>3 DEF TypeOK
<1>8. OneInside'
  BY <1>1, <1>4, <1>5, <1>6 DEF OneInside
<1>9. (~restored => ReadsConfirmed)'
  <2> SUFFICES ASSUME ~restored' PROVE ReadsConfirmed'
    OBVIOUS
  <2>1. ReadsConfirmed /\ persisted \in Nat
    BY <1>1, <1>2 DEF TypeOK
  <2>2. \A t \in Tasks : /\ pc'[p][t] \in Inside => work'[p][t].began <= persisted'
                         /\ pc'[p][t] \notin Loaded /\ work'[p][t].changed
    <3>1. 0 <= persisted'
      BY <1>2, <2>1
    <3>2. \A t \in Tasks : work'[p][t].began = 0
      BY <1>3, <1>12
    <3>3. \A t \in Tasks : pc'[p][t] \notin Loaded /\ work'[p][t].changed
      BY <1>3, <1>12
    <3> QED
      BY <3>1, <3>2, <3>3
  <2> QED
    BY <1>2, <1>5, <1>6, <2>1, <2>2 DEF ReadsConfirmed
<1>10. QueriesInOrder'
  <2>2. ASSUME NEW t \in Tasks PROVE pc'[p][t] \notin Loaded /\ pc'[p][t] # "comparing"
    BY <1>12
  <2>3. ASSUME NEW r \in Processes, r # p, NEW t \in Tasks
        PROVE  /\ pc'[r][t] \in Loaded => work'[r][t].generation <= generation'[r]
               /\ pc'[r][t] = "comparing" =>
                    \A c \in work'[r][t].content :
                        work'[r][t].generation <= c /\ c <= generation'[r]
    BY <1>1, <1>2, <1>6, <2>3 DEF QueriesInOrder
  <2> QED
    BY <2>2, <2>3 DEF QueriesInOrder
<1>11. CatalogsAgree'
  BY <1>1, <1>5, <1>6 DEF CatalogsAgree
<1> QED
  BY <1>7, <1>8, <1>9, <1>10, <1>11 DEF Inductive

LEMMA CatalogChangeKeeps ==
    ASSUME Inductive, NEW p \in Processes, CatalogChange(p)
    PROVE  Inductive'
<1>1. TypeOK /\ OneInside /\ QueriesInOrder /\ CatalogsAgree /\ (~restored => ReadsConfirmed)
  BY DEF Inductive
<1>2. /\ generation' = [generation EXCEPT ![p] = generation[p] + 1]
      /\ UNCHANGED <<persisted, restored, snapshot, lock, pc, work, inbox, confirmed, faults,
                     restarts>>
  BY DEF CatalogChange
<1>3. TypeOK'
  <2>1. generation' \in [Processes -> Nat] /\ restored' \in BOOLEAN
    BY <1>1, <1>2 DEF TypeOK
  <2> QED
    BY <1>1, <1>2, <2>1 DEF TypeOK
<1>4. \A r \in Processes : generation[r] \in Nat /\ generation'[r] \in Nat
                           /\ generation[r] <= generation'[r]
  BY <1>1, <1>2 DEF TypeOK
<1>5. QueriesInOrder'
  <2> SUFFICES ASSUME NEW r \in Processes, NEW t \in Tasks
               PROVE  /\ pc[r][t] \in Loaded => work[r][t].generation <= generation'[r]
                      /\ pc[r][t] = "comparing" =>
                           \A c \in work[r][t].content :
                               work[r][t].generation <= c /\ c <= generation'[r]
    BY <1>2 DEF QueriesInOrder
  <2>1. work[r][t] \in WorkRecords
    BY <1>1 DEF TypeOK
  <2>2. work[r][t].generation \in Nat /\ \A c \in work[r][t].content : c \in Nat
    BY <2>1 DEF WorkRecords
  <2>3. /\ pc[r][t] \in Loaded => work[r][t].generation <= generation[r]
        /\ pc[r][t] = "comparing" =>
             \A c \in work[r][t].content : work[r][t].generation <= c /\ c <= generation[r]
    BY <1>1 DEF QueriesInOrder
  <2> QED
    BY <1>4, <2>2, <2>3
<1>6. OneInside' /\ CatalogsAgree'
  BY <1>1, <1>2 DEF OneInside, CatalogsAgree
<1>7. (~restored => ReadsConfirmed)'
  BY <1>1, <1>2 DEF ReadsConfirmed
<1> QED
  BY <1>3, <1>5, <1>6, <1>7 DEF Inductive

LEMMA RestoreKeeps == Inductive /\ Restore => Inductive'
<1> SUFFICES ASSUME Inductive, Restore PROVE Inductive'
  OBVIOUS
<1>1. TypeOK /\ OneInside /\ QueriesInOrder /\ CatalogsAgree /\ (~restored => ReadsConfirmed)
  BY DEF Inductive
<1>2. restored' = TRUE /\ persisted' \in Nat
  BY <1>1 DEF Restore, TypeOK
<1>3. UNCHANGED <<generation, snapshot, lock, pc, work, inbox, confirmed, faults, restarts>>
  BY DEF Restore
<1>4. TypeOK'
  BY <1>1, <1>2, <1>3 DEF TypeOK
<1>5. OneInside' /\ QueriesInOrder' /\ CatalogsAgree'
  BY <1>1, <1>3 DEF OneInside, QueriesInOrder, CatalogsAgree
<1> QED
  BY <1>2, <1>4, <1>5 DEF Inductive

-----------------------------------------------------------------------------
LEMMA StutterKeeps == Inductive /\ UNCHANGED vars => Inductive'
<1> SUFFICES ASSUME Inductive, UNCHANGED vars PROVE Inductive'
  OBVIOUS
<1>1. TypeOK /\ OneInside /\ QueriesInOrder /\ CatalogsAgree /\ (~restored => ReadsConfirmed)
  BY DEF Inductive
<1>2. UNCHANGED <<persisted, restored, generation, snapshot, lock, pc, work, inbox, confirmed,
                  faults, restarts>>
  BY DEF vars
<1>3. TypeOK'
  BY <1>1, <1>2 DEF TypeOK
<1>4. OneInside' /\ QueriesInOrder' /\ CatalogsAgree' /\ (~restored => ReadsConfirmed)'
  BY <1>1, <1>2 DEF OneInside, QueriesInOrder, CatalogsAgree, ReadsConfirmed
<1> QED
  BY <1>3, <1>4 DEF Inductive

LEMMA InductiveStep == Inductive /\ [Next]_vars => Inductive'
<1> SUFFICES ASSUME Inductive, [Next]_vars PROVE Inductive'
  OBVIOUS
<1>1. ASSUME NEW p \in Processes, NEW t \in Tasks, TaskStep(p, t) PROVE Inductive'
  BY <1>1, EnterKeeps, CheckKeeps, ReadFactsKeeps, ObserveRevisionKeeps, QueryCatalogsKeeps,
     CompareCatalogsKeeps DEF TaskStep
<1>2. ASSUME NEW p \in Processes, NEW a \in Admins,
             Commit(p, a) \/ Notify(p, a) \/ DropCall(p, a)
      PROVE  Inductive'
  BY <1>2, CommitKeeps, NotifyKeeps, DropCallKeeps
<1>3. ASSUME NEW p \in Processes,
             Notified(p) \/ Reconcile(p) \/ Restart(p) \/ CatalogChange(p)
      PROVE  Inductive'
  BY <1>3, NotifiedKeeps, ReconcileKeeps, RestartKeeps, CatalogChangeKeeps
<1>4. CASE Restore
  BY <1>4, RestoreKeeps
<1>5. CASE UNCHANGED vars
  BY <1>5, StutterKeeps
<1> QED
  BY <1>1, <1>2, <1>3, <1>4, <1>5 DEF Next

LEMMA AlwaysInductive == Spec => []Inductive
  BY InductiveInit, InductiveStep, PTL DEF Spec

\* The variables of every process keep their types: compile never begins more
\* than MAXIMUM_CATALOG_STABILITY_ATTEMPTS attempts.
THEOREM TypeCorrect == Spec => []TypeOK
<1>1. Inductive => TypeOK
  BY DEF Inductive
<1> QED
  BY <1>1, AlwaysInductive, PTL

\* Whatever refreshes run at the same time and however they end, after one of
\* them a process serves nothing older than what was current when it began.
THEOREM NeverStale == Spec => []NothingStale
<1>1. Inductive => NothingStale
  BY DEF Inductive, ReadsConfirmed, NothingStale
<1> QED
  BY <1>1, AlwaysInductive, PTL

\* A published snapshot knows the catalogs of the generation it records.
THEOREM NeverMixed == Spec => []CatalogsAgree
<1>1. Inductive => CatalogsAgree
  BY DEF Inductive
<1> QED
  BY <1>1, AlwaysInductive, PTL
=============================================================================
