------------------------- MODULE BudgetLedger_proofs -------------------------
(* Theorems about the ledger, for every set of keys, requests, costs and   *)
(* limits: the shape of its state, that no charge is forgotten while the   *)
(* process lives, that an admission settles what waited before it, that    *)
(* the windows add up their charges, and that who is admitted is within    *)
(* the budget.                                                             *)
EXTENDS BudgetLedger, FiniteSetTheorems, WellFoundedInduction, TLAPS

-----------------------------------------------------------------------------
(* The inductive invariant.                                                *)

\* A future only handles charges of the key of its own request.
SameKey ==
    \A r \in Requests :
        /\ KeyOf[job[r]] = KeyOf[r]
        /\ \A c \in todo[r] : KeyOf[c] = KeyOf[r]
        /\ \A c \in seen[r] : KeyOf[c] = KeyOf[r]

\* What settle reported as done is in the ledger, unless its key was deleted.
PostedWhenOk ==
    \A r \in Requests :
        pc[r] = "noting" /\ outcome[r] = "ok" /\ status[KeyOf[job[r]]] # "deleted"
        => job[r] \in posted

\* The charges an admission has yet to settle.
Pending(r) ==
    {c \in todo[r] : pc[r] \in {"retries", "posting", "noting"}}
    \cup {c \in {job[r]} : pc[r] \in {"posting", "noting"}}

\* Whatever an admission found waiting is in the ledger or still ahead of it.
SeenKept ==
    \A r \in Requests :
        /\ pc[r] \in {"retries", "posting", "noting", "checking", "running"}
        /\ status[KeyOf[r]] # "deleted"
        => seen[r] \subseteq posted \cup Pending(r)

Kept == SameKey /\ PostedWhenOk /\ NoChargeForgotten /\ SeenKept


-----------------------------------------------------------------------------
(* Windows.                                                                *)

\* A day does not begin after the time it is the day of.
LEMMA DayStartType ==
    ASSUME NEW t \in Nat
    PROVE  DayStart(t) \in Nat /\ DayStart(t) <= t
<1> DEFINE q == t % DayTicks
<1>1. q \in 0 .. (DayTicks - 1)
  BY LedgerAssumption
<1>2. q <= t
  BY LedgerAssumption
<1> QED
  BY <1>1, <1>2 DEF DayStart

\* A restarted period is a window.
LEMMA FreshWindowType ==
    ASSUME NEW p \in Periods, NEW t \in Nat
    PROVE  FreshWindow(p, t) \in Window
<1>1. Length[p] \in Nat
  BY LedgerAssumption DEF Length, Periods
<1> QED
  BY <1>1, DayStartType DEF FreshWindow, Window

\* Rolling the windows of a key over leaves windows.
LEMMA AdvanceWindowsType ==
    ASSUME TypeOK, NEW k \in Keys, NEW t \in Nat
    PROVE  AdvanceWindows(k, t) \in [Periods -> Window]
BY FreshWindowType DEF AdvanceWindows, TypeOK

\* So does adding a charge to them.
LEMMA AddChargeType ==
    ASSUME NEW ws \in [Periods -> Window], NEW c \in [amount : Nat, completed : Nat]
    PROVE  AddCharge(ws, c) \in [Periods -> Window]
BY DEF AddCharge, Window

-----------------------------------------------------------------------------
(* Every step keeps the types.                                             *)

LEMMA InitTypeOK == Init => TypeOK
<1> SUFFICES ASSUME Init PROVE TypeOK
  OBVIOUS
<1>1. [p \in Periods |-> FreshWindow(p, 0)] \in [Periods -> Window]
  BY FreshWindowType
<1> QED
  BY <1>1, LedgerAssumption DEF Init, TypeOK, Places, Outcomes

LEMMA AdmitTypeOK ==
    ASSUME TypeOK, NEW r \in Requests, Admit(r)
    PROVE  TypeOK'
<1>1. KeyOf[r] \in Keys /\ now \in Nat
  BY LedgerAssumption DEF TypeOK
<1>2. AdvanceWindows(KeyOf[r], now) \in [Periods -> Window]
  BY <1>1, AdvanceWindowsType
<1>3. /\ opened' = opened \cup {KeyOf[r]}
      /\ window' = [window EXCEPT ![KeyOf[r]] = AdvanceWindows(KeyOf[r], now)]
      /\ pc' \in [Requests -> Places]
      /\ UNCHANGED <<now, status, limits, posted, retry, charge, todo, job, outcome,
                     seen, lost, resetAt>>
  BY DEF Admit, TypeOK, Places
<1> HIDE DEF AdvanceWindows
<1> QED
  BY <1>1, <1>2, <1>3 DEF TypeOK

LEMMA PostTypeOK ==
    ASSUME TypeOK, NEW r \in Requests, Post(r)
    PROVE  TypeOK'
<1> DEFINE c == job[r]
           k == KeyOf[c]
           ws == IF c \in posted THEN AdvanceWindows(k, now)
                 ELSE AddCharge(AdvanceWindows(k, now), charge[c])
<1>1. c \in Requests /\ k \in Keys /\ now \in Nat
  BY LedgerAssumption DEF TypeOK
<1>2. AdvanceWindows(k, now) \in [Periods -> Window]
  BY <1>1, AdvanceWindowsType
<1>3. charge[c] \in [amount : Nat, completed : Nat]
  BY <1>1 DEF TypeOK
<1>4. ws \in [Periods -> Window]
  BY <1>2, <1>3, AddChargeType
<1>5. /\ opened' = opened \cup {k}
      /\ window' = [window EXCEPT ![k] = ws]
      /\ posted' = posted \cup {c}
      /\ outcome' \in [Requests -> Outcomes]
      /\ pc' \in [Requests -> Places]
      /\ UNCHANGED <<now, status, limits, retry, charge, todo, job, seen, lost, resetAt>>
  BY DEF Post, TypeOK, Places, Outcomes
<1> HIDE DEF ws, k, c
<1> QED
  BY <1>1, <1>4, <1>5 DEF TypeOK

LEMMA ResetTypeOK ==
    ASSUME TypeOK, NEW k \in Keys, NEW ps \in SUBSET Periods, Reset(k, ps)
    PROVE  TypeOK'
<1>1. now + 1 \in Nat
  BY DEF TypeOK
<1>2. ResetWindows(k, ps, now + 1) \in [Periods -> Window]
  BY <1>1 DEF ResetWindows, ResetWindow, TypeOK, Window
<1>3. /\ now' = now + 1
      /\ window' = [window EXCEPT ![k] = ResetWindows(k, ps, now + 1)]
      /\ resetAt' = [resetAt EXCEPT ![k] =
                       [p \in Periods |-> IF p \in ps THEN now + 1 ELSE resetAt[k][p]]]
      /\ UNCHANGED <<status, limits, opened, posted, retry, charge,
                     pc, todo, job, outcome, seen, lost>>
  BY DEF Reset, futureVars
<1> QED
  BY <1>1, <1>2, <1>3 DEF TypeOK

LEMMA RequestTypeOK ==
    ASSUME TypeOK, NEW r \in Requests, RequestNext(r)
    PROVE  TypeOK'
<1> USE DEF TypeOK, Places, Outcomes, dbVars
<1>1. CASE BeginAdmit(r)
  BY <1>1 DEF BeginAdmit
<1>2. CASE NextRetry(r)
  BY <1>2 DEF NextRetry
<1>3. CASE RefuseAdmit(r)
  BY <1>3 DEF RefuseAdmit
<1>4. CASE Admit(r)
  BY <1>4, AdmitTypeOK
<1>5. CASE Finish(r)
  <2>1. PICK a \in Amounts : charge' = [charge EXCEPT ![r] = [amount |-> a, completed |-> now]]
    BY <1>5 DEF Finish
  <2>2. a \in Nat
    BY LedgerAssumption
  <2> QED
    BY <1>5, <2>1, <2>2 DEF Finish
<1>6. CASE PostFails(r)
  BY <1>6 DEF PostFails
<1>7. CASE PostToDeletedKey(r)
  BY <1>7 DEF PostToDeletedKey
<1>8. CASE Post(r)
  BY <1>8, PostTypeOK
<1>9. CASE Note(r)
  BY <1>9 DEF Note, AfterNote
<1>10. CASE Drop(r)
  BY <1>10 DEF Drop, OwnCharge
<1> QED
  BY <1>1, <1>2, <1>3, <1>4, <1>5, <1>6, <1>7, <1>8, <1>9, <1>10 DEF RequestNext

LEMMA OtherTypeOK ==
    ASSUME TypeOK, (\E k \in Keys : AdminNext(k)) \/ Restart \/ Tick \/ UNCHANGED vars
    PROVE  TypeOK'
<1>1. ASSUME NEW k \in Keys, AdminNext(k) PROVE TypeOK'
  <2>1. CASE \E ps \in {{"daily"}, {"weekly"}, Periods} : Reset(k, ps)
    BY <2>1, ResetTypeOK DEF Periods
  <2>2. CASE \E l \in Limits : SetLimits(k, l)
    BY <2>2 DEF SetLimits, TypeOK, futureVars
  <2>3. CASE \E s \in {"enabled", "disabled"} : SetEnabled(k, s)
    BY <2>3 DEF SetEnabled, TypeOK, futureVars
  <2>4. CASE DeleteKey(k)
    BY <2>4 DEF DeleteKey, TypeOK, futureVars
  <2> QED
    BY <1>1, <2>1, <2>2, <2>3, <2>4 DEF AdminNext
<1>2. CASE Restart
  BY <1>2 DEF Restart, OwnCharge, TypeOK, Places, dbVars
<1>3. CASE Tick
  BY <1>3 DEF Tick, TypeOK, dbVars, futureVars
<1>4. CASE UNCHANGED vars
  BY <1>4 DEF vars, TypeOK, dbVars, futureVars
<1> QED
  BY <1>1, <1>2, <1>3, <1>4

-----------------------------------------------------------------------------
(* Every step keeps the rest of the inductive invariant.                   *)

LEMMA InitKept == Init => Kept
BY DEF Init, Kept, SameKey, PostedWhenOk, NoChargeForgotten, SeenKept

\* The steps of an admission.
LEMMA AdmissionKept ==
    ASSUME TypeOK, Kept, NEW r \in Requests,
           BeginAdmit(r) \/ NextRetry(r) \/ RefuseAdmit(r) \/ Admit(r)
    PROVE  Kept'
<1> USE DEF Kept, SameKey, PostedWhenOk, NoChargeForgotten, SeenKept, Pending, TypeOK, dbVars
<1>1. CASE BeginAdmit(r)
  BY <1>1 DEF BeginAdmit
<1>2. CASE NextRetry(r)
  BY <1>2 DEF NextRetry
<1>3. CASE RefuseAdmit(r)
  BY <1>3 DEF RefuseAdmit
<1>4. CASE Admit(r)
  BY <1>4 DEF Admit
<1> QED
  BY <1>1, <1>2, <1>3, <1>4

\* The steps of a settlement.
LEMMA SettlementKept ==
    ASSUME TypeOK, Kept, NEW r \in Requests,
           Finish(r) \/ PostFails(r) \/ PostToDeletedKey(r) \/ Post(r) \/ Note(r)
    PROVE  Kept'
<1> USE DEF Kept, SameKey, PostedWhenOk, NoChargeForgotten, SeenKept, Pending, TypeOK, dbVars
<1>1. CASE Finish(r)
  BY <1>1 DEF Finish
<1>2. CASE PostFails(r)
  BY <1>2 DEF PostFails
<1>3. CASE PostToDeletedKey(r)
  BY <1>3 DEF PostToDeletedKey
<1>4. CASE Post(r)
  BY <1>4 DEF Post
<1>5. CASE Note(r)
  BY <1>5 DEF Note, AfterNote, Outcomes
<1> QED
  BY <1>1, <1>2, <1>3, <1>4, <1>5

\* A dropped future, the administrator, a restart and the clock.
LEMMA OtherKept ==
    ASSUME TypeOK, Kept,
           \/ \E r \in Requests : Drop(r)
           \/ \E k \in Keys : AdminNext(k)
           \/ Restart \/ Tick \/ UNCHANGED vars
    PROVE  Kept'
<1> USE DEF Kept, SameKey, PostedWhenOk, NoChargeForgotten, SeenKept, Pending, TypeOK,
            dbVars, futureVars
<1>1. ASSUME NEW r \in Requests, Drop(r) PROVE Kept'
  BY <1>1 DEF Drop, OwnCharge
<1>2. ASSUME NEW k \in Keys, AdminNext(k) PROVE Kept'
  <2>1. CASE \E ps \in {{"daily"}, {"weekly"}, Periods} : Reset(k, ps)
    BY <2>1 DEF Reset
  <2>2. CASE \E l \in Limits : SetLimits(k, l)
    BY <2>2 DEF SetLimits
  <2>3. CASE \E s \in {"enabled", "disabled"} : SetEnabled(k, s)
    BY <2>3 DEF SetEnabled
  <2>4. CASE DeleteKey(k)
    BY <2>4, LedgerAssumption DEF DeleteKey
  <2> QED
    BY <1>2, <2>1, <2>2, <2>3, <2>4 DEF AdminNext
<1>3. CASE Restart
  BY <1>3 DEF Restart, Started, OwnCharge
<1>4. CASE Tick
  BY <1>4 DEF Tick
<1>5. CASE UNCHANGED vars
  BY <1>5 DEF vars
<1> QED
  BY <1>1, <1>2, <1>3, <1>4, <1>5

-----------------------------------------------------------------------------
(* Sums of charges.                                                        *)

Charges == [Requests -> [amount : Nat, completed : Nat]]

\* The sums of the ledger, as a function of the charges.
Sum(c, A) == MapThenSumSet(LAMBDA r : c[r].amount, A)

\* A function that gives every set of requests the sum of its amounts.
Additive(g, c, S) ==
    /\ g \in [SUBSET S -> Nat]
    /\ g[{}] = 0
    /\ \A T \in SUBSET S : \A x \in T : g[T] = c[x].amount + g[T \ {x}]

\* Induction over the subsets of a finite set, whose well-foundedness the
\* library proves: what holds of the empty set and of every set of which it
\* holds without any one of its members holds of the whole set.
LEMMA SetInduction ==
    ASSUME NEW S, IsFiniteSet(S), NEW Good \in SUBSET SUBSET S, {} \in Good,
           \A T \in SUBSET S : T # {} /\ (\A x \in T : T \ {x} \in Good) => T \in Good
    PROVE  S \in Good
<1> DEFINE Bad == (SUBSET S) \ Good
<1> SUFFICES ASSUME S \notin Good PROVE FALSE
  OBVIOUS
<1>1. Bad # {} /\ Bad \subseteq FiniteSubsetsOf(S)
  BY FS_Subset DEF FiniteSubsetsOf
<1>2. PICK T \in Bad : \A U \in Bad : ~ (<<U, T>> \in StrictSubsetOrdering(S))
  <2> HIDE DEF Bad
  <2> QED BY <1>1, FS_StrictSubsetOrderingWellFounded, WFMin
<1>3. ASSUME NEW x \in T PROVE T \ {x} \in Good
  <2>1. T \in SUBSET S /\ T \ {x} \in SUBSET S /\ T \ {x} # T
    BY <1>2, <1>3
  <2>2. <<T \ {x}, T>> \in StrictSubsetOrdering(S)
    BY <2>1 DEF StrictSubsetOrdering
  <2> QED
    BY <1>2, <2>1, <2>2
<1>4. T \in SUBSET S /\ T # {} /\ T \notin Good
  BY <1>2
<1>5. T \in Good
  BY <1>3, <1>4
<1> QED
  BY <1>4, <1>5

\* Such a function exists: the members can be added in any order.
LEMMA AdditiveExists ==
    ASSUME NEW c \in Charges
    PROVE  \E g : Additive(g, c, Requests)
<1> DEFINE Good == {S \in SUBSET Requests : \E g : Additive(g, c, S)}
<1>1. {} \in Good
  <2>1. Additive([T \in SUBSET {} |-> 0], c, {})
    BY DEF Additive
  <2> QED BY <2>1
<1>2. ASSUME NEW S \in SUBSET Requests, NEW y \in S, S \ {y} \in Good PROVE S \in Good
  <2>1. PICK g : Additive(g, c, S \ {y})
    BY <1>2
  <2> DEFINE h == [T \in SUBSET S |-> IF y \in T THEN c[y].amount + g[T \ {y}] ELSE g[T]]
  <2>2. c[y].amount \in Nat
    BY DEF Charges
  <2>3. \A T \in SUBSET S : T \ {y} \in SUBSET (S \ {y}) /\ (y \notin T => T \in SUBSET (S \ {y}))
    OBVIOUS
  <2>4. h \in [SUBSET S -> Nat]
    BY <2>1, <2>2, <2>3 DEF Additive
  <2>5. h[{}] = 0
    BY <2>1 DEF Additive
  <2>6. ASSUME NEW T \in SUBSET S, NEW x \in T PROVE h[T] = c[x].amount + h[T \ {x}]
    <3>1. CASE x = y
      BY <3>1, <2>3
    <3>2. CASE x # y /\ y \notin T
      <4>1. g[T] = c[x].amount + g[T \ {x}]
        BY <3>2, <2>1, <2>3 DEF Additive
      <4> QED BY <4>1, <3>2
    <3>3. CASE x # y /\ y \in T
      <4>1. x \in T \ {y} /\ T \ {y} \in SUBSET (S \ {y}) /\ (T \ {y}) \ {x} = (T \ {x}) \ {y}
        BY <3>3, <2>3
      <4>2. g[T \ {y}] = c[x].amount + g[(T \ {x}) \ {y}]
        BY <4>1, <2>1 DEF Additive
      <4>3. c[x].amount \in Nat /\ g[(T \ {x}) \ {y}] \in Nat
        BY <4>1, <2>1 DEF Additive, Charges
      <4>4. h[T] = c[y].amount + g[T \ {y}] /\ h[T \ {x}] = c[y].amount + g[(T \ {x}) \ {y}]
        BY <3>3
      <4> HIDE DEF h
      <4> QED BY <4>2, <4>3, <4>4, <2>2
    <3> QED BY <3>1, <3>2, <3>3
  <2> HIDE DEF h
  <2> QED BY <2>4, <2>5, <2>6 DEF Additive
<1>3. Requests \in Good
  <2> HIDE DEF Good
  <2>1. Good \in SUBSET SUBSET Requests
    BY DEF Good
  <2>2. \A T \in SUBSET Requests : T # {} /\ (\A x \in T : T \ {x} \in Good) => T \in Good
    BY <1>2
  <2> QED BY <1>1, <2>1, <2>2, SetInduction, LedgerAssumption
<1> QED BY <1>3

\* The fold that takes some member first computes it.
LEMMA SumIsAdditive ==
    ASSUME NEW c \in Charges, NEW A \in SUBSET Requests, NEW g, Additive(g, c, Requests)
    PROVE  Sum(c, A) = g[A]
<1> DEFINE F(it) == [s \in SUBSET A |->
                       IF s = {} THEN 0
                       ELSE c[CHOOSE x \in s : TRUE].amount + it[s \ {CHOOSE x \in s : TRUE}]]
           it0 == CHOOSE it : it = F(it)
           h == [s \in SUBSET A |-> g[s]]
           Good == {s \in SUBSET A : it0[s] = g[s]}
<1>1. Sum(c, A) = it0[A]
  BY DEF Sum, MapThenSumSet, MapThenFoldSet
<1>2. \A s \in SUBSET A : s # {} => (CHOOSE x \in s : TRUE) \in s
  OBVIOUS
<1>3. \A s \in SUBSET A : s # {} =>
        g[s] = c[CHOOSE x \in s : TRUE].amount + g[s \ {CHOOSE x \in s : TRUE}]
  BY <1>2 DEF Additive
<1>4. h = F(h)
  <2>1. \A t \in SUBSET A : h[t] = g[t] OBVIOUS
  <2>2. g[{}] = 0 BY DEF Additive
  <2>3. \A t \in SUBSET A : t \ {CHOOSE x \in t : TRUE} \in SUBSET A OBVIOUS
  <2>4. ASSUME NEW t \in SUBSET A
        PROVE  h[t] = IF t = {} THEN 0
                      ELSE c[CHOOSE x \in t : TRUE].amount + h[t \ {CHOOSE x \in t : TRUE}]
    <3> HIDE DEF h
    <3> QED BY <1>3, <2>1, <2>2, <2>3
  <2>5. h = [t \in SUBSET A |-> h[t]] OBVIOUS
  <2> HIDE DEF h
  <2> QED BY <2>4, <2>5
<1>5. it0 = F(it0)
  <2> HIDE DEF F, h
  <2> QED BY <1>4
<1>6. {} \in Good
  <2>1. it0[{}] = 0
    <3> HIDE DEF it0
    <3> QED BY <1>5
  <2> HIDE DEF it0
  <2> QED BY <2>1 DEF Additive
<1>7. ASSUME NEW T \in SUBSET A, T # {}, \A x \in T : T \ {x} \in Good PROVE T \in Good
  <2> DEFINE x == CHOOSE x \in T : TRUE
  <2>1. it0[T] = c[x].amount + it0[T \ {x}]
    <3> HIDE DEF it0
    <3> QED BY <1>5, <1>7
  <2>2. it0[T \ {x}] = g[T \ {x}]
    BY <1>7, <1>2
  <2> HIDE DEF it0
  <2> QED BY <2>1, <2>2, <1>3, <1>7
<1>8. A \in Good
  <2>1. IsFiniteSet(A)
    BY FS_Subset, LedgerAssumption
  <2> HIDE DEF Good
  <2>2. Good \in SUBSET SUBSET A
    BY DEF Good
  <2> QED BY <1>6, <1>7, <2>1, <2>2, SetInduction
<1> HIDE DEF it0
<1> QED BY <1>1, <1>8

\* What the sums are: nothing for no charges, and the amount more for one more;
\* they depend on the amounts of their members only.
LEMMA SumEmpty ==
    ASSUME NEW c \in Charges
    PROVE  Sum(c, {}) = 0
BY AdditiveExists, SumIsAdditive DEF Additive

LEMMA SumAdd ==
    ASSUME NEW c \in Charges, NEW A \in SUBSET Requests, NEW x \in Requests \ A
    PROVE  /\ Sum(c, A) \in Nat
           /\ Sum(c, A \cup {x}) = c[x].amount + Sum(c, A)
<1>1. PICK g : Additive(g, c, Requests)
  BY AdditiveExists
<1>2. Sum(c, A) = g[A] /\ Sum(c, A \cup {x}) = g[A \cup {x}]
  BY <1>1, SumIsAdditive
<1>3. g[A \cup {x}] = c[x].amount + g[(A \cup {x}) \ {x}] /\ g[A] \in Nat
  BY <1>1 DEF Additive
<1>4. (A \cup {x}) \ {x} = A
  OBVIOUS
<1> QED BY <1>2, <1>3, <1>4

LEMMA SumSame ==
    ASSUME NEW c \in Charges, NEW d \in Charges, NEW A \in SUBSET Requests,
           \A r \in A : c[r].amount = d[r].amount
    PROVE  Sum(c, A) = Sum(d, A)
<1> DEFINE Good == {S \in SUBSET A : Sum(c, S) = Sum(d, S)}
<1>1. {} \in Good
  BY SumEmpty
<1>2. ASSUME NEW T \in SUBSET A, T # {}, \A x \in T : T \ {x} \in Good PROVE T \in Good
  <2>1. PICK x \in T : TRUE
    BY <1>2
  <2>2. x \in Requests \ (T \ {x}) /\ T \ {x} \in SUBSET Requests /\ T = (T \ {x}) \cup {x}
    BY <2>1
  <2>3. Sum(c, T) = c[x].amount + Sum(c, T \ {x}) /\ Sum(d, T) = d[x].amount + Sum(d, T \ {x})
    BY <2>2, SumAdd
  <2>4. Sum(c, T \ {x}) = Sum(d, T \ {x})
    BY <1>2, <2>1
  <2> QED BY <2>3, <2>4, <2>1
<1>3. A \in Good
  <2>1. IsFiniteSet(A)
    BY FS_Subset, LedgerAssumption
  <2> HIDE DEF Good
  <2>2. Good \in SUBSET SUBSET A
    BY DEF Good
  <2> QED BY <1>1, <1>2, <2>1, <2>2, SetInduction
<1> QED BY <1>3

-----------------------------------------------------------------------------
(* The windows add up.                                                     *)

\* Requests whose cost is fixed.
Final(r) == \/ pc[r] \in {"settled", "dropped"}
            \/ pc[r] \in {"posting", "noting"} /\ job[r] = r

\* Whatever is settled, waits to be or is being settled has its final cost.
ChargesFinal ==
    \A r \in Requests :
        /\ r \in posted \cup retry => Final(r)
        /\ \A c \in todo[r] : Final(c)
        /\ pc[r] \in {"posting", "noting"} => Final(job[r])

\* The time is the beginning of a day.
DayBoundary(e) == \A t \in Nat : e <= t => e <= DayStart(t)

\* Windows end at the beginning of a day, after every charge of their key that
\* is in the ledger: a window that begins when one is over has none of them.
WindowsOpen ==
    /\ \A r \in Requests : charge[r].completed <= now
    /\ \A r \in posted : KeyOf[r] \in opened
    /\ \A k \in opened, p \in Periods : DayBoundary(window[k][p].end)
    /\ \A r \in posted, p \in Periods : charge[r].completed < window[KeyOf[r]][p].end

CoveredBy(P, c, k, w) == {r \in P : KeyOf[r] = k /\ Covers(w, c[r].completed)}

\* UsageMatchesCharges of the variables given.
Usage(O, W, t, P, c) ==
    \A k \in O, p \in Periods :
        ~Expired(W[k][p], t) => W[k][p].used = Sum(c, CoveredBy(P, c, k, W[k][p]))

LEMMA UsageIs ==
    /\ UsageMatchesCharges <=> Usage(opened, window, now, posted, charge)
    /\ UsageMatchesCharges' <=> Usage(opened', window', now', posted', charge')
<1>1. ASSUME NEW k, NEW w
      PROVE  SpentIn(k, w) = Sum(charge, CoveredBy(posted, charge, k, w))
  BY DEF SpentIn, Sum, CoveredBy
<1>2. ASSUME NEW k, NEW p
      PROVE  SpentIn(k, window[k][p])' = Sum(charge', CoveredBy(posted', charge', k, window'[k][p]))
  BY DEF SpentIn, Sum, CoveredBy, Covers, MapThenSumSet, MapThenFoldSet
<1>3. UsageMatchesCharges <=> Usage(opened, window, now, posted, charge)
  BY <1>1 DEF UsageMatchesCharges, Usage
<1>4. UsageMatchesCharges' <=> Usage(opened', window', now', posted', charge')
  BY <1>2 DEF UsageMatchesCharges, Usage, Expired
<1> QED BY <1>3, <1>4

LInv == ChargesFinal /\ WindowsOpen /\ UsageMatchesCharges

LEMMA CoveredByType ==
    ASSUME TypeOK, NEW k, NEW w
    PROVE  /\ CoveredBy(posted, charge, k, w) \in SUBSET Requests
           /\ charge \in Charges
BY DEF CoveredBy, TypeOK, Charges

LEMMA Mono ==
    ASSUME NEW x \in Nat, NEW y \in Nat, NEW d \in Nat, x <= y
    PROVE  x * d <= y * d
<1> DEFINE z == y - x
<1>1. z \in Nat /\ y = x + z
  OBVIOUS
<1>2. z * d >= 0 /\ z * d \in Int /\ x * d \in Int
  BY <1>1
<1>3. y * d = x * d + z * d
  BY <1>1
<1> QED BY <1>2, <1>3

LEMMA DayStartIs ==
    ASSUME NEW t \in Nat
    PROVE  \E q \in Nat : DayStart(t) = q * DayTicks /\ DayStart(t) <= t /\ t < (q + 1) * DayTicks
<1> DEFINE q == t \div DayTicks
<1>1. q \in Nat /\ t = q * DayTicks + (t % DayTicks) /\ t % DayTicks \in 0 .. (DayTicks - 1)
  BY LedgerAssumption
<1>2. q * DayTicks \in Nat /\ DayTicks \in Nat /\ (q + 1) * DayTicks = q * DayTicks + DayTicks
  BY <1>1, LedgerAssumption
<1> HIDE DEF q
<1> QED BY <1>1, <1>2 DEF DayStart

LEMMA LengthIs ==
    ASSUME NEW p \in Periods
    PROVE  \E m \in Nat \ {0} : Length[p] = m * DayTicks
<1>1. CASE p = "daily"
  BY <1>1, LedgerAssumption DEF Length, Periods
<1>2. CASE p = "weekly"
  <2> DEFINE m == WeekTicks \div DayTicks
  <2>1. m \in Nat /\ WeekTicks = m * DayTicks + (WeekTicks % DayTicks)
    BY LedgerAssumption
  <2>2. WeekTicks = m * DayTicks
    BY <2>1, LedgerAssumption
  <2>3. m # 0
    BY <2>2, LedgerAssumption
  <2> HIDE DEF m
  <2> QED BY <1>2, <2>1, <2>2, <2>3 DEF Length, Periods
<1> QED BY <1>1, <1>2 DEF Periods

LEMMA FreshWindowOpen ==
    ASSUME NEW p \in Periods, NEW t \in Nat
    PROVE  /\ t < FreshWindow(p, t).end
           /\ DayBoundary(FreshWindow(p, t).end)
<1> DEFINE d == DayTicks
           e == DayStart(t) + Length[p]
<1>1. PICK q \in Nat : DayStart(t) = q * d /\ DayStart(t) <= t /\ t < (q + 1) * d
  BY DayStartIs
<1>2. PICK m \in Nat \ {0} : Length[p] = m * d
  BY LengthIs
<1>3. d \in Nat \ {0}
  BY LedgerAssumption
<1>4. e = (q + m) * d
  BY <1>1, <1>2, <1>3
<1>5. (q + 1) * d <= (q + m) * d
  BY <1>3, Mono
<1>6. t < e
  <2>1. (q + 1) * d \in Nat /\ (q + m) * d \in Nat
    BY <1>3
  <2> HIDE DEF e, d
  <2> QED BY <1>1, <1>4, <1>5, <2>1
<1>7. ASSUME NEW u \in Nat, e <= u PROVE e <= DayStart(u)
  <2>1. PICK b \in Nat : DayStart(u) = b * d /\ DayStart(u) <= u /\ u < (b + 1) * d
    BY DayStartIs
  <2>2. CASE q + m <= b
    BY <2>1, <2>2, <1>4, <1>3, Mono
  <2>3. CASE b + 1 <= q + m
    <3>1. (b + 1) * d <= (q + m) * d
      BY <2>3, <1>3, Mono
    <3>2. (b + 1) * d \in Nat /\ (q + m) * d \in Nat
      BY <1>3
    <3> HIDE DEF e, d
    <3> QED BY <2>1, <1>4, <1>7, <3>1, <3>2
  <2> QED BY <2>2, <2>3
<1> QED
  BY <1>6, <1>7 DEF FreshWindow, DayBoundary

\* Rolling the windows of a key over does it no injustice: they are running,
\* and show the charges of the key inside them.
LEMMA AdvancedWindows ==
    ASSUME TypeOK, LInv, NEW k \in Keys, NEW p \in Periods
    PROVE  LET w == AdvanceWindows(k, now)[p] IN
           /\ w \in Window
           /\ now < w.end
           /\ DayBoundary(w.end)
           /\ w.used = Sum(charge, CoveredBy(posted, charge, k, w))
<1> DEFINE w == AdvanceWindows(k, now)[p]
<1>1. now \in Nat
  BY DEF TypeOK
<1>2. CASE k \notin opened \/ Expired(window[k][p], now)
  <2>1. w = FreshWindow(p, now)
    BY <1>2 DEF AdvanceWindows
  <2>2. w \in Window /\ now < w.end /\ DayBoundary(w.end) /\ w.used = 0 /\ w.start = DayStart(now)
    BY <2>1, <1>1, FreshWindowType, FreshWindowOpen DEF FreshWindow
  <2>3. ASSUME NEW r \in CoveredBy(posted, charge, k, w) PROVE FALSE
    <3>1. r \in posted /\ KeyOf[r] = k /\ DayStart(now) <= charge[r].completed
      BY <2>3, <2>2 DEF CoveredBy, Covers
    <3>2. k \in opened /\ charge[r].completed < window[k][p].end /\ DayBoundary(window[k][p].end)
      BY <3>1 DEF LInv, WindowsOpen
    <3>3. window[k][p].end <= now
      BY <3>2, <1>2 DEF Expired
    <3>4. window[k][p].end <= DayStart(now)
      BY <3>2, <3>3, <1>1 DEF DayBoundary
    <3>5. DayStart(now) \in Nat /\ charge[r].completed \in Nat /\ window[k][p].end \in Nat
      BY <3>1, <1>1, DayStartType DEF TypeOK, Window
    <3> QED BY <3>1, <3>2, <3>4, <3>5
  <2>4. CoveredBy(posted, charge, k, w) = {}
    BY <2>3
  <2>5. Sum(charge, CoveredBy(posted, charge, k, w)) = 0
    <3> HIDE DEF w
    <3> QED BY <2>4, CoveredByType, SumEmpty
  <2> QED BY <2>2, <2>5
<1>3. CASE k \in opened /\ ~Expired(window[k][p], now)
  <2>1. w = window[k][p]
    BY <1>3 DEF AdvanceWindows
  <2>2. w \in Window
    BY <2>1 DEF TypeOK
  <2>3. now < w.end
    BY <2>1, <2>2, <1>1, <1>3 DEF Expired, Window
  <2>4. DayBoundary(w.end)
    BY <2>1, <1>3 DEF LInv, WindowsOpen
  <2>5. w.used = Sum(charge, CoveredBy(posted, charge, k, w))
    BY <2>1, <1>3, UsageIs DEF LInv, Usage
  <2> QED BY <2>2, <2>3, <2>4, <2>5
<1> QED BY <1>2, <1>3

-----------------------------------------------------------------------------
(* Every step keeps the sums.                                              *)

LEMMA InitLInv == Init => LInv
<1> SUFFICES ASSUME Init PROVE LInv
  OBVIOUS
<1>1. ChargesFinal
  BY DEF Init, ChargesFinal
<1>2. WindowsOpen /\ UsageMatchesCharges
  BY DEF Init, WindowsOpen, UsageMatchesCharges
<1> QED
  BY <1>1, <1>2 DEF LInv

\* A cost that is fixed stays so, and only fixed costs are handled.
LEMMA RequestChargesFinal ==
    ASSUME TypeOK, ChargesFinal, NEW r \in Requests, RequestNext(r)
    PROVE  ChargesFinal'
<1> USE DEF TypeOK, ChargesFinal, Final, dbVars
<1>1. CASE BeginAdmit(r)
  BY <1>1 DEF BeginAdmit
<1>2. CASE NextRetry(r)
  <2>1. PICK c \in todo[r] : /\ todo' = [todo EXCEPT ![r] = @ \ {c}]
                             /\ job' = [job EXCEPT ![r] = c]
    BY <1>2 DEF NextRetry
  <2>2. pc[r] = "retries" /\ pc' = [pc EXCEPT ![r] = "posting"] /\ UNCHANGED <<posted, retry>>
    BY <1>2 DEF NextRetry
  <2>3. Final(c) /\ c # r BY <2>1, <2>2
  <2>4. \A q \in Requests : Final(q) => Final(q)' BY <2>1, <2>2
  <2>5. \A q \in Requests : todo'[q] \subseteq todo[q] BY <2>1
  <2> QED BY <2>1, <2>2, <2>3, <2>4, <2>5
<1>3. CASE RefuseAdmit(r)
  BY <1>3 DEF RefuseAdmit
<1>4. CASE Admit(r)
  BY <1>4 DEF Admit
<1>5. CASE Finish(r)
  BY <1>5 DEF Finish
<1>6. CASE PostFails(r)
  BY <1>6 DEF PostFails
<1>7. CASE PostToDeletedKey(r)
  BY <1>7 DEF PostToDeletedKey
<1>8. CASE Post(r)
  BY <1>8 DEF Post
<1>9. CASE Note(r)
  BY <1>9 DEF Note, AfterNote
<1>10. CASE Drop(r)
  BY <1>10 DEF Drop
<1> QED
  BY <1>1, <1>2, <1>3, <1>4, <1>5, <1>6, <1>7, <1>8, <1>9, <1>10 DEF RequestNext

LEMMA OtherChargesFinal ==
    ASSUME TypeOK, ChargesFinal,
           (\E k \in Keys : AdminNext(k)) \/ Restart \/ Tick \/ UNCHANGED vars
    PROVE  ChargesFinal'
<1> USE DEF TypeOK, ChargesFinal, Final, dbVars, futureVars
<1>1. ASSUME NEW k \in Keys, AdminNext(k) PROVE ChargesFinal'
  <2>1. /\ UNCHANGED <<pc, todo, job, retry>>
        /\ posted' \subseteq posted
    BY <1>1 DEF AdminNext, Reset, SetLimits, SetEnabled, DeleteKey
  <2> QED
    BY <2>1
<1>2. CASE Restart
  BY <1>2 DEF Restart, Started
<1>3. CASE Tick
  BY <1>3 DEF Tick
<1>4. CASE UNCHANGED vars
  BY <1>4 DEF vars
<1> QED
  BY <1>1, <1>2, <1>3, <1>4

Ledger == <<opened, window, posted, charge>>

\* Steps that leave the windows, the events and the clock alone.
LEMMA LedgerUnchanged ==
    ASSUME LInv, UNCHANGED <<now, Ledger>>
    PROVE  WindowsOpen' /\ UsageMatchesCharges'
<1>1. WindowsOpen'
  BY DEF LInv, WindowsOpen, Ledger
<1>2. Usage(opened', window', now', posted', charge')
  BY UsageIs DEF LInv, Ledger
<1> QED
  BY <1>1, <1>2, UsageIs

LEMMA TickSums ==
    ASSUME TypeOK, LInv, Tick
    PROVE  WindowsOpen' /\ UsageMatchesCharges'
<1>1. now' = now + 1 /\ UNCHANGED Ledger /\ now \in Nat
  BY DEF Tick, dbVars, Ledger, TypeOK
<1>2. WindowsOpen'
  BY <1>1 DEF LInv, WindowsOpen, Ledger, TypeOK
<1>3. ASSUME NEW k \in opened, NEW p \in Periods, ~Expired(window[k][p], now + 1)
      PROVE  ~Expired(window[k][p], now)
  BY <1>1, <1>3 DEF Expired, TypeOK, Window
<1>4. Usage(opened', window', now', posted', charge')
  BY <1>1, <1>3, UsageIs DEF LInv, Ledger, Usage
<1> QED
  BY <1>2, <1>4, UsageIs

LEMMA AdmitSums ==
    ASSUME TypeOK, LInv, NEW r \in Requests, Admit(r)
    PROVE  WindowsOpen' /\ UsageMatchesCharges'
<1> DEFINE k == KeyOf[r]
           ws == AdvanceWindows(k, now)
<1>1. /\ k \in Keys
      /\ opened' = opened \cup {k}
      /\ window' = [window EXCEPT ![k] = ws]
      /\ UNCHANGED <<now, posted, charge>>
  BY LedgerAssumption DEF Admit
<1>2. \A p \in Periods :
        /\ ws[p] \in Window /\ now < ws[p].end /\ DayBoundary(ws[p].end)
        /\ ws[p].used = Sum(charge, CoveredBy(posted, charge, k, ws[p]))
  BY <1>1, AdvancedWindows
<1>3. window'[k] = ws /\ \A q \in Keys \ {k} : window'[q] = window[q]
  BY <1>1 DEF TypeOK
<1> HIDE DEF ws
<1>4. WindowsOpen'
  <2>1. \A q \in Requests : charge'[q].completed <= now' /\ charge[q].completed \in Nat /\ now \in Nat
    BY <1>1 DEF LInv, WindowsOpen, TypeOK
  <2>2. \A q \in posted' : KeyOf[q] \in opened'
    BY <1>1 DEF LInv, WindowsOpen
  <2>3. \A q \in opened', p \in Periods : DayBoundary(window'[q][p].end)
    BY <1>1, <1>2, <1>3 DEF LInv, WindowsOpen, TypeOK
  <2>4. ASSUME NEW q \in posted', NEW p \in Periods
        PROVE  charge'[q].completed < window'[KeyOf[q]][p].end
    <3>1. CASE KeyOf[q] = k
      <4>1. charge[q].completed <= now /\ charge[q].completed \in Nat /\ now \in Nat
        BY <1>1, <2>1 DEF TypeOK
      <4>2. ws[p].end \in Nat /\ now < ws[p].end
        BY <1>2 DEF Window
      <4> QED BY <1>1, <1>3, <3>1, <4>1, <4>2
    <3>2. CASE KeyOf[q] # k
      BY <1>1, <1>3, <3>2, LedgerAssumption DEF LInv, WindowsOpen, TypeOK
    <3> QED BY <3>1, <3>2
  <2> QED BY <2>1, <2>2, <2>3, <2>4 DEF WindowsOpen, DayBoundary, DayStart
<1>5. ASSUME NEW q \in opened', NEW p \in Periods, ~Expired(window'[q][p], now')
      PROVE  window'[q][p].used = Sum(charge', CoveredBy(posted', charge', q, window'[q][p]))
  <2>1. CASE q = k
    BY <1>1, <1>2, <1>3, <2>1
  <2>2. CASE q # k
    <3>1. q \in opened /\ window'[q] = window[q] /\ ~Expired(window[q][p], now)
      BY <1>1, <1>3, <1>5, <2>2 DEF TypeOK
    <3> QED BY <1>1, <3>1, UsageIs DEF LInv, Usage
  <2> QED BY <2>1, <2>2
<1>6. Usage(opened', window', now', posted', charge')
  BY <1>5 DEF Usage
<1> QED
  BY <1>4, <1>6, UsageIs

\* A request that ends has no charge in the ledger yet.
LEMMA FinishSums ==
    ASSUME TypeOK, TypeOK', LInv, NEW r \in Requests, Finish(r)
    PROVE  WindowsOpen' /\ UsageMatchesCharges'
<1>1. /\ \A q \in Requests \ {r} : charge'[q] = charge[q]
      /\ charge'[r].completed = now
      /\ UNCHANGED <<now, opened, window, posted>>
  BY DEF Finish, dbVars, TypeOK
<1>2. r \notin posted
  BY DEF Finish, LInv, ChargesFinal, Final
<1>3. posted \subseteq Requests /\ now \in Nat
  BY DEF TypeOK
<1>4. WindowsOpen'
  BY <1>1, <1>2, <1>3 DEF LInv, WindowsOpen
<1>5. ASSUME NEW k, NEW w
      PROVE  Sum(charge', CoveredBy(posted', charge', k, w)) = Sum(charge, CoveredBy(posted, charge, k, w))
  <2>1. CoveredBy(posted', charge', k, w) = CoveredBy(posted, charge, k, w)
    BY <1>1, <1>2, <1>3 DEF CoveredBy
  <2>2. \A q \in CoveredBy(posted, charge, k, w) : charge'[q].amount = charge[q].amount
    BY <1>1, <1>2, <1>3 DEF CoveredBy
  <2>3. charge' \in Charges /\ charge \in Charges /\ CoveredBy(posted, charge, k, w) \in SUBSET Requests
    BY CoveredByType DEF TypeOK, Charges
  <2> QED BY <2>1, <2>2, <2>3, SumSame
<1>6. Usage(opened', window', now', posted', charge')
  BY <1>1, <1>5, UsageIs DEF LInv, Usage
<1> QED
  BY <1>4, <1>6, UsageIs

\* A charge is added to the windows that cover it, once.
LEMMA PostSums ==
    ASSUME TypeOK, LInv, NEW r \in Requests, Post(r)
    PROVE  WindowsOpen' /\ UsageMatchesCharges'
<1> DEFINE c == job[r]
           k == KeyOf[c]
           ws == AdvanceWindows(k, now)
           us == IF c \in posted THEN ws ELSE AddCharge(ws, charge[c])
<1>1. /\ c \in Requests /\ k \in Keys /\ now \in Nat
      /\ opened' = opened \cup {k}
      /\ window' = [window EXCEPT ![k] = us]
      /\ posted' = posted \cup {c}
      /\ UNCHANGED <<now, charge>>
  BY LedgerAssumption DEF Post, TypeOK
<1>2. \A p \in Periods :
        /\ ws[p] \in Window /\ now < ws[p].end /\ DayBoundary(ws[p].end)
        /\ ws[p].used = Sum(charge, CoveredBy(posted, charge, k, ws[p]))
  BY <1>1, AdvancedWindows
<1>3. charge \in Charges /\ posted \in SUBSET Requests /\ charge[c].amount \in Nat
      /\ charge[c].completed \in Nat
  BY <1>1, CoveredByType DEF TypeOK
<1>4. ASSUME NEW p \in Periods
      PROVE  /\ us[p].start = ws[p].start /\ us[p].end = ws[p].end
             /\ us[p].used = IF c \notin posted /\ Covers(ws[p], charge[c].completed)
                             THEN ws[p].used + charge[c].amount ELSE ws[p].used
  <2>1. ws[p] \in Window
    BY <1>2
  <2> HIDE DEF ws, c
  <2> QED BY <2>1 DEF AddCharge, Window
<1>5. window'[k] = us /\ \A q \in Keys \ {k} : window'[q] = window[q]
  BY <1>1 DEF TypeOK
<1> HIDE DEF ws, us, k, c
<1>6. WindowsOpen'
  <2>1. \A q \in Requests : charge'[q].completed <= now' /\ charge[q].completed \in Nat
    BY <1>1 DEF LInv, WindowsOpen, TypeOK
  <2>2. \A q \in posted' : KeyOf[q] \in opened'
    BY <1>1 DEF LInv, WindowsOpen, k
  <2>3. \A q \in opened', p \in Periods : DayBoundary(window'[q][p].end)
    BY <1>1, <1>2, <1>4, <1>5 DEF LInv, WindowsOpen, TypeOK
  <2>4. ASSUME NEW q \in posted', NEW p \in Periods
        PROVE  charge'[q].completed < window'[KeyOf[q]][p].end
    <3>0. q \in Requests /\ charge[q].completed <= now /\ charge[q].completed \in Nat
      BY <1>1, <1>3, <2>1
    <3>1. CASE KeyOf[q] = k
      <4>1. ws[p].end \in Nat /\ now < ws[p].end
        BY <1>2 DEF Window
      <4> QED BY <1>1, <1>4, <1>5, <3>0, <3>1, <4>1
    <3>2. CASE KeyOf[q] # k
      <4>1. q \in posted
        BY <1>1, <3>2 DEF k
      <4> QED BY <1>1, <1>5, <3>0, <3>2, <4>1, LedgerAssumption DEF LInv, WindowsOpen
    <3> QED BY <3>1, <3>2
  <2> QED BY <2>1, <2>2, <2>3, <2>4 DEF WindowsOpen, DayBoundary, DayStart
<1>7. ASSUME NEW q \in opened', NEW p \in Periods, ~Expired(window'[q][p], now')
      PROVE  window'[q][p].used = Sum(charge', CoveredBy(posted', charge', q, window'[q][p]))
  <2>1. CASE q = k
    <3> DEFINE C == CoveredBy(posted, charge, k, ws[p])
               D == CoveredBy(posted', charge', k, us[p])
    <3>1. C \in SUBSET Requests
      BY CoveredByType
    <3>2. ws[p].used = Sum(charge, C)
      BY <1>2
    <3>3. CASE c \notin posted /\ Covers(ws[p], charge[c].completed)
      <4>1. D = C \cup {c}
        BY <1>1, <1>4, <3>3 DEF CoveredBy, Covers, k
      <4>2. c \in Requests \ C
        BY <1>1, <3>3 DEF CoveredBy
      <4>3. Sum(charge, D) = charge[c].amount + Sum(charge, C) /\ Sum(charge, C) \in Nat
        BY <1>3, <3>1, <4>1, <4>2, SumAdd
      <4>4. us[p].used = ws[p].used + charge[c].amount
        BY <1>4, <3>3
      <4> HIDE DEF C, D
      <4>5. us[p].used = Sum(charge, D)
        BY <1>3, <3>2, <4>3, <4>4
      <4> QED BY <1>1, <1>5, <2>1, <4>5 DEF D
    <3>4. CASE ~(c \notin posted /\ Covers(ws[p], charge[c].completed))
      <4>1. D = C
        BY <1>1, <1>4, <3>4 DEF CoveredBy, Covers
      <4>2. us[p].used = Sum(charge, D)
        BY <1>4, <3>2, <3>4, <4>1
      <4> HIDE DEF C
      <4> QED BY <1>1, <1>5, <2>1, <4>2
    <3> QED BY <3>3, <3>4
  <2>2. CASE q # k
    <3>1. q \in opened /\ window'[q] = window[q] /\ ~Expired(window[q][p], now)
      BY <1>1, <1>5, <1>7, <2>2 DEF TypeOK
    <3>2. CoveredBy(posted', charge', q, window'[q][p]) = CoveredBy(posted, charge, q, window[q][p])
      BY <1>1, <2>2, <3>1 DEF CoveredBy, k
    <3> QED BY <1>1, <3>1, <3>2, UsageIs DEF LInv, Usage
  <2> QED BY <2>1, <2>2
<1>8. Usage(opened', window', now', posted', charge')
  BY <1>7 DEF Usage
<1> QED
  BY <1>6, <1>8, UsageIs

\* A running period that is reset begins after every charge of before.
LEMMA ResetSums ==
    ASSUME TypeOK, LInv, NEW k \in Keys, NEW ps \in SUBSET Periods, Reset(k, ps)
    PROVE  WindowsOpen' /\ UsageMatchesCharges'
<1>1. /\ now' = now + 1 /\ now \in Nat
      /\ window' = [window EXCEPT ![k] = ResetWindows(k, ps, now + 1)]
      /\ UNCHANGED <<opened, posted, charge>>
  BY DEF Reset, TypeOK
<1>2. ASSUME NEW q \in Keys, NEW p \in Periods
      PROVE  /\ window'[q][p].end = window[q][p].end
             /\ \/ window'[q][p] = window[q][p]
                \/ /\ window'[q][p].used = 0
                   /\ Expired(window[q][p], now + 1) \/ window'[q][p].start = now + 1
  BY <1>1 DEF TypeOK, ResetWindows, ResetWindow
<1>3. WindowsOpen'
  <2>1. \A q \in Requests : charge'[q].completed <= now'
    BY <1>1 DEF LInv, WindowsOpen, TypeOK
  <2>2. \A q \in posted' : KeyOf[q] \in opened'
    BY <1>1 DEF LInv, WindowsOpen
  <2>3. \A q \in opened', p \in Periods : DayBoundary(window'[q][p].end)
    BY <1>1, <1>2 DEF LInv, WindowsOpen, TypeOK
  <2>4. \A q \in posted', p \in Periods : charge'[q].completed < window'[KeyOf[q]][p].end
    BY <1>1, <1>2, LedgerAssumption DEF LInv, WindowsOpen, TypeOK
  <2> QED BY <2>1, <2>2, <2>3, <2>4 DEF WindowsOpen, DayBoundary, DayStart
<1>4. ASSUME NEW q \in opened', NEW p \in Periods, ~Expired(window'[q][p], now')
      PROVE  window'[q][p].used = Sum(charge', CoveredBy(posted', charge', q, window'[q][p]))
  <2>1. q \in Keys /\ q \in opened
    BY <1>1 DEF TypeOK
  <2>2. CASE window'[q][p] = window[q][p]
    <3>1. ~Expired(window[q][p], now)
      BY <1>1, <1>4, <2>1, <2>2 DEF Expired, TypeOK, Window
    <3> QED BY <1>1, <2>1, <2>2, <3>1, UsageIs DEF LInv, Usage
  <2>3. CASE window'[q][p] # window[q][p]
    <3>1. ~Expired(window[q][p], now + 1)
      BY <1>1, <1>2, <1>4, <2>1 DEF Expired
    <3>2. window'[q][p].used = 0 /\ window'[q][p].start = now + 1
      BY <1>2, <2>1, <2>3, <3>1
    <3>3. CoveredBy(posted', charge', q, window'[q][p]) = {}
      BY <1>1, <3>2 DEF CoveredBy, Covers, LInv, WindowsOpen, TypeOK
    <3> QED BY <1>1, <3>2, <3>3, SumEmpty, CoveredByType
  <2> QED BY <2>2, <2>3
<1>5. Usage(opened', window', now', posted', charge')
  BY <1>4 DEF Usage
<1> QED
  BY <1>3, <1>5, UsageIs

\* A deleted key takes its windows and its events with it.
LEMMA DeleteSums ==
    ASSUME TypeOK, LInv, NEW k \in Keys, DeleteKey(k)
    PROVE  WindowsOpen' /\ UsageMatchesCharges'
<1>1. /\ opened' = opened \ {k}
      /\ posted' = {r \in posted : KeyOf[r] # k}
      /\ UNCHANGED <<now, window, charge>>
  BY DEF DeleteKey
<1>2. WindowsOpen'
  BY <1>1 DEF LInv, WindowsOpen
<1>3. ASSUME NEW q \in opened', NEW w
      PROVE  CoveredBy(posted', charge', q, w) = CoveredBy(posted, charge, q, w)
  BY <1>1 DEF CoveredBy
<1>4. Usage(opened', window', now', posted', charge')
  BY <1>1, <1>3, UsageIs DEF LInv, Usage
<1> QED
  BY <1>2, <1>4, UsageIs

LEMMA NextLInv ==
    ASSUME TypeOK, TypeOK', LInv, [Next]_vars
    PROVE  LInv'
<1>1. ChargesFinal'
  BY RequestChargesFinal, OtherChargesFinal DEF LInv, Next
<1>2. ASSUME NEW r \in Requests, RequestNext(r) PROVE WindowsOpen' /\ UsageMatchesCharges'
  <2>1. CASE Admit(r)
    BY <2>1, AdmitSums
  <2>2. CASE Finish(r)
    BY <2>2, FinishSums
  <2>3. CASE Post(r)
    BY <2>3, PostSums
  <2>4. CASE \/ BeginAdmit(r) \/ NextRetry(r) \/ RefuseAdmit(r) \/ PostFails(r)
             \/ PostToDeletedKey(r) \/ Note(r) \/ Drop(r)
    <3>1. UNCHANGED <<now, Ledger>>
      BY <2>4 DEF BeginAdmit, NextRetry, RefuseAdmit, PostFails, PostToDeletedKey, Note, Drop,
                  dbVars, Ledger
    <3> QED BY <3>1, LedgerUnchanged
  <2> QED BY <1>2, <2>1, <2>2, <2>3, <2>4 DEF RequestNext
<1>3. ASSUME NEW k \in Keys, AdminNext(k) PROVE WindowsOpen' /\ UsageMatchesCharges'
  <2>1. CASE \E ps \in {{"daily"}, {"weekly"}, Periods} : Reset(k, ps)
    BY <2>1, ResetSums DEF Periods
  <2>2. CASE DeleteKey(k)
    BY <2>2, DeleteSums
  <2>3. CASE (\E l \in Limits : SetLimits(k, l)) \/ \E s \in {"enabled", "disabled"} : SetEnabled(k, s)
    <3>1. UNCHANGED <<now, Ledger>>
      BY <2>3 DEF SetLimits, SetEnabled, Ledger
    <3> QED BY <3>1, LedgerUnchanged
  <2> QED BY <1>3, <2>1, <2>2, <2>3 DEF AdminNext
<1>4. ASSUME Restart \/ UNCHANGED vars PROVE WindowsOpen' /\ UsageMatchesCharges'
  <2>1. UNCHANGED <<now, Ledger>>
    BY <1>4 DEF Restart, vars, dbVars, Ledger
  <2> QED BY <2>1, LedgerUnchanged
<1>5. ASSUME Tick PROVE WindowsOpen' /\ UsageMatchesCharges'
  BY <1>5, TickSums
<1> QED
  BY <1>1, <1>2, <1>3, <1>4, <1>5 DEF Next, LInv

-----------------------------------------------------------------------------
(* Theorems.                                                               *)

IInv == TypeOK /\ Kept /\ LInv

LEMMA NextInv == IInv /\ [Next]_vars => IInv'
<1> SUFFICES ASSUME IInv, [Next]_vars PROVE IInv'
  OBVIOUS
<1>1. TypeOK'
  BY RequestTypeOK, OtherTypeOK DEF IInv, Next
<1>2. Kept'
  BY AdmissionKept, SettlementKept, OtherKept DEF IInv, Next, RequestNext
<1>3. LInv'
  BY <1>1, NextLInv DEF IInv
<1> QED
  BY <1>1, <1>2, <1>3 DEF IInv

\* Every operation of the ledger keeps the shape of its state, the charges it
\* waits for, and the sums of its windows.
THEOREM Inductive == Spec => []IInv
<1>1. Init => IInv
  BY InitTypeOK, InitKept, InitLInv DEF IInv
<1> QED
  BY <1>1, NextInv, PTL DEF Spec

\* The windows, charges and futures of the ledger keep their types.
THEOREM TypeCorrect == Spec => []TypeOK
BY Inductive, PTL DEF IInv

\* A settled charge whose process is alive is in the ledger or kept for a retry,
\* however often and by whom the retries of settle were made.
THEOREM ChargesKept == Spec => []NoChargeForgotten
BY Inductive, PTL DEF IInv, Kept

\* A running window of client_key_budget_windows shows the sum of the events of
\* its key that were completed inside it, whatever settle, its retries, resets,
\* restarts and deletions did in between.
THEOREM UsageCorrect == Spec => []UsageMatchesCharges
BY Inductive, PTL DEF IInv, LInv

\* A request is granted by the admission transaction and by nothing else, when
\* what it found waiting is in the ledger.
LEMMA GrantIsAdmit ==
    ASSUME IInv, Next, NEW r \in Requests, pc[r] # "running", pc'[r] = "running"
    PROVE  Admit(r) /\ seen[r] \subseteq posted
<1> USE DEF IInv, TypeOK
<1>1. ASSUME NEW q \in Requests, RequestNext(q) PROVE Admit(r)
  <2>1. CASE Admit(q)
    BY <2>1 DEF Admit
  <2>2. CASE BeginAdmit(q) \/ NextRetry(q) \/ RefuseAdmit(q) \/ Drop(q)
    BY <2>2 DEF BeginAdmit, NextRetry, RefuseAdmit, Drop
  <2>3. CASE Finish(q) \/ PostFails(q) \/ PostToDeletedKey(q) \/ Post(q)
    BY <2>3 DEF Finish, PostFails, PostToDeletedKey, Post
  <2>4. CASE Note(q)
    BY <2>4 DEF Note, AfterNote
  <2> QED
    BY <1>1, <2>1, <2>2, <2>3, <2>4 DEF RequestNext
<1>2. ASSUME NEW k \in Keys, AdminNext(k) PROVE pc' = pc
  BY <1>2 DEF AdminNext, Reset, SetLimits, SetEnabled, DeleteKey, futureVars
<1>3. ASSUME Restart PROVE FALSE
  BY <1>3 DEF Restart
<1>4. ASSUME Tick PROVE pc' = pc
  BY <1>4 DEF Tick, futureVars
<1>5. Admit(r)
  BY <1>1, <1>2, <1>3, <1>4 DEF Next
<1>6. pc[r] = "checking" /\ status[KeyOf[r]] # "deleted"
  BY <1>5 DEF Admit
<1> QED
  BY <1>5, <1>6 DEF Kept, SeenKept, Pending

\* admit_inner grants a request only after the charges it found in the retry
\* map are in client_key_charge_events.
THEOREM RetriesFirst == Spec => RetriesSettledFirst
<1> DEFINE P == \A r \in Requests :
                  pc[r] # "running" /\ pc'[r] = "running" => seen[r] \subseteq posted
<1>1. IInv /\ [Next]_vars => [P]_vars
  BY GrantIsAdmit DEF vars
<1> QED
  BY <1>1, Inductive, PTL DEF Spec, RetriesSettledFirst

\* admit_inner grants a request only while what the charges of its key add up
\* to in each period, those it found waiting included, is below the limit.
THEOREM AdmissionWithin == Spec => AdmissionWithinBudget
<1> DEFINE Known(r, p) ==
             {c \in posted \cup seen[r] :
                KeyOf[c] = KeyOf[r] /\ Covers(window'[KeyOf[r]][p], charge[c].completed)}
           P == \A r \in Requests :
                  pc[r] # "running" /\ pc'[r] = "running" =>
                    \A p \in Periods :
                      limits[KeyOf[r]][p] # 0 =>
                        MapThenSumSet(LAMBDA c : charge[c].amount, Known(r, p))
                          < limits[KeyOf[r]][p]
<1>1. IInv /\ [Next]_vars => [P]_vars
  <2> SUFFICES ASSUME IInv, Next, NEW r \in Requests, pc[r] # "running", pc'[r] = "running",
                      NEW p \in Periods, limits[KeyOf[r]][p] # 0
               PROVE  MapThenSumSet(LAMBDA c : charge[c].amount, Known(r, p)) < limits[KeyOf[r]][p]
    BY DEF vars
  <2> DEFINE k == KeyOf[r]
             w == AdvanceWindows(k, now)[p]
  <2>1. Admit(r) /\ seen[r] \subseteq posted /\ k \in Keys
    BY GrantIsAdmit, LedgerAssumption
  <2>2. window'[k][p] = w /\ p \notin Exceeded(AdvanceWindows(k, now), limits[k])
    BY <2>1 DEF Admit, IInv, TypeOK
  <2>3. w \in Window /\ w.used = Sum(charge, CoveredBy(posted, charge, k, w))
    BY <2>1, AdvancedWindows DEF IInv
  <2>4. limits[k][p] \in Nat
    BY <2>1, LedgerAssumption DEF IInv, TypeOK
  <2>5. w.used < limits[k][p]
    BY <2>2, <2>3, <2>4 DEF Exceeded, Window
  <2>6. Known(r, p) = CoveredBy(posted, charge, k, w)
    BY <2>1, <2>2 DEF CoveredBy
  <2>7. MapThenSumSet(LAMBDA c : charge[c].amount, Known(r, p)) = Sum(charge, Known(r, p))
    BY DEF Sum
  <2> HIDE DEF Known, w
  <2> QED
    BY <2>3, <2>5, <2>6, <2>7
<1>2. [P]_vars => [\A r \in Requests :
         pc[r] # "running" /\ pc'[r] = "running" =>
           \A p \in Periods :
             LET k == KeyOf[r]
                 known == {c \in posted \cup seen[r] :
                             KeyOf[c] = k /\ Covers(window'[k][p], charge[c].completed)} IN
             limits[k][p] # 0 =>
               MapThenSumSet(LAMBDA c : charge[c].amount, known) < limits[k][p]]_vars
  OBVIOUS
<1> QED
  BY <1>1, <1>2, Inductive, PTL DEF Spec, AdmissionWithinBudget
=============================================================================
