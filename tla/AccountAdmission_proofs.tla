------------------------ MODULE AccountAdmission_proofs ------------------------
(* Theorems about the choice of an account, for every set of requests and  *)
(* accounts, every limit and every scope: no lease is left without a       *)
(* holder and no account over its limit, the first turns of a conversation *)
(* meet on one account, the waiting lines are used as their specification  *)
(* says, and the whole state keeps its types.                              *)
EXTENDS AccountAdmission, FunctionTheorems, FiniteSetTheorems, TLAPS

-----------------------------------------------------------------------------
(* The inductive invariant.                                                *)

Leases == [who : Waiters, account : Keys, id : Nat]

LeaseTyped ==
    /\ pc \in [Waiters -> RequestPlaces]
    /\ answer \in [Waiters -> Answers]
    /\ lease \in [Waiters -> Leases \cup {NoLease}]
    /\ sent \in SUBSET (Waiters \X Keys)
    /\ leases \in SUBSET Leases
    /\ releasing \in SUBSET Leases
    /\ IsFiniteSet(leases \cup releasing)
    /\ astray \in SUBSET Waiters

\* The turn of 'capacity: what it read of the binding, and what it chose.
TurnTyped ==
    /\ normal \in [Waiters -> SUBSET Keys]
    /\ free \in [Waiters -> SUBSET Keys]
    /\ bound \in [Waiters -> Keys \cup {NoKey}]
    /\ escaped \in [Waiters -> BOOLEAN]
    /\ chosen \in [Waiters -> Keys \cup {NoKey}]
    /\ binding \in Keys \cup {NoKey}
    /\ moved \in BOOLEAN

\* A request has a lease between the grant and the end of its use, and its
\* acquire command is under way while it waits for the answer; only one that
\* gave up, and may leave a lease behind, has one under way at its end.
OwnLease(w) ==
    /\ lease[w] # NoLease <=> pc[w] \in Holding \/ (pc[w] = "asking" /\ answer[w] = "granted")
    /\ lease[w] # NoLease => lease[w].who = w
    /\ pc[w] # "asking" => answer[w] = "none"
    /\ \A a \in Keys : <<w, a>> \in sent =>
         \/ pc[w] = "asking" /\ answer[w] = "none" /\ a = chosen[w]
         \/ pc[w] = "gone" /\ w \in astray

\* A turn uses the account it read the conversation was bound to, or knows that
\* it does not; and until a binding was moved, what it read is still so.
OwnTurn(w) ==
    /\ pc[w] \in Holding \cup {"asking"} =>
         /\ chosen[w] \in Keys
         /\ ~escaped[w] /\ bound[w] # NoKey => chosen[w] = bound[w]
    /\ ~moved /\ bound[w] # NoKey => bound[w] = binding
    /\ ~moved /\ w \in Conversation \ (Pinned \cup Frail) /\ pc[w] = "using" /\ ~escaped[w]
         => chosen[w] = binding

AccountInv ==
    /\ LeaseTyped /\ TurnTyped
    /\ \A w \in Waiters : OwnLease(w) /\ OwnTurn(w)
    /\ NoStrayLease

-----------------------------------------------------------------------------
(* What a step may leave as it is.                                         *)

\* The mark of a request without a lease is no lease.
LEMMA NoLeaseFacts == NoLease \notin Leases /\ \A l \in Leases : l # NoLease
BY QueueAssumption DEF NoLease, Leases

\* The steps of a request that neither asks for nor has a lease.
LEMMA QuietHolds ==
    ASSUME AccountInv, NEW q \in Waiters, pc[q] \notin Holding \cup {"asking"},
           NEW p \in RequestPlaces \ (Holding \cup {"asking"}),
           pc' = [pc EXCEPT ![q] = p] \/ UNCHANGED pc,
           answer' = [answer EXCEPT ![q] = "none"] \/ UNCHANGED answer,
           pc[q] = "gone" => p = "gone",
           \A r \in Waiters \ {q} : /\ bound'[r] = bound[r] /\ escaped'[r] = escaped[r]
                                    /\ chosen'[r] = chosen[r],
           TurnTyped', UNCHANGED <<leaseVars, affinityVars>>,
           bound'[q] \in {bound[q], NoKey, binding}
    PROVE  AccountInv'
<1>1. UNCHANGED <<lease, sent, leases, releasing, astray, binding, moved>>
  BY DEF leaseVars, affinityVars
<1>2. LeaseTyped' BY <1>1 DEF AccountInv, LeaseTyped, Answers
<1>3. /\ \A r \in Waiters \ {q} : pc'[r] = pc[r] /\ answer'[r] = answer[r]
      /\ pc'[q] \notin Holding \cup {"asking"} /\ answer'[q] = "none" 
      /\ pc[q] = "gone" => pc'[q] = "gone"
  BY DEF AccountInv, LeaseTyped, OwnLease, Holding
<1>4. ASSUME NEW r \in Waiters PROVE OwnLease(r)'
  BY <1>1, <1>3 DEF AccountInv, OwnLease
<1>5. ASSUME NEW r \in Waiters PROVE OwnTurn(r)'
  BY <1>1, <1>3 DEF AccountInv, OwnTurn, Holding
<1>6. NoStrayLease' BY <1>1 DEF AccountInv, NoStrayLease
<1> QED BY <1>2, <1>4, <1>5, <1>6 DEF AccountInv

\* The steps of others, of the line, of time and of Redis that concern leases at
\* most by removing one.
LEMMA BesideHolds ==
    ASSUME AccountInv,
           UNCHANGED <<pc, normal, free, answer, bound, escaped, chosen, lease, sent, affinityVars>>,
           leases' \in SUBSET leases, releasing' \in SUBSET releasing,
           astray' \in SUBSET Waiters, astray \subseteq astray',
           \A l \in releasing \ releasing' : l \notin leases' \/ l.who \in astray'
    PROVE  AccountInv'
<1>1. UNCHANGED <<binding, moved>> BY DEF affinityVars
<1>2. LeaseTyped'
  <2>1. IsFiniteSet(leases' \cup releasing')
    <3>1. leases' \cup releasing' \in SUBSET (leases \cup releasing) OBVIOUS
    <3> QED BY <3>1, FS_Subset DEF AccountInv, LeaseTyped
  <2> QED BY <2>1 DEF AccountInv, LeaseTyped
<1>3. TurnTyped' BY <1>1 DEF AccountInv, TurnTyped
<1>4. ASSUME NEW r \in Waiters PROVE OwnLease(r)' BY DEF AccountInv, OwnLease
<1>5. ASSUME NEW r \in Waiters PROVE OwnTurn(r)' BY <1>1 DEF AccountInv, OwnTurn
<1>6. NoStrayLease' BY DEF AccountInv, NoStrayLease
<1> QED BY <1>2, <1>3, <1>4, <1>5, <1>6 DEF AccountInv

-----------------------------------------------------------------------------
(* Choosing and waiting.                                                   *)

\* select_inner reads the leases and the binding.
LEMMA LoadHolds ==
    ASSUME AccountInv, NEW w \in Waiters, Load(w)
    PROVE  AccountInv'
<1> DEFINE seen == available \cap Scope[w]
           bs == (IF w \in Conversation THEN {binding} ELSE {NoKey})
                     \cup (IF w \in Frail THEN {NoKey} ELSE {})
<1>1. /\ pc[w] \in {"new", "waiting"} /\ pc' = [pc EXCEPT ![w] = "choosing"]
      /\ UNCHANGED <<chosen, answer, leaseVars, affinityVars>>
  BY DEF Load
<1>2. PICK b \in bs : /\ bound' = [bound EXCEPT ![w] = b]
                      /\ escaped' = [escaped EXCEPT ![w] = Hopeless(b, seen)]
  BY DEF Load
<1>3. Hopeless(b, seen) \in BOOLEAN BY DEF Hopeless
<1>4. b \in Keys \cup {NoKey} BY DEF AccountInv, TurnTyped
<1>5. TurnTyped'
  <2>1. /\ normal' = [normal EXCEPT ![w] = seen]
        /\ free' = [free EXCEPT ![w] = {a \in seen : Cardinality(LeasesOf(a)) < Limit[a]}]
    BY DEF Load
  <2>2. seen \in SUBSET Keys BY AccountAssumption
  <2> HIDE DEF seen
  <2> QED BY <1>1, <1>2, <1>3, <1>4, <2>1, <2>2 DEF AccountInv, TurnTyped, affinityVars
<1>6. bound'[w] = b BY <1>2 DEF AccountInv, TurnTyped
<1>7. /\ "choosing" \in RequestPlaces \ (Holding \cup {"asking"})
      /\ pc[w] \notin Holding \cup {"asking"} /\ pc[w] # "gone"
  BY <1>1 DEF RequestPlaces, Holding
<1>8. \A r \in Waiters \ {w} : /\ bound'[r] = bound[r] /\ escaped'[r] = escaped[r]
                               /\ chosen'[r] = chosen[r]
  BY <1>1, <1>2 DEF AccountInv, TurnTyped
<1> QED BY <1>1, <1>5, <1>6, <1>7, <1>8, QuietHolds

\* A request that has no lease ends, or waits, and forgets its turn.
LEMMA ForgetHolds ==
    ASSUME AccountInv, NEW w \in Waiters, pc[w] \notin Holding \cup {"asking", "gone"}, Forget(w),
           NEW p \in {"gone", "waiting"}, pc' = [pc EXCEPT ![w] = p],
           UNCHANGED <<leaseVars, affinityVars>>
    PROVE  AccountInv'
<1>1. /\ bound' = [bound EXCEPT ![w] = NoKey] /\ escaped' = [escaped EXCEPT ![w] = FALSE]
      /\ chosen' = [chosen EXCEPT ![w] = NoKey] /\ answer' = [answer EXCEPT ![w] = "none"]
  BY DEF Forget
<1>2. TurnTyped' BY <1>1 DEF AccountInv, TurnTyped, affinityVars, Forget, ForgetView
<1>3. p \in RequestPlaces \ (Holding \cup {"asking"}) BY DEF RequestPlaces, Holding
<1>4. /\ bound'[w] = NoKey
      /\ \A r \in Waiters \ {w} : /\ bound'[r] = bound[r] /\ escaped'[r] = escaped[r]
                                  /\ chosen'[r] = chosen[r]
  BY <1>1 DEF AccountInv, TurnTyped
<1> QED BY <1>1, <1>2, <1>3, <1>4, QuietHolds

\* The end of a wait, and its answers.
LEMMA WaitingHolds ==
    ASSUME AccountInv, NEW w \in Waiters,
           \/ ChooseTooLate(w) \/ NothingEligible(w) \/ Wait(w) \/ Refused(w) \/ WaitTimedOut(w)
    PROVE  AccountInv'
<1>1. /\ pc[w] \in {"choosing", "queueing", "waiting"} /\ Forget(w)
      /\ \E p \in {"gone", "waiting"} : pc' = [pc EXCEPT ![w] = p]
      /\ UNCHANGED <<leaseVars, affinityVars>>
  BY DEF ChooseTooLate, NothingEligible, Wait, Refused, WaitTimedOut, Gone
<1>2. pc[w] \notin Holding \cup {"asking", "gone"} BY <1>1 DEF Holding
<1> QED BY <1>1, <1>2, ForgetHolds

\* A turn that finds no account free.
LEMMA NothingFreeHolds ==
    ASSUME AccountInv, NEW w \in Waiters, NothingFree(w)
    PROVE  AccountInv'
<1>1. /\ pc[w] = "choosing" /\ pc' = [pc EXCEPT ![w] = "queueing"]
      /\ UNCHANGED <<normal, free, bound, escaped, chosen, answer, leaseVars, affinityVars>>
  BY DEF NothingFree, turnVars, viewVars
<1>2. TurnTyped' BY <1>1 DEF AccountInv, TurnTyped, affinityVars
<1>3. /\ "queueing" \in RequestPlaces \ (Holding \cup {"asking"})
      /\ pc[w] \notin Holding \cup {"asking"} /\ pc[w] # "gone"
  BY <1>1 DEF RequestPlaces, Holding
<1> QED BY <1>1, <1>2, <1>3, QuietHolds

\* The steps of a request in the line of an account.
LEMMA LineHolds ==
    ASSUME AccountInv, NEW w \in Waiters,
           ChangeLine(w) \/ QueueStep(w) \/ WaitLate(w) \/ Over(w)
    PROVE  AccountInv'
<1>1. UNCHANGED <<pc, normal, free, answer, bound, escaped, chosen, lease, sent, leases,
                  releasing, astray, affinityVars>>
  BY DEF ChangeLine, QueueStep, WaitLate, Over, turnVars, viewVars, leaseVars
<1> QED BY <1>1, BesideHolds DEF AccountInv, LeaseTyped

-----------------------------------------------------------------------------
(* The lease.                                                              *)

\* Another request keeps its part of the invariant.
OthersKept(q) ==
    \A r \in Waiters \ {q} :
        /\ pc'[r] = pc[r] /\ answer'[r] = answer[r] /\ lease'[r] = lease[r]
        /\ bound'[r] = bound[r] /\ escaped'[r] = escaped[r] /\ chosen'[r] = chosen[r]
        /\ \A a \in Keys : <<r, a>> \in sent' => <<r, a>> \in sent

\* A binding is only moved when that is remembered.
BindingKept == (moved => moved') /\ (~moved' => binding' = binding \/ binding = NoKey)

\* A step of one request leaves the invariant of every other.
LEMMA OthersHold ==
    ASSUME AccountInv, NEW q \in Waiters, OthersKept(q), BindingKept, astray \subseteq astray',
           NEW r \in Waiters, r # q
    PROVE  OwnLease(r)' /\ OwnTurn(r)'
<1>1. OwnLease(r) /\ OwnTurn(r) BY DEF AccountInv
<1>2. OwnLease(r)' BY <1>1 DEF OwnLease, OthersKept
<1>3. OwnTurn(r)'
  <2>1. pc[r] = "using" => chosen[r] # NoKey BY <1>1, QueueAssumption DEF OwnTurn, Holding
  <2> QED BY <1>1, <2>1 DEF OwnTurn, OthersKept, BindingKept
<1> QED BY <1>2, <1>3

\* A turn chooses an account, and sends the acquire command.
LEMMA ChooseHolds ==
    ASSUME AccountInv, NEW w \in Waiters, Choose(w)
    PROVE  AccountInv'
<1>1. PICK a \in Selectable(w) :
        /\ chosen' = [chosen EXCEPT ![w] = a]
        /\ escaped' = [escaped EXCEPT ![w] = @ \/ (bound[w] # NoKey /\ a # bound[w])]
        /\ sent' = sent \cup {<<w, a>>}
  BY DEF Choose
<1>2. /\ pc[w] = "choosing" /\ pc' = [pc EXCEPT ![w] = "asking"]
      /\ UNCHANGED <<bound, answer, lease, leases, releasing, astray, binding, moved>>
  BY DEF Choose, affinityVars
<1>3. a \in Keys BY DEF AccountInv, TurnTyped, Selectable
<1>4. LeaseTyped' BY <1>2, <1>3, <1>1 DEF AccountInv, LeaseTyped, RequestPlaces
<1>5. TurnTyped'
  <2>1. UNCHANGED <<normal, free>> BY DEF Choose, viewVars
  <2>2. (escaped[w] \/ (bound[w] # NoKey /\ a # bound[w])) \in BOOLEAN OBVIOUS
  <2> QED BY <1>1, <1>2, <1>3, <2>1, <2>2 DEF AccountInv, TurnTyped
<1>6. ASSUME NEW r \in Waiters PROVE OwnLease(r)' /\ OwnTurn(r)'
  <2>1. CASE r # w
    <3>1. OthersKept(w) BY <1>1, <1>2 DEF OthersKept, AccountInv, LeaseTyped, TurnTyped
    <3> QED BY <1>2, <2>1, <3>1, OthersHold DEF BindingKept
  <2>2. CASE r = w
    <3>1. /\ pc'[w] = "asking" /\ answer'[w] = "none" /\ lease'[w] = NoLease /\ chosen'[w] = a
          /\ ~escaped'[w] => ~(bound[w] # NoKey /\ a # bound[w])
      BY ZenonT(60), <1>1, <1>2 DEF AccountInv, LeaseTyped, TurnTyped, OwnLease, Holding
    <3>2. \A b \in Keys : <<w, b>> \in sent' => b = a
      BY <1>1, <1>2 DEF AccountInv, OwnLease
    <3>3. OwnLease(w)' BY <3>1, <3>2 DEF OwnLease, Holding
    <3>4. OwnTurn(w)' BY <1>2, <1>3, <3>1 DEF AccountInv, OwnTurn
    <3> QED BY <2>2, <3>3, <3>4
  <2> QED BY <2>1, <2>2
<1>7. NoStrayLease' BY <1>2 DEF AccountInv, NoStrayLease
<1> QED BY <1>4, <1>5, <1>6, <1>7 DEF AccountInv

\* There is a lease id that no lease has: of n leases not all have one of n + 1
\* ids.
LEMMA MemberIsNew ==
    ASSUME AccountInv, NEW w \in Waiters, NEW a \in Keys
    PROVE  /\ Member(w, a) \in Leases /\ Member(w, a).who = w /\ Member(w, a).account = a
           /\ Member(w, a) \notin leases \cup releasing
<1> DEFINE all == leases \cup releasing
           n == Cardinality(all)
           S == [who : {w}, account : {a}, id : 0 .. n]
           mk == [i \in 0 .. n |-> [who |-> w, account |-> a, id |-> i]]
<1>1. IsFiniteSet(all) /\ n \in Nat
  BY FS_CardinalityType DEF AccountInv, LeaseTyped
<1>2. mk \in Bijection(0 .. n, S)
  <2>1. mk \in [0 .. n -> S] OBVIOUS
  <2>2. \A i, j \in 0 .. n : mk[i] = mk[j] => i = j OBVIOUS
  <2>3. \A l \in S : \E i \in 0 .. n : mk[i] = l
    <3> SUFFICES ASSUME NEW l \in S PROVE \E i \in 0 .. n : mk[i] = l
      OBVIOUS
    <3>1. l.id \in 0 .. n /\ l = [who |-> w, account |-> a, id |-> l.id] OBVIOUS
    <3> QED BY <3>1
  <2> HIDE DEF mk, S
  <2> QED BY <2>1, <2>2, <2>3, Fun_IsBij
<1>3. IsFiniteSet(S) /\ Cardinality(S) = n + 1
  <2>1. IsFiniteSet(0 .. n) /\ Cardinality(0 .. n) = n + 1 BY <1>1, FS_Interval
  <2> HIDE DEF S, mk, n
  <2>2. ExistsBijection(0 .. n, S) BY <1>2 DEF ExistsBijection
  <2> QED BY <2>1, <2>2, FS_Bijection
<1>4. \E l \in S : l \notin all
  <2> SUFFICES ASSUME S \subseteq all PROVE FALSE
    OBVIOUS
  <2>1. Cardinality(S) <= n BY <1>1, FS_Subset
  <2> QED BY <1>1, <1>3, <2>1
<1>5. Member(w, a) \in S /\ Member(w, a) \notin all
  <2>1. Member(w, a) = CHOOSE l \in S : l \notin all BY DEF Member
  <2> HIDE DEF S, all
  <2> QED BY <1>4, <2>1
<1> QED BY <1>1, <1>5 DEF Leases

\* Redis executes an acquire command, with an id no lease has.
LEMMA RedisAcquireHolds ==
    ASSUME AccountInv, NEW w \in Waiters, NEW a \in Keys, RedisAcquire(w, a)
    PROVE  AccountInv'
<1> DEFINE m == Member(w, a)
<1>1. /\ <<w, a>> \in sent /\ sent' = sent \ {<<w, a>>}
      /\ UNCHANGED <<pc, normal, free, bound, escaped, chosen, releasing, astray, binding, moved>>
  BY DEF RedisAcquire, viewVars, affinityVars
<1>2. /\ m \in Leases /\ m.who = w /\ m \notin leases \cup releasing /\ m # NoLease
      /\ leases' \in {leases, leases \cup {m}}
  BY MemberIsNew, NoLeaseFacts DEF RedisAcquire
<1>3. \/ /\ pc[w] = "asking"
         /\ \/ /\ lease' = [lease EXCEPT ![w] = m] /\ answer' = [answer EXCEPT ![w] = "granted"]
            \/ /\ UNCHANGED lease /\ answer' = [answer EXCEPT ![w] = "busy"] /\ leases' = leases
      \/ pc[w] = "gone" /\ UNCHANGED <<lease, answer>>
  BY DEF RedisAcquire
<1>4. LeaseTyped'
  <2>1. IsFiniteSet(leases' \cup releasing')
    <3>1. leases' \cup releasing' \in SUBSET ((leases \cup releasing) \cup {m}) BY <1>1, <1>2
    <3>2. IsFiniteSet((leases \cup releasing) \cup {m})
      BY FS_AddElement DEF AccountInv, LeaseTyped
    <3> QED BY <3>1, <3>2, FS_Subset
  <2>2. lease' \in [Waiters -> Leases \cup {NoLease}] /\ answer' \in [Waiters -> Answers]
    BY <1>2, <1>3 DEF AccountInv, LeaseTyped, Answers
  <2> HIDE DEF m
  <2> QED BY <1>1, <1>2, <2>1, <2>2 DEF AccountInv, LeaseTyped
<1>5. TurnTyped' BY <1>1 DEF AccountInv, TurnTyped
<1> HIDE DEF m
<1>6. ASSUME NEW r \in Waiters PROVE OwnLease(r)' /\ OwnTurn(r)'
  <2>1. CASE r # w
    <3>1. OthersKept(w) BY <1>1, <1>3 DEF OthersKept, AccountInv, LeaseTyped
    <3> QED BY <1>1, <2>1, <3>1, OthersHold DEF BindingKept
  <2>2. CASE r = w
    <3>1. OwnLease(w) BY DEF AccountInv
    <3>2. OwnLease(w)'
      <4>1. CASE pc[w] = "asking"
        <5>1. \A b \in Keys : <<w, b>> \notin sent'
          BY <1>1, <3>1, <4>1 DEF OwnLease
        <5>2. lease[w] = NoLease BY <1>1, <3>1, <4>1 DEF OwnLease, Holding
        <5>3. \/ lease'[w] = m /\ answer'[w] = "granted"
              \/ lease'[w] = NoLease /\ answer'[w] = "busy"
          BY <1>3, <4>1, <5>2 DEF AccountInv, LeaseTyped
        <5> QED BY <1>1, <1>2, <4>1, <5>1, <5>3 DEF OwnLease, Holding
      <4>2. CASE pc[w] = "gone"
        BY <1>1, <1>3, <3>1, <4>2 DEF OwnLease
      <4> QED BY <1>3, <4>1, <4>2
    <3>3. OwnTurn(w)' BY <1>1 DEF AccountInv, OwnTurn
    <3> QED BY <2>2, <3>2, <3>3
  <2> QED BY <2>1, <2>2
<1>7. NoStrayLease'
  <2> SUFFICES ASSUME NEW l \in leases'
               PROVE  lease'[l.who] = l \/ l \in releasing' \/ l.who \in astray'
    BY DEF NoStrayLease
  <2>1. l.who \in Waiters /\ l # NoLease
    BY <1>4, NoLeaseFacts DEF LeaseTyped, Leases
  <2>2. CASE l = m /\ l \notin leases
    <3>1. CASE pc[w] = "asking"
      <4>1. lease'[w] = m BY <1>3, <2>2, <3>1 DEF AccountInv, LeaseTyped
      <4> QED BY <1>2, <2>2, <4>1
    <3>2. CASE pc[w] = "gone"
      BY <1>1, <1>2, <2>2, <3>2 DEF AccountInv, OwnLease
    <3> QED BY <1>3, <3>1, <3>2
  <2>3. CASE l \in leases
    <3>1. l.who # w => lease'[l.who] = lease[l.who]
      BY <1>3, <2>1 DEF AccountInv, LeaseTyped
    <3>2. pc[w] = "asking" => lease[w] = NoLease
      BY <1>1 DEF AccountInv, OwnLease, Holding
    <3>3. lease'[l.who] = lease[l.who] \/ lease[l.who] # l BY <1>3, <2>1, <3>1, <3>2
    <3> QED BY <1>1, <2>3, <3>3 DEF AccountInv, NoStrayLease
  <2> QED BY <1>2, <2>2, <2>3
<1> QED BY <1>4, <1>5, <1>6, <1>7 DEF AccountInv

\* A request that gives up while it asks may leave a lease behind.
LEMMA LeaveBehindHolds ==
    ASSUME AccountInv, NEW w \in Waiters, pc[w] = "asking", LeaveBehind(w), Gone(w),
           UNCHANGED <<sent, leases, affinityVars>>
    PROVE  AccountInv'
<1>1. /\ astray' = astray \cup {w} /\ lease' = [lease EXCEPT ![w] = NoLease]
      /\ pc' = [pc EXCEPT ![w] = "gone"] /\ answer' = [answer EXCEPT ![w] = "none"]
      /\ bound' = [bound EXCEPT ![w] = NoKey] /\ escaped' = [escaped EXCEPT ![w] = FALSE]
      /\ chosen' = [chosen EXCEPT ![w] = NoKey]
      /\ normal' = [normal EXCEPT ![w] = {}] /\ free' = [free EXCEPT ![w] = {}]
      /\ UNCHANGED <<sent, leases, releasing, binding, moved>>
  BY DEF LeaveBehind, Gone, Forget, ForgetView, affinityVars
<1>2. LeaseTyped' BY <1>1 DEF AccountInv, LeaseTyped, RequestPlaces, Answers
<1>3. TurnTyped' BY <1>1 DEF AccountInv, TurnTyped
<1>4. OthersKept(w) BY <1>1 DEF OthersKept, AccountInv, LeaseTyped, TurnTyped
<1>5. ASSUME NEW r \in Waiters PROVE OwnLease(r)' /\ OwnTurn(r)'
  <2>1. CASE r # w BY <1>1, <1>4, <2>1, OthersHold DEF BindingKept
  <2>2. CASE r = w
    <3>1. /\ pc'[w] = "gone" /\ answer'[w] = "none" /\ lease'[w] = NoLease /\ bound'[w] = NoKey
          /\ w \in astray'
      BY <1>1 DEF AccountInv, LeaseTyped, TurnTyped
    <3> QED BY <2>2, <3>1 DEF OwnLease, OwnTurn, Holding
  <2> QED BY <2>1, <2>2
<1>6. NoStrayLease'
  <2>1. \A l \in leases : l.who \in Waiters BY DEF AccountInv, LeaseTyped, Leases
  <2>2. \A l \in leases : l.who # w => lease'[l.who] = lease[l.who]
    BY <1>1, <2>1 DEF AccountInv, LeaseTyped
  <2> QED BY <1>1, <2>2 DEF AccountInv, NoStrayLease
<1> QED BY <1>2, <1>3, <1>5, <1>6 DEF AccountInv

\* The acquire command was refused, or its answer was lost.
LEMMA BusyHolds ==
    ASSUME AccountInv, NEW w \in Waiters, Busy(w)
    PROVE  AccountInv'
<1>1. /\ pc[w] = "asking" /\ answer[w] = "busy"
      /\ escaped' = [escaped EXCEPT ![w] = @ \/ chosen[w] = bound[w]]
      /\ chosen' = [chosen EXCEPT ![w] = NoKey] /\ answer' = [answer EXCEPT ![w] = "none"]
      /\ pc' = [pc EXCEPT ![w] = "choosing"]
      /\ UNCHANGED <<normal, free, bound, lease, sent, leases, releasing, astray, binding, moved>>
  BY DEF Busy, leaseVars, affinityVars
<1>2. LeaseTyped' BY <1>1 DEF AccountInv, LeaseTyped, RequestPlaces, Answers
<1>3. TurnTyped'
  <2>1. (escaped[w] \/ chosen[w] = bound[w]) \in BOOLEAN OBVIOUS
  <2> QED BY <1>1, <2>1 DEF AccountInv, TurnTyped
<1>4. OthersKept(w) BY <1>1 DEF OthersKept, AccountInv, LeaseTyped, TurnTyped
<1>5. ASSUME NEW r \in Waiters PROVE OwnLease(r)' /\ OwnTurn(r)'
  <2>1. CASE r # w BY <1>1, <1>4, <2>1, OthersHold DEF BindingKept
  <2>2. CASE r = w
    <3>1. /\ pc'[w] = "choosing" /\ answer'[w] = "none" /\ lease[w] = NoLease
          /\ \A a \in Keys : <<w, a>> \notin sent
      BY <1>1 DEF AccountInv, LeaseTyped, OwnLease, Holding
    <3> QED BY <1>1, <2>2, <3>1 DEF AccountInv, OwnLease, OwnTurn, Holding
  <2> QED BY <2>1, <2>2
<1>6. NoStrayLease' BY <1>1 DEF AccountInv, NoStrayLease
<1> QED BY <1>2, <1>3, <1>5, <1>6 DEF AccountInv

\* A request goes on with its lease: to claim the account, or to use it.
LEMMA LeaseKept ==
    ASSUME AccountInv, NEW w \in Waiters, lease[w] # NoLease, NEW p \in Holding,
           pc' = [pc EXCEPT ![w] = p],
           answer' = [answer EXCEPT ![w] = "none"] \/ (UNCHANGED answer /\ pc[w] # "asking"),
           normal' \in [Waiters -> SUBSET Keys], free' \in [Waiters -> SUBSET Keys],
           UNCHANGED <<bound, escaped, chosen, leaseVars, moved>>,
           binding' \in Keys \cup {NoKey}, BindingKept,
           ~moved /\ p = "using" /\ w \in Conversation \ (Pinned \cup Frail) /\ ~escaped[w]
             => chosen[w] = binding'
    PROVE  AccountInv'
<1>1. UNCHANGED <<lease, sent, leases, releasing, astray>> BY DEF leaseVars
<1>2. LeaseTyped' BY <1>1 DEF AccountInv, LeaseTyped, RequestPlaces, Answers, Holding
<1>3. TurnTyped' BY DEF AccountInv, TurnTyped
<1>4. OthersKept(w) BY <1>1 DEF OthersKept, AccountInv, LeaseTyped
<1>5. ASSUME NEW r \in Waiters PROVE OwnLease(r)' /\ OwnTurn(r)'
  <2>1. CASE r # w BY <1>1, <1>4, <2>1, OthersHold
  <2>2. CASE r = w
    <3>1. /\ pc'[w] = p /\ answer'[w] = "none" /\ pc[w] \in Holding \cup {"asking"}
          /\ \A a \in Keys : <<w, a>> \notin sent
      BY DEF AccountInv, LeaseTyped, OwnLease, Holding
    <3>2. OwnLease(w)' BY <1>1, <3>1 DEF AccountInv, OwnLease, Holding
    <3>3. OwnTurn(w)' BY <3>1, QueueAssumption DEF AccountInv, OwnTurn, Holding, BindingKept
    <3> QED BY <2>2, <3>2, <3>3
  <2> QED BY <2>1, <2>2
<1>6. NoStrayLease' BY <1>1 DEF AccountInv, NoStrayLease
<1> QED BY <1>2, <1>3, <1>5, <1>6 DEF AccountInv

\* A lease is given back into the releases under way.
LEMMA ReturnFacts ==
    ASSUME AccountInv, NEW w \in Waiters, Return(w)
    PROVE  /\ pc' = [pc EXCEPT ![w] = "using"]
           /\ normal' \in [Waiters -> SUBSET Keys] /\ free' \in [Waiters -> SUBSET Keys]
           /\ UNCHANGED <<bound, escaped, chosen, leaseVars, moved>>
BY DEF AccountInv, TurnTyped, Return, ForgetView

\* The acquire command was answered with a lease.
LEMMA AcquiredHolds ==
    ASSUME AccountInv, NEW w \in Waiters, Acquired(w)
    PROVE  AccountInv'
<1>1. /\ pc[w] = "asking" /\ answer[w] = "granted" /\ lease[w] # NoLease
      /\ answer' = [answer EXCEPT ![w] = "none"] /\ UNCHANGED binding
  BY DEF Acquired, AccountInv, OwnLease
<1>2. binding' \in Keys \cup {NoKey} /\ (UNCHANGED moved => BindingKept)
  BY <1>1 DEF AccountInv, TurnTyped, BindingKept
<1>3. CASE Claims(w)
  <2>1. /\ pc' = [pc EXCEPT ![w] = "claiming"]
        /\ UNCHANGED <<normal, free, bound, escaped, chosen, leaseVars, moved>>
    BY <1>3 DEF Acquired, viewVars
  <2>2. normal' \in [Waiters -> SUBSET Keys] /\ free' \in [Waiters -> SUBSET Keys]
    BY <2>1 DEF AccountInv, TurnTyped
  <2>3. "claiming" \in Holding /\ "claiming" # "using" BY DEF Holding
  <2> QED BY <1>1, <1>2, <2>1, <2>2, <2>3, LeaseKept
<1>4. CASE ~Claims(w)
  <2>1. Return(w) BY <1>4 DEF Acquired
  <2>2. ~moved /\ w \in Conversation \ (Pinned \cup Frail) /\ ~escaped[w] => chosen[w] = binding'
    BY <1>1, <1>4 DEF AccountInv, OwnTurn, Claims
  <2>3. "using" \in Holding BY DEF Holding
  <2> QED BY <1>1, <1>2, <2>1, <2>2, <2>3, ReturnFacts, LeaseKept
<1> QED BY <1>3, <1>4

\* The account is claimed for the conversation.
LEMMA ClaimHolds ==
    ASSUME AccountInv, NEW w \in Waiters, Claim(w)
    PROVE  AccountInv'
<1>1. /\ pc[w] = "claiming" /\ lease[w] # NoLease /\ Return(w) /\ UNCHANGED answer
      /\ pc[w] # "asking" /\ chosen[w] \in Keys
      /\ \/ (Effective(w) = chosen[w] \/ w \in Pinned) /\ binding' = Effective(w)
         \/ w \in Frail /\ UNCHANGED binding
  BY DEF Claim, AccountInv, OwnLease, OwnTurn, Holding
<1>2. binding' \in Keys \cup {NoKey} /\ BindingKept
  BY <1>1, ReturnFacts DEF AccountInv, TurnTyped, BindingKept, Effective
<1>3. w \in Conversation \ (Pinned \cup Frail) => chosen[w] = binding'
  BY <1>1
<1>4. "using" \in Holding BY DEF Holding
<1> QED BY <1>1, <1>2, <1>3, <1>4, ReturnFacts, LeaseKept

\* A request gives its lease back: a release is on its way.
LEMMA GuardDropped ==
    ASSUME AccountInv, NEW w \in Waiters, pc[w] \in Holding, DropGuard(w),
           NEW p \in {"gone", "choosing"}, pc' = [pc EXCEPT ![w] = p],
           answer' = [answer EXCEPT ![w] = "none"] \/ UNCHANGED answer,
           \A r \in Waiters \ {w} : /\ bound'[r] = bound[r] /\ escaped'[r] = escaped[r]
                                    /\ chosen'[r] = chosen[r],
           TurnTyped', BindingKept, bound'[w] \in {NoKey, binding'},
           UNCHANGED <<sent, leases, astray>>
    PROVE  AccountInv'
<1>1. /\ releasing' = releasing \cup {lease[w]} /\ lease' = [lease EXCEPT ![w] = NoLease]
      /\ lease[w] \in Leases /\ lease[w].who = w
  BY DEF DropGuard, AccountInv, LeaseTyped, OwnLease
<1>2. LeaseTyped'
  <2>1. IsFiniteSet(leases' \cup releasing')
    <3>1. leases' \cup releasing' = (leases \cup releasing) \cup {lease[w]} BY <1>1
    <3> QED BY <3>1, FS_AddElement DEF AccountInv, LeaseTyped
  <2> QED BY <1>1, <2>1 DEF AccountInv, LeaseTyped, RequestPlaces, Answers
<1>3. OthersKept(w) BY <1>1 DEF OthersKept, AccountInv, LeaseTyped
<1>4. ASSUME NEW r \in Waiters PROVE OwnLease(r)' /\ OwnTurn(r)'
  <2>1. CASE r # w BY <1>3, <2>1, OthersHold
  <2>2. CASE r = w
    <3>1. /\ pc'[w] = p /\ answer'[w] = "none" /\ lease'[w] = NoLease
          /\ \A a \in Keys : <<w, a>> \notin sent
      BY <1>1 DEF AccountInv, LeaseTyped, OwnLease, Holding
    <3>2. OwnLease(w)' BY <3>1 DEF OwnLease, Holding
    <3>3. OwnTurn(w)' BY <3>1 DEF OwnTurn, Holding
    <3> QED BY <2>2, <3>2, <3>3
  <2> QED BY <2>1, <2>2
<1>5. NoStrayLease'
  <2>1. \A l \in leases : l.who \in Waiters BY DEF AccountInv, LeaseTyped, Leases
  <2>2. \A l \in leases : l.who # w => lease'[l.who] = lease[l.who]
    BY <1>1, <2>1 DEF AccountInv, LeaseTyped
  <2> QED BY <1>1, <2>2 DEF AccountInv, NoStrayLease
<1> QED BY <1>2, <1>4, <1>5 DEF AccountInv

\* Another turn claimed it first: the lease is released.
LEMMA ClaimLostHolds ==
    ASSUME AccountInv, NEW w \in Waiters, ClaimLost(w)
    PROVE  AccountInv'
<1>1. /\ pc[w] = "claiming" /\ DropGuard(w)
      /\ bound' = [bound EXCEPT ![w] = binding]
      /\ escaped' = [escaped EXCEPT ![w] = Hopeless(binding, normal[w])]
      /\ chosen' = [chosen EXCEPT ![w] = NoKey] /\ pc' = [pc EXCEPT ![w] = "choosing"]
      /\ UNCHANGED <<normal, free, answer, sent, leases, astray, binding, moved>>
  BY DEF ClaimLost, viewVars, affinityVars
<1>2. Hopeless(binding, normal[w]) \in BOOLEAN BY DEF Hopeless
<1>3. TurnTyped' BY <1>1, <1>2 DEF AccountInv, TurnTyped
<1>4. /\ bound'[w] = binding'
      /\ \A r \in Waiters \ {w} : /\ bound'[r] = bound[r] /\ escaped'[r] = escaped[r]
                                  /\ chosen'[r] = chosen[r]
  BY <1>1 DEF AccountInv, TurnTyped
<1>5. BindingKept /\ pc[w] \in Holding BY <1>1 DEF BindingKept, Holding
<1> QED BY <1>1, <1>3, <1>4, <1>5, GuardDropped

\* A request that holds a lease ends.
LEMMA HolderGone ==
    ASSUME AccountInv, NEW w \in Waiters, pc[w] \in Holding, DropGuard(w), Gone(w),
           binding' \in Keys \cup {NoKey}, moved' \in BOOLEAN, BindingKept,
           UNCHANGED <<sent, leases, astray>>
    PROVE  AccountInv'
<1>1. /\ bound' = [bound EXCEPT ![w] = NoKey] /\ escaped' = [escaped EXCEPT ![w] = FALSE]
      /\ chosen' = [chosen EXCEPT ![w] = NoKey] /\ answer' = [answer EXCEPT ![w] = "none"]
      /\ normal' = [normal EXCEPT ![w] = {}] /\ free' = [free EXCEPT ![w] = {}]
      /\ pc' = [pc EXCEPT ![w] = "gone"]
  BY DEF Gone, Forget, ForgetView
<1>2. TurnTyped' BY <1>1 DEF AccountInv, TurnTyped
<1>3. /\ bound'[w] = NoKey
      /\ \A r \in Waiters \ {w} : /\ bound'[r] = bound[r] /\ escaped'[r] = escaped[r]
                                  /\ chosen'[r] = chosen[r]
  BY <1>1 DEF AccountInv, TurnTyped
<1> QED BY <1>1, <1>2, <1>3, GuardDropped

\* A request ends its use of the account.
LEMMA EndHolds ==
    ASSUME AccountInv, NEW w \in Waiters, End(w)
    PROVE  AccountInv'
<1>1. /\ pc[w] = "using" /\ pc[w] \in Holding /\ chosen[w] \in Keys
      /\ DropGuard(w) /\ Gone(w) /\ UNCHANGED <<sent, leases, astray>>
      /\ Rebind(w) \/ UNCHANGED <<binding, moved>>
  BY DEF AccountInv, OwnTurn, End, affinityVars, Holding
<1>2. /\ binding' \in Keys \cup {NoKey} /\ moved' \in BOOLEAN /\ BindingKept
  <2>1. (moved \/ binding \notin {NoKey, chosen[w]}) \in BOOLEAN OBVIOUS
  <2>2. moved' \in BOOLEAN BY <1>1, <2>1 DEF AccountInv, TurnTyped, Rebind
  <2>3. moved => moved' BY <1>1 DEF Rebind
  <2>4. ~moved' => binding' = binding \/ binding = NoKey BY <1>1 DEF Rebind
  <2>5. binding' \in Keys \cup {NoKey} BY <1>1 DEF AccountInv, TurnTyped, Rebind
  <2> QED BY <2>2, <2>3, <2>4, <2>5 DEF BindingKept
<1> QED BY <1>1, <1>2, HolderGone

\* A request is dropped wherever it is.
LEMMA DropHolds ==
    ASSUME AccountInv, NEW w \in Waiters, Drop(w)
    PROVE  AccountInv'
<1>1. /\ pc[w] # "gone" /\ Gone(w) /\ UNCHANGED <<sent, leases, binding, moved>>
      /\ \/ pc[w] \in Holding /\ DropGuard(w) /\ UNCHANGED astray
         \/ pc[w] = "asking" /\ LeaveBehind(w)
         \/ pc[w] \notin Holding \cup {"asking"} /\ UNCHANGED <<lease, releasing, astray>>
  BY DEF Drop, affinityVars
<1>2. BindingKept /\ binding' \in Keys \cup {NoKey} /\ moved' \in BOOLEAN
  BY <1>1 DEF BindingKept, AccountInv, TurnTyped
<1>3. CASE pc[w] \in Holding /\ DropGuard(w) /\ UNCHANGED astray
  BY <1>1, <1>2, <1>3, HolderGone
<1>4. CASE pc[w] = "asking" /\ LeaveBehind(w)
  BY <1>1, <1>4, LeaveBehindHolds DEF affinityVars
<1>5. CASE pc[w] \notin Holding \cup {"asking"} /\ UNCHANGED <<lease, releasing, astray>>
  <2>1. Forget(w) /\ pc' = [pc EXCEPT ![w] = "gone"] BY <1>1 DEF Gone
  <2>2. pc[w] \notin Holding \cup {"asking", "gone"} BY <1>1, <1>5
  <2> QED BY <1>1, <1>5, <2>1, <2>2, ForgetHolds DEF leaseVars, affinityVars
<1> QED BY <1>1, <1>3, <1>4, <1>5

-----------------------------------------------------------------------------
(* Every step.                                                             *)

\* Every step of a request.
LEMMA RequestStepHolds ==
    ASSUME AccountInv, NEW w \in Waiters, RequestStep(w)
    PROVE  AccountInv'
<1>1. CASE NoAnswer(w)
  BY <1>1, LeaveBehindHolds DEF NoAnswer
<1> QED
  BY <1>1, LoadHolds, ChooseHolds, WaitingHolds, NothingFreeHolds, LineHolds, BusyHolds,
     AcquiredHolds, ClaimHolds, ClaimLostHolds, EndHolds, DropHolds
     DEF RequestStep, SelectionStep

\* Redis executes commands, leases expire and accounts change.
LEMMA RestStepHolds ==
    ASSUME AccountInv, RedisStep \/ TimeStep \/ (\E a \in Keys : StatusChanges(a))
    PROVE  AccountInv'
<1>1. CASE \E w \in Waiters, a \in Keys : RedisAcquire(w, a)
  BY <1>1, RedisAcquireHolds
<1>2. CASE \E l \in leases \cup releasing : RedisRelease(l) \/ ReleaseFails(l)
  <2>1. PICK l \in leases \cup releasing : RedisRelease(l) \/ ReleaseFails(l) BY <1>2
  <2>2. /\ UNCHANGED <<pc, normal, free, answer, bound, escaped, chosen, lease, sent, affinityVars>>
        /\ releasing' = releasing \ {l} /\ l \in Leases
        /\ \/ leases' = leases \ {l} /\ UNCHANGED astray
           \/ UNCHANGED leases /\ astray' = astray \cup {l.who}
    BY <2>1 DEF RedisRelease, ReleaseFails, turnVars, viewVars, AccountInv, LeaseTyped
  <2>3. astray' \in SUBSET Waiters BY <2>2 DEF AccountInv, LeaseTyped, Leases
  <2>4. \A k \in releasing \ releasing' : k \notin leases' \/ k.who \in astray' BY <2>2
  <2> QED BY <2>2, <2>3, <2>4, BesideHolds
<1>3. CASE \E w \in Waiters : WaitLate(w) \/ Over(w)
  BY <1>3, LineHolds
<1>4. CASE (\E l \in leases : LeaseExpires(l)) \/ \E a \in Keys : StatusChanges(a)
  <2>1. /\ UNCHANGED <<pc, normal, free, answer, bound, escaped, chosen, lease, sent, affinityVars,
                       releasing, astray>>
        /\ leases' \in SUBSET leases
    BY <1>4 DEF LeaseExpires, StatusChanges, turnVars, viewVars, leaseVars
  <2> QED BY <2>1, BesideHolds DEF AccountInv, LeaseTyped
<1> QED BY <1>1, <1>2, <1>3, <1>4 DEF RedisStep, TimeStep

\* The invariant holds of a coordinator that was just made, and is kept.
LEMMA AccountInit == Init => AccountInv
<1> SUFFICES ASSUME Init PROVE AccountInv
  OBVIOUS
<1>1. LeaseTyped
  BY FS_EmptySet DEF Init, LeaseTyped, RequestPlaces, Answers
<1>2. TurnTyped BY DEF Init, TurnTyped
<1>3. \A w \in Waiters : OwnLease(w) /\ OwnTurn(w)
  BY DEF Init, OwnLease, OwnTurn, Holding
<1>4. NoStrayLease BY DEF Init, NoStrayLease
<1> QED BY <1>1, <1>2, <1>3, <1>4 DEF AccountInv

LEMMA AccountNext == AccountInv /\ [Next]_vars => AccountInv'
<1> SUFFICES ASSUME AccountInv, [Next]_vars PROVE AccountInv'
  OBVIOUS
<1>1. CASE UNCHANGED vars
  <2>1. UNCHANGED <<pc, normal, free, answer, bound, escaped, chosen, lease, sent, leases,
                    releasing, astray, affinityVars>>
    BY <1>1 DEF vars, turnVars, viewVars, leaseVars
  <2> QED BY <2>1, BesideHolds DEF AccountInv, LeaseTyped
<1> QED BY <1>1, RequestStepHolds, RestStepHolds DEF Next

\* select_inner, with everything it calls, keeps the invariant: what a
\* request holds and what it sent agree with its place at every await.
THEOREM AccountInductive == Spec => []AccountInv
BY AccountInit, AccountNext, PTL DEF Spec

-----------------------------------------------------------------------------
(* The limits of the accounts.                                             *)

\* The lease of a request that is not late is in the :active set of its account
\* and no release of it is on the way; no such set outgrows its limit.
Entitled(w) == lease[w] # NoLease /\ ~over[w] => lease[w] \in leases /\ lease[w] \notin releasing
RoomKept == \A a \in Keys : Cardinality(LeasesOf(a)) <= Limit[a]
LimitInv ==
    /\ over \in [Waiters -> BOOLEAN]
    /\ \A w \in Waiters : Entitled(w)
    /\ RoomKept

\* A set of leases that has lost some keeps its limit.
LEMMA FewerLeases ==
    ASSUME AccountInv, RoomKept, leases' \in SUBSET leases
    PROVE  RoomKept'
<1> SUFFICES ASSUME NEW a \in Keys PROVE Cardinality(LeasesOf(a)') <= Limit[a]
  BY DEF RoomKept
<1>1. LeasesOf(a)' \in SUBSET LeasesOf(a) BY DEF LeasesOf
<1>2. IsFiniteSet(LeasesOf(a))
  BY FS_Subset DEF LeasesOf, AccountInv, LeaseTyped
<1>3. /\ Cardinality(LeasesOf(a)') \in Nat /\ Cardinality(LeasesOf(a)) \in Nat
      /\ Cardinality(LeasesOf(a)') <= Cardinality(LeasesOf(a))
  BY <1>1, <1>2, FS_Subset, FS_CardinalityType
<1>4. Cardinality(LeasesOf(a)) <= Limit[a] /\ Limit[a] \in Nat
  BY AccountAssumption DEF RoomKept
<1> QED BY <1>3, <1>4

\* A step of a request takes no lease from another one: it gives its own back,
\* leaves it behind, or keeps it.
LEMMA OwnLeaseOnly ==
    ASSUME AccountInv, NEW w \in Waiters, RequestStep(w)
    PROVE  /\ UNCHANGED <<leases, over>>
           /\ \/ UNCHANGED <<lease, releasing>>
              \/ /\ lease' = [lease EXCEPT ![w] = NoLease]
                 /\ releasing' = releasing \cup {lease[w]} \/ UNCHANGED releasing
<1>1. CASE \/ Load(w) \/ Choose(w) \/ ChooseTooLate(w) \/ NothingFree(w) \/ NothingEligible(w)
           \/ ChangeLine(w) \/ Wait(w) \/ Refused(w) \/ WaitTimedOut(w) \/ QueueStep(w)
           \/ Busy(w) \/ Acquired(w) \/ Claim(w)
  BY <1>1 DEF Load, Choose, ChooseTooLate, NothingFree, NothingEligible, ChangeLine, Wait, Refused,
     WaitTimedOut, QueueStep, Busy, Acquired, Claim, Return, leaseVars
<1>2. CASE NoAnswer(w)
  BY <1>2 DEF NoAnswer, LeaveBehind
<1>3. CASE ClaimLost(w) \/ End(w)
  BY <1>3 DEF ClaimLost, End, DropGuard
<1>4. CASE Drop(w)
  BY <1>4 DEF Drop, LeaveBehind, DropGuard
<1> QED BY <1>1, <1>2, <1>3, <1>4 DEF RequestStep, SelectionStep

\* A request with its lease is the one the lease names.
LEMMA HolderNamed ==
    ASSUME AccountInv, NEW r \in Waiters, lease[r] # NoLease
    PROVE  lease[r] \in Leases /\ lease[r].who = r
BY DEF AccountInv, LeaseTyped, OwnLease

\* Whatever a request does, the leases of the others stay.
LEMMA RequestStepEntitles ==
    ASSUME AccountInv, LimitInv, NEW w \in Waiters, RequestStep(w)
    PROVE  LimitInv'
<1>1. /\ UNCHANGED <<leases, over>>
      /\ \/ UNCHANGED <<lease, releasing>>
         \/ /\ lease' = [lease EXCEPT ![w] = NoLease]
            /\ releasing' = releasing \cup {lease[w]} \/ UNCHANGED releasing
  BY OwnLeaseOnly
<1>2. ASSUME NEW r \in Waiters PROVE Entitled(r)'
  <2>1. Entitled(r) BY DEF LimitInv
  <2>2. CASE UNCHANGED <<lease, releasing>>
    BY <1>1, <2>1, <2>2 DEF Entitled
  <2>3. CASE lease' = [lease EXCEPT ![w] = NoLease] /\ r = w
    BY <2>3 DEF Entitled, AccountInv, LeaseTyped
  <2>4. CASE /\ lease' = [lease EXCEPT ![w] = NoLease] /\ r # w
             /\ releasing' = releasing \cup {lease[w]} \/ UNCHANGED releasing
    <3>1. lease'[r] = lease[r] BY <2>4 DEF AccountInv, LeaseTyped
    <3>2. lease[r] # NoLease => lease[r] # lease[w]
      BY <2>4, HolderNamed
    <3> QED BY <1>1, <2>1, <2>4, <3>1, <3>2 DEF Entitled
  <2> QED BY <1>1, <2>2, <2>3, <2>4
<1>3. RoomKept' BY <1>1 DEF LimitInv, RoomKept, LeasesOf
<1> QED BY <1>1, <1>2, <1>3 DEF LimitInv

\* ACQUIRE_SCRIPT adds a member only while there is room.
LEMMA AcquireEntitles ==
    ASSUME AccountInv, LimitInv, NEW w \in Waiters, NEW a \in Keys, RedisAcquire(w, a)
    PROVE  LimitInv'
<1> DEFINE m == Member(w, a)
<1>1. /\ m \in Leases /\ m.who = w /\ m.account = a /\ m \notin leases \cup releasing
      /\ m # NoLease
  BY MemberIsNew, NoLeaseFacts
<1>2. /\ UNCHANGED <<over, releasing>>
      /\ \/ HasRoom(a) /\ leases' = leases \cup {m}
         \/ UNCHANGED leases
      /\ \/ lease' = [lease EXCEPT ![w] = m] /\ leases' = leases \cup {m}
         \/ UNCHANGED lease
  BY DEF RedisAcquire
<1> HIDE DEF m
<1>3. ASSUME NEW r \in Waiters PROVE Entitled(r)'
  <2>1. Entitled(r) /\ leases \subseteq leases' BY <1>2 DEF LimitInv
  <2>2. CASE UNCHANGED lease
    BY <1>2, <2>1, <2>2 DEF Entitled
  <2>3. CASE lease' = [lease EXCEPT ![w] = m] /\ leases' = leases \cup {m}
    <3>1. r = w => lease'[r] = m BY <2>3 DEF AccountInv, LeaseTyped
    <3>2. r # w => lease'[r] = lease[r] BY <2>3 DEF AccountInv, LeaseTyped
    <3> QED BY <1>1, <1>2, <2>1, <2>3, <3>1, <3>2 DEF Entitled
  <2> QED BY <1>2, <2>2, <2>3
<1>4. ASSUME NEW b \in Keys PROVE Cardinality(LeasesOf(b)') <= Limit[b]
  <2>1. Cardinality(LeasesOf(b)) <= Limit[b] /\ Limit[b] \in Nat
    BY AccountAssumption DEF LimitInv, RoomKept
  <2>2. CASE HasRoom(a) /\ leases' = leases \cup {m} /\ b = a
    <3>1. LeasesOf(b)' = LeasesOf(b) \cup {m} /\ m \notin LeasesOf(b)
      BY <1>1, <2>2 DEF LeasesOf
    <3>2. IsFiniteSet(LeasesOf(b))
      BY FS_Subset DEF LeasesOf, AccountInv, LeaseTyped
    <3>3. Cardinality(LeasesOf(b)') = Cardinality(LeasesOf(b)) + 1
      BY <3>1, <3>2, FS_AddElement
    <3>4. Cardinality(LeasesOf(b)) < Limit[b] /\ Cardinality(LeasesOf(b)) \in Nat
      BY <2>2, <3>2, FS_CardinalityType DEF HasRoom
    <3> QED BY <2>1, <3>3, <3>4
  <2>3. CASE UNCHANGED leases \/ (leases' = leases \cup {m} /\ b # a)
    <3>1. LeasesOf(b)' = LeasesOf(b) BY <1>1, <2>3 DEF LeasesOf
    <3> QED BY <2>1, <3>1
  <2> QED BY <1>2, <2>2, <2>3
<1> QED BY <1>2, <1>3, <1>4 DEF LimitInv, RoomKept

\* A lease goes by its release, which its request no longer needs, or by the
\* time of its request.
LEMMA RestEntitles ==
    ASSUME AccountInv, LimitInv, RedisStep \/ TimeStep \/ (\E a \in Keys : StatusChanges(a))
    PROVE  LimitInv'
<1>1. CASE \E w \in Waiters, a \in Keys : RedisAcquire(w, a)
  BY <1>1, AcquireEntitles
<1>2. CASE \E l \in leases \cup releasing : RedisRelease(l) \/ ReleaseFails(l)
  <2>1. PICK l \in releasing : /\ UNCHANGED <<lease, over>> /\ releasing' = releasing \ {l}
                               /\ leases' = leases \ {l} \/ UNCHANGED leases
    BY <1>2 DEF RedisRelease, ReleaseFails
  <2>2. RoomKept' BY <2>1, FewerLeases DEF LimitInv
  <2>3. \A r \in Waiters : Entitled(r)' BY <2>1 DEF LimitInv, Entitled
  <2> QED BY <2>1, <2>2, <2>3 DEF LimitInv
<1>3. CASE \E l \in leases : LeaseExpires(l)
  <2>1. PICK l \in leases : /\ UNCHANGED <<lease, releasing, over>> /\ over[l.who]
                            /\ leases' = leases \ {l}
    BY <1>3 DEF LeaseExpires
  <2>2. RoomKept' BY <2>1, FewerLeases DEF LimitInv
  <2>3. \A r \in Waiters : Entitled(r)' BY <2>1, HolderNamed DEF LimitInv, Entitled
  <2> QED BY <2>1, <2>2, <2>3 DEF LimitInv
<1>4. CASE \E w \in Waiters : Over(w)
  <2>1. PICK w \in Waiters : /\ UNCHANGED <<lease, leases, releasing>>
                             /\ over' = [over EXCEPT ![w] = TRUE]
    BY <1>4 DEF Over, leaseVars
  <2>2. over' \in [Waiters -> BOOLEAN] BY <2>1 DEF LimitInv
  <2>3. \A r \in Waiters : over[r] => over'[r] BY <2>1 DEF LimitInv
  <2>4. \A r \in Waiters : Entitled(r)' BY <2>1, <2>3 DEF LimitInv, Entitled
  <2> QED BY <2>1, <2>2, <2>4 DEF LimitInv, RoomKept, LeasesOf
<1>5. CASE (\E w \in Waiters : WaitLate(w)) \/ \E a \in Keys : StatusChanges(a)
  <2>1. UNCHANGED <<lease, leases, releasing, over>>
    BY <1>5 DEF WaitLate, StatusChanges, leaseVars
  <2> QED BY <2>1 DEF LimitInv, Entitled, RoomKept, LeasesOf
<1> QED BY <1>1, <1>2, <1>3, <1>4, <1>5 DEF RedisStep, TimeStep

\* The limits are kept by every step, and those with a lease before their
\* deadline are no more than the leases of their account.
LEMMA LimitNext == AccountInv /\ LimitInv /\ [Next]_vars => LimitInv'
<1> SUFFICES ASSUME AccountInv, LimitInv, [Next]_vars PROVE LimitInv'
  OBVIOUS
<1>1. CASE UNCHANGED vars
  BY <1>1 DEF vars, leaseVars, LimitInv, Entitled, RoomKept, LeasesOf
<1> QED BY <1>1, RequestStepEntitles, RestEntitles DEF Next

LEMMA LimitInit == Init => LimitInv
<1> SUFFICES ASSUME Init PROVE LimitInv
  OBVIOUS
<1>1. \A a \in Keys : LeasesOf(a) = {} BY DEF Init, LeasesOf
<1>2. RoomKept BY <1>1, FS_EmptySet, AccountAssumption DEF RoomKept
<1> QED BY <1>2 DEF Init, LimitInv, Entitled

LEMMA UsersCounted ==
    ASSUME AccountInv, LimitInv, NEW a \in Keys
    PROVE  Cardinality({w \in Waiters : lease[w] # NoLease /\ lease[w].account = a /\ ~over[w]})
             <= Limit[a]
<1> DEFINE users == {w \in Waiters : lease[w] # NoLease /\ lease[w].account = a /\ ~over[w]}
           f == [w \in users |-> lease[w]]
<1>1. \A w \in users : lease[w] \in LeasesOf(a)
  BY DEF LimitInv, Entitled, LeasesOf
<1>2. \A v, w \in users : lease[v] = lease[w] => v = w
  BY HolderNamed
<1>3. f \in Injection(users, LeasesOf(a))
  <2>1. f \in [users -> LeasesOf(a)] BY <1>1
  <2>2. \A v, w \in users : f[v] = f[w] => v = w BY <1>2
  <2> HIDE DEF f, users
  <2> QED BY <2>1, <2>2, Fun_IsInj
<1>4. IsFiniteSet(LeasesOf(a))
  BY FS_Subset DEF LeasesOf, AccountInv, LeaseTyped
<1> HIDE DEF f, users
<1>5. IsFiniteSet(users) /\ Cardinality(users) <= Cardinality(LeasesOf(a))
  BY <1>3, <1>4, FS_Injection
<1>6. /\ Cardinality(users) \in Nat /\ Cardinality(LeasesOf(a)) \in Nat
      /\ Cardinality(LeasesOf(a)) <= Limit[a] /\ Limit[a] \in Nat
  BY <1>4, <1>5, FS_CardinalityType, AccountAssumption DEF LimitInv, RoomKept
<1>7. Cardinality(users) <= Limit[a] BY <1>5, <1>6
<1> QED BY <1>7 DEF users

\* Whatever becomes of a request, a lease in an :active set is held, being
\* released, or was left in doubt by a lost answer, a failed release or a drop
\* in the middle of the acquire command; and no account serves more requests
\* before their deadline than its limit.
THEOREM LeasesMatch == Spec => []LeasesMatchUse
<1>1. Spec => []LimitInv
  BY LimitInit, LimitNext, AccountInductive, PTL DEF Spec
<1>2. AccountInv /\ LimitInv => LeasesMatchUse
  BY UsersCounted DEF AccountInv, LeasesMatchUse
<1> QED BY <1>1, <1>2, AccountInductive, PTL

\* claim_initial_session_affinity: the parallel first turns of a conversation
\* use one account, until a turn that had to go elsewhere moves the binding.
THEOREM FirstTurnsMeet == Spec => []FirstTurnsShareAccount
<1>1. AccountInv => FirstTurnsShareAccount
  BY AccountAssumption DEF AccountInv, OwnTurn, FirstTurnsShareAccount
<1> QED BY <1>1, AccountInductive, PTL

-----------------------------------------------------------------------------
(* The waiting lines.                                                      *)

\* A request is in the middle of a wait only where it waits, and it waits for
\* accounts that were normal when it looked.
Placed(w) ==
    /\ pc[w] # "waiting" => place[w] \in {"away", "resting", "waking"}
    /\ pc[w] = "queueing" => normal[w] # {}
    /\ place[w] \notin {"away", "waking"} => HasTicket(w)

LineInv ==
    /\ key \in [Waiters -> Keys \cup {NoKey}]
    /\ place \in [Waiters -> Places]
    /\ late \in [Waiters -> BOOLEAN]
    /\ \A w \in Waiters : Placed(w)

LineStep(w) == TaskStep(w) \/ UserStep(w)

\* The ticket is dropped outside of a poll.
LEMMA TicketDropped ==
    ASSUME NEW w \in Waiters, DropTicket(w), place[w] # "checking"
    PROVE  LineStep(w) \/ UNCHANGED queueVars
BY DEF DropTicket, LineStep, UserStep

\* What a request does to the lines is what their users do.
LEMMA StepInLine ==
    ASSUME AccountInv, LineInv, NEW w \in Waiters, RequestStep(w) \/ WaitLate(w) \/ Over(w)
    PROVE  LineStep(w) \/ UNCHANGED queueVars
<1>1. /\ Placed(w) /\ normal[w] \in SUBSET Keys /\ late \in [Waiters -> BOOLEAN]
      /\ pc[w] # "waiting" => place[w] # "checking"
  BY DEF LineInv, Placed, AccountInv, TurnTyped
<1>2. CASE \/ Load(w) \/ Choose(w) \/ NothingFree(w) \/ Busy(w) \/ ClaimLost(w) \/ End(w)
  BY <1>2 DEF Load, Choose, NothingFree, Busy, ClaimLost, End
<1>3. CASE \/ ChooseTooLate(w) \/ NothingEligible(w) \/ NoAnswer(w) \/ Drop(w)
  <2>1. DropTicket(w) /\ place[w] # "checking"
    BY <1>1, <1>3 DEF ChooseTooLate, NothingEligible, NoAnswer, Drop
  <2> QED BY <2>1, TicketDropped
<1>4. CASE ChangeLine(w)
  BY <1>1, <1>4 DEF ChangeLine, LineStep, UserStep
<1>5. CASE Wait(w) \/ Refused(w)
  <2>1. /\ normal[w] \in (SUBSET Keys) \ {{}}
        /\ \/ Enqueue(w, normal[w]) \/ WaitAgain(w, normal[w]) \/ EnqueueRefused(w, normal[w])
    BY <1>1, <1>5 DEF Wait, Refused, Placed
  <2> QED BY <2>1 DEF LineStep, UserStep
<1>6. CASE WaitTimedOut(w) \/ QueueStep(w)
  BY <1>6 DEF WaitTimedOut, QueueStep, LineStep, TaskStep
<1>7. CASE Acquired(w)
  <2>1. pc[w] = "asking" /\ (DropTicket(w) \/ UNCHANGED queueVars)
    BY <1>7 DEF Acquired, Return
  <2> QED BY <1>1, <2>1, TicketDropped
<1>8. CASE Claim(w)
  <2>1. pc[w] = "claiming" /\ DropTicket(w) BY <1>8 DEF Claim, Return
  <2> QED BY <1>1, <2>1, TicketDropped
<1>9. CASE WaitLate(w)
  BY <1>9 DEF WaitLate, LineStep, UserStep
<1>10. CASE Over(w)
  <2>1. /\ late' = [late EXCEPT ![w] = TRUE]
        /\ UNCHANGED <<key, number, drawn, total, place, notified, target>>
    BY <1>10 DEF Over
  <2>2. CASE late[w]
    <3>1. late' = late BY <1>1, <2>1, <2>2
    <3> QED BY <2>1, <3>1 DEF queueVars
  <2>3. CASE ~late[w]
    BY <2>1, <2>3 DEF LineStep, UserStep, Late
  <2> QED BY <2>2, <2>3
<1> QED
  BY <1>2, <1>3, <1>4, <1>5, <1>6, <1>7, <1>8, <1>9, <1>10 DEF RequestStep, SelectionStep

\* Where a step of the line takes its waiter.
LEMMA LinePlaces ==
    ASSUME LineInv, NEW w \in Waiters, LineStep(w)
    PROVE  /\ key' \in [Waiters -> Keys \cup {NoKey}]
           /\ place' \in [Waiters -> Places] /\ late' \in [Waiters -> BOOLEAN]
           /\ \A v \in Waiters \ {w} : place'[v] = place[v] /\ key'[v] = key[v]
           /\ place'[w] \notin {"away", "waking"} => HasTicket(w)'
<1>1. CASE Leave(w)
  BY <1>1 DEF Leave, LineInv, Places
<1>2. CASE \E ks \in (SUBSET Keys) \ {{}} : Enqueue(w, ks)
  <2>1. PICK ks \in SUBSET Keys : Enqueue(w, ks) BY <1>2
  <2>2. PICK k \in ks : key' = [key EXCEPT ![w] = k] BY <2>1 DEF Enqueue
  <2>3. k \in Keys /\ k # NoKey BY QueueAssumption
  <2> QED BY <2>1, <2>2, <2>3 DEF Enqueue, LineInv, Places, HasTicket
<1>3. CASE \E ks \in (SUBSET Keys) \ {{}} : EnqueueRefused(w, ks) \/ WaitAgain(w, ks)
  BY <1>3, QueueAssumption
     DEF EnqueueRefused, WaitAgain, queueVars, LineInv, Placed, Places, HasTicket
<1>4. CASE WakeUp(w) \/ Register(w) \/ Check(w) \/ PollAgain(w) \/ WakeNext(w) \/ Late(w)
  BY <1>4 DEF WakeUp, Register, Check, PollAgain, WakeNext, Late, LineInv, Placed, Places,
              HasTicket
<1> QED BY <1>1, <1>2, <1>3, <1>4 DEF LineStep, TaskStep, UserStep, TimeOut

\* Whoever drops a ticket has none, and waits no more.
LEMMA TicketGone ==
    ASSUME LineInv, NEW w \in Waiters, DropTicket(w) \/ Leave(w)
    PROVE  place'[w] \in {"away", "waking"}
<1>1. CASE Leave(w) BY <1>1 DEF LineInv, Leave
<1>2. CASE ~HasTicket(w) /\ UNCHANGED queueVars
  BY <1>2 DEF LineInv, Placed, queueVars
<1> QED BY <1>1, <1>2 DEF DropTicket

\* Every step keeps the places of the waiting.
LEMMA PlacedHolds ==
    ASSUME AccountInv, LineInv, NEW w \in Waiters, RequestStep(w) \/ WaitLate(w) \/ Over(w)
    PROVE  LineInv'
<1>1. /\ key' \in [Waiters -> Keys \cup {NoKey}]
      /\ place' \in [Waiters -> Places] /\ late' \in [Waiters -> BOOLEAN]
      /\ \A v \in Waiters \ {w} : place'[v] = place[v] /\ key'[v] = key[v]
      /\ place'[w] \notin {"away", "waking"} => HasTicket(w)'
  <2>1. CASE LineStep(w) BY <2>1, LinePlaces
  <2>2. CASE UNCHANGED queueVars BY <2>2 DEF LineInv, Placed, queueVars, HasTicket
  <2> QED BY <2>1, <2>2, StepInLine
<1>2. pc \in [Waiters -> RequestPlaces] /\ normal \in [Waiters -> SUBSET Keys] /\ Placed(w)
  BY DEF AccountInv, LeaseTyped, TurnTyped, LineInv
<1>3. ASSUME NEW v \in Waiters, v # w PROVE pc'[v] = pc[v] /\ normal'[v] = normal[v]
  <2> USE <1>2, <1>3 DEF Gone, Forget, ForgetView, turnVars, viewVars
  <2>1. CASE \/ Load(w) \/ Choose(w) \/ NothingFree(w) \/ Busy(w) \/ ClaimLost(w) \/ End(w)
    BY <2>1 DEF Load, Choose, NothingFree, Busy, ClaimLost, End
  <2>2. CASE \/ ChooseTooLate(w) \/ NothingEligible(w) \/ NoAnswer(w) \/ Drop(w)
    BY <2>2 DEF ChooseTooLate, NothingEligible, NoAnswer, Drop
  <2>3. CASE \/ ChangeLine(w) \/ Wait(w) \/ Refused(w) \/ WaitTimedOut(w) \/ QueueStep(w)
    BY <2>3 DEF ChangeLine, Wait, Refused, WaitTimedOut, QueueStep
  <2>4. CASE Acquired(w) \/ Claim(w) \/ WaitLate(w) \/ Over(w)
    BY <2>4 DEF Acquired, Claim, Return, WaitLate, Over
  <2> QED BY <2>1, <2>2, <2>3, <2>4 DEF RequestStep, SelectionStep
<1>4. /\ pc'[w] # "waiting" => place'[w] \in {"away", "resting", "waking"}
      /\ pc'[w] = "queueing" => normal'[w] # {}
  <2>1. CASE \/ Load(w) \/ Choose(w) \/ NothingFree(w) \/ Busy(w) \/ ClaimLost(w) \/ End(w)
    <3>1. UNCHANGED place /\ (pc[w] # "waiting" \/ place[w] = "resting")
      BY <2>1 DEF Load, Choose, NothingFree, Busy, ClaimLost, End, queueVars
    <3>2. pc'[w] = "queueing" => NothingFree(w)
      BY <1>2, <2>1 DEF Load, Choose, Busy, ClaimLost, End, Gone
    <3>3. NothingFree(w) => normal'[w] # {} BY DEF NothingFree, turnVars, viewVars
    <3> QED BY <1>2, <3>1, <3>2, <3>3 DEF Placed
  <2>2. CASE \/ ChooseTooLate(w) \/ NothingEligible(w) \/ NoAnswer(w) \/ Drop(w)
    <3>1. DropTicket(w) /\ pc' = [pc EXCEPT ![w] = "gone"]
      BY <2>2 DEF ChooseTooLate, NothingEligible, NoAnswer, Drop, Gone
    <3> QED BY <1>2, <3>1, TicketGone
  <2>3. CASE ChangeLine(w) \/ WaitTimedOut(w)
    <3>1. Leave(w) /\ (pc'[w] # "queueing" \/ (UNCHANGED <<pc, normal>>))
      BY <1>2, <2>3 DEF ChangeLine, WaitTimedOut, TimeOut, Gone, turnVars, viewVars
    <3> QED BY <1>2, <3>1, TicketGone DEF Placed
  <2>4. CASE Wait(w)
    <3>1. pc'[w] = "waiting" BY <1>2, <2>4 DEF Wait
    <3> QED BY <3>1
  <2>5. CASE Refused(w)
    <3>1. pc'[w] = "gone" /\ pc[w] = "queueing" /\ UNCHANGED place
      BY <1>2, <2>5 DEF Refused, Gone, EnqueueRefused, queueVars
    <3> QED BY <1>2, <3>1 DEF Placed
  <2>6. CASE QueueStep(w)
    <3>1. UNCHANGED <<pc, normal>> /\ (place[w] \in {"away", "resting", "waking"} => WakeNext(w))
      BY <2>6 DEF QueueStep, turnVars, viewVars, WakeUp, Register, Check, PollAgain
    <3>2. WakeNext(w) => place'[w] = "away" BY DEF WakeNext, LineInv
    <3> QED BY <1>2, <3>1, <3>2 DEF Placed
  <2>7. CASE Acquired(w) \/ Claim(w)
    <3>1. /\ pc[w] \in {"asking", "claiming"} /\ pc'[w] \in {"claiming", "using"}
          /\ DropTicket(w) \/ UNCHANGED place
      BY <1>2, <2>7 DEF Acquired, Claim, Return, queueVars
    <3> QED BY <1>2, <3>1, TicketGone DEF Placed
  <2>8. CASE WaitLate(w) \/ Over(w)
    <3>1. UNCHANGED <<pc, normal, place>>
      BY <2>8 DEF WaitLate, Over, Late, turnVars, viewVars
    <3> QED BY <1>2, <3>1 DEF Placed
  <2> QED
    BY <2>1, <2>2, <2>3, <2>4, <2>5, <2>6, <2>7, <2>8 DEF RequestStep, SelectionStep
<1>5. ASSUME NEW v \in Waiters PROVE Placed(v)'
  <2>1. CASE v = w BY <1>1, <1>4, <2>1 DEF Placed
  <2>2. CASE v # w BY <1>1, <1>3, <2>2 DEF Placed, LineInv, HasTicket
  <2> QED BY <2>1, <2>2
<1> QED BY <1>1, <1>5 DEF LineInv

\* Redis, the leases and the accounts leave the lines alone.
LEMMA OtherSteps ==
    ASSUME [Next]_vars, ~\E w \in Waiters : RequestStep(w) \/ WaitLate(w) \/ Over(w)
    PROVE  UNCHANGED <<queueVars, pc, normal>>
BY DEF Next, RedisStep, TimeStep, RedisAcquire, RedisRelease, ReleaseFails, LeaseExpires,
       StatusChanges, vars, turnVars, viewVars

\* The invariant of the lines holds at first, and is kept.
LEMMA LineInit == Init => LineInv
BY DEF Init, QueueInit, LineInv, Placed, Places

LEMMA LineNext == AccountInv /\ LineInv /\ [Next]_vars => LineInv'
<1> SUFFICES ASSUME AccountInv, LineInv, [Next]_vars PROVE LineInv'
  OBVIOUS
<1>1. CASE \E w \in Waiters : RequestStep(w) \/ WaitLate(w) \/ Over(w)
  BY <1>1, PlacedHolds
<1>2. CASE ~\E w \in Waiters : RequestStep(w) \/ WaitLate(w) \/ Over(w)
  <2>1. UNCHANGED <<queueVars, pc, normal>> BY <1>2, OtherSteps
  <2> QED BY <2>1 DEF LineInv, Placed, HasTicket, queueVars
<1> QED BY <1>1, <1>2

\* A step of the system is a step of the lines, or leaves them alone.
LEMMA LineStepped == AccountInv /\ LineInv /\ [Next]_vars => [QueueNext]_queueVars
<1> SUFFICES ASSUME AccountInv, LineInv, [Next]_vars PROVE [QueueNext]_queueVars
  OBVIOUS
<1>1. CASE \E w \in Waiters : RequestStep(w) \/ WaitLate(w) \/ Over(w)
  BY <1>1, StepInLine DEF LineStep, QueueNext
<1>2. CASE ~\E w \in Waiters : RequestStep(w) \/ WaitLate(w) \/ Over(w)
  BY <1>2, OtherSteps
<1> QED BY <1>1, <1>2

\* The lines are empty at first.
LEMMA LinesStart == Init => QueueInit
BY DEF Init

\* select_inner uses the lines of the accounts as WaitQueue says their users do,
\* so that what holds of the lines, their bounds and their wake-ups, holds here.
THEOREM AccountLinesUsed == Spec => QueueSpec
<1>1. Spec => []LineInv
  BY LineInit, LineNext, AccountInductive, PTL DEF Spec
<1> QED
  BY <1>1, LinesStart, LineStepped, AccountInductive, PTL DEF Spec, QueueSpec

-----------------------------------------------------------------------------
(* The types of the whole state.                                           *)

\* Of the lines: total, which every ticket that leaves takes one from, is the
\* number of tickets there are; and who is out of the lines has no ticket.
LinesTyped ==
    /\ \A w \in Waiters : place[w] \in {"away", "waking"} => ~HasTicket(w)
    /\ key \in [Waiters -> Keys \cup {NoKey}]
    /\ number \in [Waiters -> Nat]
    /\ drawn \in Nat
    /\ total = Cardinality({w \in Waiters : HasTicket(w)})
    /\ place \in [Waiters -> Places]
    /\ notified \in [Waiters -> BOOLEAN]
    /\ target \in [Waiters -> Nat]
    /\ late \in [Waiters -> BOOLEAN]

\* The counter follows a ticket that is drawn, or dropped.
LEMMA TicketsCounted ==
    ASSUME LinesTyped, NEW w \in Waiters, NEW k \in Keys \cup {NoKey},
           key' = [key EXCEPT ![w] = k]
    PROVE  LET H == {v \in Waiters : HasTicket(v)}
           IN  /\ Cardinality(H) \in Nat
               /\ k # NoKey /\ ~HasTicket(w) => Cardinality(H') = Cardinality(H) + 1
               /\ k = NoKey /\ HasTicket(w) => Cardinality(H') = Cardinality(H) - 1
<1> DEFINE H == {v \in Waiters : HasTicket(v)}
<1>1. IsFiniteSet(H) /\ Cardinality(H) \in Nat
  BY QueueAssumption, FS_Subset, FS_CardinalityType
<1>2. ASSUME k # NoKey, ~HasTicket(w) PROVE Cardinality(H') = Cardinality(H) + 1
  <2>1. H' = H \cup {w} /\ w \notin H BY <1>2 DEF HasTicket, LinesTyped
  <2> HIDE DEF H
  <2> QED BY <1>1, <2>1, FS_AddElement
<1>3. ASSUME k = NoKey, HasTicket(w) PROVE Cardinality(H') = Cardinality(H) - 1
  <2>1. H' = H \ {w} /\ w \in H BY <1>3 DEF HasTicket, LinesTyped
  <2> HIDE DEF H
  <2> QED BY <1>1, <2>1, FS_RemoveElement
<1> QED BY <1>1, <1>2, <1>3

\* Nobody draws a ticket who has one, and every other step leaves them alone.
LEMMA LinesTypedHolds ==
    ASSUME LinesTyped, NEW w \in Waiters, LineStep(w)
    PROVE  LinesTyped'
<1>1. CASE Leave(w)
  <2>1. key' = [key EXCEPT ![w] = NoKey] /\ HasTicket(w) /\ total' = total - 1
    BY <1>1 DEF Leave
  <2>2. total' = Cardinality({v \in Waiters : HasTicket(v)}')
    BY <2>1, TicketsCounted DEF LinesTyped
  <2>3. target' \in [Waiters -> Nat] BY <1>1 DEF Leave, LinesTyped, Line
  <2> QED BY ZenonT(60), <1>1, <2>1, <2>2, <2>3 DEF Leave, LinesTyped, Places, HasTicket
<1>2. CASE \E ks \in (SUBSET Keys) \ {{}} : Enqueue(w, ks)
  <2>1. PICK ks \in SUBSET Keys : Enqueue(w, ks) BY <1>2
  <2>2. PICK k \in ks : key' = [key EXCEPT ![w] = k] BY <2>1 DEF Enqueue
  <2>3. k \in Keys /\ k # NoKey /\ ~HasTicket(w)
    BY <2>1, QueueAssumption DEF Enqueue, LinesTyped
  <2>4. total' = Cardinality({v \in Waiters : HasTicket(v)}')
    BY <2>1, <2>2, <2>3, TicketsCounted DEF LinesTyped, Enqueue
  <2> QED BY <2>1, <2>2, <2>3, <2>4 DEF Enqueue, LinesTyped, Places, HasTicket
<1>3. ASSUME \/ WakeUp(w) \/ Register(w) \/ Check(w) \/ PollAgain(w) \/ WakeNext(w) \/ Late(w)
             \/ \E ks \in (SUBSET Keys) \ {{}} : EnqueueRefused(w, ks) \/ WaitAgain(w, ks)
      PROVE  LinesTyped'
  <2>1. UNCHANGED <<key, total>>
    BY <1>3 DEF WakeUp, Register, Check, PollAgain, WakeNext, Late, EnqueueRefused, WaitAgain,
                queueVars
  <2>2. total' = Cardinality({v \in Waiters : HasTicket(v)}')
    BY <2>1 DEF LinesTyped, HasTicket
  <2>3. CASE WakeUp(w) \/ Register(w) \/ Check(w) \/ PollAgain(w)
    BY <2>1, <2>2, <2>3
       DEF WakeUp, Register, Check, PollAgain, LinesTyped, Places, HasTicket
  <2>4. CASE WakeNext(w) \/ Late(w)
    BY <2>1, <2>2, <2>4 DEF WakeNext, Late, LinesTyped, Places, HasTicket
  <2>5. CASE \E ks \in (SUBSET Keys) \ {{}} : EnqueueRefused(w, ks) \/ WaitAgain(w, ks)
    <3>1. UNCHANGED <<number, drawn, notified, target, late>> /\ place' \in [Waiters -> Places]
      BY <2>5 DEF EnqueueRefused, WaitAgain, queueVars, LinesTyped, Places
    <3>2. \A v \in Waiters : place'[v] \in {"away", "waking"} => place[v] = place'[v]
      BY <2>5 DEF EnqueueRefused, WaitAgain, queueVars, LinesTyped
    <3> QED BY <2>1, <2>2, <3>1, <3>2 DEF LinesTyped, HasTicket
  <2> QED BY <1>3, <2>3, <2>4, <2>5
<1> QED BY <1>1, <1>2, <1>3 DEF LineStep, TaskStep, UserStep, TimeOut

\* Of the accounts, and of what a turn keeps of them.
StatusTyped ==
    /\ available \in SUBSET Keys
    /\ changes \in 0..MaxChanges
    /\ busy \in [Waiters -> SUBSET Keys]

LEMMA StatusTypedHolds == AccountInv /\ StatusTyped /\ [Next]_vars => StatusTyped'
<1> SUFFICES ASSUME AccountInv, StatusTyped, [Next]_vars PROVE StatusTyped'
  OBVIOUS
<1>1. ASSUME NEW w \in Waiters, RequestStep(w) PROVE StatusTyped'
  <2> USE DEF StatusTyped, accountVars, turnVars, viewVars, Gone, Forget, ForgetView
  <2>1. CASE \/ Load(w) \/ Choose(w) \/ NothingFree(w) \/ ClaimLost(w)
    BY <2>1 DEF Load, Choose, NothingFree, ClaimLost
  <2>2. CASE \/ ChooseTooLate(w) \/ NothingEligible(w) \/ NoAnswer(w) \/ Drop(w) \/ End(w)
    BY <2>2 DEF ChooseTooLate, NothingEligible, NoAnswer, Drop, End
  <2>3. CASE \/ ChangeLine(w) \/ Wait(w) \/ Refused(w) \/ WaitTimedOut(w) \/ QueueStep(w)
    BY <2>3 DEF ChangeLine, Wait, Refused, WaitTimedOut, QueueStep
  <2>4. CASE Acquired(w) \/ Claim(w)
    BY <2>4 DEF Acquired, Claim, Return
  <2>5. CASE Busy(w)
    <3>1. chosen[w] \in Keys BY <2>5 DEF Busy, AccountInv, OwnTurn
    <3> QED BY <2>5, <3>1 DEF Busy
  <2> QED BY <1>1, <2>1, <2>2, <2>3, <2>4, <2>5 DEF RequestStep, SelectionStep
<1>2. CASE RedisStep \/ TimeStep
  BY <1>2 DEF RedisStep, TimeStep, RedisAcquire, RedisRelease, ReleaseFails, WaitLate, Over,
              LeaseExpires, StatusTyped, accountVars, turnVars, viewVars
<1>3. ASSUME NEW a \in Keys, StatusChanges(a) PROVE StatusTyped'
  BY <1>3, AccountAssumption DEF StatusChanges, StatusTyped, turnVars, viewVars
<1>4. CASE UNCHANGED vars
  BY <1>4 DEF vars, StatusTyped, accountVars, turnVars, viewVars
<1> QED BY <1>1, <1>2, <1>3, <1>4 DEF Next

\* Every step of the system keeps the types of the lines.
LEMMA LinesTypedNext == AccountInv /\ LineInv /\ LinesTyped /\ [Next]_vars => LinesTyped'
<1> SUFFICES ASSUME AccountInv, LineInv, LinesTyped, [Next]_vars PROVE LinesTyped'
  OBVIOUS
<1>1. ASSUME UNCHANGED queueVars PROVE LinesTyped'
  BY <1>1 DEF queueVars, LinesTyped, HasTicket
<1>2. CASE \E w \in Waiters : RequestStep(w) \/ WaitLate(w) \/ Over(w)
  BY <1>1, <1>2, StepInLine, LinesTypedHolds
<1>3. CASE ~\E w \in Waiters : RequestStep(w) \/ WaitLate(w) \/ Over(w)
  BY <1>1, <1>3, OtherSteps
<1> QED BY <1>2, <1>3

\* The types hold at first.
LEMMA TypesStart == Init => LinesTyped /\ StatusTyped
<1> SUFFICES ASSUME Init PROVE LinesTyped /\ StatusTyped
  OBVIOUS
<1>1. {w \in Waiters : HasTicket(w)} = {} BY DEF Init, QueueInit, HasTicket
<1>2. LinesTyped BY <1>1, FS_EmptySet DEF Init, QueueInit, LinesTyped, Places
<1>3. StatusTyped BY AccountAssumption DEF Init, StatusTyped
<1> QED BY <1>2, <1>3

\* The state of select_inner, of the leases and of the lines keeps its types:
\* QueueState.total does not become negative, a lease names a request and an
\* account, and only accounts are excluded or chosen.
THEOREM AccountTypes == Spec => []TypeOK
<1>1. Spec => []LineInv
  BY LineInit, LineNext, AccountInductive, PTL DEF Spec
<1>2. Spec => []LinesTyped
  BY <1>1, TypesStart, LinesTypedNext, AccountInductive, PTL DEF Spec
<1>3. Spec => []StatusTyped
  BY TypesStart, StatusTypedHolds, AccountInductive, PTL DEF Spec
<1>4. Spec => []LimitInv
  BY LimitInit, LimitNext, AccountInductive, PTL DEF Spec
<1>5. AccountInv /\ LinesTyped /\ StatusTyped /\ LimitInv => TypeOK
  <2> SUFFICES ASSUME AccountInv, LinesTyped, StatusTyped, LimitInv PROVE TypeOK
    OBVIOUS
  <2>1. total \in Nat
    BY QueueAssumption, FS_Subset, FS_CardinalityType DEF LinesTyped
  <2>2. QueueTypeOK BY <2>1 DEF LinesTyped, QueueTypeOK
  <2>3. \A w \in Waiters : lease[w] = NoLease \/ (lease[w].who = w /\ lease[w].account \in Keys)
    BY DEF AccountInv, LeaseTyped, OwnLease, Leases
  <2>4. \A l \in leases \cup releasing : l.who \in Waiters /\ l.account \in Keys /\ l.id \in Nat
    BY DEF AccountInv, LeaseTyped, Leases
  <2> QED
    BY <2>2, <2>3, <2>4 DEF AccountInv, LeaseTyped, TurnTyped, StatusTyped, LimitInv, TypeOK
<1> QED BY <1>2, <1>3, <1>4, <1>5, AccountInductive, PTL
=============================================================================
