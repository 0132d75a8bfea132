------------------------- MODULE MCAttemptCoordinator -------------------------
(* Small instances of AttemptCoordinator. *)
EXTENDS AttemptCoordinator, TLC

CONSTANTS a1, a2, a3

\* a1 and a2 belong to the first candidate's provider, a3 to the second's.
MCProviderOf == [a \in Accounts |-> IF a = a3 THEN 2 ELSE 1]

NewChains ==
    {[account |-> a, binding |-> "none", pin |-> NoAccount, states |-> {}] :
        a \in {NoAccount, a1, a2}}

\* The accounts of one provider are interchangeable in a new chain.
Symmetry == Permutations({a1, a2})

Continuations ==
    {[account |-> NoAccount, binding |-> "pinned", pin |-> a1, states |-> s] :
        s \in {{}, {1}}}
    \cup {[account |-> NoAccount, binding |-> "external", pin |-> NoAccount,
            states |-> {1}]}

Failure(send, safe, hint, disposition) ==
    [send |-> send, safe |-> safe, hint |-> hint, disposition |-> disposition,
     cancelled |-> FALSE, atomic |-> FALSE, usd |-> 0]

\* Failures whose combination of facts an adapter of src produces: a transient
\* rejection and a recovered credential come with a proof of safe replay, a
\* transport hint does not come with a disposition.
PlainFailures ==
    {Failure("NotSent", FALSE, "none", "none"), Failure("Ambiguous", FALSE, "none", "none"),
     Failure("Sent", TRUE, "none", "none"), Failure("Sent", FALSE, "none", "none")}

SameAccountFailures ==
    {Failure("Sent", TRUE, hint, "none") : hint \in {"SameAccountTransient", "SameAccount"}}

TransportFailures ==
    {Failure(send, FALSE, hint, "none") :
        send \in {"NotSent", "Ambiguous"}, hint \in {"TransportRetry", "TransportFallback"}}

ContinuationFailures ==
    {Failure("Sent", TRUE, "none", d) : d \in Dispositions}

\* The failure comes with client events that report its cost.
AtomicFailures ==
    {[Failure("Sent", safe, "none", "none") EXCEPT !.atomic = TRUE, !.usd = 1] :
        safe \in BOOLEAN}

CancelledFailures == {[Failure("Ambiguous", FALSE, "none", "none") EXCEPT !.cancelled = TRUE]}

RetryFailures ==
    {Failure("NotSent", FALSE, "none", "none")}
    \cup {Failure(send, FALSE, "AccountRotation", "none") : send \in {"Sent", "Ambiguous"}}
    \cup SameAccountFailures

TransportRunFailures == PlainFailures \cup TransportFailures

LiveFailures ==
    ContinuationFailures
    \cup AtomicFailures
    \cup {Failure("NotSent", FALSE, hint, "none") : hint \in {"TransportRetry", "TransportFallback"}}

\* Without symmetry, a1 stands for the accounts of its provider.
AnyRequest == {r \in NewChains : r.account # a2} \cup Continuations

ReplayFailures == RetryFailures \cup AtomicFailures \cup CancelledFailures
===============================================================================
