\* Any request, with transport retries and fallbacks: calls return, abandoned sessions are finalized, a continuation stays with its owner.
SPECIFICATION FairSpec
CONSTANTS
    a1 = a1
    a2 = a2
    a3 = a3
    Accounts = {a1, a2, a3}
    NoAccount = NoAccount
    NumCandidates = 2
    ProviderOf <- MCProviderOf
    MaxAttempts = 2
    MaxTransport = 1
    MaxTransient = 1
    Costs = {1}
    Requests <- AnyRequest
    StreamErrors <- LiveFailures
    StoreFaults = FALSE
INVARIANTS
    ContinuationOwnerKept
PROPERTIES
    CallsReturn
CHECK_DEADLOCK FALSE
