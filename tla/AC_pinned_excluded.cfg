\* A continuation replay that meets a transport failure.
SPECIFICATION Spec
CONSTANTS
    a1 = a1
    a2 = a2
    a3 = a3
    Accounts = {a1, a2, a3}
    NoAccount = NoAccount
    NumCandidates = 2
    ProviderOf <- MCProviderOf
    MaxAttempts = 2
    MaxTransport = 1
    MaxTransient = 1
    Costs = {}
    Requests <- Continuations
    StreamErrors <- TransportRunFailures
    StoreFaults = FALSE
INVARIANTS
    PinnedAccountSelectable
CHECK_DEADLOCK FALSE
