\* New chains: replays within the routing budget, delivery, costs and lost row writes.
SPECIFICATION Spec
CONSTANTS
    a1 = a1
    a2 = a2
    a3 = a3
    Accounts = {a1, a2, a3}
    NoAccount = NoAccount
    NumCandidates = 2
    ProviderOf <- MCProviderOf
    MaxAttempts = 3
    MaxTransport = 0
    MaxTransient = 1
    Costs = {1}
    Requests <- NewChains
    StreamErrors <- ReplayFailures
    StoreFaults = TRUE
SYMMETRY Symmetry
INVARIANTS
    ReplayJustified
    FinalSendStateCoversAttempts
    SameAccountRetriesBounded
    BudgetChargeExact
    RowFaithful
PROPERTIES
    NoReplayAfterDelivery
    OutcomeFrozen
    IsAResponseSession
CHECK_DEADLOCK FALSE
