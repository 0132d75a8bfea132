\* Three requests of a key with one slot and a line of two, one of which meets its deadline and every failure of Redis, the ledger and its caller: the others are served in order, and everything ends.
SPECIFICATION TimelySpec
CONSTANTS
    k1 = k1
    r1 = r1
    r2 = r2
    r3 = r3
    NoKey = NoKey
    Waiters = {r1, r2, r3}
    Keys = {k1}
    KeyOf <- OneKey
    MaxConcurrency <- One
    PerMinute <- One
    Budget <- One
    MaxCost = 1
    MaxWaiting = 2
    MaxTotal = 3
    MaxTickets = 3
    Frail = {r3}
INVARIANTS
    RunningWithinLimit
    NoStraySlot
    SpendingBounded
PROPERTIES
    FirstComeFirstServed
    QueueSpec
    RequestsEnd
    WaitersServed
CHECK_DEADLOCK FALSE
