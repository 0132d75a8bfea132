\* A turn of a conversation, another request, and a pinned turn of that conversation that may fail in every way, for two accounts of one lease each, one of which changes its status.
SPECIFICATION FairSpec
CONSTANTS
    a1 = a1
    a2 = a2
    r1 = r1
    r2 = r2
    r3 = r3
    NoKey = NoKey
    Waiters = {r1, r2, r3}
    Keys = {a1, a2}
    Limit <- OneEach
    Scope <- ScopeOf
    Pinned = {r3}
    Conversation = {r1, r3}
    Frail = {r3}
    Unsteady = {a2}
    MaxChanges = 1
    MaxWaiting = 2
    MaxTotal = 3
    MaxTickets = 6
INVARIANTS
    LeasesMatchUse
    FirstTurnsShareAccount
    LinesBounded
    NoLostWakeup
PROPERTIES
    WaitersServed
CHECK_DEADLOCK FALSE
