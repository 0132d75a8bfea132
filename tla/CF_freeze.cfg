\* A request that comes again and a recovery cycle, one change of the credential and one cycle that ends early.
SPECIFICATION FairSpec
CONSTANTS
    q1 = q1
    w1 = w1
    Requests = {q1}
    Workers = {w1}
    Threshold = 2
    FreezeTime = 1
    MaxRevision = 2
    MaxAborts = 1
INVARIANTS
    FreezeFindable
PROPERTIES
    FreezeHolds
    FreezeEnds
