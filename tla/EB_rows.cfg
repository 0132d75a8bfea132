\* Two requests, writes lost in every way, a shutdown or a crash, and a restart.
SPECIFICATION FairSpec
CONSTANTS
    r1 = r1
    r2 = r2
    Requests = {r1, r2}
    Chained = {r1}
    Course <- BreaksThenSucceeds
    Capacity = 2
    MaxRestarts = 1
INVARIANTS
    RowTellsTheTruth
    RecoveredByLaterSuccess
    LostRequestsHoldSlots
PROPERTIES
    RowsHaveALifecycle
CHECK_DEADLOCK FALSE
