\* A process whose refreshes come from commits, notifications and reconciliation, with changing catalogs, a fault, a restart and a database that goes back.
SPECIFICATION FairSpec
CONSTANTS
    p1 = p1
    a1 = a1
    NoTask = NoTask
    Processes = {p1}
    Admins = {a1}
    MaxStability = 2
    MaxRevision = 3
    MaxGeneration = 2
    MaxFaults = 1
    MaxRestarts = 1
INVARIANTS
    NothingStale
    CatalogsAgree
PROPERTIES
    Converges
CHECK_DEADLOCK FALSE
