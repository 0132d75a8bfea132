\* Failing transactions, lost commit answers, dropped futures, restarts and changing limits, across two days and a weekly window.
SPECIFICATION Spec
CONSTANTS
    k1 = k1

    r1 = r1
    r2 = r2
    r3 = r3
    Keys = {k1}
    KeyOf <- OneKey
    Requests = {r1, r2}
    Amounts = {1}
    Limits <- LimitedOrNot
    DayTicks = 2
    WeekTicks = 4
    MaxTime = 4
    Faults = TRUE
SYMMETRY Symmetry
INVARIANTS
    UsageMatchesCharges
    NoChargeForgotten
PROPERTIES
    AdmissionWithinBudget
CHECK_DEADLOCK FALSE
