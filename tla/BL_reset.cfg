\* A charge completed before a reset, in a period the ledger had not yet rolled over.
SPECIFICATION Spec
CONSTANTS
    k1 = k1

    r1 = r1
    r2 = r2
    r3 = r3
    Keys = {k1}
    KeyOf <- OneKey
    Requests = {r1}
    Amounts = {1}
    Limits <- Limited
    DayTicks = 2
    WeekTicks = 4
    MaxTime = 5
    Faults = FALSE
INVARIANTS
    ResetForgetsEarlierCharges
CHECK_DEADLOCK FALSE
