\* A refresh cycle, a manual refresh and a request with cookies, for three credentials and one fault or cookie.
SPECIFICATION FairSpec
CONSTANTS
    w1 = w1
    w2 = w2
    m1 = m1
    q1 = q1
    Cycles = {w1}
    Manuals = {m1}
    Requests = {q1}
    Concurrency = 2
    MaxCredentials = 3
    MaxEvents = 1
    NoCredential = NoCredential
INVARIANTS
    TokensKept
    NoStaleVerdict
PROPERTIES
    ExhaustedSettled
CHECK_DEADLOCK FALSE
