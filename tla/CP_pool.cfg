\* Two calls, one key, one opening at a time, a circuit that opens at the second failure.
SPECIFICATION PoolFairSpec
CONSTANTS
    w1 = w1
    w2 = w2
    k1 = k1
    o1 = o1
    o2 = o2
    c1 = c1
    c2 = c2
    NoConn = NoConn
    NoOpening = NoOpening
    Calls = {w1, w2}
    Keys = {k1}
    Openings = {o1, o2}
    Conns = {c1, c2}
    MaxConnecting = 1
    Threshold = 2
INVARIANT
    SlotsMatchLeases
PROPERTY
    PoolSettles
CHECK_DEADLOCK FALSE
