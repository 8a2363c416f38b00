SPECIFICATION Spec
CONSTANTS
    Threads = {w1, w2}
    Cbs = {c1}
    UserFibers = {}
    PoolFibers = {g1, g2}
    None = None
    MaxSchedule = 1
    MaxYield = 1
    MaxStart = 1
    MayHold = TRUE
    Pins = {}
    w1 = w1
    w2 = w2
    c1 = c1
    c2 = c2
    u1 = u1
    g1 = g1
    g2 = g2
INVARIANTS
    FiberOnOneThread
CHECK_DEADLOCK FALSE
