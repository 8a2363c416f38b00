SPECIFICATION FairSpec
CONSTANTS
    Timers = {1, 2}
    Users = {u1}
    Pollers = {p1}
    Durations = {0, 2}
    StartClock = 1
    MaxClock = 2
    MaxBack = 0
    MaxLag = 1
    Hour = 1
    MAX_TIMEOUT = 3
    IntMod = 8
    u1 = u1
    u2 = u2
    p1 = p1
    p2 = p2
INVARIANTS
    TypeOK
    QueueMatchesCallbacks
    NoMissedWakeup
PROPERTIES
    OverdueHandled
CHECK_DEADLOCK FALSE
