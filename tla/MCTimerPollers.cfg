SPECIFICATION Spec
CONSTANTS
    Timers = {1}
    Users = {u1, u2}
    Pollers = {p1, p2}
    Durations = {0, 2}
    StartClock = 1
    MaxClock = 2
    MaxBack = 1
    MaxLag = 1
    Hour = 1
    MAX_TIMEOUT = 3
    IntMod = 8
    u1 = u1
    u2 = u2
    p1 = p1
    p2 = p2
INVARIANTS
    OneShotOnce
    NoEraseEnd
PROPERTIES
    NotEarly
SYMMETRY ThreadSymmetry
CHECK_DEADLOCK FALSE
