SPECIFICATION Spec
CONSTANTS
    Fds = {3, 4}
    NoFd <- MCNoFd
    Listeners = {l1, l2}
    Acceptors = {a1, a2}
    Clients = {c1, c2}
    Threads = 2
    Keepalive = TRUE
    None = None
    MaxBind = 2
    MaxStart = 2
    MaxStop = 2
    l1 = l1
    l2 = l2
    a1 = a1
    a2 = a2
    c1 = c1
    c2 = c2
INVARIANTS
    OneSocketPerFd
    BlockingOnlyIfReused
    LoopsOnlyOnOpen
PROPERTY
    StopEndsAccepting
CHECK_DEADLOCK FALSE
