SPECIFICATION FairSpec
CONSTANTS
    Fds = {2}
    InitSize = 2
    MaxGen = 2
    MaxOpen = 2
    Pollers = {p1, p2}
    RetryOnClosing = FALSE
    None = None
    p1 = p1
    p2 = p2
INVARIANTS
    PendingExact
    KernelAgrees
    WaiterAccounted
    NoLostEdge
    ClosedFdQuiet
PROPERTIES
    ReadyWaiterResumes
CHECK_DEADLOCK FALSE
