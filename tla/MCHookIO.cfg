SPECIFICATION FairSpec
CONSTANTS
    Slots = {s1, s2}
    NoTimer = NoTimer
    Timeout = 2
    MaxCancel = 2
    Kinds = {"io", "connect", "sleep"}
    s1 = s1
    s2 = s2
INVARIANTS
    ScheduledOnce
PROPERTIES
    NotBeforeTime
    ConnectTruthful
    CallReturns
CHECK_DEADLOCK FALSE
