SPECIFICATION Spec
CONSTANTS
    Users = {u1, u2}
    Conns = {c1, c2}
    MaxTurns = 2
    MaxRequest = 1
    AliveTime = 1
    Now = 2
    None = None
INVARIANTS
    OneOwner
    TotalExact
    AnswerIsMine
PROPERTY
    EveryRequestReturns
CHECK_DEADLOCK FALSE
