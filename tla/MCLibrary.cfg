SPECIFICATION Spec
CONSTANTS
    Base = 2
    MaxBlocks = 3
    MaxLen = 4
    Bytes = {"a", "b"}
    Junk = "junk"
    Paths = {"x", "y"}
    Patterns = {"star", "x_only"}
    Matching <- MCMatching
    Servlets = {s1, s2}
    m_default = NotFound
    MaxEdits = 5
    Threads = {t1, t2}
    Names = {1, 2}
    Defs <- MCDefs
    MaxSets = 3
    None = None
    s1 = s1
    s2 = s2
    t1 = t1
    t2 = t2
    NotFound = NotFound
INVARIANTS
    BytesExact
    Routes
    LoggersFollow
CHECK_DEADLOCK FALSE
