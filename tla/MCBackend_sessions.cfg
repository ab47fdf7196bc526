SPECIFICATION FairSpec
CONSTANTS
    Sessions = {s1, s2}
    Closers = {c1, c2}
    Used = {s1}
    NoSession = NoSession
CHECK_DEADLOCK FALSE
INVARIANTS
    SessionInv
PROPERTIES
    CancelEndsStartup
    CloseReturns
