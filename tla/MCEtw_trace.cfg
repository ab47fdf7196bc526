SPECIFICATION EtwSpec
SYMMETRY Symmetry
CONSTANTS
    Irps = {i1}
    Objects = {o1}
    Keys = {k1}
    Paths = {p1, p2}
    Images = {m1, m2}
    Threads = {t1, t2}
    Target = Target
    Other = Other
    None = None
    MaxRecords <- Records
    MaxLossy <- Lossy
    MaxTime = 2
    MaxLost = 1
    MaxNamed = 1
    MAX_PENDING_STACK_TIMESTAMPS = 2
    MAX_PENDING_STACKS_PER_TIMESTAMP = 2
CHECK_DEADLOCK FALSE
INVARIANTS
    Accounting
    OwnCompletion
    PathIsReal
    FrameIsReal
