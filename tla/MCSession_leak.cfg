CONSTANTS
    Sessions = {s1}
    Targets = {t1}
    Clients = {c1, c2}
    Ops = {o1}
    NoOp = NoOp
    NoSession = NoSession
    NoTarget = NoTarget
    OsMayFail = FALSE
SPECIFICATION Spec
INVARIANT
    ClosedIsCleaned
