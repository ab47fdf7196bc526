CONSTANTS
    Sessions = {s1, s2}
    Targets = {t1}
    Clients = {c1, c2}
    Ops = {o1}
    NoOp = NoOp
    NoSession = NoSession
    NoTarget = NoTarget
    OsMayFail = TRUE
SPECIFICATION Spec
SYMMETRY AllSymmetry
CONSTRAINT
    OneWorker
INVARIANTS
    ClosingHasCloser
PROPERTIES
    ImplementsLifecycle
