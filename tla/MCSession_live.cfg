CONSTANTS
    Sessions = {s1}
    Targets = {t1}
    Clients = {c1, c2}
    Ops = {o1, o2}
    NoOp = NoOp
    NoSession = NoSession
    NoTarget = NoTarget
    OsMayFail = FALSE
SPECIFICATION FairSpec
INVARIANTS
    SerialExecution
    OperationInv
PROPERTIES
    CloseIsFinal
    CloseTerminates
    DeadWorkerNoticed
