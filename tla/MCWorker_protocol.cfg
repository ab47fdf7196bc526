SPECIFICATION FairSpec
CONSTANTS
    Executes = {e1, e2}
    Closes = {x1}
    MaxEvents = 1
    MaxGarbage = 1
    MaxFailures = 1
CHECK_DEADLOCK FALSE
INVARIANTS
    PipeInv
    CloseLeavesNoProcess
PROPERTIES
    WorkerEnds
