CONSTANTS
    Jobs = {j1, j2}
    Kinds = {k1, k2}
    NoJob = NoJob
SPECIFICATION FairSpec
CHECK_DEADLOCK FALSE
INVARIANTS
    StrayWasTried
    CleanResult
    CompletedIsProcessed
PROPERTIES
    SlotReturned
