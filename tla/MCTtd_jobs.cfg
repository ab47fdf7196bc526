CONSTANTS
    Jobs = {j1, j2}
    Names = {n1}
    NoJob = NoJob
    NoName = NoName
    Frail = {j1}
SPECIFICATION FairSpec
CHECK_DEADLOCK FALSE
INVARIANTS
    ProcessInv
    NoCrossStop
    StatusIsTrue
PROPERTIES
    SlotReturned
