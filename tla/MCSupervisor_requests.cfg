CONSTANTS
    Clients = {c1, c2}
    NoClient = NoClient
    MaxCalls = 3
    OsMayFail = TRUE
    Stubborn <- First
SPECIFICATION FairSpec
CHECK_DEADLOCK FALSE
INVARIANTS
    OwnAnswer
    WaitingIsPending
    HungCanBeKilled
PROPERTIES
    RequestReturns
