SPECIFICATION FairSpec
CONSTANTS
    Streams = {c1}
    Posts = {c2}
    Observers = {o1}
    Sessions = {s1}
    NoSession = NoSession
    MaxChanges = 2
CHECK_DEADLOCK FALSE
INVARIANTS
    ServerInv
PROPERTIES
    Informed
    Served
    StopEnds
