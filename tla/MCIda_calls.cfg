CONSTANTS
    Sessions = {s1, s2}
    Targets = {t1}
    Clients = {c1, c2}
    NoClient = NoClient
    NoTarget = NoTarget
    NoDb = NoDb
    NoSession = NoSession
    Frail = {s2}
SPECIFICATION Spec
SYMMETRY ClientSymmetry
INVARIANTS
    ReadyIsBound
    ClosedNeverServes
    DetachedIsSaved
    OneReusablePerTarget
    ClosingHasCloser
    LocksAreHeld
