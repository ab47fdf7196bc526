SPECIFICATION LaunchSpec
CONSTANTS
    Launches = {l1, l2}
    MayElevate = {l1}
CHECK_DEADLOCK FALSE
INVARIANTS
    LaunchInv
