SPECIFICATION FairSpec
CONSTANTS
    Safe = {s1}
    Unsafe = {u1}
    Resetter = {g1, g2, g3}
    None = none
    retryMaxOnOps = 1
    Second = 1
    MaxTime = 2
    MaxCalls = 3
INVARIANTS OpenWhileUsed RebuildRate AppliedOnce
PROPERTIES OpEnds ResetRebuilds
CHECK_DEADLOCK FALSE
