SPECIFICATION FairSpec
CONSTANTS
    Client = {c1, c2}
    ChCap = 1
    Idle = 2
    MaxRequests = 3
    None = none
INVARIANTS ListedIsServed NotCutOff
PROPERTIES AcceptedServed ExitEnds
CHECK_DEADLOCK FALSE
