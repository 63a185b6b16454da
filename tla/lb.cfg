SPECIFICATION Spec
CONSTANTS
    ConnId = {c1, c2}
    Request = {r1}
    PING = PING
    Nil = Nil
    InputCap = 1
    MaxPings = 1
INVARIANTS OneOwner RemovedStaysOut IndexRight
CHECK_DEADLOCK FALSE
