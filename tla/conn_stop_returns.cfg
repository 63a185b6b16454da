SPECIFICATION FairSpec
CONSTANTS
    Request = {r1}
    Conn = {c1}
    Offliner = {}
    Writer = writer
    PING = ping
    Nil = nil
    InputCap = 2
    BACKEND_CONN_MIN_SEQ_ID = 1
    BACKEND_CONN_MAX_SEQ_ID = 3
    HB_TIMEOUT = 0
    MaxSends = 2
PROPERTY StopReturns
CHECK_DEADLOCK FALSE
