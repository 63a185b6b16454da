SPECIFICATION FairSpec
CONSTANTS
    Request = {r1}
    Conn = {c1}
    Offliner = {o1}
    Writer = writer
    PING = ping
    Nil = nil
    InputCap = 1
    BACKEND_CONN_MIN_SEQ_ID = 1
    BACKEND_CONN_MAX_SEQ_ID = 2
    HB_TIMEOUT = 0
    MaxSends = 1
PROPERTY FailureReported
CHECK_DEADLOCK FALSE
