SPECIFICATION Spec
CONSTANTS
    Request = {r1, r2, r3}
    Conn = {c1, c2}
    Offliner = {o1}
    Writer = writer
    PING = ping
    Nil = nil
    InputCap = 2
    BACKEND_CONN_MIN_SEQ_ID = 1
    BACKEND_CONN_MAX_SEQ_ID = 2
    HB_TIMEOUT = 0
    MaxSends = 0
SYMMETRY Symmetry
INVARIANTS OneOwner AnswerMatches DrainHasInput
PROPERTIES ImplementsCalls ImplementsPool
CHECK_DEADLOCK FALSE
