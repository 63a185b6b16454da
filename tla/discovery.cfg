SPECIFICATION FairSpec
CONSTANTS
    Proc = {p1, p2}
    Service = {s1, s2}
    Svc = s1
    Back = {b1, b2, b3}
    Nil = Nil
    MaxExpiries = 1
    MaxOps = 1
INVARIANTS EndpointIsOwn NotRegisteredAfterExit OneBackPerService
PROPERTIES ServerFound ServerForgotten SignalEnds
CHECK_DEADLOCK FALSE
