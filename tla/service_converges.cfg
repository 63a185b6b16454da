SPECIFICATION FairSpec
CONSTANTS
    ConnId = {c1, c2}
    ConnCaller = {writer}
    Offliner = {"watch", "stop"}
    Writer = writer
    Addr = {a1}
    Accepted = {a1}
    None = none
CONSTRAINT NotStopped
PROPERTY Converges
CHECK_DEADLOCK FALSE
