SPECIFICATION Spec
CONSTANTS
    ConnId = {c1, c2}
    ConnCaller = {writer}
    Offliner = {"watch", "stop"}
    Writer = writer
    Addr = {a1, u1}
    Accepted = {a1}
    None = none
SYMMETRY Symmetry
VIEW WatchView
INVARIANTS OneConnPerAddr EvtbusNeverBlocks IndexInv PooledWhenQuiet
    EndedNotPooled RoundRobin
CHECK_DEADLOCK FALSE
