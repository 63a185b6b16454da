SPECIFICATION FairSessionSpec
CONSTANTS
    Frames = 3
    MaxPipeline = 1
    Slice = {s1, s2, s3, s4, s5, s6}
    Own = own
    PoolCap = 1
INVARIANTS RequestIntact TasksOpen
PROPERTIES SessionEnds RepliesArrive
CHECK_DEADLOCK FALSE
