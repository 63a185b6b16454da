SPECIFICATION SessionSpec
CONSTANTS
    Frames = 3
    MaxPipeline = 1
    Slice = {s1, s2, s3, s4, s5, s6}
    Own = own
    PoolCap = 2
INVARIANT ReturnedIfReallocated
CHECK_DEADLOCK FALSE
