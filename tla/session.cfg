SPECIFICATION FairSpec
CONSTANTS
    Frames = 5
    MaxPipeline = 2
INVARIANTS InOrder BoundedPipeline RecycleAccounted
PROPERTIES SessionEnds RepliesArrive
CHECK_DEADLOCK FALSE
