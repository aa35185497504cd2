SPECIFICATION FairSpec
CONSTANTS
    Writer = {w1, w2}
    Closer = closer
    Batches <- OneBatch
    SmallGrowth = 3
    MaximumGroup = 4
    Threshold = 0
    Trigger = 1
    DelayFiles = 1
    StallFiles = 2
    Faults <- SomeFaults
    MaxCalls = 3
    MaxLevel0 = 1
    MaxSpurious = 0
    MaxSeeks = 1
PROPERTIES CallsReturn CloseEnds
CHECK_DEADLOCK FALSE
