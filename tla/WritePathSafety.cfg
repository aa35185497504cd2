SPECIFICATION Spec
CONSTANTS
    Writer = {w1, w2, w3}
    Closer = closer
    Batches <- SomeBatches
    SmallGrowth = 3
    MaximumGroup = 4
    Threshold = 0
    Trigger = 1
    DelayFiles = 2
    StallFiles = 3
    Faults <- AllFaults
    MaxCalls = 3
    MaxLevel0 = 0
    MaxSpurious = 1
    MaxSeeks = 0
SYMMETRY WriterSymmetry
INVARIANTS CommitKeepsItsLog NoSequenceReuse AckedIsDurable EngineSound
PROPERTIES FlushMeansFlushed
