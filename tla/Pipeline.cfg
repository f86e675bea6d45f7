CONSTANTS
    Files = {f1, f2}
    Workers = {w1, w2}
    Capacity = 1
    None = None
    SENTINEL = SENTINEL
SPECIFICATION FairSpec
INVARIANTS FilesPlaced CollectedAll
PROPERTIES PipelineDecidesOnce PipelineReturns NormalReturnStopsThreads
CHECK_DEADLOCK FALSE
