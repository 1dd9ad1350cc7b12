SPECIFICATION FairSpec
CONSTANTS
    MaxBatches = 3
    Concurrency = 2
INVARIANTS EmbedInv SendNeverBlocks FailureHasCause
PROPERTIES NoWriteAfterReturn FailureEndsRun EveryGoroutineEnds DeadlineEndsRun
CHECK_DEADLOCK FALSE
