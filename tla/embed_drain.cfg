SPECIFICATION FairSpec
CONSTANTS
    MaxBatches = 1
    Concurrency = 1
PROPERTY DurableRunSucceeds
CHECK_DEADLOCK FALSE
