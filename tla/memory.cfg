SPECIFICATION MemoryFairSpec
CONSTANTS
    topic = topic
    persona1 = persona1
    persona2 = persona2
    Jobs = {topic, persona1, persona2}
    KindOf <- MCKindOf
    MaxWorkers <- QueueLimits
    MaxAttempts = 2
    Faults <- AllFaults
    Layers = 2
    Replies <- FencedThenNone
INVARIANTS NoOrphan Accounted StoredOnce HistoryIsComplete NoMergeIsLost
PROPERTY EveryMemoryJobFinishes
CHECK_DEADLOCK FALSE
