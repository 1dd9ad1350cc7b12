SPECIFICATION MemorySpec
CONSTANTS
    topic = topic
    persona1 = persona1
    persona2 = persona2
    Jobs = {topic}
    KindOf <- MCKindOf
    MaxWorkers <- QueueLimits
    MaxAttempts = 1
    Faults = {}
    Layers = 1
    Replies <- TaggedOrNot
INVARIANT ListedIsAccounted
CHECK_DEADLOCK FALSE
