SPECIFICATION ParseFairSpec
CONSTANTS
    embed = embed
    parse1 = parse1
    parse2 = parse2
    image = image
    Jobs = {parse1, parse2}
    KindOf <- MCKindOf
    MaxWorkers <- TwoFileWorkers
    MaxAttempts = 2
    Faults <- AllFaults
    PoolSize = 3
INVARIANTS ParseTypeOK SuccessIsLinked OneCopyOfChunks PoolIsLive
PROPERTIES ImplementsLedger EveryJobFinishes
CHECK_DEADLOCK FALSE
