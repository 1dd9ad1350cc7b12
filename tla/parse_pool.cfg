SPECIFICATION ParseFairSpec
CONSTANTS
    embed = embed
    parse1 = parse1
    parse2 = parse2
    image = image
    Jobs = {parse1, parse2, image}
    KindOf <- MCKindOf
    MaxWorkers <- TwoFileWorkers
    MaxAttempts = 1
    Faults = {}
    PoolSize = 2
PROPERTY MediaStarts
CHECK_DEADLOCK FALSE
