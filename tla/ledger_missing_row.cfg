SPECIFICATION FairSpec
CONSTANTS
    embed = embed
    parse = parse
    image = image
    Jobs = {parse}
    KindOf <- MCKindOf
    MaxWorkers <- OneWorker
    MaxAttempts = 2
    Faults = {"delete"}
PROPERTY EveryMissingRowCancels
CHECK_DEADLOCK FALSE
