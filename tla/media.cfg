SPECIFICATION MediaFairSpec
CONSTANTS
    video = video
    Jobs = {video}
    KindOf <- MCKindOf
    MaxWorkers <- OneWorker
    MaxAttempts = 3
    Faults <- AllFaults
    MaxPolls = 2
INVARIANTS SuccessShowsMedia OneFileUndisturbed
PROPERTIES ImplementsLedger EveryMediaJobFinishes
CHECK_DEADLOCK FALSE
