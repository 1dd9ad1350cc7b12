SPECIFICATION FairSpec
CONSTANTS
    embed = embed
    parse = parse
    image = image
    Jobs = {embed, image}
    KindOf <- MCKindOf
    MaxWorkers <- OneWorker
    MaxAttempts = 3
    Faults <- AllFaults
INVARIANTS OutcomeIsTrue ProcessingIsAtWork LedgerInv
PROPERTIES SuccessOnlyReopened ImplementsTaskBoard EmbedCancelsMissingRow
CHECK_DEADLOCK FALSE
