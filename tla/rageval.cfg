SPECIFICATION RagSpec
CONSTANTS
    withFiles = withFiles
    plain = plain
    Jobs = {withFiles, plain}
    WithFiles = {withFiles}
    KindOf <- MCKindOf
    MaxWorkers <- OneWorker
    MaxAttempts = 2
    Faults <- AllFaults
INVARIANTS OutcomeIsTrue AnswerHasEmbedding GivenUpIsReported
PROPERTIES EmbeddedOnce
CHECK_DEADLOCK FALSE
