\* Does rollback keep the pages of the accepted tokens only?
SPECIFICATION Spec
CONSTANTS
    K = 3
    VocabSize = 2
    FanOut <- MCFanOut
    Modes = {"ssd"}
    Drivers = {"steps"}
    BlockSize = 1
    NumBlocks = 22
    MaxRunning = 2
    SeqId <- MCSeqId
    PromptLengths = {1}
    MaxTokens = 6
PROPERTY
    RollbackIsExact
CHECK_DEADLOCK FALSE
