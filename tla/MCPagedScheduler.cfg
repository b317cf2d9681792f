\* Three requests, pages for one and a half of them, two may run.
SPECIFICATION Spec
CONSTANTS
    K = 1
    VocabSize = 2
    FanOut <- MCFanOut
    Modes = {"ar", "ssd"}
    Drivers = {"steps", "generate"}
    BlockSize = 2
    NumBlocks = 8
    MaxRunning = 2
    SeqId <- MCSeqId
    PromptLengths = {1, 3}
    MaxTokens = 2
INVARIANTS
    TypeOK
    PagesHaveOneOwner
    AdmittedInOrder
    OnlyHeadHoldsPages
PROPERTIES
    EveryRequestAdmitted
    GenerateAdmitsNowOrNever
    RollbackKeepsTokens
CHECK_DEADLOCK FALSE
