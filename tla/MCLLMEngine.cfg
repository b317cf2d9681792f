\* All modes and roles on the toy adapter; one late answer, a worker that may
\* raise, shutdown at any idle moment.
SPECIFICATION Spec
CONSTANTS
    K = 2
    VocabSize = 3
    FanOut <- MCFanOut
    SeqId <- MCSeqId
    NoEntry = NoEntry
    Context <- MCContext
    NoContext = "none"
    DraftModel <- MCDraftModel
    SpanDraft <- MCSpanDraft
    DraftRaises = TRUE
    Ctx <- ToyCtx
    Advance <- ToyAdvance
    Argmax <- ToyArgmax
    PromptCtx <- ToyPromptCtx
    Stateful = FALSE
    Modes = {"ar", "sd", "ssd", "instance"}
    Roles = {"both", "target", "draft"}
    CallbackRaises = TRUE
    TokenLimits = {1, 4}
    MaxCalls = 2
    MaxPrompts = 2
    MaxLate = 2
INVARIANTS
    TypeOK
    NextTokenIsGreedy
    OutputLength
    AnswersOwnRequest
    OutstandingIsAbandoned
    DraftFromOwnPrompt
    StatsCountTokens
PROPERTIES
    LosslessDecoding
    CallsEnd
    WorkerEnds
CHECK_DEADLOCK FALSE
