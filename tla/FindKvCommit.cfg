\* SD on an adapter with a KV cache: is the output AR's?
SPECIFICATION Spec
CONSTANTS
    K = 2
    VocabSize = 3
    FanOut <- MCFanOut
    SeqId <- MCSeqId
    NoEntry = NoEntry
    Context <- MCContext
    NoContext = "none"
    DraftModel <- MCDraftModel
    SpanDraft <- MCSpanDraft
    DraftRaises = FALSE
    Ctx <- CachedCtx
    Advance <- CachedAdvance
    Argmax <- CachedArgmax
    PromptCtx <- CachedPromptCtx
    Stateful = TRUE
    Modes = {"sd"}
    Roles = {"both"}
    CallbackRaises = FALSE
    TokenLimits = {1, 4}
    MaxCalls = 1
    MaxPrompts = 1
    MaxLate = 0
INVARIANT
    NextTokenIsGreedy
CHECK_DEADLOCK FALSE
