\* All modes on an adapter with a KV cache: what AR keeps and what every mode keeps.
SPECIFICATION Spec
CONSTANTS
    K = 2
    VocabSize = 3
    FanOut <- MCFanOut
    SeqId <- MCSeqId
    NoEntry = NoEntry
    Context <- MCContext
    NoContext = "none"
    DraftModel <- MCDraftModel
    SpanDraft <- MCSpanDraft
    DraftRaises = FALSE
    Ctx <- CachedCtx
    Advance <- CachedAdvance
    Argmax <- CachedArgmax
    PromptCtx <- CachedPromptCtx
    Stateful = TRUE
    Modes = {"ar", "sd", "ssd", "instance"}
    Roles = {"both", "target", "draft"}
    CallbackRaises = TRUE
    TokenLimits = {0, 4}
    MaxCalls = 2
    MaxPrompts = 1
    MaxLate = 0
INVARIANTS
    ArIsGreedy
    OutputLength
CHECK_DEADLOCK FALSE
