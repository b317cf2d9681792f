\* Is the cache rebuilt while the target verifies?
SPECIFICATION Spec
CONSTANTS
    K = 2
    VocabSize = 3
    FanOut <- MCFanOut
    SeqId <- MCSeqId
    NoEntry = NoEntry
    Context <- MCContext
    NoContext = "none"
    DraftModel <- MCDraftModel
    SpanDraft <- MCSpanDraft
    DraftRaises = FALSE
    Ctx <- ToyCtx
    Advance <- ToyAdvance
    Argmax <- ToyArgmax
    PromptCtx <- ToyPromptCtx
    Stateful = FALSE
    Modes = {"ssd"}
    Roles = {"both"}
    CallbackRaises = FALSE
    TokenLimits = {1, 4}
    MaxCalls = 1
    MaxPrompts = 1
    MaxLate = 0
INVARIANT
    RebuildOverlapsVerify
CHECK_DEADLOCK FALSE
