\* Do SD and SSD produce as many tokens as AR?
SPECIFICATION Spec
CONSTANTS
    K = 2
    VocabSize = 3
    FanOut <- MCFanOut
    SeqId <- MCSeqId
    NoEntry = NoEntry
    Context <- MCContext
    NoContext = "none"
    DraftModel <- MCDraftModel
    SpanDraft <- MCSpanDraft
    DraftRaises = FALSE
    Ctx <- ToyCtx
    Advance <- ToyAdvance
    Argmax <- ToyArgmax
    PromptCtx <- ToyPromptCtx
    Stateful = FALSE
    Modes = {"ar", "sd", "ssd"}
    Roles = {"both"}
    CallbackRaises = FALSE
    TokenLimits = {1, 4}
    MaxCalls = 1
    MaxPrompts = 1
    MaxLate = 0
INVARIANT
    SameLengthAsAr
CHECK_DEADLOCK FALSE
