\* The sequential algorithms for K = 3 and three tokens, and the draft worker
\* under an arbitrary client with two sequences and queues of two.
SPECIFICATION DraftSideSpec
CONSTANTS
    K = 3
    VocabSize = 3
    FanOut <- MCFanOut
    SeqId <- MCSeqId
    NoEntry = NoEntry
    DraftCtx <- MCDraftCtx
    StartCtx = 0
    DraftAdvance <- MCDraftAdvance
    DraftArgmax <- MCDraftArgmax
    ToyArgmax <- MCToyArgmax
    Prefix <- MCPrefix
    Context <- MCContext
    NoContext = "none"
    DraftModel <- MCDraftModel
    SpanDraft <- MCSpanDraft
    DraftRaises = TRUE
    MaxQueue = 2
    Requests <- MCRequests
INVARIANTS
    LoopInv
    Parity
    AcceptedPrefixIsTargets
    DraftContinuesPrefix
    SpanCopiesPrompt
    MixKeepsBestCandidate
    WorkerTypeOK
    CacheIsTransparent
    CacheIsOneRoundsMap
    RebuildFollowsFanOut
PROPERTIES
    AnswersInOrder
    EveryRequestServed
CHECK_DEADLOCK FALSE
