----------------------------- MODULE WorkerProofs -----------------------------
(***************************************************************************)
(* Proofs about the draft worker, for every K, vocabulary, fan-out list,   *)
(* draft model and set of sequences, and for every client: WorkerSpec lets *)
(* a client submit anything, collect, set the context and stop at any time.*)
(***************************************************************************)
EXTENDS DraftWorker, CommonLemmas
LOCAL INSTANCE SequencesExt

-----------------------------------------------------------------------------
(* The worker's values.                                                    *)

(* The rebuild's levels are accepted lengths, and levels of the list.      *)
LEMMA LevelsBound ==
    /\ Levels \in Nat
    /\ \A l \in 0..Levels : l < Levels => l \in 0..K /\ l + 1 \in 1..Len(FanOut)
BY ConfigAssumption DEF Levels

(* The values the worker starts from.                                      *)
LEMMA NoneTypes == NoRequest \in Request /\ NoResponse \in Response
<1>. USE ConfigAssumption, CacheAssumption
<1>1. 0 \in Token /\ 0 \in 0..K
    BY DEF Token
<1>2. NoRequest.key \in Key
    BY <1>1 DEF NoRequest, Key
<1>3. NoRequest \in Request
    BY <1>2 DEF NoRequest, Request, Command
<1>4. [j \in 1..K |-> 0] \in Draft
    BY <1>1 DEF Draft
<1>. QED
    BY <1>2, <1>3, <1>4 DEF NoResponse, Response

(* Both ways of drafting give K tokens.                                    *)
LEMMA SpeculateType ==
    ASSUME WorkerTypeOK, NEW key \in Key
    PROVE  Speculate(key) \in Draft
<1>1. key.recovery \in Token
    BY DEF Key
<1>. QED
    BY <1>1, WorkerAssumption DEF Speculate, WorkerTypeOK

(* A hit returns a stored row.                                             *)
LEMMA CachedTokensType ==
    ASSUME WorkerTypeOK, NEW key \in Key, Hit(cache, key)
    PROVE  CachedTokens(cache, key) \in Draft
<1>. DEFINE M == MatchingSlots(cache, key)
<1>1. DOMAIN cache = Slot
    BY DEF WorkerTypeOK, Cache
<1>2. M \in SUBSET Nat /\ M # {}
    BY <1>1 DEF MatchingSlots, Hit, Slot
<1>3. \E x \in M : \A y \in M : x <= y
    BY <1>2, LeastNatural
<1>4. PICK first \in M : CachedTokens(cache, key) = cache[first].tokens
    BY <1>3 DEF CachedTokens
<1>5. first \in Slot /\ cache[first] # NoEntry
    BY <1>1, <1>4 DEF MatchingSlots
<1>6. cache[first] \in Entry
    BY <1>5 DEF WorkerTypeOK, Cache
<1>. QED
    BY <1>4, <1>6 DEF Entry

(* Hit or miss, the worker answers with K tokens.                          *)
LEMMA AnswerType ==
    ASSUME WorkerTypeOK, NEW key \in Key
    PROVE  Answer(key) \in Response
BY SpeculateType, CachedTokensType DEF Answer, Response

(* The key of a rebuilt branch.                                            *)
LEMMA BranchKeyType ==
    ASSUME WorkerTypeOK, level < Levels, branch < FanOut[level + 1]
    PROVE  BranchKey \in Key
<1>. USE ConfigAssumption
<1>1. level \in 0..K /\ level + 1 \in 1..Len(FanOut)
    BY LevelsBound DEF WorkerTypeOK
<1>2. FanOut[level + 1] \in 0..VocabSize
    BY <1>1
<1>3. branch \in Token
    BY <1>2 DEF Token, WorkerTypeOK
<1>4. req.key \in Key
    BY DEF WorkerTypeOK, Request
<1>. QED
    BY <1>1, <1>3, <1>4 DEF BranchKey, Candidate, Key

(* Filling a slot keeps the table a table, at any slot number.             *)
LEMMA InsertType ==
    ASSUME NEW c \in Cache, NEW s \in Nat, NEW key \in Key, NEW toks \in Draft
    PROVE  Insert(c, s, key, toks) \in Cache
<1>1. [key |-> key, tokens |-> toks] \in Entry
    BY DEF Entry
<1>. QED
    BY <1>1 DEF Insert, Cache

LEMMA WorkerAtRest ==
    ASSUME WorkerTypeOK, UNCHANGED workerVars
    PROVE  WorkerTypeOK'
BY DEF WorkerTypeOK, workerVars, threadVars

(* Every step of the thread keeps the worker's types (_loop, _handle,      *)
(* _rebuild_cache).                                                        *)
LEMMA ThreadKeepsTypes ==
    ASSUME WorkerTypeOK, ThreadStep
    PROVE  WorkerTypeOK'
<1>. USE DEF WorkerTypeOK
<1>1. CASE LoopTop
    BY <1>1 DEF LoopTop
<1>2. CASE PollEmpty
    BY <1>2 DEF PollEmpty
<1>3. CASE TakeRequest
    <2>1. Head(reqQ) \in Request /\ Tail(reqQ) \in Seq(Request)
        BY <1>3 DEF TakeRequest
    <2>. QED
        BY <1>3, <2>1 DEF TakeRequest
<1>4. CASE HandleRequest
    <2>1. req.key \in Key
        BY DEF Request
    <2>2. resp' \in Response
        BY <1>4, <2>1, AnswerType DEF HandleRequest
    <2>3. cache' \in Cache
        BY <1>4 DEF HandleRequest, Reset, Cache
    <2>4. level' \in 0..Levels
        BY <1>4, LevelsBound DEF HandleRequest
    <2>. QED
        BY <1>4, <2>2, <2>3, <2>4 DEF HandleRequest, DraftDone
<1>5. CASE InsertBranch
    <2>1. BranchKey \in Key
        BY <1>5, BranchKeyType DEF InsertBranch, InRow
    <2>2. cache' \in Cache
        BY <1>5, <2>1, SpeculateType, InsertType DEF InsertBranch
    <2>. QED
        BY <1>5, <2>2 DEF InsertBranch, DraftDone
<1>6. CASE NextLevel
    <2>1. level' \in 0..Levels
        BY <1>6, LevelsBound DEF NextLevel
    <2>. QED
        BY <1>6, <2>1 DEF NextLevel
<1>7. CASE Respond
    BY <1>7, NoneTypes DEF Respond
<1>8. CASE TestContext
    BY <1>8 DEF TestContext, CopiesContext
<1>9. CASE ScoreContext
    BY <1>9 DEF ScoreContext
<1>. QED
    BY <1>1, <1>2, <1>3, <1>4, <1>5, <1>6, <1>7, <1>8, <1>9 DEF ThreadStep

(* What a client's call may do: nothing but its own variable changes.      *)
LEMMA WorkerStepTypes == WorkerTypeOK /\ [WorkerNext]_workerVars => WorkerTypeOK'
<1>. SUFFICES ASSUME WorkerTypeOK, [WorkerNext]_workerVars PROVE WorkerTypeOK'
    OBVIOUS
<1>. USE DEF WorkerTypeOK, threadVars
<1>1. CASE UNCHANGED workerVars
    BY <1>1 DEF workerVars
<1>2. CASE ThreadStep
    BY <1>2, ThreadKeepsTypes
<1>3. CASE ModelRaises
    BY <1>3 DEF ModelRaises
<1>4. CASE ClientReceives
    <2>1. Tail(respQ) \in Seq(Response)
        BY <1>4 DEF ClientReceives, Receive
    <2>. QED
        BY <1>4, <2>1 DEF ClientReceives, Receive
<1>5. CASE ClientStops
    BY <1>5 DEF ClientStops, ClearRunning
<1>6. ASSUME NEW r \in Request, ClientSubmits(r) PROVE WorkerTypeOK'
    <2>1. Append(reqQ, r) \in Seq(Request)
        BY AppendProperties
    <2>. QED
        BY <1>6, <2>1 DEF ClientSubmits, Submit
<1>7. ASSUME NEW c \in Context, ClientSetsContext(c) PROVE WorkerTypeOK'
    BY <1>7 DEF ClientSetsContext, SetContext
<1>. QED
    BY <1>1, <1>2, <1>3, <1>4, <1>5, <1>6, <1>7 DEF WorkerNext

LEMMA WorkerInitTypes ==
    ASSUME mode \in DecodeMode, NEW started \in BOOLEAN, WorkerInit(started)
    PROVE  WorkerTypeOK
<1>1. Create \in Cache
    BY DEF Create, Cache
<1>2. 0 \in 0..Levels
    BY LevelsBound
<1>. QED
    BY <1>1, <1>2, NoneTypes DEF WorkerInit, WorkerTypeOK

(* Every variable of the worker keeps its type under every client          *)
(* (workers.py).                                                           *)
THEOREM WorkerTypeCorrect == WorkerSpec => []WorkerTypeOK
<1>1. mode \in DecodeMode /\ (\E started \in BOOLEAN : WorkerInit(started)) => WorkerTypeOK
    BY WorkerInitTypes
<1>. QED
    BY <1>1, WorkerStepTypes, PTL DEF WorkerSpec

-----------------------------------------------------------------------------
(* The cache is transparent.                                               *)

TrueTo(key, tokens) == tokens = DraftModel[key.recovery]

(* A hit returns a row of the table, so what holds of the answers has to   *)
(* hold of the rows too.                                                   *)
TransparentInv ==
    /\ WorkerTypeOK
    /\ mode = "ssd" =>
        /\ stage = "test"
        /\ \A i \in 1..Len(respQ) : TrueTo(respQ[i].for, respQ[i].tokens)
        /\ wpc = "rebuild" => TrueTo(resp.for, resp.tokens)
        /\ \A s \in Slot : cache[s] # NoEntry => TrueTo(cache[s].key, cache[s].tokens)

(* The row a hit returns: one of those that match.                         *)
LEMMA HitReturnsRow ==
    ASSUME WorkerTypeOK, NEW key, Hit(cache, key)
    PROVE  \E s \in Slot : /\ cache[s] # NoEntry /\ cache[s].key = key
                           /\ CachedTokens(cache, key) = cache[s].tokens
<1>. DEFINE M == MatchingSlots(cache, key)
<1>1. DOMAIN cache = Slot
    BY DEF WorkerTypeOK, Cache
<1>2. M \in SUBSET Nat /\ M # {}
    BY <1>1 DEF MatchingSlots, Hit, Slot
<1>3. \E x \in M : \A y \in M : x <= y
    BY <1>2, LeastNatural
<1>4. PICK first \in M : CachedTokens(cache, key) = cache[first].tokens
    BY <1>3 DEF CachedTokens
<1>. QED
    BY <1>1, <1>4 DEF MatchingSlots

LEMMA AnswerIsTrue ==
    ASSUME TransparentInv, mode = "ssd", NEW key \in Key
    PROVE  TrueTo(Answer(key).for, Answer(key).tokens)
<1>1. CASE Hit(cache, key)
    <2>1. PICK s \in Slot : /\ cache[s] # NoEntry /\ cache[s].key = key
                            /\ CachedTokens(cache, key) = cache[s].tokens
        BY <1>1, HitReturnsRow DEF TransparentInv
    <2>. QED
        BY <1>1, <2>1 DEF Answer, TransparentInv, TrueTo
<1>2. CASE ~ Hit(cache, key)
    BY <1>2 DEF Answer, Speculate, TransparentInv, TrueTo
<1>. QED
    BY <1>1, <1>2

LEMMA StepTransparent == TransparentInv /\ [WorkerNext]_workerVars => TransparentInv'
<1>. SUFFICES ASSUME TransparentInv, [WorkerNext]_workerVars PROVE TransparentInv'
    OBVIOUS
<1>1. WorkerTypeOK /\ WorkerTypeOK'
    BY WorkerStepTypes DEF TransparentInv
<1>2. mode' = mode
    BY DEF WorkerNext, ThreadStep, LoopTop, PollEmpty, TakeRequest, TestContext, ScoreContext,
           HandleRequest, InsertBranch, NextLevel, Respond, ModelRaises, ClientReceives, ClientStops, ClientSubmits,
           ClientSetsContext, workerVars
<1>. SUFFICES ASSUME mode = "ssd"
              PROVE  /\ stage' = "test"
                     /\ \A i \in 1..Len(respQ') : TrueTo(respQ'[i].for, respQ'[i].tokens)
                     /\ wpc' = "rebuild" => TrueTo(resp'.for, resp'.tokens)
                     /\ \A s \in Slot : cache'[s] # NoEntry => TrueTo(cache'[s].key, cache'[s].tokens)
    BY <1>1, <1>2 DEF TransparentInv, TrueTo
<1>3. CASE \/ UNCHANGED workerVars \/ LoopTop \/ PollEmpty \/ TakeRequest \/ NextLevel \/ ModelRaises
           \/ TestContext \/ ScoreContext
           \/ ClientStops \/ (\E r \in Request : ClientSubmits(r))
           \/ (\E c \in Context : ClientSetsContext(c))
    BY <1>3 DEF TransparentInv, TestContext, ScoreContext, CopiesContext, LoopTop, PollEmpty, TakeRequest, NextLevel, ModelRaises, ClientStops,
                ClientSubmits, ClientSetsContext, workerVars, threadVars
<1>4. CASE HandleRequest
    <2>1. req.key \in Key
        BY <1>1 DEF WorkerTypeOK, Request
    <2>2. TrueTo(resp'.for, resp'.tokens)
        BY <1>4, <2>1, AnswerIsTrue DEF HandleRequest
    <2>3. \A s \in Slot : cache'[s] = NoEntry
        BY <1>1, <1>4 DEF HandleRequest, Reset, WorkerTypeOK, Cache
    <2>. QED
        BY <1>4, <2>2, <2>3 DEF HandleRequest, DraftDone, TransparentInv
<1>5. CASE InsertBranch
    <2>1. /\ respQ' = respQ /\ resp' = resp /\ wpc' = "rebuild" /\ wpc = "rebuild"
          /\ cache' = Insert(cache, slot, BranchKey, Speculate(BranchKey)) /\ stage' = "test"
        BY <1>5 DEF InsertBranch, InRow, DraftDone
    <2>2. TrueTo(BranchKey, Speculate(BranchKey))
        BY DEF Speculate, TransparentInv, TrueTo
    <2>3. ASSUME NEW s \in Slot, cache'[s] # NoEntry
          PROVE  TrueTo(cache'[s].key, cache'[s].tokens)
        <3>1. DOMAIN cache = Slot
            BY <1>1 DEF WorkerTypeOK, Cache
        <3>2. CASE s = slot
            <4>1. cache'[s] = [key |-> BranchKey, tokens |-> Speculate(BranchKey)]
                BY <2>1, <3>1, <3>2 DEF Insert
            <4>. QED
                BY <4>1, <2>2
        <3>3. CASE s # slot
            <4>1. cache'[s] = cache[s]
                BY <2>1, <3>1, <3>3 DEF Insert
            <4>. QED
                BY <4>1, <2>3 DEF TransparentInv
        <3>. QED
            BY <3>2, <3>3
    <2>. QED
        BY <2>1, <2>3 DEF TransparentInv
<1>6. CASE Respond
    <2>1. /\ respQ' = Append(respQ, resp) /\ wpc' = "top" /\ cache' = cache /\ wpc = "rebuild"
          /\ stage' = stage
        BY <1>6 DEF Respond
    <2>2. respQ \in Seq(Response) /\ resp \in Response
        BY <1>1 DEF WorkerTypeOK
    <2>3. /\ Len(respQ') = Len(respQ) + 1 /\ respQ'[Len(respQ) + 1] = resp
          /\ \A i \in 1..Len(respQ) : respQ'[i] = respQ[i]
        BY <2>1, <2>2, AppendProperties
    <2>4. ASSUME NEW i \in 1..Len(respQ') PROVE TrueTo(respQ'[i].for, respQ'[i].tokens)
        <3>1. Len(respQ) \in Nat
            BY <2>2
        <3>2. i = Len(respQ) + 1 \/ i \in 1..Len(respQ)
            BY <3>1, <2>3
        <3>. QED
            BY <3>2, <2>1, <2>3 DEF TransparentInv
    <2>. QED
        BY <2>1, <2>4 DEF TransparentInv
<1>7. CASE ClientReceives
    <2>1. respQ # <<>> /\ respQ' = Tail(respQ) /\ wpc' = wpc /\ resp' = resp /\ cache' = cache
          /\ stage' = stage
        BY <1>7 DEF ClientReceives, Receive, threadVars
    <2>2. respQ \in Seq(Response)
        BY <1>1 DEF WorkerTypeOK
    <2>3. Len(respQ) \in Nat \ {0} /\ Len(respQ') = Len(respQ) - 1
          /\ \A i \in 1..(Len(respQ) - 1) : respQ'[i] = respQ[i + 1]
        BY <2>1, <2>2, HeadAndTail
    <2>4. ASSUME NEW i \in 1..Len(respQ') PROVE TrueTo(respQ'[i].for, respQ'[i].tokens)
        <3>1. i \in 1..(Len(respQ) - 1) /\ i + 1 \in 1..Len(respQ)
            BY <2>3
        <3>. QED
            BY <3>1, <2>3 DEF TransparentInv
    <2>. QED
        BY <2>1, <2>4 DEF TransparentInv
<1>. QED
    BY <1>3, <1>4, <1>5, <1>6, <1>7 DEF WorkerNext, ThreadStep

(* Whatever the client does, outside Instance-SSD every answer is the      *)
(* draft model's for the token it was asked about, hit or miss.            *)
THEOREM CacheIsTransparentHolds == WorkerSpec => []CacheIsTransparent
<1>1. mode \in DecodeMode /\ (\E started \in BOOLEAN : WorkerInit(started)) => TransparentInv
    <2>. SUFFICES ASSUME mode \in DecodeMode, NEW started \in BOOLEAN, WorkerInit(started)
                  PROVE  TransparentInv
        OBVIOUS
    <2>1. Len(respQ) = 0 /\ wpc # "rebuild" /\ stage = "test" /\ \A s \in Slot : cache[s] = NoEntry
        BY DEF WorkerInit, Create
    <2>. QED
        BY <2>1, WorkerInitTypes DEF TransparentInv
<1>2. TransparentInv => CacheIsTransparent
    BY DEF TransparentInv, CacheIsTransparent, TrueTo
<1>. QED
    BY <1>1, <1>2, StepTransparent, PTL DEF WorkerSpec

-----------------------------------------------------------------------------
(* The cache is one round's map.                                           *)

Filled == {s \in Slot : cache[s] # NoEntry}

(* The slot of a branch is its place in the list of levels: the candidates *)
(* of the levels before its own, then its number.  It is what makes the    *)
(* keys distinct and the rows fit.                                         *)
PlaceOf(key) == FanOutBefore[key.acc] + key.recovery

(* The branches of the list: a level's candidates are numbered from zero.  *)
OfList(key) == key.acc < Levels /\ key.recovery < FanOut[key.acc + 1]

RoundInv ==
    /\ WorkerTypeOK
    /\ wpc = "rebuild" =>
        /\ slot = FanOutBefore[level] + branch
        /\ level < Levels => branch <= FanOut[level + 1]
        /\ level = Levels => branch = 0
        /\ \A s \in Slot : cache[s] # NoEntry <=> s < slot
    /\ \A s \in Filled : s = PlaceOf(cache[s].key) /\ OfList(cache[s].key)
    /\ wpc \in {"rebuild", "top", "get"} => \A s \in Filled : cache[s].key.seq = req.key.seq

(* The levels the rebuild walks through hold what the list says.           *)
LEMMA LevelSums ==
    ASSUME NEW l \in 0..Levels
    PROVE  /\ FanOutBefore[0] = 0
           /\ FanOutBefore[l] \in Nat
           /\ FanOutBefore[l] <= MqLen
           /\ l < Levels => /\ FanOut[l + 1] \in 0..VocabSize
                            /\ FanOutBefore[l + 1] = FanOutBefore[l] + FanOut[l + 1]
                            /\ FanOutBefore[l + 1] <= MqLen
<1>. USE ConfigAssumption
<1>1. Levels \in Nat /\ Levels <= K + 1 /\ Levels <= Len(FanOut)
    BY DEF Levels
<1>2. l \in 0..(K + 1)
    BY <1>1
<1>3. FanOutBefore[0] = 0 /\ FanOutBefore[l] \in Nat /\ FanOutBefore[l] <= MqLen
    BY <1>2, FanOutSums, FanOutBounds DEF Sums
<1>4. ASSUME l < Levels
      PROVE  /\ FanOut[l + 1] \in 0..VocabSize
             /\ FanOutBefore[l + 1] = FanOutBefore[l] + FanOut[l + 1]
             /\ FanOutBefore[l + 1] <= MqLen
    <2>1. l + 1 \in 1..(K + 1) /\ l + 1 \in 1..Len(FanOut) /\ (l + 1) - 1 = l
        BY <1>1, <1>4
    <2>2. PaddedFanOut[l + 1] = FanOut[l + 1]
        BY <2>1 DEF PaddedFanOut
    <2>3. FanOutBefore[l + 1] = FanOutBefore[(l + 1) - 1] + PaddedFanOut[l + 1]
        BY <2>1, FanOutSums DEF Sums
    <2>4. FanOutBefore[l + 1] <= MqLen
        BY <2>1, FanOutBounds
    <2>5. FanOut[l + 1] \in 0..VocabSize
        BY <2>1
    <2>. QED
        BY <2>1, <2>2, <2>3, <2>4, <2>5
<1>. QED
    BY <1>3, <1>4

LEMMA StepRound == RoundInv /\ [WorkerNext]_workerVars => RoundInv'
<1>. SUFFICES ASSUME RoundInv, [WorkerNext]_workerVars PROVE RoundInv'
    OBVIOUS
<1>1. WorkerTypeOK /\ WorkerTypeOK'
    BY WorkerStepTypes DEF RoundInv
<1>2. level \in 0..Levels /\ Levels \in Nat /\ branch \in Nat /\ slot \in Nat /\ DOMAIN cache = Slot
    BY <1>1, LevelsBound DEF WorkerTypeOK, Cache
<1>3. CASE \/ UNCHANGED workerVars \/ LoopTop \/ PollEmpty \/ ModelRaises
           \/ TestContext \/ ScoreContext \/ ClientStops \/ ClientReceives \/ (\E r \in Request : ClientSubmits(r))
           \/ (\E c \in Context : ClientSetsContext(c))
    BY <1>1, <1>3 DEF RoundInv, Filled, LoopTop, PollEmpty, ModelRaises, TestContext,
                      ScoreContext, ClientStops, ClientReceives,
                      ClientSubmits, ClientSetsContext, workerVars, threadVars
<1>4. CASE TakeRequest
    BY <1>1, <1>4 DEF RoundInv, Filled, TakeRequest
<1>5. CASE HandleRequest
    <2>1. \A s \in Slot : cache'[s] = NoEntry
        BY <1>2, <1>5 DEF HandleRequest, Reset
    <2>2. level' = 0 /\ branch' = 0 /\ slot' = 0
        BY <1>5 DEF HandleRequest
    <2>3. FanOutBefore[0] = 0 /\ (0 < Levels => FanOut[1] \in 0..VocabSize)
        BY LevelSums, LevelsBound
    <2>4. \A s \in Slot : ~ (s < 0)
        BY DEF Slot
    <2>. QED
        BY <1>1, <2>1, <2>2, <2>3, <2>4 DEF RoundInv, Filled
<1>6. CASE InsertBranch
    <2>1. /\ wpc = "rebuild" /\ wpc' = "rebuild" /\ level < Levels /\ branch < FanOut[level + 1]
          /\ cache' = [cache EXCEPT ![slot] = [key |-> BranchKey, tokens |-> Speculate(BranchKey)]]
          /\ slot' = slot + 1 /\ branch' = branch + 1 /\ level' = level /\ req' = req
        BY <1>6 DEF InsertBranch, InRow, Insert
    <2>2. /\ FanOut[level + 1] \in 0..VocabSize
          /\ FanOutBefore[level] \in Nat
          /\ FanOutBefore[level + 1] = FanOutBefore[level] + FanOut[level + 1]
          /\ FanOutBefore[level + 1] <= MqLen
        BY <1>2, <2>1, LevelSums
    <2>3. slot = FanOutBefore[level] + branch /\ \A s \in Slot : cache[s] # NoEntry <=> s < slot
        BY <2>1 DEF RoundInv
    <2>4. slot \in Slot
        <3>1. slot < MqLen
            BY <1>2, <2>1, <2>2, <2>3, FanOutBounds
        <3>. QED
            BY <1>2, <3>1, FanOutBounds DEF Slot, NumBranches
    <2>5. BranchKey \in Key /\ BranchKey.acc = level /\ BranchKey.recovery = branch
          /\ BranchKey.seq = req.key.seq
        <3>1. BranchKey \in Key
            BY <1>1, <2>1, BranchKeyType
        <3>2. req.key \in Key
            BY <1>1 DEF WorkerTypeOK, Request
        <3>. QED
            BY <3>1, <3>2 DEF BranchKey, Candidate, Key
    <2>6. /\ cache'[slot].key = BranchKey /\ cache'[slot] # NoEntry
          /\ \A s \in Slot : s # slot => cache'[s] = cache[s]
        <3>1. cache'[slot] = [key |-> BranchKey, tokens |-> Speculate(BranchKey)]
            BY <1>2, <2>1, <2>4
        <3>2. cache'[slot] \in Entry
            BY <1>1, <2>5, <3>1, SpeculateType DEF Entry
        <3>. QED
            BY <1>2, <2>1, <3>1, <3>2, CacheAssumption
    <2>7. \A s \in Slot : cache'[s] # NoEntry <=> s < slot'
        <3>1. \A s \in Slot : s \in Nat
            BY DEF Slot
        <3>. QED
            BY <1>2, <2>1, <2>3, <2>6, <3>1
    <2>8. \A s \in Filled' : /\ s = PlaceOf(cache'[s].key) /\ OfList(cache'[s].key)
                             /\ cache'[s].key.seq = req'.key.seq
        BY <2>1, <2>3, <2>5, <2>6 DEF RoundInv, Filled, PlaceOf, OfList
    <2>9. slot' = FanOutBefore[level'] + branch' /\ branch' <= FanOut[level' + 1] /\ level' # Levels
        BY <1>2, <2>1, <2>2, <2>3
    <2>. QED
        BY <1>1, <2>1, <2>7, <2>8, <2>9 DEF RoundInv
<1>7. CASE NextLevel
    <2>1. /\ wpc = "rebuild" /\ wpc' = "rebuild" /\ level < Levels /\ branch = FanOut[level + 1]
          /\ cache' = cache /\ slot' = slot /\ branch' = 0 /\ level' = level + 1 /\ req' = req
        BY <1>7 DEF NextLevel
    <2>2. /\ FanOutBefore[level] \in Nat /\ FanOut[level + 1] \in 0..VocabSize
          /\ FanOutBefore[level + 1] = FanOutBefore[level] + FanOut[level + 1]
        BY <1>2, <2>1, LevelSums
    <2>3. slot' = FanOutBefore[level'] + branch'
        BY <1>2, <2>1, <2>2 DEF RoundInv
    <2>4. level' < Levels => 0 <= FanOut[level' + 1]
        <3>1. level' \in 0..Levels
            BY <1>2, <2>1
        <3>. QED
            BY <3>1, LevelSums
    <2>. QED
        BY <1>1, <2>1, <2>3, <2>4 DEF RoundInv, Filled
<1>8. CASE Respond
    BY <1>1, <1>8 DEF RoundInv, Filled, Respond
<1>. QED
    BY <1>3, <1>4, <1>5, <1>6, <1>7, <1>8 DEF WorkerNext, ThreadStep

LEMMA RoundInvariance == WorkerSpec => []RoundInv
<1>1. mode \in DecodeMode /\ (\E started \in BOOLEAN : WorkerInit(started)) => RoundInv
    <2>. SUFFICES ASSUME mode \in DecodeMode, NEW started \in BOOLEAN, WorkerInit(started)
                  PROVE  RoundInv
        OBVIOUS
    <2>1. wpc # "rebuild" /\ Filled = {}
        BY DEF WorkerInit, Create, Filled
    <2>. QED
        BY <2>1, WorkerInitTypes DEF RoundInv
<1>. QED
    BY <1>1, StepRound, PTL DEF WorkerSpec

(* While it is rebuilt, the table is filled from slot 0 without a gap.     *)
LEMMA RoundFills ==
    ASSUME RoundInv, wpc = "rebuild"
    PROVE  Filled = 0..(slot - 1)
<1>1. level \in 0..Levels /\ branch \in Nat /\ slot \in Nat /\ Levels \in Nat
    BY LevelsBound DEF RoundInv, WorkerTypeOK
<1>2. slot <= MqLen
    <2>1. CASE level < Levels
        BY <1>1, <2>1, LevelSums, FanOutBounds DEF RoundInv
    <2>2. CASE level = Levels
        BY <1>1, <2>2, LevelSums, FanOutBounds DEF RoundInv
    <2>. QED
        BY <1>1, <2>1, <2>2
<1>3. \A s : s \in Slot /\ s < slot <=> s \in 0..(slot - 1)
    BY <1>1, <1>2, FanOutBounds DEF Slot, NumBranches
<1>. QED
    BY <1>3 DEF RoundInv, Filled

(* No branch of the rebuild is lost at the table's end or doubled, and the *)
(* table never mixes sequences (_rebuild_cache).                           *)
THEOREM CacheIsOneRoundsMapHolds == WorkerSpec => []CacheIsOneRoundsMap
<1>1. RoundInv => CacheIsOneRoundsMap
    <2>. SUFFICES ASSUME RoundInv PROVE CacheIsOneRoundsMap
        OBVIOUS
    <2>1. wpc = "rebuild" => Filled = 0..(slot - 1)
        BY RoundFills
    <2>2. \A s, t \in Filled : cache[s].key = cache[t].key => s = t
        BY DEF RoundInv
    <2>3. wpc \in {"rebuild", "top", "get"} => \A s \in Filled : cache[s].key.seq = req.key.seq
        BY DEF RoundInv
    <2>. QED
        BY <2>1, <2>2, <2>3, Zenon DEF CacheIsOneRoundsMap, Filled
<1>. QED
    BY <1>1, RoundInvariance, PTL

-----------------------------------------------------------------------------
(* The rebuild lays out what expand_fanout_branches does.                  *)

LEMMA FromOne ==
    ASSUME NEW n \in Nat, NEW T, 1 \in T, \A i \in 2..n : i - 1 \in T => i \in T
    PROVE  \A i \in 1..n : i \in T
<1>1. 0 \in T \cup {0}
    OBVIOUS
<1>2. ASSUME NEW i \in 1..n, i - 1 \in T \cup {0} PROVE i \in T \cup {0}
    BY <1>2
<1>3. \A i \in 0..n : i \in T \cup {0}
    BY <1>1, <1>2, UpTo
<1>. QED
    BY <1>3

(* FlattenSeq's recursive function. *)
IsFlat(f, ss) == f = [i \in 1..Len(ss) |-> IF i = 1 THEN ss[i] ELSE f[i - 1] \o ss[i]]

Flattens(f, ss) ==
    /\ f[1] = ss[1]
    /\ \A i \in 2..Len(ss) : f[i] = f[i - 1] \o ss[i]

LEMMA FlattenUnfold ==
    ASSUME NEW S, NEW ss \in Seq(Seq(S)), ss # <<>>
    PROVE  \E f \in [1..Len(ss) -> Seq(S)] : Flattens(f, ss) /\ FlattenSeq(ss) = f[Len(ss)]
<1>. DEFINE n == Len(ss)
            m == n - 1
            V == Seq(S)
            base == ss[1]
            step == [i \in 1..m |-> [v \in V |-> v \o ss[i + 1]]]
            flat == CHOOSE f : IsFlat(f, ss)
<1>1. n \in Nat \ {0} /\ m \in Nat /\ base \in V /\ \A i \in 1..m : ss[i + 1] \in V
    OBVIOUS
<1>2. step \in [1..m -> [V -> V]]
    <2>1. \A i \in 1..m, v \in V : v \o ss[i + 1] \in V
        BY <1>1, ConcatProperties
    <2>. QED
        BY <2>1
<1>3. \A i \in 1..m, v \in V : step[i][v] = v \o ss[i + 1]
    OBVIOUS
<1>4. FlattenSeq(ss) = flat[n]
    BY <1>1 DEF FlattenSeq, IsFlat
<1>. HIDE DEF step, flat, base, V
<1>5. PICK h : Solves(h, m, V, base, step)
    BY ONLY <1>1, <1>2, RecurrenceHasSolution
<1>. DEFINE f == [i \in 1..n |-> h[i - 1]]
<1>6. IsFlat(f, ss)
    <2>. SUFFICES ASSUME NEW i \in 1..n
                  PROVE  f[i] = IF i = 1 THEN ss[i] ELSE f[i - 1] \o ss[i]
        BY DEF IsFlat
    <2>1. CASE i = 1
        BY <2>1, <1>5 DEF Solves, base
    <2>2. CASE i # 1
        <3>1. i - 1 \in 1..m /\ (i - 1) + 1 = i /\ i - 1 \in 1..n
            BY <2>2, <1>1
        <3>2. h[(i - 1) - 1] \in V /\ h[i - 1] = step[i - 1][h[(i - 1) - 1]]
            <4>1. \A k \in 1..m : h[k - 1] \in V /\ h[k] = step[k][h[k - 1]]
                <5>1. m \in Nat
                    BY <1>1
                <5>. HIDE DEF m, n, f
                <5>. QED
                    BY ONLY <5>1, <1>5 DEF Solves
            <4>. QED
                BY ONLY <4>1, <3>1
        <3>3. h[i - 1] = h[(i - 1) - 1] \o ss[i]
            BY <3>1, <3>2, <1>3
        <3>. QED
            BY <3>1, <3>3, <2>2
    <2>. QED
        BY <2>1, <2>2
<1>7. IsFlat(flat, ss)
    <2>. HIDE DEF f
    <2>. QED
        BY <1>6 DEF flat
<1>8. flat = [i \in 1..n |-> flat[i]] /\ flat[1] = base
    <2>1. 1 \in 1..n
        BY <1>1
    <2>2. flat = [i \in 1..n |-> IF i = 1 THEN ss[i] ELSE flat[i - 1] \o ss[i]]
        BY <1>7 DEF IsFlat
    <2>3. flat = [i \in 1..n |-> flat[i]]
        BY ONLY <2>2, Zenon
    <2>4. flat[1] = IF 1 = 1 THEN ss[1] ELSE flat[1 - 1] \o ss[1]
        BY ONLY <2>1, <2>2, Zenon
    <2>. QED
        BY <2>3, <2>4 DEF base
<1>9. ASSUME NEW i \in 2..n PROVE flat[i] = flat[i - 1] \o ss[i]
    <2>1. i \in 1..n /\ i # 1
        BY <1>1
    <2>2. \A l \in 1..n : flat[l] = IF l = 1 THEN ss[l] ELSE flat[l - 1] \o ss[l]
        BY <1>7 DEF IsFlat
    <2>. QED
        BY <2>1, <2>2
<1>10. \A i \in 1..n : flat[i] \in V
    <2>. DEFINE T == {i \in 1..n : flat[i] \in V}
    <2>1. 1 \in T
        BY <1>1, <1>8
    <2>2. ASSUME NEW i \in 2..n, i - 1 \in T PROVE i \in T
        <3>1. flat[i - 1] \in V /\ ss[i] \in V
            BY <2>2, <1>1 DEF V
        <3>2. flat[i - 1] \o ss[i] \in V
            BY <3>1, ConcatProperties DEF V
        <3>3. i \in 1..n
            BY <1>1
        <3>4. flat[i] = flat[i - 1] \o ss[i]
            BY ONLY <1>9, i \in 2..n
        <3>. QED
            BY ONLY <3>2, <3>3, <3>4
    <2>3. \A i \in 1..n : i \in T
        <3>. HIDE DEF T
        <3>. QED
            BY <1>1, <2>1, <2>2, FromOne
    <2>. QED
        BY <2>3
<1>11. flat \in [1..n -> V]
    BY <1>8, <1>10
<1>. QED
    BY <1>4, <1>8, <1>9, <1>11 DEF Flattens, base, V

(* Sequences one after the other, the a-th from place sum[a - 1] on.       *)
LaidOut(q, ss, n, sum) ==
    /\ Len(q) = sum[n]
    /\ \A a \in 1..n : sum[a - 1] \in Nat /\ sum[a - 1] + Len(ss[a]) <= Len(q)
    /\ \A a \in 1..n : \A k \in 1..Len(ss[a]) : q[sum[a - 1] + k] = ss[a][k]

LEMMA PlaceWithin ==
    ASSUME NEW x \in Nat, NEW y \in Nat, NEW z \in Nat, NEW w \in Nat, NEW k \in 1..y, x + y <= z
    PROVE  x + k \in 1..(z + w) /\ x + k <= z
OBVIOUS

LEMMA PlaceAfter ==
    ASSUME NEW z \in Nat, NEW w \in Nat, NEW k \in 1..w
    PROVE  z + k \in 1..(z + w) /\ ~ (z + k <= z) /\ (z + k) - z = k
OBVIOUS

LEMMA LaidOutStep ==
    ASSUME NEW S, NEW ss \in Seq(Seq(S)), NEW sum, sum[0] = 0,
           \A i \in 1..Len(ss) : sum[i] = sum[i - 1] + Len(ss[i]),
           NEW i \in 2..Len(ss), NEW p \in Seq(S), LaidOut(p, ss, i - 1, sum)
    PROVE  p \o ss[i] \in Seq(S) /\ LaidOut(p \o ss[i], ss, i, sum)
<1>. DEFINE t == ss[i]
            q == p \o t
<1>1. t \in Seq(S) /\ Len(p) = sum[i - 1] /\ Len(p) \in Nat /\ Len(t) \in Nat
    <2>1. t \in Seq(S)
        BY ONLY ss \in Seq(Seq(S)), i \in 2..Len(ss)
    <2>2. Len(p) = sum[i - 1]
        BY ONLY LaidOut(p, ss, i - 1, sum) DEF LaidOut
    <2>3. Len(p) \in Nat /\ Len(t) \in Nat
        BY ONLY <2>1, p \in Seq(S)
    <2>. QED
        BY ONLY <2>1, <2>2, <2>3
<1>2. \A a \in 1..i : ss[a] \in Seq(S) /\ Len(ss[a]) \in Nat
    OBVIOUS
<1>3. sum[i] = sum[i - 1] + Len(t)
    OBVIOUS
<1>. HIDE DEF t
<1>4. /\ q \in Seq(S) /\ Len(q) = Len(p) + Len(t)
      /\ \A k \in 1..(Len(p) + Len(t)) : q[k] = IF k <= Len(p) THEN p[k] ELSE t[k - Len(p)]
    BY ONLY <1>1, p \in Seq(S), ConcatProperties
<1>. HIDE DEF q
<1>5. ASSUME NEW a \in 1..i
      PROVE  sum[a - 1] \in Nat /\ sum[a - 1] + Len(ss[a]) <= Len(q)
    <2>1. CASE a = i
        BY <2>1, <1>1, <1>4 DEF t
    <2>2. CASE a # i
        <3>1. a \in 1..(i - 1)
            BY <2>2
        <3>2. sum[a - 1] \in Nat /\ sum[a - 1] + Len(ss[a]) <= Len(p)
            BY <3>1 DEF LaidOut
        <3>3. Len(ss[a]) \in Nat /\ Len(p) \in Nat /\ Len(t) \in Nat /\ Len(q) = Len(p) + Len(t)
            BY <1>1, <1>2, <1>4
        <3>. QED
            BY ONLY <3>2, <3>3
    <2>. QED
        BY <2>1, <2>2
<1>6. ASSUME NEW a \in 1..i, NEW k \in 1..Len(ss[a])
      PROVE  q[sum[a - 1] + k] = ss[a][k]
    <2>1. CASE a = i
        <3>1. ss[a] = t /\ k \in 1..Len(t) /\ sum[a - 1] = Len(p)
            BY <2>1, <1>1 DEF t
        <3>. USE <1>1
        <3>2. Len(p) + k \in 1..(Len(p) + Len(t)) /\ ~ (Len(p) + k <= Len(p)) /\ (Len(p) + k) - Len(p) = k
            BY ONLY <3>1, Len(p) \in Nat, Len(t) \in Nat, PlaceAfter
        <3>3. q[Len(p) + k] = t[k]
            BY ONLY <3>2, <1>4
        <3>. QED
            BY ONLY <3>1, <3>3
    <2>2. CASE a # i
        <3>1. a \in 1..(i - 1)
            BY <2>2
        <3>2. /\ sum[a - 1] \in Nat /\ sum[a - 1] + Len(ss[a]) <= Len(p)
              /\ p[sum[a - 1] + k] = ss[a][k]
            BY <3>1 DEF LaidOut
        <3>3. sum[a - 1] + k \in 1..(Len(p) + Len(t)) /\ sum[a - 1] + k <= Len(p)
            <4>1. Len(ss[a]) \in Nat /\ Len(p) \in Nat /\ Len(t) \in Nat
                BY <1>1, <1>2
            <4>. QED
                BY ONLY <4>1, <3>2, k \in 1..Len(ss[a]), PlaceWithin
        <3>4. q[sum[a - 1] + k] = p[sum[a - 1] + k]
            BY ONLY <3>3, <1>4
        <3>. QED
            BY ONLY <3>2, <3>4
    <2>. QED
        BY <2>1, <2>2
<1>7. Len(q) = sum[i]
    BY <1>1, <1>3, <1>4
<1>8. LaidOut(q, ss, i, sum)
    BY <1>5, <1>6, <1>7 DEF LaidOut
<1>. QED
    BY <1>4, <1>8 DEF q, t

LEMMA FlattenLaysOut ==
    ASSUME NEW S, NEW ss \in Seq(Seq(S)), NEW sum, sum[0] = 0,
           \A i \in 1..Len(ss) : sum[i] = sum[i - 1] + Len(ss[i])
    PROVE  FlattenSeq(ss) \in Seq(S) /\ LaidOut(FlattenSeq(ss), ss, Len(ss), sum)
<1>. DEFINE n == Len(ss)
<1>1. CASE ss = <<>>
    <2>1. FlattenSeq(ss) = <<>> /\ n = 0
        BY <1>1 DEF FlattenSeq
    <2>. QED
        BY <2>1 DEF LaidOut
<1>2. CASE ss # <<>>
    <2>1. n \in Nat \ {0} /\ 1 \in 1..n /\ ss[1] \in Seq(S)
        BY <1>2
    <2>2. PICK f \in [1..n -> Seq(S)] : Flattens(f, ss) /\ FlattenSeq(ss) = f[n]
        BY <1>2, FlattenUnfold
    <2>. DEFINE T == {i \in 1..n : LaidOut(f[i], ss, i, sum)}
    <2>3. 1 \in T
        <3>1. f[1] = ss[1] /\ sum[1] = Len(ss[1]) /\ Len(ss[1]) \in Nat
            <4>1. sum[1] = sum[1 - 1] + Len(ss[1])
                BY <2>1
            <4>. QED
                BY <4>1, <2>1, <2>2 DEF Flattens
        <3>2. LaidOut(f[1], ss, 1, sum)
            BY <3>1, <2>1 DEF LaidOut
        <3>. QED
            BY <3>2, <2>1
    <2>4. ASSUME NEW i \in 2..n, i - 1 \in T PROVE i \in T
        <3>1. f[i - 1] \in Seq(S) /\ LaidOut(f[i - 1], ss, i - 1, sum)
            BY <2>4
        <3>2. LaidOut(f[i - 1] \o ss[i], ss, i, sum)
            BY <3>1, LaidOutStep
        <3>3. f[i] = f[i - 1] \o ss[i]
            BY <2>2 DEF Flattens
        <3>. QED
            <4>1. i \in 1..n
                BY <2>1
            <4>. QED
                BY <3>2, <3>3, <4>1
    <2>5. n \in T
        <3>1. \A i \in 1..n : i \in T
            <4>. HIDE DEF T
            <4>. QED
                BY <2>1, <2>3, <2>4, FromOne
        <3>. QED
            BY <3>1, <2>1
    <2>6. LaidOut(f[n], ss, n, sum)
        BY <2>5
    <2>7. f[n] \in Seq(S)
        <3>1. n \in 1..n
            BY ONLY <2>1
        <3>. QED
            BY ONLY <3>1, f \in [1..n -> Seq(S)]
    <2>. QED
        BY ONLY <2>2, <2>6, <2>7
<1>. QED
    BY <1>1, <1>2

LEMMA SingleRow ==
    ASSUME NEW S, NEW e \in S
    PROVE  /\ [b \in 1..1 |-> e] \in Seq(S)
           /\ Len([b \in 1..1 |-> e]) = 1
           /\ [b \in 1..1 |-> e][1] = e
<1>1. [b \in 1..1 |-> e] \in [1..1 -> S]
    OBVIOUS
<1>. QED
    BY <1>1

(* The rows of the list: a level's candidates after those of the levels    *)
(* before it.                                                              *)
LEMMA FanOutRows ==
    ASSUME NEW key \in Key, NEW a \in 0..(Levels - 1), NEW f \in 0..(FanOut[a + 1] - 1)
    PROVE  ExpandFanout(<<key>>, SubSeq(FanOut, 1, Levels),
                        <<[i \in 1..VocabSize |-> Candidate(i - 1)]>>)[FanOutBefore[a] + f + 1]
               = BuildBranchKey(key.seq, a, f)
<1>. DEFINE bases == <<key>>
            fan == SubSeq(FanOut, 1, Levels)
            candidates == <<[i \in 1..VocabSize |-> Candidate(i - 1)]>>
            Blocks(l) == [i \in 1..fan[l + 1] |-> BranchBlock(bases, l, i - 1, candidates)]
            Level(l) == FlattenSeq(Blocks(l))
            levels == [i \in 1..Len(fan) |-> Level(i - 1)]
            keys == FlattenSeq(levels)
<1>1. ExpandFanout(bases, fan, candidates) = IF keys = <<>> THEN bases ELSE keys
    BY DEF ExpandFanout
<1>2. Levels \in Nat /\ \A l \in 0..(Levels - 1) : /\ l \in 0..K /\ l \in 0..Levels /\ l < Levels
                                                  /\ l + 1 \in 1..Len(FanOut)
    BY LevelsBound
<1>3. /\ Len(fan) = Levels
      /\ \A l \in 0..(Levels - 1) : fan[l + 1] = FanOut[l + 1] /\ FanOut[l + 1] \in 0..VocabSize
    <2>1. \A i \in 1..Levels : FanOut[i] \in 0..VocabSize
        <3>. SUFFICES ASSUME NEW i \in 1..Levels PROVE FanOut[i] \in 0..VocabSize
            OBVIOUS
        <3>1. i - 1 \in 0..(Levels - 1) /\ (i - 1) + 1 = i
            BY <1>2
        <3>2. i \in 1..Len(FanOut)
            BY <3>1, <1>2
        <3>. QED
            BY <3>2, ConfigAssumption
    <2>2. /\ Len(fan) = IF 1 <= Levels THEN Levels - 1 + 1 ELSE 0
          /\ \A i \in 1..(Levels - 1 + 1) : fan[i] = FanOut[1 + i - 1]
        BY <2>1, <1>2, SubSeqProperties
    <2>3. Len(fan) = Levels /\ \A i \in 1..Levels : fan[i] = FanOut[i]
        BY <2>2, <1>2
    <2>. QED
        BY <2>1, <2>3, <1>2
<1>. HIDE DEF fan
<1>4. ASSUME NEW l \in 0..(Levels - 1), NEW c \in 0..(VocabSize - 1)
      PROVE  LET block == BranchBlock(bases, l, c, candidates)
             IN  block \in Seq(Key) /\ Len(block) = 1 /\ block[1] = BuildBranchKey(key.seq, l, c)
    <2>1. BuildBranchKey(key.seq, l, c) \in Key
        BY <1>2 DEF BuildBranchKey, Key, Token
    <2>2. /\ Len(bases) = 1 /\ bases[1] = key
          /\ Len(candidates[1]) = VocabSize /\ candidates[1][c + 1] = c
        BY ConfigAssumption DEF Candidate
    <2>3. BranchBlock(bases, l, c, candidates) = [b \in 1..1 |-> BuildBranchKey(key.seq, l, c)]
        <3>1. c < Len(candidates[1]) /\ 1..Len(bases) = 1..1
            BY <2>2, ConfigAssumption
        <3>. HIDE DEF bases, candidates
        <3>2. \A b \in 1..1 :
                  BuildBranchKey(bases[b].seq, l,
                                 IF c < Len(candidates[b]) THEN candidates[b][c + 1] ELSE bases[b].recovery)
                      = BuildBranchKey(key.seq, l, c)
            BY <3>1, <2>2
        <3>. QED
            BY ONLY <3>1, <3>2 DEF BranchBlock
    <2>. HIDE DEF bases, candidates
    <2>. DEFINE block == BranchBlock(bases, l, c, candidates)
                row == BuildBranchKey(key.seq, l, c)
    <2>4. block = [b \in 1..1 |-> row] /\ row \in Key
        BY <2>1, <2>3
    <2>. HIDE DEF block, row
    <2>5. block \in Seq(Key) /\ Len(block) = 1 /\ block[1] = row
        BY ONLY <2>4, SingleRow
    <2>. QED
        BY <2>5 DEF block, row
<1>. HIDE DEF candidates, bases
<1>5. ASSUME NEW l \in 0..(Levels - 1)
      PROVE  /\ Level(l) \in Seq(Key) /\ Len(Level(l)) = FanOut[l + 1]
             /\ \A c \in 0..(FanOut[l + 1] - 1) : Level(l)[c + 1] = BuildBranchKey(key.seq, l, c)
    <2>. DEFINE n == FanOut[l + 1]
                ss == Blocks(l)
                sum == [i \in 0..n |-> i]
    <2>1. n \in Nat /\ n <= VocabSize /\ fan[l + 1] = n
        BY <1>3, ConfigAssumption
    <2>2. \A i \in 1..n : i - 1 \in 0..(VocabSize - 1)
        BY <2>1, ConfigAssumption
    <2>3. /\ ss \in Seq(Seq(Key)) /\ Len(ss) = n
          /\ \A i \in 1..n : /\ Len(ss[i]) = 1
                             /\ ss[i][1] = BuildBranchKey(key.seq, l, i - 1)
        <3>1. \A i \in 1..n : /\ BranchBlock(bases, l, i - 1, candidates) \in Seq(Key)
                              /\ Len(BranchBlock(bases, l, i - 1, candidates)) = 1
                              /\ BranchBlock(bases, l, i - 1, candidates)[1] = BuildBranchKey(key.seq, l, i - 1)
            BY <1>4, <2>2
        <3>2. ss = [i \in 1..n |-> BranchBlock(bases, l, i - 1, candidates)]
            BY <2>1
        <3>. QED
            BY ONLY <3>1, <3>2, <2>1
    <2>. HIDE DEF ss
    <2>. HIDE DEF n
    <2>4. sum[0] = 0 /\ \A i \in 1..Len(ss) : sum[i] = sum[i - 1] + Len(ss[i])
        <3>1. sum[0] = 0 /\ \A i \in 1..n : sum[i] = i /\ sum[i - 1] = i - 1
            BY <2>1
        <3>. HIDE DEF sum
        <3>2. \A i \in 1..n : sum[i] = sum[i - 1] + Len(ss[i])
            <4>. SUFFICES ASSUME NEW i \in 1..n PROVE sum[i] = sum[i - 1] + Len(ss[i])
                OBVIOUS
            <4>1. sum[i] = i /\ sum[i - 1] = i - 1
                BY ONLY <3>1, i \in 1..n
            <4>2. Len(ss[i]) = 1
                BY ONLY <2>3, i \in 1..n
            <4>. QED
                BY ONLY <4>1, <4>2, <2>1, i \in 1..n
        <3>. QED
            BY <3>1, <3>2, <2>3
    <2>. HIDE DEF sum
    <2>5. FlattenSeq(ss) \in Seq(Key) /\ LaidOut(FlattenSeq(ss), ss, n, sum)
        BY <2>3, <2>4, FlattenLaysOut
    <2>6. Len(FlattenSeq(ss)) = n
        BY <2>1, <2>5 DEF LaidOut, sum
    <2>7. ASSUME NEW c \in 0..(n - 1)
          PROVE  FlattenSeq(ss)[c + 1] = BuildBranchKey(key.seq, l, c)
        <3>1. c + 1 \in 1..n /\ (c + 1) - 1 = c /\ 1 \in 1..Len(ss[c + 1])
            <4>1. c + 1 \in 1..n /\ (c + 1) - 1 = c
                BY ONLY <2>1, c \in 0..(n - 1)
            <4>. QED
                BY <4>1, <2>3
        <3>2. FlattenSeq(ss)[sum[(c + 1) - 1] + 1] = ss[c + 1][1]
            BY <3>1, <2>5 DEF LaidOut
        <3>3. sum[c] = c
            BY <2>1 DEF sum
        <3>. QED
            BY <3>1, <3>2, <3>3, <2>3
    <2>. QED
        BY <2>5, <2>6, <2>7 DEF ss, n
<1>. HIDE DEF Level
<1>6. /\ levels \in Seq(Seq(Key)) /\ Len(levels) = Levels
      /\ \A i \in 1..Levels : levels[i] = Level(i - 1) /\ i - 1 \in 0..(Levels - 1)
    <2>1. \A i \in 1..Levels : i - 1 \in 0..(Levels - 1)
        BY <1>2
    <2>2. \A i \in 1..Levels : Level(i - 1) \in Seq(Key)
        BY <2>1, <1>5
    <2>3. levels = [i \in 1..Levels |-> Level(i - 1)]
        BY <1>3
    <2>. QED
        BY ONLY <1>2, <2>1, <2>2, <2>3
<1>. HIDE DEF levels
<1>7. /\ FanOutBefore[0] = 0
      /\ \A i \in 1..Len(levels) : FanOutBefore[i] = FanOutBefore[i - 1] + Len(levels[i])
    <2>1. FanOutBefore[0] = 0
        BY <1>2, LevelSums
    <2>2. ASSUME NEW i \in 1..Levels
          PROVE  FanOutBefore[i] = FanOutBefore[i - 1] + Len(levels[i])
        <3>1. i - 1 \in 0..(Levels - 1) /\ (i - 1) + 1 = i /\ i - 1 \in 0..Levels /\ i - 1 < Levels
            BY <1>2
        <3>2. FanOutBefore[(i - 1) + 1] = FanOutBefore[i - 1] + FanOut[(i - 1) + 1]
            BY <3>1, LevelSums
        <3>3. Len(levels[i]) = FanOut[(i - 1) + 1]
            BY <3>1, <1>5, <1>6
        <3>. QED
            BY <3>1, <3>2, <3>3
    <2>. QED
        BY <2>1, <2>2, <1>6
<1>8. keys \in Seq(Key) /\ LaidOut(keys, levels, Levels, FanOutBefore)
    BY <1>6, <1>7, FlattenLaysOut
<1>. HIDE DEF keys
<1>9. /\ a + 1 \in 1..Levels /\ (a + 1) - 1 = a /\ f \in Nat /\ levels[a + 1] = Level(a)
      /\ Len(Level(a)) = FanOut[a + 1] /\ f + 1 \in 1..FanOut[a + 1]
    <2>1. a + 1 \in 1..Levels /\ (a + 1) - 1 = a
        BY <1>2
    <2>2. FanOut[a + 1] \in Nat
        BY <1>3
    <2>. QED
        BY <2>1, <2>2, <1>5, <1>6
<1>10. /\ keys[FanOutBefore[a] + (f + 1)] = Level(a)[f + 1]
       /\ FanOutBefore[a] \in Nat /\ FanOutBefore[a] + FanOut[a + 1] <= Len(keys)
    <2>1. keys[FanOutBefore[(a + 1) - 1] + (f + 1)] = levels[a + 1][f + 1]
        BY <1>8, <1>9 DEF LaidOut
    <2>2. FanOutBefore[(a + 1) - 1] \in Nat /\ FanOutBefore[(a + 1) - 1] + Len(levels[a + 1]) <= Len(keys)
        BY <1>8, <1>9 DEF LaidOut
    <2>. QED
        BY <2>1, <2>2, <1>9
<1>11. keys # <<>>
    BY <1>8, <1>9, <1>10
<1>12. Level(a)[f + 1] = BuildBranchKey(key.seq, a, f)
    BY <1>5
<1>13. \A x \in Nat : x + (f + 1) = x + f + 1
    BY ONLY <1>9, <1>10
<1>. QED
    BY <1>1, <1>10, <1>11, <1>12, <1>13 DEF bases, candidates, fan

(* The two loops over levels and candidates, the rebuild's and             *)
(* expand_fanout_branches', count alike (_rebuild_cache, branch_prior.py). *)
THEOREM RebuildFollowsFanOutHolds == WorkerSpec => []RebuildFollowsFanOut
<1>1. RoundInv => RebuildFollowsFanOut
    <2>. DEFINE rows == ExpandFanout(<<req.key>>, SubSeq(FanOut, 1, Levels),
                                     <<[i \in 1..VocabSize |-> Candidate(i - 1)]>>)
    <2>. SUFFICES ASSUME RoundInv, wpc = "rebuild", NEW s \in 0..(slot - 1)
                  PROVE  cache[s].key = rows[s + 1]
        BY DEF RebuildFollowsFanOut
    <2>. DEFINE k == cache[s].key
    <2>1. s \in Filled
        BY RoundFills
    <2>2. k \in Key
        BY <2>1 DEF RoundInv, WorkerTypeOK, Cache, Filled, Entry
    <2>3. /\ s = FanOutBefore[k.acc] + k.recovery /\ k.acc < Levels
          /\ k.recovery < FanOut[k.acc + 1] /\ k.seq = req.key.seq
        BY <2>1 DEF RoundInv, PlaceOf, OfList
    <2>4. k = BuildBranchKey(k.seq, k.acc, k.recovery) /\ k.acc \in Nat /\ k.recovery \in Nat
        BY <2>2, ConfigAssumption DEF Key, BuildBranchKey, Token
    <2>5. req.key \in Key
        BY DEF RoundInv, WorkerTypeOK, Request
    <2>. HIDE DEF k
    <2>6. k.acc \in 0..(Levels - 1)
        BY <2>3, <2>4, LevelsBound
    <2>7. FanOut[k.acc + 1] \in Nat
        BY <2>6, LevelsBound, ConfigAssumption
    <2>8. k.recovery \in 0..(FanOut[k.acc + 1] - 1)
        BY <2>3, <2>4, <2>7
    <2>9. rows[FanOutBefore[k.acc] + k.recovery + 1] = BuildBranchKey(req.key.seq, k.acc, k.recovery)
        BY <2>5, <2>6, <2>8, FanOutRows
    <2>. HIDE DEF rows
    <2>. QED
        BY <2>3, <2>4, <2>9 DEF k
<1>. QED
    BY <1>1, RoundInvariance, PTL

-----------------------------------------------------------------------------
(* The requests of a queue that will be answered.                          *)

(* One more request after the keys gathered so far.                        *)
Keep(keys, r) == IF r.command = "SHUTDOWN" THEN keys ELSE Append(keys, r.key)

KeepStep(q) == [i \in 1..Len(q) |-> [keys \in Seq(Key) |-> Keep(keys, q[i])]]

IsServes(f, q) ==
    f = [i \in 0..Len(q) |->
            IF i = 0 THEN <<>>
            ELSE IF q[i].command = "SHUTDOWN" THEN f[i - 1]
            ELSE Append(f[i - 1], q[i].key)]

ServesOf(f, q) == Solves(f, Len(q), Seq(Key), <<>>, KeepStep(q))

LEMMA KeepType ==
    ASSUME NEW keys \in Seq(Key), NEW r \in Request
    PROVE  Keep(keys, r) \in Seq(Key)
<1>1. r.key \in Key
    BY DEF Request
<1>. QED
    BY <1>1, AppendProperties DEF Keep

LEMMA KeepStepType ==
    ASSUME NEW q \in Seq(Request)
    PROVE  /\ Len(q) \in Nat
           /\ KeepStep(q) \in [1..Len(q) -> [Seq(Key) -> Seq(Key)]]
           /\ \A i \in 1..Len(q), keys \in Seq(Key) : KeepStep(q)[i][keys] = Keep(keys, q[i])
<1>1. Len(q) \in Nat /\ \A i \in 1..Len(q) : q[i] \in Request
    BY ElementOfSeq
<1>2. \A i \in 1..Len(q), keys \in Seq(Key) : Keep(keys, q[i]) \in Seq(Key)
    BY <1>1, KeepType
<1>. QED
    BY <1>1, <1>2 DEF KeepStep

(* ServesIn is the last value of the recurrence.                           *)
LEMMA ServesSolved ==
    ASSUME NEW q \in Seq(Request)
    PROVE  \E f : ServesOf(f, q) /\ ServesIn(q) = f[Len(q)]
<1>. DEFINE g == CHOOSE f : IsServes(f, q)
<1>1. <<>> \in Seq(Key)
    BY EmptySeq
<1>2. PICK f : Solves(f, Len(q), Seq(Key), <<>>, KeepStep(q))
    BY <1>1, KeepStepType, RecurrenceHasSolution
<1>3. f \in [0..Len(q) -> Seq(Key)] /\ f[0] = <<>>
    BY <1>2 DEF Solves
<1>4. ASSUME NEW i \in 1..Len(q) PROVE f[i] = Keep(f[i - 1], q[i])
    <2>1. f[i] = KeepStep(q)[i][f[i - 1]] /\ f[i - 1] \in Seq(Key)
        BY <1>2, <1>3, KeepStepType DEF Solves
    <2>. QED
        BY <2>1, KeepStepType
<1>5. IsServes(f, q)
    <2>1. ASSUME NEW i \in 0..Len(q), i # 0
          PROVE  f[i] = IF q[i].command = "SHUTDOWN" THEN f[i - 1] ELSE Append(f[i - 1], q[i].key)
        <3>1. i \in 1..Len(q)
            BY <2>1, KeepStepType
        <3>. QED
            BY <3>1, <1>4 DEF Keep
    <2>. QED
        BY <1>3, <2>1 DEF IsServes
<1>6. IsServes(g, q)
    BY <1>5
<1>7. ServesIn(q) = g[Len(q)]
    BY DEF ServesIn, IsServes
<1>. HIDE DEF g
<1>8. g[0] = <<>> /\ \A i \in 1..Len(q) : g[i] = Keep(g[i - 1], q[i])
    <2>1. Len(q) \in Nat
        BY KeepStepType
    <2>2. \A i \in 0..Len(q) : g[i] =
            IF i = 0 THEN <<>>
            ELSE IF q[i].command = "SHUTDOWN" THEN g[i - 1]
            ELSE Append(g[i - 1], q[i].key)
        BY <1>6 DEF IsServes
    <2>3. 0 \in 0..Len(q) /\ \A i \in 1..Len(q) : i \in 0..Len(q) /\ i # 0
        BY <2>1
    <2>. QED
        BY <2>2, <2>3 DEF Keep
<1>9. Follows(g, Len(q), Seq(Key), <<>>, KeepStep(q))
    BY <1>8, KeepStepType DEF Follows
<1>10. Agree(f, g, Len(q))
    BY <1>1, <1>2, <1>9, KeepStepType, RecurrenceIsUnique
<1>11. Len(q) \in 0..Len(q)
    BY KeepStepType
<1>. QED
    BY <1>2, <1>7, <1>10, <1>11 DEF Agree, ServesOf

(* What a solution says, without the step function.                        *)
LEMMA ServesUnfold ==
    ASSUME NEW q \in Seq(Request), NEW f, ServesOf(f, q)
    PROVE  /\ f \in [0..Len(q) -> Seq(Key)]
           /\ f[0] = <<>>
           /\ \A i \in 1..Len(q) : f[i] = Keep(f[i - 1], q[i])
<1>1. f \in [0..Len(q) -> Seq(Key)] /\ f[0] = <<>>
    BY DEF Solves, ServesOf
<1>2. ASSUME NEW i \in 1..Len(q) PROVE f[i] = Keep(f[i - 1], q[i])
    <2>1. f[i] = KeepStep(q)[i][f[i - 1]]
        BY DEF Solves, ServesOf
    <2>2. i - 1 \in 0..Len(q)
        BY KeepStepType
    <2>3. f[i - 1] \in Seq(Key)
        BY <1>1, <2>2
    <2>. QED
        BY <2>1, <2>3, KeepStepType
<1>. QED
    BY <1>1, <1>2

(* Another function that follows the recurrence ends in the same keys.     *)
LEMMA ServesEnd ==
    ASSUME NEW q \in Seq(Request), NEW g, g[0] = <<>>,
           \A i \in 1..Len(q) : g[i - 1] \in Seq(Key) => g[i] = Keep(g[i - 1], q[i])
    PROVE  g[Len(q)] = ServesIn(q)
<1>1. PICK f : ServesOf(f, q) /\ ServesIn(q) = f[Len(q)]
    BY ServesSolved
<1>2. <<>> \in Seq(Key) /\ Len(q) \in 0..Len(q)
    BY EmptySeq, KeepStepType
<1>3. Follows(g, Len(q), Seq(Key), <<>>, KeepStep(q))
    BY KeepStepType DEF Follows
<1>4. Agree(f, g, Len(q))
    BY <1>1, <1>2, <1>3, KeepStepType, RecurrenceIsUnique DEF ServesOf
<1>. QED
    BY <1>1, <1>2, <1>4 DEF Agree

LEMMA ServesType ==
    ASSUME NEW q \in Seq(Request)
    PROVE  ServesIn(q) \in Seq(Key)
<1>1. PICK f : ServesOf(f, q) /\ ServesIn(q) = f[Len(q)]
    BY ServesSolved
<1>2. Len(q) \in 0..Len(q)
    BY KeepStepType
<1>. QED
    BY <1>1, <1>2, ServesUnfold

LEMMA ServesNone == ServesIn(<<>>) = <<>>
<1>1. <<>> \in Seq(Request) /\ Len(<<>>) = 0
    BY EmptySeq
<1>. DEFINE g == [i \in 0..0 |-> <<>>]
<1>2. g[Len(<<>>)] = ServesIn(<<>>)
    <2>1. g[0] = <<>> /\ \A i \in 1..Len(<<>>) : FALSE
        BY <1>1
    <2>. HIDE DEF g
    <2>. QED
        BY <1>1, <2>1, ServesEnd
<1>. QED
    BY <1>1, <1>2

(* A request put at the end is the last to be answered.                    *)
LEMMA ServesAppend ==
    ASSUME NEW q \in Seq(Request), NEW r \in Request
    PROVE  ServesIn(Append(q, r)) = Keep(ServesIn(q), r)
<1>. DEFINE a == Append(q, r)
<1>1. /\ a \in Seq(Request) /\ Len(a) = Len(q) + 1 /\ a[Len(q) + 1] = r
      /\ \A i \in 1..Len(q) : a[i] = q[i]
    BY AppendProperties
<1>. HIDE DEF a
<1>2. PICK f : ServesOf(f, a) /\ ServesIn(a) = f[Len(a)]
    BY <1>1, ServesSolved
<1>3. f[0] = <<>> /\ \A i \in 1..Len(a) : f[i] = Keep(f[i - 1], a[i])
    BY <1>1, <1>2, ServesUnfold
<1>4. Len(q) \in Nat
    BY KeepStepType
<1>5. f[Len(q)] = ServesIn(q)
    <2>1. \A i \in 1..Len(q) : f[i - 1] \in Seq(Key) => f[i] = Keep(f[i - 1], q[i])
        BY <1>1, <1>3, <1>4
    <2>. QED
        BY <1>3, <2>1, ServesEnd
<1>6. f[Len(a)] = Keep(f[Len(q)], r)
    <2>1. Len(a) \in 1..Len(a) /\ Len(a) - 1 = Len(q)
        BY <1>1, <1>4
    <2>. QED
        BY <1>1, <1>3, <2>1
<1>. QED
    BY <1>2, <1>5, <1>6 DEF a

LEMMA ConcatKeep ==
    ASSUME NEW p \in Seq(Key), NEW keys \in Seq(Key), NEW r \in Request
    PROVE  p \o Keep(keys, r) = Keep(p \o keys, r)
<1>1. r.key \in Key
    BY DEF Request
<1>2. p \o Append(keys, r.key) = Append(p \o keys, r.key)
    BY <1>1, ConcatAppend
<1>. QED
    BY <1>2 DEF Keep

(* What a queue's head adds comes first.                                   *)
LEMMA ServesTail ==
    ASSUME NEW q \in Seq(Request), q # <<>>
    PROVE  ServesIn(q) = Keep(<<>>, Head(q)) \o ServesIn(Tail(q))
<1>. DEFINE t == Tail(q)
            p == Keep(<<>>, Head(q))
<1>1. /\ Len(q) \in Nat \ {0} /\ Head(q) = q[1] /\ t \in Seq(Request) /\ Len(t) = Len(q) - 1
      /\ \A i \in 1..(Len(q) - 1) : t[i] = q[i + 1]
    BY HeadAndTail
<1>2. Head(q) \in Request
    BY HeadTailProperties
<1>3. p \in Seq(Key)
    BY <1>2, EmptySeq, KeepType
<1>. HIDE DEF t, p
<1>4. PICK f : ServesOf(f, t) /\ ServesIn(t) = f[Len(t)]
    BY <1>1, ServesSolved
<1>5. /\ f \in [0..Len(t) -> Seq(Key)] /\ f[0] = <<>>
      /\ \A i \in 1..Len(t) : f[i] = Keep(f[i - 1], t[i])
    BY <1>1, <1>4, ServesUnfold
<1>. DEFINE g == [i \in 0..Len(q) |-> IF i = 0 THEN <<>> ELSE p \o f[i - 1]]
<1>6. g[0] = <<>> /\ \A i \in 1..Len(q) : g[i] = p \o f[i - 1]
    BY <1>1
<1>7. ASSUME NEW i \in 1..Len(q) PROVE g[i] = Keep(g[i - 1], q[i])
    <2>1. CASE i = 1
        <3>1. g[i] = p \o f[0] /\ g[i - 1] = <<>> /\ q[i] = Head(q)
            <4>. HIDE DEF g
            <4>1. i - 1 = 0
                BY <2>1
            <4>. QED
                BY <1>1, <1>6, <2>1, <4>1
        <3>2. p \o <<>> = p
            BY <1>3, ConcatEmptySeq
        <3>. HIDE DEF g
        <3>. QED
            BY <1>5, <3>1, <3>2 DEF p
    <2>2. CASE i # 1
        <3>1. i - 1 \in 1..Len(q) /\ i - 1 \in 1..Len(t) /\ i - 1 \in 1..(Len(q) - 1) /\ (i - 1) + 1 = i
            BY <1>1, <2>2
        <3>2. PICK j \in 1..Len(t) : j = i - 1
            BY <3>1
        <3>3. j - 1 \in 0..Len(t) /\ t[j] = q[i]
            BY <1>1, <3>1, <3>2
        <3>4. g[i] = p \o f[j] /\ g[j] = p \o f[j - 1] /\ f[j] = Keep(f[j - 1], q[i])
            BY <1>5, <1>6, <3>1, <3>2, <3>3
        <3>5. f[j - 1] \in Seq(Key) /\ q[i] \in Request
            BY <1>5, <3>3, ElementOfSeq
        <3>6. p \o Keep(f[j - 1], q[i]) = Keep(p \o f[j - 1], q[i])
            BY ONLY <1>3, <3>5, ConcatKeep
        <3>. QED
            BY <3>2, <3>4, <3>6
    <2>. QED
        BY <2>1, <2>2
<1>8. g[Len(q)] = ServesIn(q)
    <2>. HIDE DEF g
    <2>. QED
        BY <1>6, <1>7, ServesEnd
<1>9. g[Len(q)] = p \o f[Len(t)]
    BY <1>1, <1>6
<1>. QED
    BY <1>4, <1>8, <1>9 DEF t, p

-----------------------------------------------------------------------------
(* The worker implements the first-in first-out service.                   *)

ForOf(q) == [i \in 1..Len(q) |-> q[i].for]

LEMMA ForOfType ==
    ASSUME NEW q \in Seq(Response)
    PROVE  /\ ForOf(q) \in Seq(Key) /\ Len(ForOf(q)) = Len(q)
           /\ \A i \in 1..Len(q) : ForOf(q)[i] = q[i].for
           /\ ForOf(q) = <<>> <=> q = <<>>
<1>1. Len(q) \in Nat /\ \A i \in 1..Len(q) : q[i].for \in Key
    <2>1. \A i \in 1..Len(q) : q[i] \in Response
        BY ElementOfSeq
    <2>. QED
        BY <2>1 DEF Response
<1>2. ForOf(q) \in Seq(Key) /\ Len(ForOf(q)) = Len(q) /\ \A i \in 1..Len(q) : ForOf(q)[i] = q[i].for
    BY <1>1 DEF ForOf
<1>. QED
    BY <1>2, EmptySeq

LEMMA ForOfAppend ==
    ASSUME NEW q \in Seq(Response), NEW r \in Response
    PROVE  ForOf(Append(q, r)) = Append(ForOf(q), r.for)
<1>. DEFINE a == Append(q, r)
            b == Append(ForOf(q), r.for)
<1>1. r.for \in Key
    BY DEF Response
<1>2. a \in Seq(Response) /\ Len(a) = Len(q) + 1 /\ a[Len(q) + 1] = r /\ \A i \in 1..Len(q) : a[i] = q[i]
    BY AppendProperties
<1>3. /\ b \in Seq(Key) /\ Len(b) = Len(q) + 1 /\ b[Len(q) + 1] = r.for
      /\ \A i \in 1..Len(q) : b[i] = q[i].for
    <2>1. ForOf(q) \in Seq(Key) /\ Len(ForOf(q)) = Len(q) /\ \A i \in 1..Len(q) : ForOf(q)[i] = q[i].for
        BY ForOfType
    <2>2. /\ b \in Seq(Key) /\ Len(b) = Len(ForOf(q)) + 1 /\ b[Len(ForOf(q)) + 1] = r.for
          /\ \A i \in 1..Len(ForOf(q)) : b[i] = ForOf(q)[i]
        BY <1>1, <2>1, AppendProperties
    <2>. QED
        BY <2>1, <2>2
<1>. HIDE DEF a, b
<1>4. ForOf(a) \in Seq(Key) /\ Len(ForOf(a)) = Len(a) /\ \A i \in 1..Len(a) : ForOf(a)[i] = a[i].for
    BY <1>2, ForOfType
<1>5. Len(q) \in Nat
    OBVIOUS
<1>6. ASSUME NEW i \in 1..Len(ForOf(a)) PROVE ForOf(a)[i] = b[i]
    <2>1. i = Len(q) + 1 \/ i \in 1..Len(q)
        BY <1>2, <1>4, <1>5
    <2>. QED
        BY <2>1, <1>2, <1>3, <1>4
<1>7. ForOf(a) = b
    BY <1>2, <1>3, <1>4, <1>6, SeqEqual
<1>. QED
    BY <1>7 DEF a, b

LEMMA ForOfTail ==
    ASSUME NEW q \in Seq(Response), q # <<>>
    PROVE  ForOf(Tail(q)) = Tail(ForOf(q)) /\ Head(ForOf(q)) = Head(q).for
<1>. DEFINE t == Tail(q)
            b == Tail(ForOf(q))
<1>1. /\ Len(q) \in Nat \ {0} /\ t \in Seq(Response) /\ Len(t) = Len(q) - 1 /\ Head(q) = q[1]
      /\ \A i \in 1..(Len(q) - 1) : t[i] = q[i + 1]
    BY HeadAndTail
<1>2. /\ ForOf(q) \in Seq(Key) /\ Len(ForOf(q)) = Len(q) /\ ForOf(q) # <<>>
      /\ \A i \in 1..Len(q) : ForOf(q)[i] = q[i].for
    BY ForOfType
<1>3. /\ b \in Seq(Key) /\ Len(b) = Len(q) - 1 /\ Head(ForOf(q)) = ForOf(q)[1]
      /\ \A i \in 1..(Len(q) - 1) : b[i] = ForOf(q)[i + 1]
    BY <1>2, HeadAndTail
<1>. HIDE DEF t, b
<1>4. ForOf(t) \in Seq(Key) /\ Len(ForOf(t)) = Len(t) /\ \A i \in 1..Len(t) : ForOf(t)[i] = t[i].for
    BY <1>1, ForOfType
<1>5. ASSUME NEW i \in 1..Len(ForOf(t)) PROVE ForOf(t)[i] = b[i]
    <2>1. i \in 1..(Len(q) - 1) /\ i + 1 \in 1..Len(q) /\ i \in 1..Len(t)
        BY <1>1, <1>4
    <2>. QED
        BY <2>1, <1>1, <1>2, <1>3, <1>4
<1>6. ForOf(t) = b
    BY <1>1, <1>3, <1>4, <1>5, SeqEqual
<1>7. 1 \in 1..Len(q)
    BY <1>1
<1>. QED
    BY <1>1, <1>2, <1>3, <1>6, <1>7 DEF t, b

(* What the thread has in hand is the answer to the request it took.       *)
ServiceInv == WorkerTypeOK /\ (wpc = "rebuild" => resp.for = req.key)

LEMMA StepInHand == ServiceInv /\ [WorkerNext]_workerVars => ServiceInv'
<1>. SUFFICES ASSUME ServiceInv, [WorkerNext]_workerVars PROVE ServiceInv'
    OBVIOUS
<1>1. WorkerTypeOK'
    BY WorkerStepTypes DEF ServiceInv
<1>2. CASE HandleRequest
    BY <1>1, <1>2 DEF HandleRequest, ServiceInv, Answer
<1>3. CASE ~ HandleRequest
    BY <1>1, <1>3
    DEF ServiceInv, WorkerNext, ThreadStep, LoopTop, PollEmpty, TakeRequest, TestContext,
        ScoreContext, InsertBranch, NextLevel, Respond, ModelRaises, ClientReceives, ClientStops, ClientSubmits, ClientSetsContext,
        workerVars, threadVars
<1>. QED
    BY <1>2, <1>3

LEMMA QueueTypes ==
    ASSUME WorkerTypeOK
    PROVE  /\ Answers = ForOf(respQ) /\ Answers \in Seq(Key)
           /\ InHand \in Seq(Key) /\ ServesIn(reqQ) \in Seq(Key) /\ Asked \in Seq(Key)
           /\ req.key \in Key
<1>1. reqQ \in Seq(Request) /\ respQ \in Seq(Response) /\ req \in Request
    BY DEF WorkerTypeOK
<1>2. req.key \in Key
    BY <1>1 DEF Request
<1>3. Answers = ForOf(respQ) /\ Answers \in Seq(Key)
    BY <1>1, ForOfType DEF Answers, ForOf
<1>4. InHand \in Seq(Key)
    BY <1>2, EmptySeq DEF InHand
<1>5. ServesIn(reqQ) \in Seq(Key)
    BY <1>1, ServesType
<1>. QED
    BY <1>2, <1>3, <1>4, <1>5, ConcatProperties DEF Asked

(* Taking a request from the queue moves it to the thread's hand, a        *)
(* SHUTDOWN to nowhere.                                                    *)
LEMMA TakeKeepsAsked ==
    ASSUME WorkerTypeOK, TakeRequest
    PROVE  Asked' = Asked
<1>1. /\ wpc = "get" /\ reqQ \in Seq(Request) /\ reqQ # <<>> /\ reqQ' = Tail(reqQ)
    BY DEF WorkerTypeOK, TakeRequest
<1>2. ServesIn(reqQ) = Keep(<<>>, Head(reqQ)) \o ServesIn(reqQ')
    BY <1>1, ServesTail
<1>3. InHand = <<>> /\ ServesIn(reqQ) \in Seq(Key)
    BY <1>1, QueueTypes DEF InHand
<1>4. Asked = ServesIn(reqQ)
    BY <1>3, ConcatEmptySeq DEF Asked
<1>5. InHand' = Keep(<<>>, Head(reqQ))
    <2>1. CASE Head(reqQ).command = "SHUTDOWN"
        BY <2>1 DEF TakeRequest, InHand, Keep
    <2>2. CASE Head(reqQ).command # "SHUTDOWN"
        BY <2>2 DEF TakeRequest, InHand, Keep
    <2>. QED
        BY <2>1, <2>2
<1>6. Asked' = InHand' \o ServesIn(reqQ')
    BY DEF Asked, ServesIn
<1>. QED
    BY <1>2, <1>4, <1>5, <1>6

(* The thread serves, or changes nothing the service shows.                *)
LEMMA ThreadServes ==
    ASSUME ServiceInv, ThreadStep \/ ModelRaises \/ UNCHANGED workerVars
    PROVE  Service!Serve \/ (Asked' = Asked /\ Answers' = Answers)
<1>1. /\ WorkerTypeOK /\ reqQ \in Seq(Request) /\ respQ \in Seq(Response)
      /\ Answers = ForOf(respQ) /\ ServesIn(reqQ) \in Seq(Key) /\ req.key \in Key
      /\ Answers' = ForOf(respQ')
    BY QueueTypes DEF ServiceInv, WorkerTypeOK, Answers, ForOf
<1>2. CASE \/ UNCHANGED workerVars \/ LoopTop \/ PollEmpty \/ TestContext \/ ScoreContext
           \/ HandleRequest \/ InsertBranch \/ NextLevel \/ ModelRaises
    <2>1. reqQ' = reqQ /\ respQ' = respQ
        BY <1>2 DEF LoopTop, PollEmpty, TestContext, ScoreContext, HandleRequest, InsertBranch, NextLevel,
                    ModelRaises, workerVars
    <2>2. InHand' = InHand
        BY <1>2 DEF InHand, LoopTop, PollEmpty, TestContext, ScoreContext, Drafting, InRow, HandleRequest,
                    InsertBranch, NextLevel, ModelRaises, workerVars, threadVars
    <2>3. Asked' = Asked
        BY <2>1, <2>2 DEF Asked, ServesIn
    <2>. QED
        BY <1>1, <2>1, <2>3
<1>3. CASE TakeRequest
    <2>1. respQ' = respQ
        BY <1>3 DEF TakeRequest
    <2>. QED
        BY <1>1, <1>3, <2>1, TakeKeepsAsked
<1>4. CASE Respond
    <2>1. /\ wpc = "rebuild" /\ wpc' = "top" /\ reqQ' = reqQ /\ respQ' = Append(respQ, resp)
          /\ resp \in Response /\ resp.for = req.key
        BY <1>1, <1>4 DEF Respond, ServiceInv, WorkerTypeOK
    <2>2. Answers' = Append(Answers, req.key)
        BY <1>1, <2>1, ForOfAppend
    <2>3. Asked = <<req.key>> \o ServesIn(reqQ)
        BY <2>1 DEF Asked, InHand
    <2>4. Asked # <<>> /\ Head(Asked) = req.key /\ Tail(Asked) = ServesIn(reqQ)
        BY <1>1, <2>3, ConcatHead
    <2>5. Asked' = ServesIn(reqQ)
        <3>1. InHand' = <<>>
            BY <2>1 DEF InHand
        <3>2. Asked' = InHand' \o ServesIn(reqQ)
            BY <2>1 DEF Asked, ServesIn
        <3>. QED
            BY <1>1, <3>1, <3>2, ConcatEmptySeq
    <2>. QED
        BY <2>2, <2>4, <2>5 DEF Service!Serve
<1>. QED
    BY <1>2, <1>3, <1>4 DEF ThreadStep

(* A response that is collected is the oldest, and leaves.                 *)
LEMMA ReceiveCollects ==
    ASSUME WorkerTypeOK, ClientReceives
    PROVE  Service!Collect /\ Head(Answers) = Head(respQ).for
<1>1. /\ respQ \in Seq(Response) /\ Answers = ForOf(respQ) /\ Answers' = ForOf(respQ')
    BY QueueTypes DEF WorkerTypeOK, Answers, ForOf
<1>2. respQ # <<>> /\ respQ' = Tail(respQ) /\ reqQ' = reqQ /\ InHand' = InHand
    BY DEF ClientReceives, Receive, threadVars, InHand
<1>3. Asked' = Asked
    BY <1>2 DEF Asked, ServesIn
<1>4. Answers # <<>> /\ Answers' = Tail(Answers) /\ Head(Answers) = Head(respQ).for
    BY <1>1, <1>2, ForOfTail, ForOfType
<1>. QED
    BY <1>3, <1>4 DEF Service!Collect

(* A request that is submitted is asked last, unless it is a SHUTDOWN.     *)
LEMMA SubmitAsks ==
    ASSUME WorkerTypeOK, NEW r \in Request, ClientSubmits(r)
    PROVE  Answers' = Answers /\ Asked' = Keep(Asked, r)
<1>1. reqQ \in Seq(Request) /\ InHand \in Seq(Key) /\ ServesIn(reqQ) \in Seq(Key)
    BY QueueTypes DEF WorkerTypeOK
<1>2. reqQ' = Append(reqQ, r) /\ respQ' = respQ /\ InHand' = InHand
    BY DEF ClientSubmits, Submit, threadVars, InHand
<1>3. ServesIn(reqQ') = Keep(ServesIn(reqQ), r)
    BY <1>1, <1>2, ServesAppend
<1>4. Asked' = InHand \o Keep(ServesIn(reqQ), r)
    <2>1. Asked' = InHand' \o ServesIn(reqQ')
        BY DEF Asked, ServesIn
    <2>. QED
        BY <1>2, <1>3, <2>1
<1>. QED
    BY <1>1, <1>2, <1>4, ConcatKeep DEF Asked, Answers

LEMMA ServiceStep ==
    ServiceInv /\ [WorkerNext]_workerVars => [Service!Next]_<<Asked, Answers>>
<1>. SUFFICES ASSUME ServiceInv, [WorkerNext]_workerVars
              PROVE  Service!Next \/ (Asked' = Asked /\ Answers' = Answers)
    BY Zenon
<1>1. WorkerTypeOK
    BY DEF ServiceInv
<1>2. CASE ThreadStep \/ ModelRaises \/ UNCHANGED workerVars
    BY <1>2, ThreadServes DEF Service!Next
<1>3. CASE ClientStops \/ \E c \in Context : ClientSetsContext(c)
    <2>1. reqQ' = reqQ /\ respQ' = respQ /\ InHand' = InHand
        BY <1>3 DEF ClientStops, ClientSetsContext, InHand, threadVars
    <2>. QED
        BY <2>1 DEF Asked, Answers, ServesIn
<1>4. CASE ClientReceives
    BY <1>1, <1>4, ReceiveCollects DEF Service!Next
<1>5. ASSUME NEW r \in Request, ClientSubmits(r)
      PROVE  Service!Next \/ (Asked' = Asked /\ Answers' = Answers)
    <2>1. Answers' = Answers /\ Asked' = Keep(Asked, r)
        BY <1>1, <1>5, SubmitAsks
    <2>2. r.key \in Key
        BY DEF Request
    <2>. QED
        BY <2>1, <2>2 DEF Keep, Service!Ask, Service!Next
<1>. QED
    BY <1>2, <1>3, <1>4, <1>5 DEF WorkerNext

LEMMA ServiceInitial ==
    ASSUME mode \in DecodeMode, NEW started \in BOOLEAN, WorkerInit(started)
    PROVE  ServiceInv /\ Asked = <<>> /\ Answers = <<>>
<1>1. WorkerTypeOK
    BY WorkerInitTypes
<1>2. wpc \in {"top", "off"} /\ reqQ = <<>> /\ respQ = <<>>
    BY DEF WorkerInit
<1>3. InHand = <<>> /\ ServesIn(reqQ) = <<>>
    BY <1>2, ServesNone DEF InHand
<1>4. Asked = <<>>
    BY <1>3, EmptySeq, ConcatEmptySeq DEF Asked
<1>5. Answers = <<>>
    BY <1>1, <1>2, QueueTypes, ForOfType, EmptySeq
<1>. QED
    BY <1>1, <1>2, <1>4, <1>5 DEF ServiceInv

(* Under any client the thread is a first-in first-out server: it answers  *)
(* each request at most once and in order, whatever stop, a SHUTDOWN or an *)
(* exception of the model does to it (_loop, _handle).                     *)
THEOREM AnswersInOrderHolds == WorkerSpec => AnswersInOrder
<1>1. mode \in DecodeMode /\ (\E started \in BOOLEAN : WorkerInit(started))
        => ServiceInv /\ Service!Init
    BY ServiceInitial DEF Service!Init
<1>. QED
    BY <1>1, StepInHand, ServiceStep, PTL DEF WorkerSpec, AnswersInOrder, Service!Spec
-----------------------------------------------------------------------------
(* The pipeline: the answers to collect, then the requests to answer.      *)

Pipeline == Answers \o Asked

(* Serving a request moves it along the pipeline, and nothing else.        *)
LEMMA ThreadKeepsPipeline ==
    ASSUME ServiceInv, ThreadStep \/ ModelRaises \/ UNCHANGED workerVars
    PROVE  Pipeline' = Pipeline
<1>1. CASE Asked' = Asked /\ Answers' = Answers
    BY <1>1 DEF Pipeline
<1>2. CASE Service!Serve
    <2>1. Answers \in Seq(Key) /\ Asked \in Seq(Key)
        BY QueueTypes DEF ServiceInv
    <2>2. Asked # <<>> /\ Asked' = Tail(Asked) /\ Answers' = Append(Answers, Head(Asked))
        BY <1>2 DEF Service!Serve
    <2>3. Head(Asked) \in Key /\ Tail(Asked) \in Seq(Key) /\ <<Head(Asked)>> \o Tail(Asked) = Asked
        BY <2>1, <2>2, HeadThenTail
    <2>4. <<Head(Asked)>> \in Seq(Key)
        BY <2>3
    <2>5. Answers' = Answers \o <<Head(Asked)>>
        BY <2>1, <2>2, <2>3, AppendIsConcat
    <2>6. (Answers \o <<Head(Asked)>>) \o Tail(Asked) = Answers \o (<<Head(Asked)>> \o Tail(Asked))
        BY <2>1, <2>3, <2>4, ConcatAssociative
    <2>. QED
        BY <2>2, <2>3, <2>5, <2>6 DEF Pipeline
<1>. QED
    BY <1>1, <1>2, ThreadServes

LEMMA SubmitLengthens ==
    ASSUME WorkerTypeOK, NEW r \in Request, r.command = "SERVE", ClientSubmits(r)
    PROVE  Pipeline' = Append(Pipeline, r.key)
<1>1. Answers \in Seq(Key) /\ Asked \in Seq(Key) /\ r.key \in Key
    BY QueueTypes DEF Request
<1>2. Answers' = Answers /\ Asked' = Append(Asked, r.key)
    BY SubmitAsks DEF Keep
<1>. QED
    BY <1>1, <1>2, ConcatAppend DEF Pipeline

LEMMA ReceiveShortens ==
    ASSUME WorkerTypeOK, ClientReceives
    PROVE  /\ Pipeline # <<>>
           /\ Pipeline' = Tail(Pipeline)
           /\ Head(Pipeline) = Head(respQ).for
<1>1. Answers \in Seq(Key) /\ Asked \in Seq(Key)
    BY QueueTypes
<1>2. Answers # <<>> /\ Answers' = Tail(Answers) /\ Asked' = Asked /\ Head(Answers) = Head(respQ).for
    BY ReceiveCollects DEF Service!Collect
<1>3. Head(Answers) \in Key /\ Tail(Answers) \in Seq(Key) /\ <<Head(Answers)>> \o Tail(Answers) = Answers
    BY <1>1, <1>2, HeadThenTail
<1>4. <<Head(Answers)>> \in Seq(Key) /\ Tail(Answers) \o Asked \in Seq(Key)
    BY <1>1, <1>3, ConcatProperties
<1>5. Pipeline = <<Head(Answers)>> \o (Tail(Answers) \o Asked)
    BY <1>1, <1>3, <1>4, ConcatAssociative DEF Pipeline
<1>6. Pipeline # <<>> /\ Head(Pipeline) = Head(Answers) /\ Tail(Pipeline) = Tail(Answers) \o Asked
    BY <1>3, <1>4, <1>5, ConcatHead
<1>. QED
    BY <1>2, <1>6 DEF Pipeline
=============================================================================
