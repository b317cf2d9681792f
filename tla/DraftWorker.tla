----------------------------- MODULE DraftWorker -----------------------------
(***************************************************************************)
(* jax_ssd/runtime/workers.py: the draft worker, a daemon thread between   *)
(* two unbounded queue.Queue objects.  The thread polls request_queue,     *)
(* answers each request from the speculation cache (or by drafting on the  *)
(* spot), rebuilds the cache for the branches the target may take next and *)
(* only then puts the response.                                            *)
(*                                                                         *)
(* The thread's steps end where it touches state another thread can see:   *)
(* the _running flag, the two queues and _context_tokens.  Copying from    *)
(* the prompt reads _context_tokens three times, without a lock: for the   *)
(* truth test, for the salience, and for the spans.  Each read is a step,  *)
(* so set_context may come between any two of them.                        *)
(*                                                                         *)
(* The client's calls (submit, get_response, set_context, stop) are        *)
(* operators: LLMEngine makes them from the decode loop, MCDraftWorker in  *)
(* any order.                                                              *)
(***************************************************************************)
EXTENDS Priors

CONSTANTS
    Context,     \* prompts that set_context can install
    NoContext,   \* _context_tokens = []
    DraftModel,  \* draft_speculate([t], K), for each token t
    SpanDraft,   \* [scored][copied]: best span of one prompt by another's salience
    DraftRaises  \* can the draft model raise (OOM, a bad shape)?

ASSUME WorkerAssumption ==
    /\ NoContext \notin Context
    /\ DraftModel \in [Token -> Draft]
    /\ SpanDraft \in [Context -> [Context -> Draft]]
    /\ DraftRaises \in BOOLEAN

VARIABLES
    mode,      \* config.mode, fixed when the worker is built
    running,   \* DraftWorker._running
    context,   \* DraftWorker._context_tokens
    reqQ,      \* request_queue
    respQ,     \* response_queue
    cache,     \* DraftWorker.cache
    wpc,       \* where the thread is in _loop / _handle
    req,       \* _loop's req
    resp,      \* _handle's hit and tokens
    level,     \* _rebuild_cache's acc_idx
    branch,    \* _rebuild_cache's f
    slot,      \* _rebuild_cache's slot
    stage,     \* the read of _context_tokens that comes next
    scored     \* the context sal was computed from

threadVars == <<cache, wpc, req, resp, level, branch, slot, stage, scored>>
workerVars == <<mode, running, context, reqQ, respQ, threadVars>>

Command == {"PREFILL", "SERVE", "SHUTDOWN"}
Request == [command : Command, key : Key]

(* DraftResponse holds no key.  The field for is a history variable: the   *)
(* key of the request the answer was computed for.                         *)
Response == [for : Key, hit : BOOLEAN, tokens : Draft]

NoRequest == [command |-> "SERVE", key |-> [seq |-> 0, acc |-> 0, recovery |-> 0]]
NoResponse == [for |-> NoRequest.key, hit |-> FALSE, tokens |-> [j \in 1..K |-> 0]]

WorkerGone == wpc \in {"off", "exited", "dead"}

(* Mutant: the prefix is returned with its continuation. *)
SpeculateWithPrefix(key) ==
    [j \in 1..(K + 1) |-> IF j = 1 THEN key.recovery ELSE DraftModel[key.recovery][j - 1]]

(* if self.config.mode == DecodeMode.INSTANCE and self._context_tokens     *)
CopiesContext == mode = "instance" /\ context # NoContext

(* The two ways of drafting K tokens.  The spans are those of the context  *)
(* now, ranked by the salience of the one that was scored.                 *)
Speculate(key) ==
    IF stage = "spans"
    THEN SpanDraft[scored][context]
    ELSE DraftModel[key.recovery]
-----------------------------------------------------------------------------
(* What a client does to the worker: submit, get_response, set_context and *)
(* the flag that stop clears.                                              *)

Submit(r) == reqQ' = Append(reqQ, r)

(* Mutant: the answer is read but stays in the queue. *)
Peek == respQ # <<>> /\ UNCHANGED respQ

Receive == respQ # <<>> /\ respQ' = Tail(respQ)

(* Mutant: the context is set by the first prompt only. *)
SetContextOnce(c) == context' = IF context = NoContext THEN c ELSE context

SetContext(c) == context' = c

ClearRunning == running' = FALSE
-----------------------------------------------------------------------------
(* Mutant: while True. *)
LoopForever ==
    /\ wpc = "top"
    /\ wpc' = "get"
    /\ UNCHANGED <<mode, running, context, reqQ, respQ, cache, req, resp, level, branch, slot, stage, scored>>

(* while self._running: *)
LoopTop ==
    /\ wpc = "top"
    /\ wpc' = IF running THEN "get" ELSE "exited"
    /\ UNCHANGED <<mode, running, context, reqQ, respQ, cache, req, resp, level, branch, slot, stage, scored>>

(* request_queue.get(timeout=0.1) raised queue.Empty. *)
PollEmpty ==
    /\ wpc = "get" /\ reqQ = <<>>
    /\ wpc' = "top"
    /\ UNCHANGED <<mode, running, context, reqQ, respQ, cache, req, resp, level, branch, slot, stage, scored>>

(* A PREFILL is handled like a SERVE. *)
TakeRequest ==
    /\ wpc = "get" /\ reqQ # <<>>
    /\ reqQ' = Tail(reqQ)
    /\ IF Head(reqQ).command = "SHUTDOWN"
       THEN wpc' = "exited" /\ UNCHANGED req
       ELSE wpc' = "lookup" /\ req' = Head(reqQ)
    /\ UNCHANGED <<mode, running, context, respQ, cache, resp, level, branch, slot, stage, scored>>

(* _handle up to the cache reset: the lookup, and drafting on a miss. *)
Answer(key) ==
    IF Hit(cache, key)
    THEN [for |-> key, hit |-> TRUE, tokens |-> CachedTokens(cache, key)]
    ELSE [for |-> key, hit |-> FALSE, tokens |-> Speculate(key)]

(* fan_out_list[: k + 1], which is not padded. *)
Levels == IF Len(FanOut) < K + 1 THEN Len(FanOut) ELSE K + 1

InRow == wpc = "rebuild" /\ level < Levels /\ branch < FanOut[level + 1]

(* The two places that draft: a miss, and each row of the rebuild. *)
Drafting == (wpc = "lookup" /\ ~ Hit(cache, req.key)) \/ InRow

TestContext ==
    /\ Drafting
    /\ stage = "test" /\ CopiesContext
    /\ stage' = "salience"
    /\ UNCHANGED <<mode, running, context, reqQ, respQ, cache, wpc, req, resp, level, branch, slot, scored>>

(* score_token_salience(None, context) *)
ScoreContext ==
    /\ Drafting
    /\ stage = "salience"
    /\ stage' = "spans" /\ scored' = context
    /\ UNCHANGED <<mode, running, context, reqQ, respQ, cache, wpc, req, resp, level, branch, slot>>

(* The last of the reads is all that is left, or the only one there is. *)
Ready == stage = "spans" \/ (stage = "test" /\ ~ CopiesContext)

DraftDone == stage' = "test" /\ scored' = NoContext

HandleRequest ==
    /\ wpc = "lookup"
    /\ Hit(cache, req.key) \/ Ready
    /\ resp' = Answer(req.key)
    /\ DraftDone
    /\ cache' = Reset(cache)
    /\ level' = 0 /\ branch' = 0 /\ slot' = 0
    /\ wpc' = "rebuild"
    /\ UNCHANGED <<mode, running, context, reqQ, respQ, req>>

(* top_k of a constant row returns the lowest indices, in order. *)
Candidate(f) == f

BranchKey == [req.key EXCEPT !.acc = level, !.recovery = Candidate(branch)]

(* Mutant: every branch is drafted from the request's own token. *)
InsertRequestAgain ==
    /\ InRow /\ Ready
    /\ cache' = Insert(cache, slot, BranchKey, Speculate(req.key))
    /\ DraftDone
    /\ slot' = slot + 1 /\ branch' = branch + 1
    /\ UNCHANGED <<mode, running, context, reqQ, respQ, wpc, req, resp, level>>

InsertBranch ==
    /\ InRow /\ Ready
    /\ cache' = Insert(cache, slot, BranchKey, Speculate(BranchKey))
    /\ DraftDone
    /\ slot' = slot + 1 /\ branch' = branch + 1
    /\ UNCHANGED <<mode, running, context, reqQ, respQ, wpc, req, resp, level>>

(* Mutant: the inner counter is not reset. *)
NextLevelOnly ==
    /\ wpc = "rebuild" /\ level < Levels /\ branch = FanOut[level + 1]
    /\ level' = level + 1
    /\ UNCHANGED <<mode, running, context, reqQ, respQ, cache, wpc, req, resp, branch, slot, stage, scored>>

NextLevel ==
    /\ wpc = "rebuild" /\ level < Levels /\ branch = FanOut[level + 1]
    /\ level' = level + 1 /\ branch' = 0
    /\ UNCHANGED <<mode, running, context, reqQ, respQ, cache, wpc, req, resp, slot, stage, scored>>

(* Mutant: a stack where the queue should be. *)
RespondFirst ==
    /\ wpc = "rebuild" /\ level = Levels
    /\ respQ' = <<resp>> \o respQ
    /\ wpc' = "top"
    /\ resp' = NoResponse
    /\ UNCHANGED <<mode, running, context, reqQ, cache, req, level, branch, slot, stage, scored>>

(* _handle returns after the rebuild; _loop puts its result. *)
Respond ==
    /\ wpc = "rebuild" /\ level = Levels
    /\ respQ' = Append(respQ, resp)
    /\ wpc' = "top"
    /\ resp' = NoResponse
    /\ UNCHANGED <<mode, running, context, reqQ, cache, req, level, branch, slot, stage, scored>>

(* _loop has no handler: an exception from the model ends the thread. *)
ModelRaises ==
    /\ DraftRaises
    /\ wpc \in {"lookup", "rebuild"}
    /\ wpc' = "dead"
    /\ UNCHANGED <<mode, running, context, reqQ, respQ, cache, req, resp, level, branch, slot, stage, scored>>

ThreadStep ==
    \/ LoopTop \/ PollEmpty \/ TakeRequest \/ TestContext \/ ScoreContext
    \/ HandleRequest \/ InsertBranch \/ NextLevel \/ Respond
-----------------------------------------------------------------------------
(* __init__, and start where the engine starts the thread. *)
WorkerInit(started) ==
    /\ running = started
    /\ context = NoContext
    /\ reqQ = <<>> /\ respQ = <<>>
    /\ cache = Create
    /\ wpc = IF started THEN "top" ELSE "off"
    /\ req = NoRequest /\ resp = NoResponse
    /\ level = 0 /\ branch = 0 /\ slot = 0
    /\ stage = "test" /\ scored = NoContext

(* Any client: it makes the worker's calls in any order, from the threads  *)
(* it likes.                                                               *)
ClientSubmits(r) == Submit(r) /\ UNCHANGED <<mode, running, context, respQ, threadVars>>

ClientReceives == Receive /\ UNCHANGED <<mode, running, context, reqQ, threadVars>>

ClientSetsContext(c) == SetContext(c) /\ UNCHANGED <<mode, running, reqQ, respQ, threadVars>>

ClientStops == ClearRunning /\ UNCHANGED <<mode, context, reqQ, respQ, threadVars>>

WorkerNext ==
    \/ ThreadStep \/ ModelRaises
    \/ ClientReceives \/ ClientStops
    \/ \E r \in Request : ClientSubmits(r)
    \/ \E c \in Context : ClientSetsContext(c)

WorkerSpec ==
    /\ mode \in DecodeMode /\ \E started \in BOOLEAN : WorkerInit(started)
    /\ [][WorkerNext]_workerVars
-----------------------------------------------------------------------------
WorkerTypeOK ==
    /\ mode \in DecodeMode
    /\ running \in BOOLEAN
    /\ context \in Context \cup {NoContext}
    /\ reqQ \in Seq(Request)
    /\ respQ \in Seq(Response)
    /\ cache \in Cache
    /\ wpc \in {"off", "top", "get", "lookup", "rebuild", "exited", "dead"}
    /\ req \in Request
    /\ resp \in Response
    /\ level \in 0..Levels
    /\ branch \in Nat
    /\ slot \in Nat
    /\ stage \in {"test", "salience", "spans"}
    /\ scored \in Context \cup {NoContext}
    /\ stage = "spans" => scored \in Context
    /\ stage # "test" => context \in Context

(* The abstract service: see DraftService.  Of what waits in the queue it  *)
(* counts the requests that will be answered, not a SHUTDOWN.              *)
ServesIn(q) ==
    LET keys[i \in 0..Len(q)] ==
            IF i = 0 THEN <<>>
            ELSE IF q[i].command = "SHUTDOWN" THEN keys[i - 1]
            ELSE Append(keys[i - 1], q[i].key)
    IN  keys[Len(q)]

InHand == IF wpc \in {"lookup", "rebuild", "dead"} THEN <<req.key>> ELSE <<>>
Asked == InHand \o ServesIn(reqQ)
Answers == [i \in 1..Len(respQ) |-> respQ[i].for]

Service == INSTANCE DraftService WITH asked <- Asked, answers <- Answers

(* Every request is answered at most once, in the order of submission, and *)
(* an answer leaves the queue only in a client's hand: the thread never    *)
(* drops, doubles or overtakes, whatever stop, SHUTDOWN or a model error   *)
(* does to it (_loop).                                                     *)
AnswersInOrder == Service!Spec

(* A cache entry never changes what the worker would have drafted: outside *)
(* Instance-SSD every answer, hit or miss, is the draft model's K tokens   *)
(* for the recovery token that was asked about (_handle, _rebuild_cache).  *)
CacheIsTransparent ==
    mode = "ssd" =>
        /\ \A i \in 1..Len(respQ) : respQ[i].tokens = DraftModel[respQ[i].for.recovery]
        /\ wpc = "rebuild" => resp.tokens = DraftModel[resp.for.recovery]

(* The rebuilt table is a map for one sequence: its rows fill the slots    *)
(* from 0 without a gap or a loss at the table's end, no key is there      *)
(* twice (so argmax has one row to choose), and none belongs to a          *)
(* sequence other than the one last served.                                *)
CacheIsOneRoundsMap ==
    LET filled == {s \in Slot : cache[s] # NoEntry}
    IN  /\ wpc = "rebuild" => filled = 0..(slot - 1)
        /\ \A s, t \in filled : cache[s].key = cache[t].key => s = t
        /\ wpc \in {"rebuild", "top", "get"} => \A s \in filled : cache[s].key.seq = req.key.seq

(* The rows the rebuild has inserted are, slot by slot, the branches that  *)
(* expand_fanout_branches lays out for the request and its candidates: the *)
(* two loops in two modules count levels, candidates and slots alike       *)
(* (_rebuild_cache, branch_prior.py).                                      *)
RebuildFollowsFanOut ==
    wpc = "rebuild" =>
        LET rows == ExpandFanout(<<req.key>>, SubSeq(FanOut, 1, Levels),
                                 <<[i \in 1..VocabSize |-> Candidate(i - 1)]>>)
        IN  \A s \in 0..(slot - 1) : cache[s].key = rows[s + 1]

(* A request the thread has taken or may still take is answered, unless    *)
(* the client stops the worker or the model raises (_loop's progress).     *)
EveryRequestServed == (Asked # <<>>) ~> (respQ # <<>> \/ WorkerGone)
=============================================================================
