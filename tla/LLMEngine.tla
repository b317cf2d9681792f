------------------------------ MODULE LLMEngine ------------------------------
(***************************************************************************)
(* jax_ssd/runtime/engine.py: generate and the decoding loops of its four  *)
(* modes, running against the draft worker's thread (DraftWorker) through  *)
(* the two queues.                                                         *)
(*                                                                         *)
(* The target model is an automaton over contexts.  ctx is the context of  *)
(* the sequence itself (the prompt and every token appended so far); kv is *)
(* the context the target adapter's private cache stands for.  Stateful    *)
(* tells the adapters apart: GemmaAdapter keeps past_key_values between    *)
(* calls, ToyModelAdapter has no cache and its logits depend on the last   *)
(* token only.                                                             *)
(***************************************************************************)
EXTENDS DraftWorker, VerifyGreedy

CONSTANTS
    Ctx, Advance, Argmax,  \* the target model
    PromptCtx,             \* the context a prompt leads to
    Stateful,              \* does the target adapter keep a KV cache?
    Modes,                 \* modes the engine may be built with
    Roles,                 \* values of SSD_TPU_ROLE
    CallbackRaises,        \* may on_token raise?
    TokenLimits,           \* values of sampling.max_new_tokens
    MaxCalls,              \* bound: calls of generate
    MaxPrompts,            \* bound: prompts in a call
    MaxLate                \* bound: answers a live worker delivers after 30 s

(* Only the last token matters to a model without a cache. *)
LastTokenOnly ==
    \A c, d \in Ctx, t \in Token : Argmax[Advance[c][t]] = Argmax[Advance[d][t]]

ASSUME EngineAssumption ==
    /\ Ctx # {}
    /\ Advance \in [Ctx -> [Token -> Ctx]]
    /\ Argmax \in [Ctx -> Token]
    /\ PromptCtx \in [Context -> Ctx]
    /\ Stateful \in BOOLEAN
    /\ ~ Stateful => LastTokenOnly
    /\ Modes \subseteq DecodeMode
    /\ Roles \subseteq {"both", "target", "draft"}
    /\ CallbackRaises \in BOOLEAN
    /\ TokenLimits \subseteq Nat
    /\ MaxCalls \in Nat /\ MaxPrompts \in Nat /\ MaxLate \in Nat

VARIABLES
    epc,        \* where the calling thread is
    maxNew,     \* sampling.max_new_tokens of this call
    left,       \* prompts of this call still to run
    nextId,     \* scheduler._next_id
    prompt,     \* prompt_token_ids of the sequence
    ctx,        \* context of the sequence: prompt and completion
    out,        \* completion_token_ids
    kv,         \* context of the target adapter's cache
    recovery,   \* recovery (token, in _run_ar)
    spec,       \* the K speculated tokens
    answer,     \* draft_resp
    acc,        \* accepted length of the last verify
    pending,    \* tokens still to append and hand to on_token
    stats,      \* the collector's total_tokens, cache_hits, cache_misses
    calls,      \* bounds MaxCalls
    abandoned,  \* history: requests whose answer generate did not wait for
    firstId,    \* history: nextId when this call began
    shown       \* history: tokens this call has handed to on_token

decodeVars == <<ctx, out, kv, recovery, spec, answer, acc, pending>>
historyVars == <<abandoned, firstId, shown>>
engineVars == <<epc, maxNew, left, nextId, prompt, decodeVars, stats, calls, historyVars>>
vars == <<engineVars, workerVars>>

CurrentSeq == nextId - 1
OutcomeKey == [seq |-> CurrentSeq, acc |-> acc, recovery |-> recovery]
Serve(key) == [command |-> "SERVE", key |-> key]

(* Mutant: > where is_finished has >=. *)
FinishedLate == Len(out) > maxNew

(* is_finished(None, max_new_tokens): no end-of-sequence token is passed. *)
Finished == Len(out) >= maxNew

(* The contexts a forward pass over toks goes through, from c0: one        *)
(* function, given by its recurrence.                                      *)
ContextsFed(c0, toks) ==
    {c \in [0..Len(toks) -> Ctx] :
        c[0] = c0 /\ \A i \in 1..Len(toks) : c[i] = Advance[c[i - 1]][toks[i]]}
-----------------------------------------------------------------------------
(* generate: one call, and its loop over the prompts.                      *)

Generate ==
    /\ epc = "idle" /\ calls < MaxCalls
    /\ \E n \in 1..MaxPrompts, m \in TokenLimits : left' = n /\ maxNew' = m
    /\ calls' = calls + 1
    /\ stats' = [total |-> 0, hits |-> 0, misses |-> 0]
    /\ epc' = "loop"
    /\ firstId' = nextId /\ shown' = 0
    /\ UNCHANGED <<nextId, prompt, decodeVars, abandoned, workerVars>>

ReturnOutputs ==
    /\ epc = "loop" /\ left = 0
    /\ epc' = "idle"
    /\ UNCHANGED <<maxNew, left, nextId, prompt, decodeVars, stats, calls, historyVars, workerVars>>

(* add_request, schedule, set_context; _run_ssd asserts there is a worker. *)
StartPrompt ==
    /\ epc = "loop" /\ left > 0
    /\ nextId \in SeqId   \* bound: sequence ids
    /\ \E p \in Context :
        /\ prompt' = p
        /\ ctx' = PromptCtx[p]
        /\ IF mode = "instance" /\ wpc # "off" THEN SetContext(p) ELSE UNCHANGED context
    /\ out' = <<>>
    /\ nextId' = nextId + 1
    /\ epc' = IF mode \in AsyncMode /\ wpc = "off" THEN "idle" ELSE "prefill"
    /\ UNCHANGED <<maxNew, left, kv, recovery, spec, answer, acc, pending, stats, calls, historyVars,
                   mode, running, reqQ, respQ, threadVars>>

(* allocate_kv and prefill: the first token, before any loop. *)
Prefill ==
    /\ epc = "prefill"
    /\ recovery' = Argmax[ctx]
    /\ kv' = IF Stateful THEN ctx ELSE kv
    /\ acc' = 0
    /\ pending' = <<Argmax[ctx]>>
    /\ epc' = "first"
    /\ UNCHANGED <<maxNew, left, nextId, prompt, ctx, out, spec, answer, stats, calls, historyVars, workerVars>>

(* append_token and the on_token callback, once per token. *)
EmitToken ==
    /\ epc \in {"first", "emit"} /\ pending # <<>>
    /\ out' = Append(out, Head(pending))
    /\ ctx' = Advance[ctx][Head(pending)]
    /\ pending' = Tail(pending)
    /\ shown' = shown + 1
    /\ UNCHANGED <<epc, maxNew, left, nextId, prompt, kv, recovery, spec, answer, acc, stats, calls,
                   abandoned, firstId, workerVars>>

(* An exception of on_token leaves generate with the tokens of this        *)
(* iteration half delivered, and nothing committed, recorded or submitted. *)
EmitRaises ==
    /\ CallbackRaises
    /\ epc \in {"first", "emit"} /\ pending # <<>>
    /\ out' = Append(out, Head(pending))
    /\ ctx' = Advance[ctx][Head(pending)]
    /\ pending' = <<>>
    /\ shown' = shown + 1
    /\ epc' = "idle"
    /\ UNCHANGED <<maxNew, left, nextId, prompt, kv, recovery, spec, answer, acc, stats, calls,
                   abandoned, firstId, workerVars>>

(* After the first token: the asynchronous modes ask for a draft whether   *)
(* or not the loop will run.                                               *)
FirstTokenDone ==
    /\ epc = "first" /\ pending = <<>>
    /\ IF mode \in AsyncMode
       THEN Submit(Serve(OutcomeKey)) /\ epc' = "wait"
       ELSE epc' = "head" /\ UNCHANGED reqQ
    /\ UNCHANGED <<maxNew, left, nextId, prompt, decodeVars, stats, calls, historyVars,
                   mode, running, context, respQ, threadVars>>

(* while not seq.is_finished(...): *)
LoopHead ==
    /\ epc = "head"
    /\ IF Finished
       THEN epc' = "loop" /\ left' = left - 1
       ELSE /\ epc' = IF mode = "ar" THEN "decode" ELSE IF mode = "sd" THEN "draft" ELSE "verify"
            /\ UNCHANGED left
    /\ UNCHANGED <<maxNew, nextId, prompt, decodeVars, stats, calls, historyVars, workerVars>>
-----------------------------------------------------------------------------
(* Mutant: decode does not keep the cache its pass returned. *)
DecodeForgets ==
    /\ epc = "decode"
    /\ LET c == Advance[kv][recovery] IN
        /\ recovery' = Argmax[c]
        /\ pending' = <<Argmax[c]>>
        /\ kv' = kv
    /\ epc' = "emit"
    /\ UNCHANGED <<maxNew, left, nextId, prompt, ctx, out, spec, answer, acc, stats, calls, historyVars, workerVars>>

(* The body of _run_ar. *)
Decode ==
    /\ epc = "decode"
    /\ LET c == Advance[kv][recovery] IN
        /\ recovery' = Argmax[c]
        /\ pending' = <<Argmax[c]>>
        /\ kv' = IF Stateful THEN c ELSE kv
    /\ epc' = "emit"
    /\ UNCHANGED <<maxNew, left, nextId, prompt, ctx, out, spec, answer, acc, stats, calls, historyVars, workerVars>>

(* Mutant: one token too many. *)
DraftOneMore ==
    /\ epc = "draft"
    /\ \E d \in [1..(K + 1) -> Token] : spec' = d
    /\ epc' = "verify"
    /\ UNCHANGED <<maxNew, left, nextId, prompt, ctx, out, kv, recovery, answer, acc, pending, stats, calls,
                   historyVars, workerVars>>

(* draft_speculate in _run_sd: whatever the draft model says. *)
DraftTokens ==
    /\ epc = "draft"
    /\ \E d \in Draft : spec' = d
    /\ epc' = "verify"
    /\ UNCHANGED <<maxNew, left, nextId, prompt, ctx, out, kv, recovery, answer, acc, pending, stats, calls,
                   historyVars, workerVars>>

(* One target pass over [recovery] + spec, then verify_greedy; the pass    *)
(* does not update the adapter's cache.                                    *)
Verify ==
    /\ epc = "verify"
    /\ \E c \in ContextsFed(kv, <<recovery>> \o spec) :
        LET target == [i \in 0..K |-> Argmax[c[i + 1]]]
            n == AcceptUntil(target, spec)
            r == RecoveryToken(target, spec)
        IN  /\ acc' = n
            /\ recovery' = r
            /\ pending' = Append(SubSeq(spec, 1, n), r)
    /\ epc' = "emit"
    /\ UNCHANGED <<maxNew, left, nextId, prompt, ctx, out, kv, spec, answer, stats, calls, historyVars, workerVars>>

(* _commit(accepted + [recovery]) feeds a cached adapter token by token. *)
Commit(toks) ==
    \E c \in ContextsFed(kv, toks) : kv' = IF Stateful THEN c[Len(toks)] ELSE kv

(* Mutant: the recovery token is not counted. *)
RecordAccepted(n, hit) ==
    stats' = [total |-> stats.total + n - 1,
              hits |-> stats.hits + (IF hit THEN 1 ELSE 0),
              misses |-> stats.misses + (IF hit THEN 0 ELSE 1)]

RecordStep(n, hit) ==
    stats' = [total |-> stats.total + n,
              hits |-> stats.hits + (IF hit THEN 1 ELSE 0),
              misses |-> stats.misses + (IF hit THEN 0 ELSE 1)]

(* The rest of the iteration once its tokens are out. *)
EndDecode ==
    /\ epc = "emit" /\ pending = <<>> /\ mode = "ar"
    /\ RecordStep(1, FALSE)
    /\ epc' = "head"
    /\ UNCHANGED <<maxNew, left, nextId, prompt, decodeVars, calls, historyVars, workerVars>>

(* Mutant: the next draft is asked for before is_finished is read. *)
EndVerifyAsksFirst ==
    /\ epc = "emit" /\ pending = <<>> /\ mode # "ar"
    /\ Commit(Append(SubSeq(spec, 1, acc), recovery))
    /\ RecordStep(acc + 1, mode \in AsyncMode /\ answer.hit)
    /\ IF mode \in AsyncMode
       THEN Submit(Serve(OutcomeKey)) /\ epc' = IF Finished THEN "head" ELSE "wait"
       ELSE epc' = "head" /\ UNCHANGED reqQ
    /\ UNCHANGED <<maxNew, left, nextId, prompt, ctx, out, recovery, spec, answer, acc, pending, calls, historyVars,
                   mode, running, context, respQ, threadVars>>

EndVerify ==
    /\ epc = "emit" /\ pending = <<>> /\ mode # "ar"
    /\ Commit(Append(SubSeq(spec, 1, acc), recovery))
    /\ RecordStep(acc + 1, mode \in AsyncMode /\ answer.hit)
    /\ IF mode \in AsyncMode /\ ~ Finished
       THEN Submit(Serve(OutcomeKey)) /\ epc' = "wait"
       ELSE epc' = "head" /\ UNCHANGED reqQ
    /\ UNCHANGED <<maxNew, left, nextId, prompt, ctx, out, recovery, spec, answer, acc, pending, calls, historyVars,
                   mode, running, context, respQ, threadVars>>

(* get_response(timeout=30). *)
GetResponse ==
    /\ epc = "wait"
    /\ Receive
    /\ answer' = Head(respQ)
    /\ spec' = Head(respQ).tokens
    /\ epc' = "head"
    /\ UNCHANGED <<maxNew, left, nextId, prompt, ctx, out, kv, recovery, acc, pending, stats, calls, historyVars,
                   mode, running, context, reqQ, threadVars>>

(* Mutant: a timeout that only a live worker's late answer can run into. *)
GetWaitsForDead ==
    /\ epc = "wait" /\ respQ = <<>>
    /\ abandoned < MaxLate /\ ~ WorkerGone
    /\ abandoned' = abandoned + 1
    /\ epc' = "idle"
    /\ UNCHANGED <<maxNew, left, nextId, prompt, decodeVars, stats, calls, firstId, shown, workerVars>>

(* queue.Empty leaves generate; the request stays with the worker. *)
GetTimesOut ==
    /\ epc = "wait" /\ respQ = <<>>
    /\ abandoned < MaxLate \/ WorkerGone
    /\ abandoned' = abandoned + 1
    /\ epc' = "idle"
    /\ UNCHANGED <<maxNew, left, nextId, prompt, decodeVars, stats, calls, firstId, shown, workerVars>>
-----------------------------------------------------------------------------
(* shutdown: stop clears the flag and joins for at most two seconds. *)
Shutdown ==
    /\ epc = "idle" /\ running
    /\ ClearRunning
    /\ epc' = "join"
    /\ UNCHANGED <<maxNew, left, nextId, prompt, decodeVars, stats, calls, historyVars,
                   mode, context, reqQ, respQ, threadVars>>

JoinReturns ==
    /\ epc = "join"
    /\ epc' = "idle"
    /\ UNCHANGED <<maxNew, left, nextId, prompt, decodeVars, stats, calls, historyVars, workerVars>>

Init ==
    /\ mode \in Modes
    /\ \E role \in Roles : WorkerInit(mode \in AsyncMode /\ role \in {"both", "draft"})
    /\ epc = "idle" /\ maxNew = 0 /\ left = 0 /\ nextId = 0
    /\ prompt = NoContext
    /\ ctx = (CHOOSE c \in Ctx : TRUE) /\ kv = ctx
    /\ out = <<>> /\ pending = <<>>
    /\ recovery = 0 /\ acc = 0
    /\ spec = NoResponse.tokens /\ answer = NoResponse
    /\ stats = [total |-> 0, hits |-> 0, misses |-> 0]
    /\ calls = 0 /\ abandoned = 0 /\ firstId = 0 /\ shown = 0

(* The calling thread inside generate or shutdown. *)
EngineStep ==
    \/ ReturnOutputs \/ StartPrompt \/ Prefill \/ EmitToken \/ FirstTokenDone \/ LoopHead
    \/ Decode \/ DraftTokens \/ Verify \/ EndDecode \/ EndVerify
    \/ GetResponse \/ GetTimesOut \/ JoinReturns

WorkerStep == ThreadStep /\ UNCHANGED engineVars

WorkerRaises == ModelRaises /\ UNCHANGED engineVars

Next == Generate \/ Shutdown \/ EngineStep \/ EmitRaises \/ WorkerStep \/ WorkerRaises

(* Both threads keep being scheduled and get's timeout fires in the end.   *)
(* Nothing obliges the caller to call generate or shutdown.                *)
Spec == Init /\ [][Next]_vars /\ WF_vars(EngineStep) /\ WF_vars(WorkerStep)
-----------------------------------------------------------------------------
TypeOK ==
    /\ WorkerTypeOK
    /\ epc \in {"idle", "loop", "prefill", "first", "head", "decode", "draft", "verify",
                "emit", "wait", "join"}
    /\ maxNew \in Nat /\ left \in 0..MaxPrompts
    /\ nextId \in Nat /\ calls \in Nat
    /\ abandoned \in Nat /\ firstId \in Nat /\ shown \in Nat
    /\ prompt \in Context \cup {NoContext} /\ ctx \in Ctx /\ kv \in Ctx
    /\ out \in Seq(Token) /\ pending \in Seq(Token)
    /\ recovery \in Token /\ spec \in Draft /\ answer \in Response /\ acc \in 0..K
    /\ stats \in [total : Nat, hits : Nat, misses : Nat]

(* Every token about to be appended and shown is the target's greedy       *)
(* choice after everything appended before it, whatever the draft, the     *)
(* cache, the worker's timing or a stale answer proposed (_run_ar, _run_sd,*)
(* _run_ssd).                                                              *)
NextTokenIsGreedy == pending # <<>> => Head(pending) = Argmax[ctx]

Decoding == epc \notin {"idle", "loop", "join"}

(* The same as a refinement: decoding in any mode is greedy decoding.      *)
Greedy == INSTANCE GreedyDecode WITH PromptCtxs <- {PromptCtx[p] : p \in Context}
LosslessDecoding == Greedy!Spec

(* A completion overshoots max_new_tokens by at most the K tokens the last *)
(* iteration may accept beyond it; AR never overshoots, except by the      *)
(* token prefill always produces (is_finished is read between iterations). *)
OutputLength ==
    Decoding =>
        Len(out) + Len(pending) <=
            IF maxNew = 0 THEN 1 ELSE IF mode = "ar" THEN maxNew ELSE maxNew + K

(* Until generate has given up on an answer, the draft it verifies was     *)
(* computed for the outcome it submitted (no other answer is in the queue).*)
AnswersOwnRequest ==
    epc = "verify" /\ mode \in AsyncMode /\ abandoned = 0 => answer.for = OutcomeKey

(* Answers are paired with requests by position only, so an abandoned      *)
(* request shifts every later answer by one: requests not yet collected    *)
(* are exactly those abandoned and the one waited for.                     *)
OutstandingIsAbandoned ==
    Len(Asked) + Len(Answers) = abandoned + (IF epc = "wait" THEN 1 ELSE 0)

(* In Instance-SSD a draft for the sequence being decoded is a stretch of  *)
(* that sequence's prompt, chosen by that prompt's own salience, though    *)
(* the worker reads the context three times without a lock, set_context    *)
(* may come between any two of the reads, and answers may be late: a torn  *)
(* draft is always one for a sequence that was given up (_handle).         *)
DraftFromOwnPrompt ==
    epc = "verify" /\ mode = "instance" /\ answer.for.seq = CurrentSeq
        => answer.tokens = SpanDraft[prompt][prompt]

(* total_tokens counts every token the call delivered but the first of     *)
(* each prompt, which prefill produces and no step records; the hit rate   *)
(* counts iterations, each worth 1 to K + 1 of those tokens.               *)
StatsCountTokens ==
    epc = "head" =>
        /\ stats.total = shown - (nextId - firstId)
        /\ stats.total \in (stats.hits + stats.misses)..(K + 1) * (stats.hits + stats.misses)

(* Autoregressive decoding is greedy on a caching adapter too.             *)
ArIsGreedy == mode = "ar" => NextTokenIsGreedy

(* The tests' claim that SD and SSD produce as many tokens as AR.          *)
SameLengthAsAr ==
    epc = "head" /\ Finished => Len(out) = IF maxNew = 0 THEN 1 ELSE maxNew

(* The claim that the cache is rebuilt while the target verifies.          *)
RebuildOverlapsVerify == wpc = "rebuild" => epc # "wait"

(* A call of generate or shutdown ends, by returning or raising, whatever  *)
(* became of the worker (get_response's timeout, join's timeout).          *)
CallsEnd == (epc # "idle") ~> (epc = "idle")

(* After shutdown the worker thread ends even with requests in its queue.  *)
WorkerEnds == (epc = "join") ~> WorkerGone
=============================================================================
