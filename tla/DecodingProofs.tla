---------------------------- MODULE DecodingProofs ----------------------------
(***************************************************************************)
(* What a call of the engine returns: the target model's own tokens, as    *)
(* many as the limit says, and honest counters.                            *)
(***************************************************************************)
EXTENDS LLMEngineProofs

-----------------------------------------------------------------------------
(* Decoding is lossless where the adapter's logits cannot depend on a      *)
(* cache that _commit leaves wrong: in every mode on an adapter without a  *)
(* cache, and in AR on any adapter.  MCLLMEngine's run FindKvCommit shows  *)
(* that the hypothesis cannot be dropped.                                  *)

(* The engine's pcs at which recovery has been chosen by the target. *)
Chosen == epc \in {"first", "head", "decode", "draft", "verify", "emit", "wait"}

(* The tokens on their way out are a chain: each is the target's choice in *)
(* some context ending in the one before, and the last one is recovery.    *)
PendingChain ==
    pending # <<>> =>
        /\ epc \in {"first", "emit"}
        /\ Head(pending) = Argmax[ctx]
        /\ pending[Len(pending)] = recovery
        /\ \A i \in 1..(Len(pending) - 1) :
              \E x \in Ctx : pending[i + 1] = Argmax[Advance[x][pending[i]]]

(* Between iterations the adapter, fed recovery, chooses what the sequence *)
(* wants next.                                                             *)
RecoveryLeads ==
    pending = <<>> /\ Chosen => Argmax[ctx] = Argmax[Advance[kv][recovery]]

(* In AR the cache holds the sequence but for its last token. *)
CacheFollows ==
    Stateful =>
        /\ pending # <<>> => kv = ctx /\ Len(pending) = 1
        /\ pending = <<>> /\ Chosen => ctx = Advance[kv][recovery]

(* Only the loops that verify reach the pcs that verify. *)
ArNeverVerifies == epc \in {"draft", "verify", "wait"} => mode # "ar"

Exact == ~ Stateful \/ mode = "ar"

GreedyInv ==
    /\ TypeInv
    /\ mode \in Modes
    /\ ArNeverVerifies
    /\ Exact => PendingChain /\ RecoveryLeads /\ CacheFollows

-----------------------------------------------------------------------------
LEMMA InitGreedy == Init => GreedyInv
<1>. SUFFICES ASSUME Init PROVE GreedyInv
    OBVIOUS
<1>1. pending = <<>> /\ epc = "idle" /\ mode \in Modes
    BY DEF Init
<1>. QED
    BY <1>1, InitTypes
    DEF GreedyInv, ArNeverVerifies, PendingChain, RecoveryLeads, CacheFollows, Chosen

(* Appending a token keeps the chain, and the last token leads on. *)
LEMMA EmitKeepsGreedy ==
    ASSUME GreedyInv, Exact, EmitToken
    PROVE  (PendingChain /\ RecoveryLeads /\ CacheFollows)'
<1>. DEFINE tok == Head(pending)
<1>1. /\ ctx \in Ctx /\ kv \in Ctx /\ pending \in Seq(Token) /\ pending # <<>>
      /\ epc \in {"first", "emit"}
      /\ ctx' = Advance[ctx][tok] /\ pending' = Tail(pending)
      /\ epc' = epc /\ kv' = kv /\ recovery' = recovery
    BY DEF GreedyInv, TypeInv, TypeOK, EmitToken
<1>2. /\ tok = Argmax[ctx] /\ pending[Len(pending)] = recovery
      /\ \A i \in 1..(Len(pending) - 1) :
            \E x \in Ctx : pending[i + 1] = Argmax[Advance[x][pending[i]]]
      /\ Stateful => kv = ctx /\ Len(pending) = 1
    BY <1>1 DEF GreedyInv, PendingChain, CacheFollows
<1>3. /\ Len(pending) \in Nat \ {0}
      /\ tok = pending[1]
      /\ Len(pending') = Len(pending) - 1
      /\ \A i \in 1..(Len(pending) - 1) : pending'[i] = pending[i + 1]
      /\ pending' = <<>> <=> Len(pending) = 1
      /\ pending' \in Seq(Token)
    BY <1>1, HeadAndTail
<1>4. tok \in Token /\ ctx' \in Ctx
    BY <1>1, <1>2, ModelTypes
<1>. HIDE DEF tok
<1>5. ASSUME pending' = <<>> PROVE (PendingChain /\ RecoveryLeads /\ CacheFollows)'
    <2>1. tok = recovery
        BY <1>2, <1>3, <1>5
    <2>2. Argmax[Advance[ctx][tok]] = Argmax[Advance[kv][tok]]
        <3>1. CASE Stateful
            BY <3>1, <1>2
        <3>2. CASE ~ Stateful
            BY <3>2, <1>1, <1>4, EngineAssumption DEF LastTokenOnly
        <3>. QED
            BY <3>1, <3>2
    <2>3. Stateful => ctx' = Advance[kv'][recovery']
        BY <1>1, <1>2, <2>1
    <2>. QED
        BY <1>1, <1>5, <2>1, <2>2, <2>3 DEF PendingChain, RecoveryLeads, CacheFollows
<1>6. ASSUME pending' # <<>> PROVE (PendingChain /\ RecoveryLeads /\ CacheFollows)'
    <2>1. Len(pending) # 1 /\ 1 \in 1..(Len(pending) - 1) /\ ~ Stateful
        BY <1>2, <1>3, <1>6
    <2>2. PICK x \in Ctx : pending[1 + 1] = Argmax[Advance[x][pending[1]]]
        BY <1>2, <2>1
    <2>3. Head(pending') = pending'[1] /\ pending'[1] = pending[1 + 1]
        BY <1>3, <1>6, <2>1, HeadAndTail
    <2>4. Head(pending') = Argmax[ctx']
        <3>1. Argmax[Advance[x][tok]] = Argmax[Advance[ctx][tok]]
            BY <2>1, <1>1, <1>4, EngineAssumption DEF LastTokenOnly
        <3>. QED
            BY <3>1, <2>2, <2>3, <1>1, <1>3
    <2>5. pending'[Len(pending')] = recovery'
        <3>1. Len(pending') \in 1..(Len(pending) - 1) /\ Len(pending') + 1 = Len(pending)
            BY <1>3, <2>1
        <3>. QED
            BY <3>1, <1>1, <1>2, <1>3
    <2>6. ASSUME NEW i \in 1..(Len(pending') - 1)
          PROVE  \E y \in Ctx : pending'[i + 1] = Argmax[Advance[y][pending'[i]]]
        <3>1. /\ i \in 1..(Len(pending) - 1) /\ i + 1 \in 1..(Len(pending) - 1)
            BY <1>3
        <3>2. pending'[i] = pending[i + 1] /\ pending'[i + 1] = pending[(i + 1) + 1]
            BY <3>1, <1>3
        <3>. QED
            BY <3>1, <3>2, <1>2
    <2>. QED
        BY <1>1, <1>6, <2>1, <2>4, <2>5, <2>6 DEF PendingChain, RecoveryLeads, CacheFollows
<1>. QED
    BY <1>5, <1>6

(* verify's tokens begin where the sequence wants to go on. *)
LEMMA VerifyKeepsGreedy ==
    ASSUME GreedyInv, Exact, Verify
    PROVE  (PendingChain /\ RecoveryLeads /\ CacheFollows)'
<1>1. /\ ~ Stateful
      /\ kv \in Ctx /\ recovery \in Token /\ spec \in Draft
      /\ Argmax[ctx] = Argmax[Advance[kv][recovery]]
    <2>1. epc = "verify"
        BY DEF Verify
    <2>2. pending = <<>> /\ mode # "ar" /\ Chosen
        BY <2>1 DEF GreedyInv, PendingChain, ArNeverVerifies, Chosen
    <2>. QED
        BY <2>2 DEF GreedyInv, TypeInv, TypeOK, RecoveryLeads, Exact
<1>2. PICK c \in ContextsFed(kv, <<recovery>> \o spec) :
          /\ recovery' = RecoveryToken(VerifyRow(c), spec)
          /\ pending' = Appended(c, spec)
    BY Zenon DEF Verify, VerifyRow, Appended
<1>3. /\ AcceptUntil(VerifyRow(c), spec) \in 0..K
      /\ pending' \in Seq(Token)
      /\ Len(pending') = AcceptUntil(VerifyRow(c), spec) + 1
      /\ pending'[Len(pending')] = recovery'
      /\ pending'[1] = Argmax[Advance[kv][recovery]]
      /\ \A i \in 1..(Len(pending') - 1) :
            \E x \in Ctx : pending'[i + 1] = Argmax[Advance[x][pending'[i]]]
    <2>1. /\ AcceptUntil(VerifyRow(c), spec) \in 0..K
          /\ Appended(c, spec) \in Seq(Token)
          /\ Len(Appended(c, spec)) = AcceptUntil(VerifyRow(c), spec) + 1
          /\ Appended(c, spec)[Len(Appended(c, spec))] = RecoveryToken(VerifyRow(c), spec)
          /\ Appended(c, spec)[1] = Argmax[Advance[kv][recovery]]
          /\ \A i \in 1..(Len(Appended(c, spec)) - 1) :
                \E x \in Ctx : Appended(c, spec)[i + 1] = Argmax[Advance[x][Appended(c, spec)[i]]]
        BY ONLY <1>1, AppendedTokens, c \in ContextsFed(kv, <<recovery>> \o spec)
    <2>. QED
        BY ONLY <1>2, <2>1
<1>4. pending' # <<>>
    BY <1>3, EmptySeq
<1>5. Head(pending') = pending'[1]
    BY <1>3, <1>4, HeadAndTail
<1>6. epc' = "emit" /\ ctx' = ctx /\ kv' = kv
    BY DEF Verify
<1>. QED
    BY <1>1, <1>3, <1>4, <1>5, <1>6 DEF PendingChain, RecoveryLeads, CacheFollows

(* A single token the target chose: prefill's, or AR's next one. *)
LEMMA OneTokenKeepsGreedy ==
    ASSUME GreedyInv, Exact, Prefill \/ Decode
    PROVE  (PendingChain /\ RecoveryLeads /\ CacheFollows)'
<1>1. /\ epc' \in {"first", "emit"} /\ ctx' = ctx
      /\ pending' = <<Argmax[ctx]>> /\ recovery' = Argmax[ctx]
      /\ Stateful => kv' = ctx
    <2>1. CASE Prefill
        BY <2>1 DEF Prefill
    <2>2. CASE Decode
        <3>1. epc = "decode"
            BY <2>2 DEF Decode
        <3>2. pending = <<>> /\ Chosen
            BY <3>1 DEF GreedyInv, PendingChain, Chosen
        <3>3. /\ Argmax[ctx] = Argmax[Advance[kv][recovery]]
              /\ Stateful => ctx = Advance[kv][recovery]
            BY <3>2 DEF GreedyInv, RecoveryLeads, CacheFollows
        <3>. QED
            BY <2>2, <3>3 DEF Decode
    <2>. QED
        BY <2>1, <2>2
<1>2. ctx \in Ctx /\ Argmax[ctx] \in Token
    BY ModelTypes DEF GreedyInv, TypeInv, TypeOK
<1>3. /\ pending' # <<>> /\ Len(pending') = 1
      /\ Head(pending') = Argmax[ctx] /\ pending'[1] = Argmax[ctx]
    BY <1>1, <1>2
<1>. QED
    BY <1>1, <1>3 DEF PendingChain, RecoveryLeads, CacheFollows

(* The other steps touch neither the target nor the tokens it chose, or    *)
(* happen where nothing is claimed of them.                                *)
LEMMA OthersKeepGreedy ==
    ASSUME GreedyInv, Exact,
           pending' = pending, recovery' = recovery,
           pending # <<>> => epc' = epc /\ ctx' = ctx /\ kv' = kv,
           Chosen' => Chosen /\ ctx' = ctx /\ kv' = kv
    PROVE  (PendingChain /\ RecoveryLeads /\ CacheFollows)'
BY DEF GreedyInv, PendingChain, RecoveryLeads, CacheFollows

(* Outside the two loops that hand tokens over, none is pending. *)
LEMMA NonePending ==
    ASSUME GreedyInv, Exact, epc \notin {"first", "emit"}
    PROVE  pending = <<>>
BY DEF GreedyInv, PendingChain

LEMMA StepGreedy == GreedyInv /\ [Next]_vars => GreedyInv'
<1>. SUFFICES ASSUME GreedyInv, [Next]_vars PROVE GreedyInv'
    OBVIOUS
<1>1. TypeInv'
    BY StepTypes DEF GreedyInv
<1>2. mode' = mode
    BY DEF Next, EngineStep, Generate, Shutdown, ReturnOutputs, StartPrompt, Prefill, EmitToken, EmitRaises,
           FirstTokenDone, LoopHead, Decode, DraftTokens, Verify, EndDecode, EndVerify,
           GetResponse, GetTimesOut, JoinReturns, WorkerStep, WorkerRaises, ThreadStep, LoopTop,
           PollEmpty, TakeRequest, TestContext, ScoreContext, HandleRequest, InsertBranch, NextLevel, Respond, ModelRaises,
           vars, workerVars
<1>3. mode' \in Modes
    BY <1>2 DEF GreedyInv
<1>4. ArNeverVerifies'
    BY <1>2 DEF GreedyInv, ArNeverVerifies, AsyncMode,
           Next, EngineStep, Generate, Shutdown, ReturnOutputs, StartPrompt, Prefill, EmitToken, EmitRaises,
           FirstTokenDone, LoopHead, Decode, DraftTokens, Verify, EndDecode, EndVerify,
           GetResponse, GetTimesOut, JoinReturns, WorkerStep, WorkerRaises, engineVars, vars
<1>5. ASSUME Exact PROVE (PendingChain /\ RecoveryLeads /\ CacheFollows)'
    <2>1. CASE UNCHANGED vars \/ WorkerStep \/ WorkerRaises
        BY <1>5, <2>1, OthersKeepGreedy
        DEF vars, WorkerStep, WorkerRaises, engineVars, decodeVars, Chosen
    <2>2. CASE Generate \/ Shutdown \/ ReturnOutputs \/ JoinReturns \/ GetTimesOut
        <3>1. pending = <<>>
            BY <1>5, <2>2, NonePending DEF Generate, Shutdown, ReturnOutputs, JoinReturns, GetTimesOut
        <3>. QED
            BY <1>5, <2>2, <3>1, OthersKeepGreedy
            DEF Generate, Shutdown, ReturnOutputs, JoinReturns, GetTimesOut, decodeVars, Chosen
    <2>3. CASE StartPrompt
        <3>1. pending = <<>>
            BY <1>5, <2>3, NonePending DEF StartPrompt
        <3>2. ~ Chosen'
            BY <2>3 DEF StartPrompt, Chosen
        <3>. QED
            BY <1>5, <2>3, <3>1, <3>2, OthersKeepGreedy DEF StartPrompt
    <2>4. CASE FirstTokenDone \/ LoopHead \/ DraftTokens \/ EndDecode \/ GetResponse
        <3>1. pending = <<>>
            BY <1>5, <2>4, NonePending
            DEF FirstTokenDone, LoopHead, DraftTokens, EndDecode, GetResponse
        <3>2. Chosen
            BY <2>4 DEF FirstTokenDone, LoopHead, DraftTokens, EndDecode, GetResponse, Chosen
        <3>. QED
            BY <1>5, <2>4, <3>1, <3>2, OthersKeepGreedy
            DEF FirstTokenDone, LoopHead, DraftTokens, EndDecode, GetResponse, decodeVars
    <2>5. CASE EndVerify
        <3>1. pending = <<>> /\ Chosen /\ ~ Stateful
            BY <1>5, <2>5 DEF EndVerify, Chosen, Exact
        <3>2. kv' = kv
            BY <2>5, <3>1 DEF EndVerify, Commit
        <3>. QED
            BY <1>5, <2>5, <3>1, <3>2, OthersKeepGreedy DEF EndVerify
    <2>6. CASE Prefill \/ Decode
        BY <1>5, <2>6, OneTokenKeepsGreedy
    <2>7. CASE Verify
        BY <1>5, <2>7, VerifyKeepsGreedy
    <2>8. CASE EmitToken
        BY <1>5, <2>8, EmitKeepsGreedy
    <2>9. CASE EmitRaises
        BY <2>9 DEF EmitRaises, PendingChain, RecoveryLeads, CacheFollows, Chosen
    <2>. QED
        BY <2>1, <2>2, <2>3, <2>4, <2>5, <2>6, <2>7, <2>8, <2>9 DEF Next, EngineStep
<1>6. Exact' => Exact
    BY <1>2 DEF Exact
<1>. QED
    BY <1>1, <1>3, <1>4, <1>5, <1>6 DEF GreedyInv

LEMMA GreedyInvariance == Spec => []GreedyInv
BY InitGreedy, StepGreedy, PTL DEF Spec

-----------------------------------------------------------------------------
(* Autoregressive decoding appends the target's greedy choices on every    *)
(* adapter, a KV cache or not, whatever the other thread does (_run_ar,    *)
(* prefill and decode of the adapters).                                    *)
THEOREM ArIsGreedyHolds == Spec => []ArIsGreedy
<1>1. GreedyInv => ArIsGreedy
    BY DEF GreedyInv, Exact, PendingChain, ArIsGreedy, NextTokenIsGreedy
<1>. QED
    BY <1>1, GreedyInvariance, PTL

(* On an adapter without a KV cache every mode does: no draft, stale       *)
(* answer, cache content or interleaving of the two threads can change a   *)
(* token (_run_ar, _run_sd, _run_ssd).                                     *)
THEOREM NextTokenIsGreedyHolds ==
    ASSUME ~ Stateful
    PROVE  Spec => []NextTokenIsGreedy
<1>1. GreedyInv => NextTokenIsGreedy
    BY DEF GreedyInv, Exact, PendingChain, NextTokenIsGreedy
<1>. QED
    BY <1>1, GreedyInvariance, PTL

(* And so every mode implements greedy decoding, as GreedyDecode states    *)
(* it: ctx and out change only by a new prompt or by the greedy token.     *)
THEOREM DecodingIsLossless ==
    ASSUME ~ Stateful \/ Modes \subseteq {"ar"}
    PROVE  Spec => LosslessDecoding
<1>1. Init => Greedy!Init
    BY EngineAssumption DEF Init, Greedy!Init
<1>2. GreedyInv /\ [Next]_vars => [Greedy!Next]_<<ctx, out>>
    <2>. SUFFICES ASSUME GreedyInv, [Next]_vars
                  PROVE  Greedy!Next \/ UNCHANGED <<ctx, out>>
        OBVIOUS
    <2>1. CASE StartPrompt
        BY <2>1 DEF StartPrompt, Greedy!Next, Greedy!Begin
    <2>2. CASE EmitToken
        <3>1. Head(pending) = Argmax[ctx]
            BY <2>2 DEF EmitToken, GreedyInv, Exact, PendingChain
        <3>. QED
            BY <2>2, <3>1 DEF EmitToken, Greedy!Next, Greedy!Emit
    <2>3. CASE EmitRaises
        <3>1. Head(pending) = Argmax[ctx]
            BY <2>3 DEF EmitRaises, GreedyInv, Exact, PendingChain
        <3>. QED
            BY <2>3, <3>1 DEF EmitRaises, Greedy!Next, Greedy!Emit
    <2>4. CASE ~ StartPrompt /\ ~ EmitToken /\ ~ EmitRaises
        BY <2>4 DEF Next, EngineStep, Generate, Shutdown, ReturnOutputs, Prefill, FirstTokenDone,
               LoopHead, Decode, DraftTokens, Verify, EndDecode, EndVerify, GetResponse,
               GetTimesOut, JoinReturns, WorkerStep, WorkerRaises, vars, engineVars, decodeVars
    <2>. QED
        BY <2>1, <2>2, <2>3, <2>4
<1>. QED
    BY <1>1, <1>2, GreedyInvariance, PTL DEF Spec, LosslessDecoding, Greedy!Spec

-----------------------------------------------------------------------------
(* What the engine counts, for every K, limit, adapter and mode: how long  *)
(* a completion gets (the loops read is_finished only between iterations,  *)
(* so the bound rests on what an iteration may add to a completion that    *)
(* was not finished), and what the collector's totals are worth.           *)

LengthInv ==
    /\ TypeInv
    /\ pending # <<>> => epc \in {"first", "emit"}
    /\ epc = "prefill" => out = <<>>
    /\ epc \in {"decode", "draft", "verify"} => ~ Finished
    /\ epc \in {"draft", "verify"} => mode # "ar"
    /\ epc = "wait" => mode # "ar"
    /\ OutputLength

Limit == IF maxNew = 0 THEN 1 ELSE IF mode = "ar" THEN maxNew ELSE maxNew + K

LEMMA InitLength == Init => LengthInv
BY InitTypes DEF LengthInv, Init, OutputLength, Decoding

LEMMA StepLength == LengthInv /\ [Next]_vars => LengthInv'
<1>. SUFFICES ASSUME LengthInv, [Next]_vars PROVE LengthInv'
    OBVIOUS
<1>. USE ConfigAssumption
<1>1. TypeInv'
    BY StepTypes DEF LengthInv
<1>2. /\ maxNew \in Nat /\ out \in Seq(Token) /\ pending \in Seq(Token) /\ spec \in Draft
      /\ ctx \in Ctx /\ kv \in Ctx /\ recovery \in Token
      /\ Len(out) \in Nat /\ Len(pending) \in Nat
    BY DEF LengthInv, TypeInv, TypeOK
<1>3. Len(<<>>) = 0
    OBVIOUS
<1>4. mode' = mode
    BY DEF Next, EngineStep, Generate, Shutdown, ReturnOutputs, StartPrompt, Prefill, EmitToken, EmitRaises,
           FirstTokenDone, LoopHead, Decode, DraftTokens, Verify, EndDecode, EndVerify,
           GetResponse, GetTimesOut, JoinReturns, WorkerStep, WorkerRaises, ThreadStep, LoopTop,
           PollEmpty, TakeRequest, TestContext, ScoreContext, HandleRequest, InsertBranch, NextLevel, Respond, ModelRaises,
           vars, workerVars
<1>. USE DEF LengthInv, OutputLength, Decoding, Finished
<1>5. CASE UNCHANGED vars \/ WorkerStep \/ WorkerRaises
    BY <1>1, <1>4, <1>5 DEF vars, WorkerStep, WorkerRaises, engineVars, decodeVars
<1>6. CASE Generate \/ Shutdown \/ ReturnOutputs \/ JoinReturns \/ GetTimesOut
    BY <1>1, <1>4, <1>6 DEF Generate, Shutdown, ReturnOutputs, JoinReturns, GetTimesOut, decodeVars
<1>7. CASE StartPrompt
    <2>1. pending = <<>> /\ pending' = <<>> /\ out' = <<>> /\ maxNew' = maxNew
        BY <1>7 DEF StartPrompt
    <2>2. epc' \in {"idle", "prefill"}
        BY <1>7 DEF StartPrompt
    <2>3. Len(out') + Len(pending') <= Limit'
        BY <2>1, <1>2, <1>3 DEF Limit
    <2>. QED
        BY <1>1, <2>1, <2>2, <2>3 DEF Limit
<1>8. CASE FirstTokenDone
    BY <1>1, <1>4, <1>8 DEF FirstTokenDone, decodeVars, AsyncMode
<1>9. CASE LoopHead
    BY <1>1, <1>4, <1>9 DEF LoopHead, decodeVars
<1>10. CASE DraftTokens
    BY <1>1, <1>4, <1>10 DEF DraftTokens
<1>11. CASE EndDecode \/ GetResponse
    BY <1>1, <1>4, <1>11 DEF EndDecode, GetResponse, decodeVars
<1>12. CASE EndVerify
    BY <1>1, <1>4, <1>12 DEF EndVerify
<1>13. CASE Prefill
    <2>1. Len(pending') = 1 /\ out' = out /\ maxNew' = maxNew /\ epc' = "first" /\ out = <<>>
        BY <1>13 DEF Prefill
    <2>2. Len(out') + Len(pending') <= Limit'
        BY <2>1, <1>2, <1>3, <1>4 DEF Limit
    <2>. QED
        BY <1>1, <2>1, <2>2 DEF Limit
<1>14. CASE Decode
    <2>1. /\ Len(pending') = 1 /\ out' = out /\ maxNew' = maxNew /\ epc' = "emit"
          /\ Len(out) < maxNew
        BY <1>2, <1>14 DEF Decode
    <2>2. Len(out') + Len(pending') <= Limit'
        BY <2>1, <1>2, <1>4 DEF Limit
    <2>. QED
        BY <1>1, <2>1, <2>2 DEF Limit
<1>15. CASE Verify
    <2>1. PICK c \in ContextsFed(kv, <<recovery>> \o spec) : pending' = Appended(c, spec)
        BY <1>15, Zenon DEF Verify, VerifyRow, Appended
    <2>2. Len(pending') \in Nat /\ Len(pending') <= K + 1
        BY <1>2, <2>1, AppendedTokens
    <2>3. /\ out' = out /\ maxNew' = maxNew /\ epc' = "emit"
          /\ Len(out) < maxNew /\ mode # "ar"
        BY <1>2, <1>15 DEF Verify
    <2>4. Len(out') + Len(pending') <= Limit'
        BY <2>2, <2>3, <1>2, <1>4 DEF Limit
    <2>. QED
        BY <1>1, <2>3, <2>4 DEF Limit
<1>16. CASE EmitToken
    <2>1. /\ epc' = epc /\ maxNew' = maxNew /\ epc \in {"first", "emit"} /\ pending # <<>>
          /\ out' = Append(out, Head(pending)) /\ pending' = Tail(pending)
        BY <1>16 DEF EmitToken
    <2>2. Len(out') = Len(out) + 1 /\ Len(pending') = Len(pending) - 1
        <3>1. Head(pending) \in Token
            BY <1>2, <2>1, HeadTailProperties
        <3>. QED
            BY <1>2, <2>1, <3>1, HeadAndTail, AppendProperties
    <2>3. Len(out') + Len(pending') = Len(out) + Len(pending)
        BY <2>2, <1>2
    <2>. QED
        BY <1>1, <1>4, <2>1, <2>3
<1>17. CASE EmitRaises
    BY <1>1, <1>2, <1>3, <1>17 DEF EmitRaises
<1>. QED
    BY <1>5, <1>6, <1>7, <1>8, <1>9, <1>10, <1>11, <1>12, <1>13, <1>14, <1>15, <1>16, <1>17
    DEF Next, EngineStep

(* A speculative completion is at most K tokens longer than the limit, an  *)
(* AR completion never longer (but for prefill's token when the limit is   *)
(* 0): _run_sd and _run_ssd append the whole accepted prefix and recovery. *)
THEOREM OutputLengthHolds == Spec => []OutputLength
<1>1. LengthInv => OutputLength
    BY DEF LengthInv
<1>. QED
    BY <1>1, InitLength, StepLength, PTL DEF Spec

-----------------------------------------------------------------------------
(* The collector's totals.                                                 *)

Steps == stats.hits + stats.misses

(* Tokens shown by this call that neither prefill accounts for nor a step  *)
(* has recorded yet.                                                       *)
Unrecorded == shown - (nextId - firstId) - stats.total

(* Where generate is says what is still to be shown and to be recorded.    *)
CountInv ==
    /\ LengthInv
    /\ epc = "decode" => mode = "ar"
    /\ stats.total \in Steps..(K + 1) * Steps
    /\ epc \in {"loop", "head", "wait", "decode", "draft", "verify"} => Unrecorded = 0
    /\ epc = "prefill" => Unrecorded = -1
    /\ epc = "first" => Unrecorded + Len(pending) = 0
    /\ epc = "emit" => Unrecorded + Len(pending) = IF mode = "ar" THEN 1 ELSE acc + 1

(* A step that is worth 1 to K + 1 tokens keeps the totals in proportion.  *)
LEMMA RecordKeepsProportion ==
    ASSUME TypeOK, stats.total \in Steps..(K + 1) * Steps,
           NEW n \in 1..(K + 1), NEW hit \in BOOLEAN, RecordStep(n, hit)
    PROVE  stats'.total = stats.total + n /\ (stats.total \in Steps..(K + 1) * Steps)'
<1>1. /\ stats.total \in Nat /\ stats.hits \in Nat /\ stats.misses \in Nat /\ K + 1 \in Nat /\ n \in Nat
    BY ConfigAssumption DEF TypeOK
<1>2. stats'.total = stats.total + n /\ Steps' = Steps + 1
    BY <1>1 DEF RecordStep, Steps
<1>3. Steps \in Nat
    BY <1>1 DEF Steps
<1>4. (K + 1) * (Steps + 1) = (K + 1) * Steps + (K + 1)
    BY <1>1, <1>3
<1>5. (K + 1) * Steps \in Nat
    BY <1>1, <1>3
<1>6. stats.total + n \in (Steps + 1)..((K + 1) * Steps + (K + 1))
    BY <1>1, <1>3, <1>5
<1>. QED
    BY <1>2, <1>4, <1>6

LEMMA StepCount == CountInv /\ [Next]_vars => CountInv'
<1>. SUFFICES ASSUME CountInv, [Next]_vars PROVE CountInv'
    OBVIOUS
<1>1. LengthInv /\ LengthInv' /\ TypeOK /\ TypeOK'
    BY StepLength DEF CountInv, LengthInv, TypeInv
<1>2. /\ shown \in Int /\ nextId \in Int /\ firstId \in Int /\ Unrecorded \in Int
      /\ stats.total \in Int /\ Len(pending) \in Int /\ acc \in 0..K /\ pending \in Seq(Token)
    <2>1. /\ shown \in Nat /\ nextId \in Nat /\ firstId \in Nat /\ stats.total \in Nat
          /\ acc \in 0..K /\ pending \in Seq(Token)
        BY <1>1 DEF TypeOK
    <2>2. Len(pending) \in Nat
        BY <2>1
    <2>. QED
        BY <2>1, <2>2 DEF Unrecorded
<1>3. mode' = mode
    BY DEF Next, EngineStep, Generate, Shutdown, ReturnOutputs, StartPrompt, Prefill, EmitToken, EmitRaises,
           FirstTokenDone, LoopHead, Decode, DraftTokens, Verify, EndDecode, EndVerify,
           GetResponse, GetTimesOut, JoinReturns, WorkerStep, WorkerRaises, ThreadStep, LoopTop,
           PollEmpty, TakeRequest, TestContext, ScoreContext, HandleRequest, InsertBranch, NextLevel, Respond, ModelRaises,
           vars, workerVars
<1>4. stats' = stats => Steps' = Steps
    BY DEF Steps
<1>5. Len(<<>>) = 0
    OBVIOUS
<1>. USE DEF CountInv
<1>6. CASE UNCHANGED vars \/ WorkerStep \/ WorkerRaises
    BY <1>1, <1>3, <1>4, <1>6
    DEF Unrecorded, vars, WorkerStep, WorkerRaises, engineVars, decodeVars, historyVars
<1>7. CASE Generate
    <2>1. /\ stats' = [total |-> 0, hits |-> 0, misses |-> 0] /\ epc' = "loop"
          /\ nextId' = nextId /\ firstId' = nextId /\ shown' = 0
        BY <1>7 DEF Generate
    <2>2. stats'.total = 0 /\ Steps' = 0
        BY <2>1 DEF Steps
    <2>3. Unrecorded' = 0
        BY <1>2, <2>1, <2>2 DEF Unrecorded
    <2>4. (K + 1) * 0 = 0
        BY ConfigAssumption
    <2>5. (stats.total \in Steps..(K + 1) * Steps)'
        BY <2>2, <2>4
    <2>. QED
        BY <1>1, <2>1, <2>3, <2>5
<1>8. CASE Shutdown \/ ReturnOutputs \/ JoinReturns \/ GetTimesOut \/ EmitRaises
    BY <1>1, <1>4, <1>8 DEF Shutdown, ReturnOutputs, JoinReturns, GetTimesOut, EmitRaises
<1>9. CASE StartPrompt
    <2>1. /\ epc = "loop" /\ epc' \in {"idle", "prefill"} /\ stats' = stats
          /\ nextId' = nextId + 1 /\ firstId' = firstId /\ shown' = shown
        BY <1>9 DEF StartPrompt, historyVars
    <2>2. Unrecorded' = -1
        BY <1>2, <2>1 DEF Unrecorded
    <2>. QED
        BY <1>1, <1>4, <2>1, <2>2
<1>10. CASE Prefill
    <2>1. /\ epc = "prefill" /\ epc' = "first" /\ stats' = stats /\ nextId' = nextId
          /\ firstId' = firstId /\ shown' = shown /\ Len(pending') = 1
        BY <1>10 DEF Prefill, historyVars
    <2>2. Unrecorded' = -1
        BY <2>1 DEF Unrecorded
    <2>. QED
        BY <1>1, <1>4, <2>1, <2>2
<1>11. CASE EmitToken
    <2>1. /\ epc \in {"first", "emit"} /\ epc' = epc /\ stats' = stats /\ nextId' = nextId
          /\ firstId' = firstId /\ shown' = shown + 1 /\ acc' = acc
          /\ pending # <<>> /\ pending' = Tail(pending)
        BY <1>11 DEF EmitToken
    <2>2. Len(pending') = Len(pending) - 1
        BY <1>2, <2>1, HeadAndTail
    <2>3. Unrecorded' = Unrecorded + 1
        BY <1>2, <2>1 DEF Unrecorded
    <2>4. Unrecorded' + Len(pending') = Unrecorded + Len(pending)
        BY <1>2, <2>2, <2>3
    <2>. QED
        BY <1>1, <1>3, <1>4, <2>1, <2>4
<1>12. CASE FirstTokenDone
    <2>1. /\ epc = "first" /\ pending = <<>> /\ epc' \in {"wait", "head"} /\ stats' = stats
          /\ nextId' = nextId /\ firstId' = firstId /\ shown' = shown
        BY <1>12 DEF FirstTokenDone, historyVars
    <2>2. Unrecorded = 0 /\ Unrecorded' = Unrecorded
        BY <1>2, <1>5, <2>1 DEF Unrecorded
    <2>. QED
        BY <1>1, <1>4, <2>1, <2>2
<1>13. CASE LoopHead \/ DraftTokens \/ GetResponse
    <2>1. /\ epc \in {"head", "draft", "wait"} /\ epc' \in {"loop", "decode", "draft", "verify", "head"}
          /\ epc' = "decode" => mode = "ar"
          /\ stats' = stats /\ nextId' = nextId /\ firstId' = firstId /\ shown' = shown
        BY <1>13 DEF LoopHead, DraftTokens, GetResponse, historyVars
    <2>2. Unrecorded = 0 /\ Unrecorded' = Unrecorded
        BY <2>1 DEF Unrecorded
    <2>. QED
        BY <1>1, <1>3, <1>4, <2>1, <2>2
<1>14. CASE Decode
    <2>1. /\ epc = "decode" /\ epc' = "emit" /\ stats' = stats /\ nextId' = nextId
          /\ firstId' = firstId /\ shown' = shown /\ Len(pending') = 1
        BY <1>14 DEF Decode, historyVars
    <2>2. Unrecorded = 0 /\ Unrecorded' = Unrecorded
        BY <2>1 DEF Unrecorded
    <2>. QED
        BY <1>1, <1>3, <1>4, <2>1, <2>2
<1>15. CASE Verify
    <2>1. PICK c \in ContextsFed(kv, <<recovery>> \o spec) :
              pending' = Appended(c, spec) /\ acc' = AcceptUntil(VerifyRow(c), spec)
        BY <1>15, Zenon DEF Verify, VerifyRow, Appended
    <2>2. kv \in Ctx /\ recovery \in Token /\ spec \in Draft
        BY <1>1 DEF TypeOK
    <2>3. Len(pending') = acc' + 1 /\ acc' \in 0..K
        <3>1. /\ Len(Appended(c, spec)) = AcceptUntil(VerifyRow(c), spec) + 1
              /\ AcceptUntil(VerifyRow(c), spec) \in 0..K
            BY <2>2, AppendedTokens
        <3>. QED
            BY ONLY <2>1, <3>1
    <2>4. /\ epc = "verify" /\ epc' = "emit" /\ stats' = stats /\ nextId' = nextId
          /\ firstId' = firstId /\ shown' = shown
        BY <1>15 DEF Verify, historyVars
    <2>5. Unrecorded = 0 /\ Unrecorded' = Unrecorded
        BY <2>4 DEF Unrecorded
    <2>6. mode # "ar"
        BY <1>1, <2>4 DEF LengthInv
    <2>7. acc' + 1 \in Int
        BY ONLY <2>3
    <2>. QED
        BY <1>1, <1>3, <1>4, <2>3, <2>4, <2>5, <2>6, <2>7
<1>16. CASE EndDecode
    <2>1. /\ epc = "emit" /\ pending = <<>> /\ mode = "ar" /\ epc' = "head" /\ RecordStep(1, FALSE)
          /\ nextId' = nextId /\ firstId' = firstId /\ shown' = shown
        BY <1>16 DEF EndDecode, historyVars
    <2>2. stats'.total = stats.total + 1 /\ (stats.total \in Steps..(K + 1) * Steps)'
        <3>1. 1 \in 1..(K + 1)
            BY ConfigAssumption
        <3>. QED
            BY <1>1, <2>1, <3>1, RecordKeepsProportion
    <2>3. Unrecorded = 1
        BY <1>2, <1>5, <2>1
    <2>4. Unrecorded' = 0
        BY <1>2, <2>1, <2>2, <2>3 DEF Unrecorded
    <2>. QED
        BY <1>1, <2>1, <2>2, <2>4
<1>17. CASE EndVerify
    <2>1. /\ epc = "emit" /\ pending = <<>> /\ mode # "ar" /\ epc' \in {"head", "wait"}
          /\ RecordStep(acc + 1, mode \in AsyncMode /\ answer.hit)
          /\ nextId' = nextId /\ firstId' = firstId /\ shown' = shown
        BY <1>17 DEF EndVerify, historyVars
    <2>2. stats'.total = stats.total + (acc + 1) /\ (stats.total \in Steps..(K + 1) * Steps)'
        <3>1. acc + 1 \in 1..(K + 1) /\ (mode \in AsyncMode /\ answer.hit) \in BOOLEAN
            BY <1>2, ConfigAssumption
        <3>. QED
            BY <1>1, <2>1, <3>1, RecordKeepsProportion
    <2>3. Unrecorded = acc + 1
        BY <1>2, <1>5, <2>1
    <2>4. Unrecorded' = 0
        BY <1>2, <2>1, <2>2, <2>3 DEF Unrecorded
    <2>. QED
        BY <1>1, <2>1, <2>2, <2>4
<1>. QED
    BY <1>6, <1>7, <1>8, <1>9, <1>10, <1>11, <1>12, <1>13, <1>14, <1>15, <1>16, <1>17
    DEF Next, EngineStep

(* total_tokens is exactly what the call has handed to on_token but the    *)
(* first token of each prompt, and lies between the iterations counted and *)
(* K + 1 times as many (StatsCollector.record_step in the three loops).    *)
THEOREM StatsCountTokensHolds == Spec => []StatsCountTokens
<1>1. Init => CountInv
    <2>. SUFFICES ASSUME Init PROVE CountInv
        OBVIOUS
    <2>1. stats.total = 0 /\ Steps = 0 /\ epc = "idle"
        BY DEF Init, Steps
    <2>2. (K + 1) * 0 = 0
        BY ConfigAssumption
    <2>. QED
        BY <2>1, <2>2, InitLength DEF CountInv
<1>2. CountInv => StatsCountTokens
    <2>. SUFFICES ASSUME CountInv, epc = "head"
                  PROVE  /\ stats.total = shown - (nextId - firstId)
                         /\ stats.total \in Steps..(K + 1) * Steps
        BY DEF StatsCountTokens, Steps
    <2>1. shown \in Int /\ nextId \in Int /\ firstId \in Int /\ stats.total \in Int
        BY DEF CountInv, LengthInv, TypeInv, TypeOK
    <2>2. Unrecorded = 0
        BY DEF CountInv
    <2>. QED
        BY <2>1, <2>2 DEF CountInv, Unrecorded
<1>. QED
    BY <1>1, <1>2, StepCount, PTL DEF Spec
=============================================================================
