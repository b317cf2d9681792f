--------------------------- MODULE LLMEngineProofs ---------------------------
(***************************************************************************)
(* Proofs about the engine and its worker, for every K, vocabulary, target *)
(* and draft model, fan-out list, and number of calls: the types, that the *)
(* engine is a client of the worker, and what of the other thread's        *)
(* answers it can rely on.                                                 *)
(***************************************************************************)
EXTENDS LLMEngine, WorkerProofs

-----------------------------------------------------------------------------
(* The engine's values.                                                    *)

(* The types are inductive once it is known that a sequence being decoded  *)
(* has an id the key type allows and was counted in left.                  *)
TypeInv == TypeOK /\ (Decoding => CurrentSeq \in SeqId /\ left > 0)

(* K drafted tokens are a sequence of length K.                            *)
LEMMA DraftIsSequence ==
    ASSUME NEW d \in Draft
    PROVE  d \in Seq(Token) /\ Len(d) = K
<1>. DEFINE e(i) == d[i]
<1>1. K \in Nat /\ \A i \in 1..K : e(i) \in Token
    BY ConfigAssumption DEF Draft
<1>2. d = [i \in 1..K |-> e(i)]
    BY DEF Draft
<1>3. DOMAIN d = 1..K
    BY DEF Draft
<1>4. d \in Seq(Token)
    BY <1>1, <1>2
<1>. QED
    BY <1>1, <1>3, <1>4

(* The contexts of a pass over [recovery] + spec, position by position.    *)
LEMMA PassContexts ==
    ASSUME NEW k0 \in Ctx, NEW r \in Token, NEW d \in Draft,
           NEW c \in ContextsFed(k0, <<r>> \o d)
    PROVE  /\ c \in [0..(K + 1) -> Ctx]
           /\ c[1] = Advance[k0][r]
           /\ \A i \in 1..K : c[i + 1] = Advance[c[i]][d[i]]
<1>. USE ConfigAssumption
<1>1. /\ <<r>> \in Seq(Token) /\ Len(<<r>>) = 1 /\ <<r>>[1] = r
      /\ d \in Seq(Token) /\ Len(d) = K
    BY DraftIsSequence
<1>2. /\ Len(<<r>> \o d) = 1 + K
      /\ \A i \in 1..(1 + K) : (<<r>> \o d)[i] = IF i <= 1 THEN <<r>>[i] ELSE d[i - 1]
    <2>1. /\ Len(<<r>> \o d) = Len(<<r>>) + Len(d)
          /\ \A i \in 1..(Len(<<r>>) + Len(d)) :
               (<<r>> \o d)[i] = IF i <= Len(<<r>>) THEN <<r>>[i] ELSE d[i - Len(<<r>>)]
        BY <1>1, ConcatProperties
    <2>. QED
        BY <1>1, <2>1
<1>3. /\ c \in [0..(1 + K) -> Ctx]
      /\ c[0] = k0
      /\ \A i \in 1..(1 + K) : c[i] = Advance[c[i - 1]][(<<r>> \o d)[i]]
    BY <1>2 DEF ContextsFed
<1>4. c[1] = Advance[k0][r]
    <2>1. 1 \in 1..(1 + K) /\ 1 - 1 = 0
        OBVIOUS
    <2>. QED
        BY <2>1, <1>1, <1>2, <1>3
<1>5. ASSUME NEW i \in 1..K PROVE c[i + 1] = Advance[c[i]][d[i]]
    <2>1. i + 1 \in 1..(1 + K) /\ (i + 1) - 1 = i /\ ~ (i + 1 <= 1)
        OBVIOUS
    <2>2. (<<r>> \o d)[i + 1] = d[i]
        BY <2>1, <1>2
    <2>. QED
        BY <2>1, <2>2, <1>3
<1>. QED
    BY <1>3, <1>4, <1>5

(* A prefix of the draft with one more token after it.                     *)
LEMMA PrefixAndToken ==
    ASSUME NEW d \in Draft, NEW n \in 0..K, NEW r \in Token
    PROVE  /\ Append(SubSeq(d, 1, n), r) \in Seq(Token)
           /\ Len(Append(SubSeq(d, 1, n), r)) = n + 1
           /\ Append(SubSeq(d, 1, n), r)[n + 1] = r
           /\ \A i \in 1..n : Append(SubSeq(d, 1, n), r)[i] = d[i]
<1>. USE ConfigAssumption
<1>1. \A i \in 1..n : d[i] \in Token
    BY DEF Draft
<1>2. /\ SubSeq(d, 1, n) \in Seq(Token)
      /\ Len(SubSeq(d, 1, n)) = n
      /\ \A i \in 1..n : SubSeq(d, 1, n)[i] = d[i]
    <2>1. /\ SubSeq(d, 1, n) \in Seq(Token)
          /\ Len(SubSeq(d, 1, n)) = IF 1 <= n THEN n - 1 + 1 ELSE 0
          /\ \A i \in 1..(n - 1 + 1) : SubSeq(d, 1, n)[i] = d[1 + i - 1]
        BY <1>1, SubSeqProperties
    <2>2. n \in Nat /\ n - 1 + 1 = n /\ \A i \in 1..n : 1 + i - 1 = i
        OBVIOUS
    <2>. QED
        BY <2>1, <2>2
<1>. QED
    BY <1>2, AppendProperties

(* The token row verify reads, and what it makes of a pass.                *)
VerifyRow(c) == [i \in 0..K |-> Argmax[c[i + 1]]]
Appended(c, d) == Append(SubSeq(d, 1, AcceptUntil(VerifyRow(c), d)), RecoveryToken(VerifyRow(c), d))

(* The tokens to append are the accepted prefix and the recovery token,    *)
(* and each is the target's choice in a context that ends in the token     *)
(* before it (verify, verify_greedy and the loops' accepted = spec[:acc]). *)
LEMMA AppendedTokens ==
    ASSUME NEW k0 \in Ctx, NEW t \in Token, NEW d \in Draft,
           NEW c \in ContextsFed(k0, <<t>> \o d)
    PROVE  /\ AcceptUntil(VerifyRow(c), d) \in 0..K
           /\ RecoveryToken(VerifyRow(c), d) \in Token
           /\ Appended(c, d) \in Seq(Token)
           /\ Len(Appended(c, d)) = AcceptUntil(VerifyRow(c), d) + 1
           /\ Appended(c, d)[Len(Appended(c, d))] = RecoveryToken(VerifyRow(c), d)
           /\ Appended(c, d)[1] = Argmax[Advance[k0][t]]
           /\ \A i \in 1..(Len(Appended(c, d)) - 1) :
                 \E x \in Ctx : Appended(c, d)[i + 1] = Argmax[Advance[x][Appended(c, d)[i]]]
<1>1. /\ c \in [0..(K + 1) -> Ctx]
      /\ c[1] = Advance[k0][t]
      /\ \A i \in 1..K : c[i + 1] = Advance[c[i]][d[i]]
    BY PassContexts
<1>. USE ConfigAssumption, EngineAssumption
<1>. DEFINE row == VerifyRow(c)
            n == AcceptUntil(row, d)
            r == RecoveryToken(row, d)
            app == Appended(c, d)
<1>2. row \in TargetRow
    BY <1>1 DEF VerifyRow, TargetRow
<1>3. row[0] = Argmax[Advance[k0][t]]
    BY <1>1 DEF VerifyRow
<1>4. ASSUME NEW i \in 1..K
      PROVE  c[i] \in Ctx /\ row[i] = Argmax[Advance[c[i]][d[i]]]
    <2>1. i \in 0..K /\ i \in 0..(K + 1)
        OBVIOUS
    <2>2. row[i] = Argmax[c[i + 1]]
        BY <2>1 DEF VerifyRow
    <2>. QED
        BY <2>1, <2>2, <1>1
<1>5. /\ n \in 0..K
      /\ \A i \in 1..n : d[i] = row[i - 1]
    BY <1>2, AcceptedIsPrefix DEF Matches
<1>6. r = row[n] /\ r \in Token
    BY <1>2, <1>5 DEF RecoveryToken, TargetRow
<1>7. /\ app \in Seq(Token)
      /\ Len(app) = n + 1
      /\ app[n + 1] = r
      /\ \A i \in 1..n : app[i] = d[i]
    <2>1. /\ Append(SubSeq(d, 1, n), r) \in Seq(Token)
          /\ Len(Append(SubSeq(d, 1, n), r)) = n + 1
          /\ Append(SubSeq(d, 1, n), r)[n + 1] = r
          /\ \A i \in 1..n : Append(SubSeq(d, 1, n), r)[i] = d[i]
        <3>1. d \in Draft /\ n \in 0..K /\ r \in Token
            BY <1>5, <1>6
        <3>. HIDE DEF row, n, r
        <3>. QED
            BY ONLY <3>1, PrefixAndToken
    <2>2. app = Append(SubSeq(d, 1, n), r)
        BY DEF Appended
    <2>. QED
        BY ONLY <2>1, <2>2
<1>. HIDE DEF row, n, r, app
<1>8. app[1] = row[0]
    <2>1. CASE n = 0
        BY <2>1, <1>6, <1>7
    <2>2. CASE n # 0
        <3>1. 1 \in 1..n
            BY <2>2, <1>5
        <3>. QED
            BY <3>1, <1>5, <1>7
    <2>. QED
        BY <2>1, <2>2
<1>9. ASSUME NEW i \in 1..n PROVE app[i + 1] = row[i]
    <2>1. CASE i = n
        BY <2>1, <1>6, <1>7
    <2>2. CASE i # n
        <3>1. i + 1 \in 1..n /\ (i + 1) - 1 = i
            BY <2>2, <1>5
        <3>. QED
            BY <3>1, <1>5, <1>7
    <2>. QED
        BY <2>1, <2>2
<1>10. ASSUME NEW i \in 1..n
       PROVE  \E x \in Ctx : app[i + 1] = Argmax[Advance[x][app[i]]]
    <2>1. i \in 1..K
        BY <1>5
    <2>2. c[i] \in Ctx /\ row[i] = Argmax[Advance[c[i]][d[i]]] /\ app[i] = d[i]
        BY <2>1, <1>4, <1>7
    <2>. QED
        BY <2>2, <1>9
<1>11. n \in Nat /\ (n + 1) - 1 = n
    BY <1>5
<1>. QED
    BY <1>3, <1>5, <1>6, <1>7, <1>8, <1>10, <1>11 DEF row, n, r, app

-----------------------------------------------------------------------------
(* Type correctness.                                                       *)

LEMMA OutcomeIsServe ==
    ASSUME TypeInv, Decoding
    PROVE  Serve(OutcomeKey) \in Request
<1>1. OutcomeKey \in Key
    BY DEF TypeInv, TypeOK, OutcomeKey, Key
<1>. QED
    BY <1>1 DEF Serve, Request, Command

(* A commit leaves the adapter's cache in some context. *)
LEMMA CommitType ==
    ASSUME TypeOK, NEW toks \in Seq(Token), Commit(toks)
    PROVE  kv' \in Ctx
<1>1. PICK c \in ContextsFed(kv, toks) : kv' = IF Stateful THEN c[Len(toks)] ELSE kv
    BY DEF Commit
<1>2. c \in [0..Len(toks) -> Ctx] /\ Len(toks) \in 0..Len(toks)
    BY DEF ContextsFed
<1>. QED
    BY <1>1, <1>2 DEF TypeOK

(* The target model's two functions. *)
LEMMA ModelTypes ==
    /\ \A c \in Ctx, t \in Token : Advance[c][t] \in Ctx
    /\ \A c \in Ctx : Argmax[c] \in Token
BY EngineAssumption

(* Recording a step keeps the collector's counters natural numbers. *)
LEMMA RecordStepType ==
    ASSUME TypeOK, NEW n \in Nat, NEW hit \in BOOLEAN, RecordStep(n, hit)
    PROVE  stats' \in [total : Nat, hits : Nat, misses : Nat]
<1>1. stats.total \in Nat /\ stats.hits \in Nat /\ stats.misses \in Nat
    BY DEF TypeOK
<1>2. /\ stats.total + n \in Nat
      /\ stats.hits + (IF hit THEN 1 ELSE 0) \in Nat
      /\ stats.misses + (IF hit THEN 0 ELSE 1) \in Nat
    BY <1>1
<1>. QED
    BY <1>2 DEF RecordStep

LEMMA InitTypes == Init => TypeInv
<1>. SUFFICES ASSUME Init PROVE TypeInv
    OBVIOUS
<1>1. WorkerTypeOK
    <2>1. PICK started \in BOOLEAN : WorkerInit(started)
        BY DEF Init
    <2>2. Create \in Cache
        BY DEF Create, Cache
    <2>3. mode \in DecodeMode
        BY EngineAssumption DEF Init
    <2>4. 0 \in 0..Levels
        BY LevelsBound
    <2>. QED
        BY <2>1, <2>2, <2>3, <2>4, NoneTypes DEF WorkerInit, WorkerTypeOK
<1>2. ctx \in Ctx /\ kv \in Ctx
    BY EngineAssumption DEF Init
<1>3. spec \in Draft /\ answer \in Response
    BY NoneTypes DEF Init, Response
<1>4. 0 \in Token /\ 0 \in 0..K /\ 0 \in 0..MaxPrompts
    BY ConfigAssumption, EngineAssumption DEF Token
<1>. QED
    BY <1>1, <1>2, <1>3, <1>4 DEF Init, TypeInv, TypeOK, Decoding

LEMMA StepTypes == TypeInv /\ [Next]_vars => TypeInv'
<1>. SUFFICES ASSUME TypeInv, [Next]_vars PROVE TypeInv'
    OBVIOUS
<1>. USE EngineAssumption, ConfigAssumption DEF TypeInv, TypeOK, Decoding, CurrentSeq
<1>1. CASE UNCHANGED vars
    BY <1>1 DEF vars, engineVars, workerVars, decodeVars, historyVars, threadVars, WorkerTypeOK
<1>2. CASE Generate
    BY <1>2 DEF Generate, workerVars, decodeVars, threadVars, WorkerTypeOK
<1>3. CASE Shutdown
    BY <1>3 DEF Shutdown, ClearRunning, decodeVars, historyVars, threadVars, WorkerTypeOK
<1>4. CASE ReturnOutputs
    BY <1>4 DEF ReturnOutputs, workerVars, decodeVars, historyVars, threadVars, WorkerTypeOK
<1>5. CASE StartPrompt
    <2>1. (context' \in Context \/ context' = context) /\ ctx' \in Ctx
        BY <1>5 DEF StartPrompt, SetContext
    <2>2. nextId \in Nat /\ nextId' = nextId + 1 /\ nextId' - 1 = nextId /\ nextId \in SeqId
        BY <1>5 DEF StartPrompt
    <2>3. WorkerTypeOK'
        BY <1>5, <2>1 DEF StartPrompt, threadVars, WorkerTypeOK
    <2>. QED
        BY <1>5, <2>1, <2>2, <2>3 DEF StartPrompt, historyVars
<1>6. CASE Prefill
    BY <1>6 DEF Prefill, workerVars, historyVars, threadVars, WorkerTypeOK
<1>7. CASE EmitToken
    <2>1. Head(pending) \in Token /\ Tail(pending) \in Seq(Token)
        BY <1>7 DEF EmitToken
    <2>2. out' \in Seq(Token)
        BY <1>7, <2>1, AppendProperties DEF EmitToken
    <2>3. ctx' \in Ctx
        <3>1. Advance[ctx][Head(pending)] \in Ctx
            BY <2>1, ModelTypes, Zenon
        <3>. QED
            BY <1>7, <3>1, Zenon DEF EmitToken
    <2>. QED
        BY <1>7, <2>1, <2>2, <2>3 DEF EmitToken, workerVars, threadVars, WorkerTypeOK
<1>8. CASE FirstTokenDone
    <2>1. reqQ' \in Seq(Request)
        <3>1. Serve(OutcomeKey) \in Request
            BY <1>8, OutcomeIsServe DEF FirstTokenDone
        <3>2. reqQ \in Seq(Request)
            BY DEF WorkerTypeOK
        <3>3. reqQ' = Append(reqQ, Serve(OutcomeKey)) \/ reqQ' = reqQ
            BY <1>8 DEF FirstTokenDone, Submit
        <3>4. Append(reqQ, Serve(OutcomeKey)) \in Seq(Request)
            BY <3>1, <3>2, AppendProperties, Zenon
        <3>. QED
            BY <3>2, <3>3, <3>4, Zenon
    <2>. QED
        BY <1>8, <2>1 DEF FirstTokenDone, decodeVars, historyVars, threadVars, WorkerTypeOK
<1>9. CASE LoopHead
    <2>1. left' \in 0..MaxPrompts /\ (epc' # "loop" => left' = left)
        <3>1. CASE Finished
            BY <1>9, <3>1 DEF LoopHead
        <3>2. CASE ~ Finished
            BY <1>9, <3>2 DEF LoopHead
        <3>. QED
            BY <3>1, <3>2
    <2>2. epc' \in {"loop", "decode", "draft", "verify"} /\ epc = "head"
        BY <1>9 DEF LoopHead
    <2>3. WorkerTypeOK'
        BY <1>9, WorkerAtRest DEF LoopHead
    <2>. QED
        BY <1>9, <2>1, <2>2, <2>3 DEF LoopHead, decodeVars, historyVars
<1>10. CASE Decode
    BY <1>10 DEF Decode, workerVars, historyVars, threadVars, WorkerTypeOK
<1>11. CASE DraftTokens
    BY <1>11 DEF DraftTokens, workerVars, historyVars, threadVars, WorkerTypeOK
<1>12. CASE Verify
    <2>1. PICK c \in ContextsFed(kv, <<recovery>> \o spec) :
              /\ acc' = AcceptUntil(VerifyRow(c), spec)
              /\ recovery' = RecoveryToken(VerifyRow(c), spec)
              /\ pending' = Appended(c, spec)
        BY <1>12, Zenon DEF Verify, VerifyRow, Appended
    <2>2. acc' \in 0..K /\ recovery' \in Token /\ pending' \in Seq(Token)
        BY <2>1, AppendedTokens
    <2>. QED
        BY <1>12, <2>2 DEF Verify, workerVars, historyVars, threadVars, WorkerTypeOK
<1>13. CASE EndDecode
    <2>1. stats' \in [total : Nat, hits : Nat, misses : Nat]
        BY <1>13, RecordStepType DEF EndDecode
    <2>. QED
        BY <1>13, <2>1 DEF EndDecode, workerVars, decodeVars, historyVars, threadVars, WorkerTypeOK
<1>14. CASE EndVerify
    <2>1. kv' \in Ctx
        BY <1>14, PrefixAndToken, CommitType DEF EndVerify
    <2>2. reqQ' \in Seq(Request)
        <3>1. Serve(OutcomeKey) \in Request
            BY <1>14, OutcomeIsServe DEF EndVerify
        <3>2. reqQ \in Seq(Request)
            BY DEF WorkerTypeOK
        <3>3. reqQ' = Append(reqQ, Serve(OutcomeKey)) \/ reqQ' = reqQ
            BY <1>14 DEF EndVerify, Submit
        <3>4. Append(reqQ, Serve(OutcomeKey)) \in Seq(Request)
            BY <3>1, <3>2, AppendProperties, Zenon
        <3>. QED
            BY <3>2, <3>3, <3>4, Zenon
    <2>3. stats' \in [total : Nat, hits : Nat, misses : Nat]
        <3>1. acc + 1 \in Nat /\ (mode \in AsyncMode /\ answer.hit) \in BOOLEAN
            OBVIOUS
        <3>2. RecordStep(acc + 1, mode \in AsyncMode /\ answer.hit)
            BY <1>14 DEF EndVerify
        <3>. QED
            BY <3>1, <3>2, RecordStepType
    <2>. QED
        BY <1>14, <2>1, <2>2, <2>3 DEF EndVerify, historyVars, threadVars, WorkerTypeOK
<1>15. CASE GetResponse
    <2>1. Head(respQ) \in Response /\ Tail(respQ) \in Seq(Response)
        BY <1>15 DEF GetResponse, Receive, WorkerTypeOK
    <2>2. Head(respQ).tokens \in Draft
        BY <2>1 DEF Response
    <2>. QED
        BY <1>15, <2>1, <2>2 DEF GetResponse, Receive, historyVars, threadVars, WorkerTypeOK
<1>16. CASE GetTimesOut
    BY <1>16 DEF GetTimesOut, workerVars, decodeVars, threadVars, WorkerTypeOK
<1>17. CASE JoinReturns
    BY <1>17 DEF JoinReturns, workerVars, decodeVars, historyVars, threadVars, WorkerTypeOK
<1>18. CASE WorkerStep
    BY <1>18, ThreadKeepsTypes DEF WorkerStep, engineVars, decodeVars, historyVars
<1>19. CASE WorkerRaises
    BY <1>19 DEF WorkerRaises, ModelRaises, engineVars, decodeVars, historyVars, WorkerTypeOK
<1>20. CASE EmitRaises
    <2>1. Head(pending) \in Token
        BY <1>20 DEF EmitRaises
    <2>2. out' \in Seq(Token)
        BY <1>20, <2>1, AppendProperties DEF EmitRaises
    <2>3. ctx' \in Ctx
        <3>1. Advance[ctx][Head(pending)] \in Ctx
            BY <2>1, ModelTypes, Zenon
        <3>. QED
            BY <1>20, <3>1, Zenon DEF EmitRaises
    <2>. QED
        BY <1>20, <2>1, <2>2, <2>3 DEF EmitRaises, workerVars, threadVars, WorkerTypeOK
<1>. QED
    BY <1>1, <1>2, <1>3, <1>4, <1>5, <1>6, <1>7, <1>8, <1>9, <1>10, <1>11, <1>12, <1>13, <1>14,
       <1>15, <1>16, <1>17, <1>18, <1>19, <1>20 DEF Next, EngineStep

LEMMA TypeInvariance == Spec => []TypeInv
BY InitTypes, StepTypes, PTL DEF Spec

(* Every variable of the engine and of its worker keeps its type, for all  *)
(* values of the constants (engine.py, workers.py).                        *)
THEOREM TypeCorrect == Spec => []TypeOK
<1>1. TypeInv => TypeOK
    BY DEF TypeInv
<1>. QED
    BY <1>1, TypeInvariance, PTL

-----------------------------------------------------------------------------
(* The engine is a client of the worker.                                   *)

(* What each step of the engine is to its worker.                          *)
QuietStep ==
    \/ Generate \/ ReturnOutputs \/ Prefill \/ EmitToken \/ EmitRaises \/ LoopHead
    \/ Decode \/ DraftTokens \/ Verify \/ EndDecode \/ GetTimesOut \/ JoinReturns

Submits == ClientSubmits(Serve(OutcomeKey))

LEMMA QuietLeavesWorker == QuietStep => UNCHANGED workerVars
BY DEF QuietStep, Generate, ReturnOutputs, Prefill, EmitToken, EmitRaises, LoopHead, Decode,
       DraftTokens, Verify, EndDecode, GetTimesOut, JoinReturns

LEMMA FirstTokenSubmits ==
    FirstTokenDone => IF mode \in AsyncMode THEN Submits ELSE UNCHANGED workerVars
BY DEF FirstTokenDone, Submits, ClientSubmits, workerVars

LEMMA EndVerifySubmits ==
    EndVerify => IF mode \in AsyncMode /\ ~ Finished THEN Submits ELSE UNCHANGED workerVars
BY DEF EndVerify, Submits, ClientSubmits, workerVars

LEMMA ResponseIsReceived == GetResponse => ClientReceives
BY DEF GetResponse, ClientReceives

LEMMA EngineStepIsClients == TypeInv /\ [Next]_vars => [WorkerNext]_workerVars
<1>. SUFFICES ASSUME TypeInv, Next \/ UNCHANGED vars
              PROVE  WorkerNext \/ UNCHANGED workerVars
    OBVIOUS
<1>1. CASE UNCHANGED vars
    BY <1>1 DEF vars
<1>2. CASE QuietStep
    BY <1>2, QuietLeavesWorker
<1>3. CASE WorkerStep \/ WorkerRaises
    BY <1>3 DEF WorkerStep, WorkerRaises, WorkerNext
<1>4. CASE Shutdown
    BY <1>4 DEF Shutdown, ClientStops, WorkerNext
<1>5. CASE StartPrompt
    <2>1. PICK c \in Context :
              IF mode = "instance" /\ wpc # "off" THEN SetContext(c) ELSE UNCHANGED context
        BY <1>5 DEF StartPrompt
    <2>2. UNCHANGED <<mode, running, reqQ, respQ, threadVars>>
        BY <1>5 DEF StartPrompt
    <2>. QED
        BY <2>1, <2>2 DEF ClientSetsContext, WorkerNext, workerVars
<1>6. CASE FirstTokenDone \/ EndVerify
    <2>1. Serve(OutcomeKey) \in Request
        BY <1>6, OutcomeIsServe DEF FirstTokenDone, EndVerify, Decoding
    <2>2. Submits \/ UNCHANGED workerVars
        BY <1>6, FirstTokenSubmits, EndVerifySubmits
    <2>. QED
        BY <2>1, <2>2 DEF Submits, WorkerNext
<1>7. CASE GetResponse
    BY <1>7, ResponseIsReceived DEF WorkerNext
<1>. QED
    BY <1>1, <1>2, <1>3, <1>4, <1>5, <1>6, <1>7 DEF Next, EngineStep, QuietStep

LEMMA EngineStartsWorker ==
    Init => mode \in DecodeMode /\ \E started \in BOOLEAN : WorkerInit(started)
BY EngineAssumption DEF Init

(* generate's loops use the worker as any client may, so everything proved *)
(* of WorkerSpec holds in the engine: answers in order, a cache that is    *)
(* transparent and one round's map (engine.py's calls of submit,           *)
(* get_response, set_context and stop).                                    *)
THEOREM EngineIsClient == Spec => WorkerSpec
<1>1. Spec => []TypeInv /\ [][Next]_vars
    BY TypeInvariance, PTL DEF Spec
<1>. QED
    BY <1>1, EngineStartsWorker, EngineStepIsClients, PTL DEF Spec, WorkerSpec

-----------------------------------------------------------------------------
(* Answers and requests.                                                   *)

Waiting == IF epc = "wait" THEN 1 ELSE 0

(* generate has an answer it is about to verify. *)
Answered == epc = "verify" \/ (epc = "head" /\ ~ Finished)

(* The pipeline's length counts the requests whose answers have not been   *)
(* collected.  As long as none was abandoned, the only one there can be is *)
(* the one generate waits for, and what it has collected is its own.       *)
PairingInv ==
    /\ TypeInv /\ ServiceInv
    /\ Len(Pipeline) = abandoned + Waiting
    /\ abandoned = 0 /\ epc = "wait" => Pipeline = <<OutcomeKey>>
    /\ mode \in AsyncMode => epc \notin {"decode", "draft"}
    /\ abandoned = 0 /\ mode \in AsyncMode /\ Answered => answer.for = OutcomeKey

LEMMA PipelineType ==
    ASSUME WorkerTypeOK
    PROVE  Pipeline \in Seq(Key) /\ Len(Pipeline) = Len(Asked) + Len(Answers)
BY QueueTypes, ConcatProperties DEF Pipeline

LEMMA InitPairing == Init => PairingInv
<1>. SUFFICES ASSUME Init PROVE PairingInv
    OBVIOUS
<1>1. ServiceInv /\ Asked = <<>> /\ Answers = <<>>
    BY EngineStartsWorker, ServiceInitial
<1>2. Pipeline = <<>>
    BY <1>1, EmptySeq, ConcatEmptySeq DEF Pipeline
<1>. QED
    BY <1>1, <1>2, InitTypes, EmptySeq DEF PairingInv, Init, Waiting, Answered

LEMMA StepPairing == PairingInv /\ [Next]_vars => PairingInv'
<1>. SUFFICES ASSUME PairingInv, [Next]_vars PROVE PairingInv'
    OBVIOUS
<1>1. TypeInv /\ TypeInv' /\ ServiceInv /\ ServiceInv' /\ WorkerTypeOK /\ WorkerTypeOK'
    BY StepTypes, EngineStepIsClients, StepInHand DEF PairingInv, ServiceInv
<1>2. Pipeline \in Seq(Key) /\ Len(Pipeline) \in Nat /\ abandoned \in Nat
    BY <1>1, PipelineType DEF TypeInv, TypeOK
<1>. USE DEF PairingInv, Waiting, OutcomeKey, CurrentSeq, Finished, Answered
<1>3. CASE UNCHANGED vars \/ WorkerStep \/ WorkerRaises
    <2>1. UNCHANGED engineVars /\ (ThreadStep \/ ModelRaises \/ UNCHANGED workerVars)
        BY <1>3 DEF vars, WorkerStep, WorkerRaises
    <2>2. Pipeline' = Pipeline
        BY <1>1, <2>1, ThreadKeepsPipeline
    <2>3. mode' = mode
        BY <2>1 DEF ThreadStep, LoopTop, PollEmpty, TakeRequest, TestContext, ScoreContext, HandleRequest, InsertBranch,
                    NextLevel, Respond, ModelRaises, workerVars
    <2>. QED
        BY <1>1, <2>1, <2>2, <2>3 DEF engineVars, decodeVars, historyVars
<1>4. CASE QuietStep
    <2>1. UNCHANGED workerVars
        BY <1>4, QuietLeavesWorker
    <2>2. Pipeline' = Pipeline /\ mode' = mode
        BY <1>1, <2>1, ThreadKeepsPipeline DEF workerVars
    <2>3. CASE GetTimesOut
        BY <1>1, <1>2, <2>2, <2>3 DEF GetTimesOut
    <2>4. CASE ~ GetTimesOut
        <3>1. abandoned' = abandoned /\ epc # "wait" /\ epc' # "wait"
            BY <1>4, <2>4
            DEF QuietStep, Generate, ReturnOutputs, Prefill, EmitToken, EmitRaises, LoopHead, Decode,
                DraftTokens, Verify, EndDecode, JoinReturns, historyVars
        <3>2. ASSUME mode \in AsyncMode, Answered'
              PROVE  Answered /\ answer' = answer /\ UNCHANGED <<nextId, acc, recovery>>
            BY <1>4, <2>4, <3>2
            DEF QuietStep, Generate, ReturnOutputs, Prefill, EmitToken, EmitRaises, LoopHead, Decode,
                DraftTokens, Verify, EndDecode, JoinReturns, decodeVars, AsyncMode
        <3>3. mode \in AsyncMode => epc' \notin {"decode", "draft"}
            BY <1>4, <2>4
            DEF QuietStep, Generate, ReturnOutputs, Prefill, EmitToken, EmitRaises, LoopHead, Decode,
                DraftTokens, Verify, EndDecode, JoinReturns, AsyncMode
        <3>. QED
            BY <1>1, <2>2, <3>1, <3>2, <3>3
    <2>. QED
        BY <2>3, <2>4
<1>5. CASE Shutdown \/ StartPrompt
    <2>1. Asked' = Asked /\ Answers' = Answers
        <3>1. reqQ' = reqQ /\ respQ' = respQ /\ InHand' = InHand
            BY <1>5 DEF Shutdown, StartPrompt, InHand, threadVars
        <3>. QED
            BY <3>1 DEF Asked, Answers, ServesIn
    <2>2. Pipeline' = Pipeline
        BY <2>1 DEF Pipeline
    <2>. QED
        BY <1>1, <1>5, <2>2 DEF Shutdown, StartPrompt, historyVars
<1>6. CASE FirstTokenDone \/ EndVerify
    <2>1. /\ Serve(OutcomeKey) \in Request /\ OutcomeKey \in Key
          /\ Serve(OutcomeKey).command = "SERVE" /\ Serve(OutcomeKey).key = OutcomeKey
        <3>1. Serve(OutcomeKey) \in Request
            BY <1>1, <1>6, OutcomeIsServe DEF FirstTokenDone, EndVerify, Decoding
        <3>. QED
            BY <3>1 DEF Serve, Request
    <2>2. epc \in {"first", "emit"} /\ abandoned' = abandoned /\ OutcomeKey' = OutcomeKey
        BY <1>6 DEF FirstTokenDone, EndVerify, decodeVars, historyVars
    <2>3. CASE epc' = "wait"
        <3>1. Submits
            BY <1>6, <2>3, FirstTokenSubmits, EndVerifySubmits DEF FirstTokenDone, EndVerify
        <3>2. Pipeline' = Append(Pipeline, OutcomeKey)
            BY <1>1, <2>1, <3>1, SubmitLengthens DEF Submits
        <3>3. Len(Pipeline') = Len(Pipeline) + 1
            BY <1>2, <2>1, <3>2, AppendProperties
        <3>4. abandoned = 0 => Pipeline' = <<OutcomeKey>>
            <4>1. abandoned = 0 => Pipeline = <<>>
                BY <1>2, <2>2, EmptySeq
            <4>. QED
                BY <3>2, <4>1
        <3>. QED
            BY <1>1, <1>2, <2>2, <2>3, <3>3, <3>4
    <2>4. CASE epc' # "wait"
        <3>1. ~ (mode \in AsyncMode /\ ~ Finished) /\ epc' = "head" /\ UNCHANGED workerVars
            BY <1>6, <2>4, FirstTokenSubmits, EndVerifySubmits DEF FirstTokenDone, EndVerify
        <3>2. mode' = mode /\ Pipeline' = Pipeline
            BY <1>1, <3>1, ThreadKeepsPipeline DEF workerVars
        <3>3. out' = out /\ maxNew' = maxNew
            BY <1>6 DEF FirstTokenDone, EndVerify, decodeVars
        <3>. QED
            BY <1>1, <2>2, <3>1, <3>2, <3>3
    <2>. QED
        BY <2>3, <2>4
<1>7. CASE GetResponse
    <2>1. /\ Pipeline # <<>> /\ Pipeline' = Tail(Pipeline) /\ Head(Pipeline) = Head(respQ).for
        BY <1>1, <1>7, ResponseIsReceived, ReceiveShortens
    <2>2. /\ epc = "wait" /\ epc' = "head" /\ abandoned' = abandoned /\ answer' = Head(respQ)
          /\ OutcomeKey' = OutcomeKey
        BY <1>7 DEF GetResponse, historyVars
    <2>3. Len(Pipeline') = Len(Pipeline) - 1
        BY <1>2, <2>1, HeadAndTail
    <2>4. abandoned = 0 => answer'.for = OutcomeKey
        BY <2>1, <2>2
    <2>. QED
        BY <1>1, <1>2, <2>2, <2>3, <2>4
<1>. QED
    BY <1>3, <1>4, <1>5, <1>6, <1>7 DEF Next, EngineStep, QuietStep

(* The requests not yet answered and the answers not yet collected are, at *)
(* any time, those abandoned and the one waited for: a request is lost     *)
(* only by giving up on it (submit and get_response in _run_ssd).          *)
THEOREM OutstandingIsAbandonedHolds == Spec => []OutstandingIsAbandoned
<1>1. PairingInv => OutstandingIsAbandoned
    BY PipelineType DEF PairingInv, ServiceInv, OutstandingIsAbandoned, Waiting
<1>. QED
    BY <1>1, InitPairing, StepPairing, PTL DEF Spec

(* Until then every draft that is verified answers the request made for    *)
(* the outcome it continues (_run_ssd's pairing by position).              *)
THEOREM AnswersOwnRequestHolds == Spec => []AnswersOwnRequest
<1>1. PairingInv => AnswersOwnRequest
    BY DEF PairingInv, AnswersOwnRequest, Answered
<1>. QED
    BY <1>1, InitPairing, StepPairing, PTL DEF Spec

-----------------------------------------------------------------------------
(* Drafts and prompts.                                                     *)

(* A draft for key is of a sequence already begun and, if it is the one    *)
(* being decoded, copies from its prompt.                                  *)
OwnDraft(key, tokens) ==
    /\ key.seq < nextId
    /\ key.seq = CurrentSeq => tokens = SpanDraft[prompt][prompt]

(* set_context runs before the sequence's first request, so whatever the   *)
(* worker holds for that sequence was drafted under its prompt.  A salience*)
(* of another prompt is in the thread's hand only for an older sequence.   *)
OwnDrafts ==
    /\ context = prompt
    /\ nextId > 0 => prompt \in Context
    /\ \A i \in 1..Len(reqQ) : reqQ[i].key.seq < nextId
    /\ wpc \in {"lookup", "rebuild"} =>
        /\ req.key.seq < nextId
        /\ stage = "spans" /\ req.key.seq = CurrentSeq => scored = prompt
    /\ wpc # "dead" /\ stage # "test" => wpc = "lookup" \/ InRow
    /\ \A i \in 1..Len(respQ) : OwnDraft(respQ[i].for, respQ[i].tokens)
    /\ wpc = "rebuild" => OwnDraft(resp.for, resp.tokens)
    /\ \A s \in Slot : cache[s] # NoEntry => OwnDraft(cache[s].key, cache[s].tokens)

PromptInv ==
    /\ PairingInv
    /\ wpc = "off" /\ mode \in AsyncMode => ~ Decoding
    /\ mode = "instance" /\ wpc # "off" =>
        /\ OwnDrafts
        /\ epc \in {"head", "verify", "emit"} => OwnDraft(answer.for, answer.tokens)

(* What is drafted for the sequence being decoded is ranked by its own     *)
(* prompt's salience and copied from it: both were read after set_context. *)
LEMMA SpeculatesOwn ==
    ASSUME TypeOK, mode = "instance", OwnDrafts, Ready, wpc \in {"lookup", "rebuild"},
           NEW key, key.seq = req.key.seq
    PROVE  OwnDraft(key, Speculate(key))
<1>1. req.key.seq \in Nat /\ nextId \in Nat
    BY CacheAssumption DEF Key, Request, TypeOK, WorkerTypeOK
<1>2. context = prompt /\ prompt \in Context /\ key.seq < nextId
    BY <1>1 DEF OwnDrafts
<1>3. stage = "spans"
    BY <1>2, WorkerAssumption DEF Ready, CopiesContext
<1>4. key.seq = CurrentSeq => Speculate(key) = SpanDraft[prompt][prompt]
    BY <1>2, <1>3 DEF Speculate, OwnDrafts
<1>. QED
    BY <1>2, <1>4 DEF OwnDraft

LEMMA ThreadKeepsDrafts ==
    ASSUME TypeOK, mode = "instance", OwnDrafts, ThreadStep, UNCHANGED engineVars
    PROVE  OwnDrafts'
<1>1. WorkerTypeOK /\ WorkerTypeOK'
    BY ThreadKeepsTypes DEF TypeOK
<1>2. UNCHANGED <<nextId, prompt>>
    BY DEF engineVars
<1>. USE DEF OwnDraft, CurrentSeq
<1>3. CASE LoopTop \/ PollEmpty
    BY <1>2, <1>3 DEF OwnDrafts, LoopTop, PollEmpty, InRow
<1>4. CASE TakeRequest
    <2>1. /\ reqQ \in Seq(Request) /\ reqQ # <<>> /\ reqQ' = Tail(reqQ)
          /\ UNCHANGED <<context, respQ, cache, resp, stage>> /\ wpc' # "rebuild"
          /\ wpc' = "lookup" => req' = Head(reqQ)
        BY <1>1, <1>4 DEF TakeRequest, WorkerTypeOK
    <2>2. /\ Len(reqQ) \in Nat \ {0} /\ Head(reqQ) = reqQ[1] /\ Len(reqQ') = Len(reqQ) - 1
          /\ \A i \in 1..(Len(reqQ) - 1) : reqQ'[i] = reqQ[i + 1]
        BY <2>1, HeadAndTail
    <2>3. wpc' = "lookup" => req'.key.seq < nextId
        <3>1. 1 \in 1..Len(reqQ)
            BY <2>2
        <3>. QED
            BY <2>1, <2>2, <3>1 DEF OwnDrafts
    <2>4. ASSUME NEW i \in 1..Len(reqQ') PROVE reqQ'[i].key.seq < nextId
        <3>1. i \in 1..(Len(reqQ) - 1) /\ i + 1 \in 1..Len(reqQ)
            BY <2>2
        <3>. QED
            BY <2>2, <3>1 DEF OwnDrafts
    <2>. QED
        BY <1>2, <1>4, <2>1, <2>3, <2>4 DEF TakeRequest, OwnDrafts, InRow
<1>5. CASE HandleRequest
    <2>1. req.key \in Key /\ req.key.seq < nextId
        BY <1>1, <1>5 DEF HandleRequest, WorkerTypeOK, Request, OwnDrafts
    <2>2. OwnDraft(Answer(req.key).for, Answer(req.key).tokens)
        <3>1. CASE Hit(cache, req.key)
            <4>1. PICK s \in Slot : /\ cache[s] # NoEntry /\ cache[s].key = req.key
                                    /\ CachedTokens(cache, req.key) = cache[s].tokens
                BY <1>1, <3>1, HitReturnsRow
            <4>. QED
                BY <3>1, <4>1 DEF Answer, OwnDrafts
        <3>2. CASE ~ Hit(cache, req.key)
            <4>1. Ready /\ wpc = "lookup"
                BY <1>5, <3>2 DEF HandleRequest
            <4>. QED
                BY <3>2, <4>1, SpeculatesOwn DEF Answer
        <3>. QED
            BY <3>1, <3>2
    <2>3. \A s \in Slot : cache'[s] = NoEntry
        BY <1>1, <1>5 DEF HandleRequest, Reset, WorkerTypeOK, Cache
    <2>. QED
        BY <1>2, <1>5, <2>1, <2>2, <2>3 DEF HandleRequest, DraftDone, OwnDrafts
<1>6. CASE InsertBranch
    <2>1. /\ wpc = "rebuild" /\ level < Levels /\ branch < FanOut[level + 1] /\ Ready
          /\ stage' = "test"
          /\ cache' = Insert(cache, slot, BranchKey, Speculate(BranchKey))
          /\ UNCHANGED <<context, reqQ, respQ, wpc, req, resp>>
        BY <1>6 DEF InsertBranch, InRow, DraftDone
    <2>2. BranchKey \in Key /\ BranchKey.seq = req.key.seq
        <3>1. BranchKey \in Key
            BY <1>1, <2>1, BranchKeyType
        <3>2. req.key \in Key
            BY <1>1 DEF WorkerTypeOK, Request
        <3>. QED
            BY <3>1, <3>2 DEF BranchKey, Key
    <2>3. OwnDraft(BranchKey, Speculate(BranchKey))
        BY <2>1, <2>2, SpeculatesOwn DEF OwnDrafts
    <2>4. ASSUME NEW s \in Slot, cache'[s] # NoEntry
          PROVE  OwnDraft(cache'[s].key, cache'[s].tokens)
        <3>1. DOMAIN cache = Slot
            BY <1>1 DEF WorkerTypeOK, Cache
        <3>2. CASE s = slot
            <4>1. cache'[s] = [key |-> BranchKey, tokens |-> Speculate(BranchKey)]
                BY <2>1, <3>1, <3>2 DEF Insert
            <4>. QED
                BY <4>1, <2>3
        <3>3. CASE s # slot
            <4>1. cache'[s] = cache[s]
                BY <2>1, <3>1, <3>3 DEF Insert
            <4>. QED
                BY <4>1, <2>4 DEF OwnDrafts
        <3>. QED
            BY <3>2, <3>3
    <2>. QED
        BY <1>2, <2>1, <2>4 DEF OwnDrafts
<1>7. CASE Respond
    <2>1. /\ wpc = "rebuild" /\ wpc' = "top" /\ respQ' = Append(respQ, resp)
          /\ UNCHANGED <<context, reqQ, cache>> /\ stage' = stage /\ ~ InRow
        BY <1>1, <1>7, LevelsBound DEF Respond, InRow, WorkerTypeOK
    <2>2. respQ \in Seq(Response) /\ resp \in Response /\ Len(respQ) \in Nat
        BY <1>1 DEF WorkerTypeOK
    <2>3. /\ Len(respQ') = Len(respQ) + 1 /\ respQ'[Len(respQ) + 1] = resp
          /\ \A i \in 1..Len(respQ) : respQ'[i] = respQ[i]
        BY <2>1, <2>2, AppendProperties
    <2>4. ASSUME NEW i \in 1..Len(respQ') PROVE OwnDraft(respQ'[i].for, respQ'[i].tokens)
        <3>1. i = Len(respQ) + 1 \/ i \in 1..Len(respQ)
            BY <2>2, <2>3
        <3>. QED
            BY <2>1, <2>3, <3>1 DEF OwnDrafts
    <2>. QED
        BY <1>2, <2>1, <2>4 DEF OwnDrafts
<1>8. CASE NextLevel
    <2>1. ~ InRow /\ wpc = "rebuild" /\ stage' = stage
        BY <1>1, <1>8, LevelsBound DEF NextLevel, InRow, WorkerTypeOK
    <2>. QED
        BY <1>2, <1>8, <2>1 DEF OwnDrafts, NextLevel
<1>9. CASE TestContext \/ ScoreContext
    <2>1. Drafting /\ Drafting' /\ (wpc \in {"lookup", "rebuild"})
        BY <1>9 DEF TestContext, ScoreContext, Drafting, InRow
    <2>2. wpc' = "lookup" \/ InRow'
        BY <2>1 DEF Drafting
    <2>. QED
        BY <1>2, <1>9, <2>2 DEF OwnDrafts, TestContext, ScoreContext
<1>. QED
    BY <1>3, <1>4, <1>5, <1>6, <1>7, <1>8, <1>9 DEF ThreadStep

LEMMA StepPrompt == PromptInv /\ [Next]_vars => PromptInv'
<1>. SUFFICES ASSUME PromptInv, [Next]_vars PROVE PromptInv'
    OBVIOUS
<1>1. PairingInv /\ PairingInv' /\ TypeInv /\ TypeOK /\ WorkerTypeOK
    BY StepPairing DEF PromptInv, PairingInv, TypeInv, TypeOK
<1>2. nextId \in Nat
    BY <1>1 DEF TypeOK
<1>. USE DEF OwnDraft, CurrentSeq, Decoding
<1>3. CASE WorkerStep
    <2>1. ThreadStep /\ UNCHANGED engineVars
        BY <1>3 DEF WorkerStep
    <2>2. UNCHANGED <<epc, nextId, prompt, answer>>
        BY <2>1 DEF engineVars, decodeVars
    <2>3. mode' = mode /\ (wpc' = "off" <=> wpc = "off")
        BY <2>1 DEF ThreadStep, LoopTop, PollEmpty, TakeRequest, TestContext, ScoreContext, HandleRequest, InsertBranch,
                    NextLevel, Respond
    <2>4. mode = "instance" /\ OwnDrafts => OwnDrafts'
        BY <1>1, <2>1, ThreadKeepsDrafts
    <2>. QED
        BY <1>1, <2>2, <2>3, <2>4 DEF PromptInv
<1>4. CASE UNCHANGED vars \/ WorkerRaises
    BY <1>1, <1>4 DEF PromptInv, OwnDrafts, InRow, vars, engineVars, decodeVars, workerVars, threadVars,
                      WorkerRaises, ModelRaises
<1>5. CASE QuietStep
    <2>1. UNCHANGED workerVars /\ UNCHANGED <<nextId, prompt>>
        BY <1>5, QuietLeavesWorker
        DEF QuietStep, Generate, ReturnOutputs, Prefill, EmitToken, EmitRaises, LoopHead, Decode,
            DraftTokens, Verify, EndDecode, GetTimesOut, JoinReturns
    <2>2. Decoding' => Decoding
        BY <1>5
        DEF QuietStep, Generate, ReturnOutputs, Prefill, EmitToken, EmitRaises, LoopHead, Decode,
            DraftTokens, Verify, EndDecode, GetTimesOut, JoinReturns
    <2>3. ASSUME mode = "instance", epc' \in {"head", "verify", "emit"}
          PROVE  epc \in {"head", "verify", "emit"} /\ answer' = answer
        <3>1. epc \notin {"decode", "draft"}
            BY <1>1, <2>3 DEF PairingInv, AsyncMode
        <3>. QED
            BY <1>5, <2>3, <3>1
            DEF QuietStep, Generate, ReturnOutputs, Prefill, EmitToken, EmitRaises, LoopHead, Decode,
                DraftTokens, Verify, EndDecode, GetTimesOut, JoinReturns, decodeVars
    <2>. QED
        BY <1>1, <2>1, <2>2, <2>3 DEF PromptInv, OwnDrafts, InRow, workerVars, threadVars
<1>6. CASE Shutdown
    BY <1>1, <1>6 DEF PromptInv, OwnDrafts, InRow, Shutdown, threadVars
<1>7. CASE StartPrompt
    <2>1. /\ nextId' = nextId + 1 /\ prompt' \in Context /\ epc' \in {"idle", "prefill"}
          /\ mode \in AsyncMode /\ wpc = "off" => epc' = "idle"
          /\ mode = "instance" /\ wpc # "off" => context' = prompt'
          /\ UNCHANGED <<mode, reqQ, respQ, cache, wpc, req, resp, stage, scored, level, branch>>
        BY <1>7 DEF StartPrompt, SetContext, threadVars
    <2>2. mode = "instance" /\ wpc # "off" => OwnDrafts'
        <3>. SUFFICES ASSUME mode = "instance", wpc # "off" PROVE OwnDrafts'
            OBVIOUS
        <3>1. OwnDrafts
            BY DEF PromptInv
        <3>2. ASSUME NEW key \in Key, NEW tokens, OwnDraft(key, tokens)
              PROVE  OwnDraft(key, tokens)'
            <4>1. key.seq \in Nat
                BY CacheAssumption DEF Key
            <4>. QED
                BY <1>2, <2>1, <3>2, <4>1
        <3>3. \A i \in 1..Len(reqQ) : reqQ[i].key.seq \in Nat
            <4>1. \A i \in 1..Len(reqQ) : reqQ[i] \in Request
                BY <1>1, ElementOfSeq DEF WorkerTypeOK
            <4>. QED
                BY <4>1, CacheAssumption DEF Request, Key
        <3>4. \A i \in 1..Len(respQ) : respQ[i].for \in Key
            <4>1. \A i \in 1..Len(respQ) : respQ[i] \in Response
                BY <1>1, ElementOfSeq DEF WorkerTypeOK
            <4>. QED
                BY <4>1 DEF Response
        <3>5. \A s \in Slot : cache[s] # NoEntry => cache[s].key \in Key
            BY <1>1 DEF WorkerTypeOK, Cache, Entry
        <3>6. req.key.seq \in Nat /\ resp.for \in Key
            BY <1>1, CacheAssumption DEF WorkerTypeOK, Request, Response, Key
        <3>7. \A i \in 1..Len(reqQ') : reqQ'[i].key.seq < nextId'
            BY <1>2, <2>1, <3>1, <3>3 DEF OwnDrafts
        <3>8. wpc' \in {"lookup", "rebuild"} => req'.key.seq < nextId'
            BY <1>2, <2>1, <3>1, <3>6 DEF OwnDrafts
        <3>13. wpc' \in {"lookup", "rebuild"} => req'.key.seq # CurrentSeq'
            BY <1>2, <2>1, <3>1, <3>6 DEF OwnDrafts
        <3>. HIDE DEF OwnDraft
        <3>9. (\A i \in 1..Len(respQ) : OwnDraft(respQ[i].for, respQ[i].tokens))'
            <4>. SUFFICES ASSUME NEW i \in 1..Len(respQ)
                          PROVE  OwnDraft(respQ[i].for, respQ[i].tokens)'
                BY <2>1
            <4>1. OwnDraft(respQ[i].for, respQ[i].tokens)
                BY <3>1 DEF OwnDrafts
            <4>. QED
                BY <2>1, <3>2, <3>4, <4>1 DEF OwnDraft
        <3>10. (wpc = "rebuild" => OwnDraft(resp.for, resp.tokens))'
            BY <2>1, <3>1, <3>2, <3>6 DEF OwnDrafts, OwnDraft
        <3>11. (\A s \in Slot : cache[s] # NoEntry => OwnDraft(cache[s].key, cache[s].tokens))'
            BY <2>1, <3>1, <3>2, <3>5 DEF OwnDrafts, OwnDraft
        <3>12. (wpc # "dead" /\ stage # "test" => wpc = "lookup" \/ InRow)'
            BY <2>1, <3>1 DEF OwnDrafts, InRow
        <3>. QED
            BY <2>1, <3>7, <3>8, <3>9, <3>10, <3>11, <3>12, <3>13 DEF OwnDrafts
    <2>. QED
        BY <1>1, <2>1, <2>2 DEF PromptInv
<1>8. CASE FirstTokenDone \/ EndVerify
    <2>1. /\ UNCHANGED <<mode, context, respQ, wpc, req, resp, cache, nextId, prompt, answer>>
          /\ UNCHANGED <<stage, scored, level, branch>>
          /\ epc \in {"first", "emit"}
          /\ mode = "instance" /\ epc' = "head" => epc = "emit"
          /\ epc' \in {"head", "wait"}
        BY <1>8 DEF FirstTokenDone, EndVerify, decodeVars, threadVars, AsyncMode
    <2>2. reqQ' = reqQ \/ reqQ' = Append(reqQ, Serve(OutcomeKey))
        BY <1>8 DEF FirstTokenDone, EndVerify, Submit
    <2>3. Serve(OutcomeKey) \in Request /\ Serve(OutcomeKey).key.seq = CurrentSeq
        BY <1>1, <2>1, OutcomeIsServe DEF Serve, OutcomeKey
    <2>4. reqQ \in Seq(Request) /\ Len(reqQ) \in Nat
        BY <1>1 DEF WorkerTypeOK
    <2>5. OwnDrafts => \A i \in 1..Len(reqQ') : reqQ'[i].key.seq < nextId
        <3>1. CASE reqQ' = reqQ
            BY <3>1 DEF OwnDrafts
        <3>2. CASE reqQ' = Append(reqQ, Serve(OutcomeKey))
            <4>1. /\ Len(reqQ') = Len(reqQ) + 1 /\ reqQ'[Len(reqQ) + 1] = Serve(OutcomeKey)
                  /\ \A i \in 1..Len(reqQ) : reqQ'[i] = reqQ[i]
                BY <2>3, <2>4, <3>2, AppendProperties
            <4>2. \A i \in 1..Len(reqQ') : i = Len(reqQ) + 1 \/ i \in 1..Len(reqQ)
                BY <2>4, <4>1
            <4>. QED
                BY <1>2, <2>3, <4>1, <4>2 DEF OwnDrafts
        <3>. QED
            BY <2>2, <3>1, <3>2
    <2>. QED
        BY <1>1, <2>1, <2>5 DEF PromptInv, OwnDrafts, InRow
<1>9. CASE GetResponse
    <2>1. /\ respQ # <<>> /\ respQ' = Tail(respQ) /\ answer' = Head(respQ)
          /\ epc = "wait" /\ epc' = "head"
          /\ UNCHANGED <<mode, context, reqQ, wpc, req, resp, cache, nextId, prompt>>
          /\ UNCHANGED <<stage, scored, level, branch>>
        BY <1>9 DEF GetResponse, Receive, threadVars
    <2>2. respQ \in Seq(Response)
        BY <1>1 DEF WorkerTypeOK
    <2>3. /\ Len(respQ) \in Nat \ {0} /\ Head(respQ) = respQ[1] /\ Len(respQ') = Len(respQ) - 1
          /\ \A i \in 1..(Len(respQ) - 1) : respQ'[i] = respQ[i + 1]
        BY <2>1, <2>2, HeadAndTail
    <2>4. 1 \in 1..Len(respQ) /\ \A i \in 1..Len(respQ') : i + 1 \in 1..Len(respQ) /\ i \in 1..(Len(respQ) - 1)
        BY <2>3
    <2>5. OwnDrafts => /\ OwnDraft(answer'.for, answer'.tokens)
                       /\ \A i \in 1..Len(respQ') : OwnDraft(respQ'[i].for, respQ'[i].tokens)
        BY <2>1, <2>3, <2>4 DEF OwnDrafts
    <2>. QED
        BY <1>1, <2>1, <2>5 DEF PromptInv, OwnDrafts, InRow
<1>. QED
    BY <1>3, <1>4, <1>5, <1>6, <1>7, <1>8, <1>9 DEF Next, EngineStep, QuietStep

LEMMA InitPrompt == Init => PromptInv
<1>. SUFFICES ASSUME Init PROVE PromptInv
    OBVIOUS
<1>1. PairingInv
    BY InitPairing
<1>2. /\ epc = "idle" /\ nextId = 0 /\ prompt = NoContext /\ context = NoContext
      /\ Len(reqQ) = 0 /\ Len(respQ) = 0 /\ wpc \in {"top", "off"} /\ stage = "test"
      /\ \A s \in Slot : cache[s] = NoEntry
    BY EmptySeq DEF Init, WorkerInit, Create
<1>. QED
    BY <1>1, <1>2 DEF PromptInv, OwnDrafts, Decoding

(* In Instance-SSD no draft for the sequence being decoded was copied, or  *)
(* ranked, from another prompt, though set_context may come between any    *)
(* two of the worker's three reads: a draft so torn is only ever for a     *)
(* sequence given up, because the caller sets the context before it sends  *)
(* any request of the next one (generate, workers.py:97-101, 131-135).     *)
THEOREM DraftFromOwnPromptHolds == Spec => []DraftFromOwnPrompt
<1>1. PromptInv => DraftFromOwnPrompt
    BY DEF PromptInv, DraftFromOwnPrompt, OwnDraft, Decoding, AsyncMode
<1>. QED
    BY <1>1, InitPrompt, StepPrompt, PTL DEF Spec
=============================================================================
