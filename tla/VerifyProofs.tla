----------------------------- MODULE VerifyProofs -----------------------------
(***************************************************************************)
(* How a draft is judged and made, for every K, vocabulary, draft model,   *)
(* prefix and prompt: the PyTorch reference loop computes what             *)
(* verify_greedy's closed form says; Gemma's draft continues the prefix it *)
(* was asked for, whatever is in the cache; a span is a best stretch of the*)
(* prompt, and mixing keeps a row's best candidate.                        *)
(***************************************************************************)
EXTENDS MCVerifyTorch, CommonLemmas
LOCAL INSTANCE SequencesExt

(* The loop invariant of the reference: what it has passed matched, and it *)
(* stops only at a mismatch or at the end (verify_torch.py's loop).        *)
THEOREM LoopInvariance == Spec => []LoopInv
<1>. USE ConfigAssumption
<1>1. Init => LoopInv
    BY DEF Init, LoopInv, TypeOK, Token
<1>2. LoopInv /\ [Next]_vars => LoopInv'
    <2>. SUFFICES ASSUME LoopInv, [Next]_vars PROVE LoopInv'
        OBVIOUS
    <2>. USE DEF LoopInv, TypeOK, Matches
    <2>1. CASE Accept
        BY <2>1 DEF Accept
    <2>2. CASE Break
        BY <2>2 DEF Break
    <2>3. CASE Exhaust
        BY <2>3 DEF Exhaust
    <2>4. CASE SetRecovery
        BY <2>4 DEF SetRecovery, TargetRow
    <2>5. CASE UNCHANGED vars
        BY <2>5 DEF vars
    <2>. QED
        BY <2>1, <2>2, <2>3, <2>4, <2>5 DEF Next
<1>. QED
    BY <1>1, <1>2, PTL DEF Spec

(* The JAX port and the PyTorch reference agree on every input.            *)
THEOREM ParityHolds == Spec => []Parity
<1>1. LoopInv => Parity
    <2>. SUFFICES ASSUME LoopInv, pc = "done"
                  PROVE  /\ acc = AcceptUntil(target, draft)
                         /\ recovery = RecoveryToken(target, draft)
        BY DEF Parity
    <2>1. acc = AcceptUntil(target, draft)
        BY AcceptUntilUnique DEF LoopInv, TypeOK
    <2>. QED
        BY <2>1 DEF LoopInv, RecoveryToken
<1>. QED
    BY <1>1, LoopInvariance, PTL

(* What the decode loop appends is the target's own choice at every        *)
(* position, and acceptance is maximal (verify_greedy's contract with      *)
(* _run_sd and _run_ssd).                                                  *)
THEOREM AcceptedPrefixIsTargetsHolds == Spec => []AcceptedPrefixIsTargets
<1>1. LoopInv => AcceptedPrefixIsTargets
    <2>. SUFFICES ASSUME LoopInv PROVE AcceptedPrefixIsTargets
        OBVIOUS
    <2>. DEFINE n == AcceptUntil(target, draft)
    <2>1. /\ n \in 0..K
          /\ \A i \in 1..n : Matches(target, draft, i)
          /\ n < K => ~ Matches(target, draft, n + 1)
        BY AcceptedIsPrefix DEF LoopInv, TypeOK
    <2>2. n < K => draft[n + 1] # target[n]
        BY <2>1, ConfigAssumption DEF Matches
    <2>. QED
        BY <2>1, <2>2 DEF AcceptedPrefixIsTargets, Matches, RecoveryToken
<1>. QED
    BY <1>1, LoopInvariance, PTL
-----------------------------------------------------------------------------
(* The contexts a draft model goes through as it is fed the tokens. *)
IsAfter(f, c, toks) ==
    f = [i \in 0..Len(toks) |-> IF i = 0 THEN c ELSE DraftAdvance[f[i - 1]][toks[i]]]

After(f, c, toks) ==
    /\ f \in [0..Len(toks) -> DraftCtx]
    /\ f[0] = c
    /\ \A i \in 1..Len(toks) : f[i] = DraftAdvance[f[i - 1]][toks[i]]

LEMMA FedIsAfter ==
    ASSUME NEW c \in DraftCtx, NEW toks \in Seq(Token)
    PROVE  \E f : After(f, c, toks) /\ Fed(c, toks) = f[Len(toks)]
<1>. DEFINE n == Len(toks)
            step == [i \in 1..n |-> [v \in DraftCtx |-> DraftAdvance[v][toks[i]]]]
            after == CHOOSE f : IsAfter(f, c, toks)
<1>1. n \in Nat /\ \A i \in 1..n : toks[i] \in Token
    OBVIOUS
<1>2. step \in [1..n -> [DraftCtx -> DraftCtx]]
    <2>1. \A i \in 1..n, v \in DraftCtx : DraftAdvance[v][toks[i]] \in DraftCtx
        BY <1>1, DraftAssumption
    <2>. QED
        BY <2>1
<1>3. \A i \in 1..n, v \in DraftCtx : step[i][v] = DraftAdvance[v][toks[i]]
    OBVIOUS
<1>4. Fed(c, toks) = after[n]
    BY DEF Fed, IsAfter
<1>. HIDE DEF step, after
<1>5. PICK f : Solves(f, n, DraftCtx, c, step)
    BY ONLY <1>1, <1>2, c \in DraftCtx, RecurrenceHasSolution
<1>6. f \in [0..n -> DraftCtx] /\ f[0] = c
    BY <1>5 DEF Solves
<1>7. ASSUME NEW i \in 1..n PROVE f[i] = DraftAdvance[f[i - 1]][toks[i]]
    <2>1. f[i] = step[i][f[i - 1]] /\ f[i - 1] \in DraftCtx
        BY <1>1, <1>5 DEF Solves
    <2>. QED
        BY <2>1, <1>3
<1>8. IsAfter(f, c, toks)
    BY <1>6, <1>7 DEF IsAfter
<1>9. IsAfter(after, c, toks)
    BY <1>8 DEF after
<1>10. after = [i \in 0..n |-> after[i]] /\ after[0] = c
    <2>1. 0 \in 0..n
        BY <1>1
    <2>2. after = [i \in 0..n |-> IF i = 0 THEN c ELSE DraftAdvance[after[i - 1]][toks[i]]]
        BY <1>9 DEF IsAfter
    <2>3. after = [i \in 0..n |-> after[i]]
        BY ONLY <2>2, Zenon
    <2>4. after[0] = IF 0 = 0 THEN c ELSE DraftAdvance[after[0 - 1]][toks[0]]
        BY ONLY <2>1, <2>2, Zenon
    <2>. QED
        BY <2>3, <2>4
<1>11. ASSUME NEW i \in 1..n PROVE after[i] = DraftAdvance[after[i - 1]][toks[i]]
    <2>1. i \in 0..n /\ i # 0
        BY <1>1
    <2>2. \A l \in 0..n :
              after[l] = IF l = 0 THEN c ELSE DraftAdvance[after[l - 1]][toks[l]]
        BY <1>9 DEF IsAfter
    <2>. QED
        BY <2>1, <2>2
<1>12. Follows(after, n, DraftCtx, c, step)
    BY <1>3, <1>10, <1>11 DEF Follows
<1>13. Solves(after, n, DraftCtx, c, step)
    BY ONLY <1>1, <1>2, <1>10, <1>12, c \in DraftCtx, FollowsSolves
<1>14. after \in [0..n -> DraftCtx]
    BY <1>13 DEF Solves
<1>15. After(after, c, toks)
    BY <1>10, <1>11, <1>14 DEF After
<1>. QED
    BY <1>4, <1>15

LEMMA AfterIsUnique ==
    ASSUME NEW c \in DraftCtx, NEW p \in Seq(Token), NEW f, After(f, c, p),
           NEW g, g[0] = c, \A i \in 1..Len(p) : g[i] = DraftAdvance[g[i - 1]][p[i]]
    PROVE  \A i \in 0..Len(p) : g[i] = f[i]
<1>. DEFINE T == {i \in 0..Len(p) : g[i] = f[i]}
<1>1. 0 \in T
    BY DEF After
<1>2. ASSUME NEW i \in 1..Len(p), i - 1 \in T PROVE i \in T
    BY <1>2 DEF After
<1>3. \A i \in 0..Len(p) : i \in T
    <2>1. Len(p) \in Nat
        OBVIOUS
    <2>. HIDE DEF T
    <2>. QED
        BY <2>1, <1>1, <1>2, UpTo
<1>. QED
    BY <1>3

LEMMA FedTypes ==
    ASSUME NEW c \in DraftCtx, NEW toks \in Seq(Token)
    PROVE  Fed(c, toks) \in DraftCtx
<1>1. PICK f : After(f, c, toks) /\ Fed(c, toks) = f[Len(toks)]
    BY FedIsAfter
<1>2. Len(toks) \in 0..Len(toks)
    OBVIOUS
<1>. QED
    BY <1>1, <1>2 DEF After

(* Feeding one more token advances the context by it. *)
LEMMA FedAppend ==
    ASSUME NEW c \in DraftCtx, NEW p \in Seq(Token), NEW t \in Token
    PROVE  Fed(c, Append(p, t)) = DraftAdvance[Fed(c, p)][t]
<1>. DEFINE q == Append(p, t)
<1>1. /\ q \in Seq(Token) /\ Len(q) = Len(p) + 1 /\ q[Len(p) + 1] = t
      /\ \A i \in 1..Len(p) : q[i] = p[i]
    BY AppendProperties
<1>. HIDE DEF q
<1>2. PICK f : After(f, c, p) /\ Fed(c, p) = f[Len(p)]
    BY FedIsAfter
<1>3. PICK g : After(g, c, q) /\ Fed(c, q) = g[Len(q)]
    BY <1>1, FedIsAfter
<1>4. g[0] = c /\ \A i \in 1..Len(p) : g[i] = DraftAdvance[g[i - 1]][p[i]]
    BY <1>1, <1>3 DEF After
<1>5. g[Len(p)] = f[Len(p)]
    <2>1. \A i \in 0..Len(p) : g[i] = f[i]
        BY <1>2, <1>4, AfterIsUnique
    <2>. QED
        BY <2>1
<1>6. g[Len(p) + 1] = DraftAdvance[g[Len(p)]][t]
    <2>1. Len(p) + 1 \in 1..Len(q) /\ (Len(p) + 1) - 1 = Len(p)
        BY <1>1
    <2>2. g[Len(p) + 1] = DraftAdvance[g[(Len(p) + 1) - 1]][q[Len(p) + 1]]
        BY <2>1, <1>3 DEF After
    <2>. QED
        BY <2>1, <2>2, <1>1
<1>. QED
    BY <1>1, <1>2, <1>3, <1>5, <1>6 DEF q
(* The toy's tokens: each from the one before, the first from the prefix's *)
(* last.                                                                   *)
IsToy(f, t) == f = [i \in 0..K |-> IF i = 0 THEN t ELSE ToyArgmax[f[i - 1]]]

LEMMA ToyTokens ==
    ASSUME NEW toks \in Seq(Token), toks # <<>>
    PROVE  \E f \in [0..K -> Token] :
              /\ f[0] = Last(toks) /\ \A i \in 1..K : f[i] = ToyArgmax[f[i - 1]]
              /\ ToySpeculate(toks) = [i \in 1..K |-> f[i]]
<1>. DEFINE t == Last(toks)
            step == [i \in 1..K |-> ToyArgmax]
            tokens == CHOOSE f : IsToy(f, t)
<1>1. K \in Nat /\ t \in Token /\ ToyArgmax \in [Token -> Token]
    <2>1. Len(toks) \in 1..Len(toks)
        OBVIOUS
    <2>2. toks[Len(toks)] \in Token
        BY <2>1
    <2>. QED
        BY <2>2, ConfigAssumption, DraftAssumption DEF Last
<1>2. step \in [1..K -> [Token -> Token]] /\ \A i \in 1..K : step[i] = ToyArgmax
    BY <1>1
<1>3. ToySpeculate(toks) = [i \in 1..K |-> tokens[i]]
    BY DEF ToySpeculate, IsToy
<1>. HIDE DEF step, t, tokens
<1>4. PICK f : Solves(f, K, Token, t, step)
    BY ONLY <1>1, <1>2, RecurrenceHasSolution
<1>5. f \in [0..K -> Token] /\ f[0] = t /\ \A i \in 1..K : f[i] = ToyArgmax[f[i - 1]]
    BY <1>2, <1>4 DEF Solves
<1>6. IsToy(f, t)
    BY <1>1, <1>5 DEF IsToy
<1>7. IsToy(tokens, t)
    BY <1>6 DEF tokens
<1>8. tokens = [i \in 0..K |-> tokens[i]] /\ tokens[0] = t
    <2>1. 0 \in 0..K
        BY <1>1
    <2>2. tokens = [i \in 0..K |-> IF i = 0 THEN t ELSE ToyArgmax[tokens[i - 1]]]
        BY <1>7 DEF IsToy
    <2>3. tokens = [i \in 0..K |-> tokens[i]]
        BY ONLY <2>2, Zenon
    <2>4. tokens[0] = IF 0 = 0 THEN t ELSE ToyArgmax[tokens[0 - 1]]
        BY ONLY <2>1, <2>2, Zenon
    <2>. QED
        BY <2>3, <2>4
<1>9. ASSUME NEW i \in 1..K PROVE tokens[i] = ToyArgmax[tokens[i - 1]]
    <2>1. i \in 0..K /\ i # 0
        BY <1>1
    <2>2. \A l \in 0..K : tokens[l] = IF l = 0 THEN t ELSE ToyArgmax[tokens[l - 1]]
        BY <1>7 DEF IsToy
    <2>. QED
        BY <2>1, <2>2
<1>10. Follows(tokens, K, Token, t, step)
    BY <1>2, <1>8, <1>9 DEF Follows
<1>11. Solves(tokens, K, Token, t, step)
    BY ONLY <1>1, <1>2, <1>8, <1>10, FollowsSolves
<1>12. tokens \in [0..K -> Token]
    BY <1>11 DEF Solves
<1>. QED
    BY <1>3, <1>8, <1>9, <1>12 DEF t

LEMMA ToyContinues ==
    ASSUME NEW toks \in Seq(Token), toks # <<>>, NEW i \in 1..K
    PROVE  ToySpeculate(toks)[i] = ToyArgmax[Last(toks \o SubSeq(ToySpeculate(toks), 1, i - 1))]
<1>. DEFINE toy == ToySpeculate(toks)
            past == SubSeq(toy, 1, i - 1)
<1>1. PICK f \in [0..K -> Token] :
          /\ f[0] = Last(toks) /\ \A k \in 1..K : f[k] = ToyArgmax[f[k - 1]]
          /\ toy = [k \in 1..K |-> f[k]]
    BY ToyTokens
<1>. HIDE DEF toy
<1>2. K \in Nat /\ toy[i] = ToyArgmax[f[i - 1]]
    BY <1>1, ConfigAssumption
<1>3. /\ past \in Seq(Token) /\ Len(past) = i - 1
      /\ \A k \in 1..(i - 1) : past[k] = f[k]
    <2>1. \A k \in 1..(i - 1) : toy[k] = f[k] /\ f[k] \in Token
        BY <1>1, <1>2
    <2>2. /\ past \in Seq(Token) /\ Len(past) = IF 1 <= i - 1 THEN (i - 1) - 1 + 1 ELSE 0
          /\ \A k \in 1..((i - 1) - 1 + 1) : past[k] = toy[1 + k - 1]
        BY <2>1, SubSeqProperties
    <2>. QED
        BY <2>1, <2>2
<1>. HIDE DEF past
<1>4. Last(toks \o past) = f[i - 1]
    <2>. DEFINE c == toks \o past
    <2>1. /\ Len(c) = Len(toks) + Len(past) /\ Len(toks) \in Nat \ {0}
          /\ \A k \in 1..(Len(toks) + Len(past)) :
                 c[k] = IF k <= Len(toks) THEN toks[k] ELSE past[k - Len(toks)]
        BY <1>3
    <2>. HIDE DEF c
    <2>2. CASE i = 1
        BY <2>1, <2>2, <1>1, <1>3 DEF Last, c
    <2>3. CASE i # 1
        <3>1. /\ Len(c) \in 1..(Len(toks) + Len(past)) /\ ~ (Len(c) <= Len(toks))
              /\ Len(c) - Len(toks) = i - 1 /\ i - 1 \in 1..(i - 1)
            BY <2>1, <2>3, <1>3
        <3>2. c[Len(c)] = past[i - 1]
            BY <3>1, <2>1
        <3>. QED
            BY <3>1, <3>2, <1>3 DEF Last, c
    <2>. QED
        BY <2>2, <2>3
<1>. QED
    BY <1>2, <1>4 DEF toy, past
-----------------------------------------------------------------------------
(* A continuation grows by the token most likely after it. *)
LEMMA ContinuesAppend ==
    ASSUME NEW toks \in Seq(Token), NEW g \in Seq(Token), NEW e \in Token,
           Continues(g, toks), e = DraftArgmax[Fed(StartCtx, toks \o g)]
    PROVE  Continues(Append(g, e), toks)
<1>. DEFINE h == Append(g, e)
<1>1. /\ h \in Seq(Token) /\ Len(h) = Len(g) + 1 /\ h[Len(g) + 1] = e
      /\ \A i \in 1..Len(g) : h[i] = g[i]
    BY AppendProperties
<1>. HIDE DEF h
<1>2. ASSUME NEW m \in 0..Len(g) PROVE SubSeq(h, 1, m) = SubSeq(g, 1, m)
    <2>1. \A i \in 1..m : h[i] = g[i] /\ g[i] \in Token
        BY <1>1
    <2>2. /\ SubSeq(h, 1, m) \in Seq(Token) /\ SubSeq(g, 1, m) \in Seq(Token)
          /\ Len(SubSeq(h, 1, m)) = m /\ Len(SubSeq(g, 1, m)) = m
          /\ \A i \in 1..m : SubSeq(h, 1, m)[i] = h[i] /\ SubSeq(g, 1, m)[i] = g[i]
        BY <2>1
    <2>. HIDE DEF h
    <2>. DEFINE a == SubSeq(h, 1, m)
                b == SubSeq(g, 1, m)
    <2>3. a \in Seq(Token) /\ b \in Seq(Token) /\ Len(a) = Len(b) /\ \A i \in 1..Len(a) : a[i] = b[i]
        BY <2>1, <2>2
    <2>. HIDE DEF a, b
    <2>4. a = b
        BY <2>3, SeqEqual
    <2>. QED
        BY <2>4 DEF a, b
<1>3. ASSUME NEW i \in 1..Len(h)
      PROVE  h[i] = DraftArgmax[Fed(StartCtx, toks \o SubSeq(h, 1, i - 1))]
    <2>1. i - 1 \in 0..Len(g)
        BY <1>1
    <2>2. SubSeq(h, 1, i - 1) = SubSeq(g, 1, i - 1)
        BY <2>1, <1>2
    <2>3. CASE i <= Len(g)
        <3>1. i \in 1..Len(g) /\ h[i] = g[i]
            BY <2>3, <1>1
        <3>2. g[i] = DraftArgmax[Fed(StartCtx, toks \o SubSeq(g, 1, i - 1))]
            BY ONLY <3>1, Continues(g, toks) DEF Continues
        <3>. QED
            BY ONLY <2>2, <3>1, <3>2
    <2>4. CASE i = Len(g) + 1
        <3>1. SubSeq(g, 1, i - 1) = g
            BY <2>4, SubSeqFull
        <3>. QED
            BY <3>1, <2>2, <2>4, <1>1
    <2>. QED
        BY <2>3, <2>4, <1>1
<1>. QED
    BY <1>3 DEF Continues, h

(* Between passes the cache holds all that was fed: the prefix, the first  *)
(* token and the draft but its last token.                                 *)
DraftInv ==
    /\ cached \in DraftCtx /\ saved \in DraftCtx
    /\ drafted \in Seq(Token)
    /\ dpc \in {"idle", "prefill", "decode", "returned"}
    /\ dpc # "idle" => prefix \in Prefix
    /\ dpc = "prefill" => drafted = <<>>
    /\ dpc = "decode" =>
          \E t \in Token :
              /\ Continues(<<t>> \o drafted, prefix)
              /\ cached = Fed(StartCtx, prefix \o SubSeq(<<t>> \o drafted, 1, Len(drafted)))
    /\ dpc = "returned" =>
          /\ cached = saved
          /\ \E t \in Token : Continues(<<t>> \o drafted, prefix)

LEMMA PrefixesAreTokens ==
    ASSUME NEW p \in Prefix
    PROVE  p \in Seq(Token) /\ p # <<>>
BY DraftAssumption

LEMMA PrefillDrafts ==
    ASSUME DraftInv, PrefillPass
    PROVE  DraftInv'
<1>1. /\ dpc = "prefill" /\ prefix \in Prefix /\ prefix' = prefix /\ drafted' = <<>> /\ saved' = saved
      /\ cached' = Fed(StartCtx, prefix) /\ dpc' = "decode" /\ saved \in DraftCtx
    BY DEF PrefillPass, DraftInv
<1>2. prefix \in Seq(Token)
    BY <1>1, PrefixesAreTokens
<1>3. StartCtx \in DraftCtx /\ DraftArgmax \in [DraftCtx -> Token]
    BY DraftAssumption
<1>4. cached' \in DraftCtx
    BY ONLY <1>1, <1>2, <1>3, FedTypes
<1>. DEFINE t == DraftArgmax[cached']
            g == <<t>> \o drafted'
<1>5. t \in Token
    BY <1>3, <1>4
<1>. HIDE DEF t
<1>6. /\ g = <<t>> /\ Len(g) = 1 /\ g[1] = t
      /\ SubSeq(g, 1, 0) = <<>> /\ prefix \o <<>> = prefix
    BY <1>1, <1>2, <1>5
<1>. HIDE DEF g
<1>7. Continues(g, prefix')
    <2>. SUFFICES ASSUME NEW i \in 1..Len(g)
                  PROVE  g[i] = DraftArgmax[Fed(StartCtx, prefix \o SubSeq(g, 1, i - 1))]
        BY <1>1 DEF Continues
    <2>1. i = 1 /\ i - 1 = 0
        BY <1>6
    <2>. QED
        BY <2>1, <1>1, <1>6 DEF t
<1>8. cached' = Fed(StartCtx, prefix' \o SubSeq(g, 1, Len(drafted')))
    <2>1. Len(drafted') = 0
        BY <1>1
    <2>. QED
        BY <2>1, <1>1, <1>6
<1>. QED
    BY <1>1, <1>4, <1>5, <1>7, <1>8 DEF DraftInv, g

(* A pass feeds the last token of g and appends the most likely next one.  *)
LEMMA DecodeDrafts ==
    ASSUME DraftInv, DecodePass
    PROVE  DraftInv'
<1>1. /\ dpc = "decode" /\ prefix \in Prefix /\ cached \in DraftCtx /\ saved \in DraftCtx
      /\ drafted \in Seq(Token)
      /\ cached' = DraftAdvance[cached][DraftArgmax[cached]]
      /\ drafted' = Append(drafted, DraftArgmax[cached'])
      /\ saved' = saved /\ prefix' = prefix /\ dpc' = "decode"
    BY DEF DecodePass, DraftInv
<1>2. PICK t \in Token :
          /\ Continues(<<t>> \o drafted, prefix)
          /\ cached = Fed(StartCtx, prefix \o SubSeq(<<t>> \o drafted, 1, Len(drafted)))
    BY <1>1 DEF DraftInv
<1>. DEFINE n == Len(drafted)
            g == <<t>> \o drafted
            u == DraftArgmax[cached]
            e == DraftArgmax[cached']
            front == SubSeq(g, 1, n)
<1>3. prefix \in Seq(Token) /\ StartCtx \in DraftCtx /\ n \in Nat
    BY <1>1, PrefixesAreTokens, DraftAssumption
<1>4. g \in Seq(Token) /\ Len(g) = n + 1
    BY <1>1
<1>5. u \in Token /\ cached' \in DraftCtx /\ e \in Token
    <2>1. u \in Token
        BY <1>1, DraftAssumption
    <2>2. cached' \in DraftCtx
        BY <2>1, <1>1, DraftAssumption
    <2>. QED
        BY <2>1, <2>2, DraftAssumption
<1>6. Append(g, e) = <<t>> \o drafted'
    <2>1. <<t>> \in Seq(Token)
        OBVIOUS
    <2>. HIDE DEF e
    <2>2. <<t>> \o Append(drafted, e) = Append(g, e)
        BY <2>1, <1>1, <1>5, ConcatAppend
    <2>. QED
        BY <2>2, <1>1 DEF e
<1>7. Continues(g, prefix) /\ cached = Fed(StartCtx, prefix \o front)
    BY <1>2
<1>. HIDE DEF g
<1>8. front \in Seq(Token) /\ g = Append(front, g[n + 1])
    <2>1. 1 \in 1..Len(g) /\ n + 1 \in 1..Len(g) /\ (n + 1) - 1 = n
        BY <1>3, <1>4
    <2>2. SubSeq(g, 1, n + 1) = SubSeq(g, 1, (n + 1) - 1) \o <<g[n + 1]>>
        BY <2>1, <1>3, <1>4, SubSeqRecursiveSecond
    <2>3. SubSeq(g, 1, n + 1) = g
        BY <1>4, SubSeqFull
    <2>4. front \in Seq(Token) /\ g[n + 1] \in Token
        BY <2>1, <1>4
    <2>5. Append(front, g[n + 1]) = front \o <<g[n + 1]>>
        BY <2>4, AppendIsConcat
    <2>. QED
        BY <2>1, <2>2, <2>3, <2>4, <2>5
<1>9. g[n + 1] = u
    <2>1. n + 1 \in 1..Len(g) /\ (n + 1) - 1 = n
        BY <1>3, <1>4
    <2>2. g[n + 1] = DraftArgmax[Fed(StartCtx, prefix \o SubSeq(g, 1, (n + 1) - 1))]
        BY <2>1, <1>7 DEF Continues
    <2>. QED
        BY <2>1, <2>2, <1>7
<1>. HIDE DEF front, u, e, n
<1>10. cached' = Fed(StartCtx, prefix \o g)
    <2>1. prefix \o front \in Seq(Token)
        BY <1>3, <1>8, ConcatProperties
    <2>2. Fed(StartCtx, Append(prefix \o front, u)) = DraftAdvance[Fed(StartCtx, prefix \o front)][u]
        BY ONLY <2>1, <1>3, <1>5, FedAppend
    <2>3. prefix \o Append(front, u) = Append(prefix \o front, u)
        BY ONLY <1>3, <1>5, <1>8, ConcatAppend
    <2>4. prefix \o g = Append(prefix \o front, u)
        BY ONLY <2>3, <1>8, <1>9
    <2>5. cached' = DraftAdvance[cached][u]
        BY <1>1 DEF u
    <2>. QED
        BY ONLY <2>2, <2>4, <2>5, <1>7
<1>11. Continues(Append(g, e), prefix)
    <2>1. e = DraftArgmax[Fed(StartCtx, prefix \o g)]
        BY <1>10 DEF e
    <2>. QED
        BY ONLY <2>1, <1>3, <1>4, <1>5, <1>7, ContinuesAppend
<1>12. SubSeq(Append(g, e), 1, n + 1) = g
    <2>1. <<e>> \in Seq(Token) /\ Append(g, e) = g \o <<e>>
        BY <1>4, <1>5, AppendIsConcat
    <2>2. 1 \in 1..Len(g) /\ n + 1 \in 1..Len(g)
        BY <1>3, <1>4
    <2>3. SubSeq(g \o <<e>>, 1, n + 1) = SubSeq(g, 1, n + 1)
        BY <2>1, <2>2, <1>4, SubSeqOfConcat1
    <2>4. SubSeq(g, 1, n + 1) = g
        BY <1>4, SubSeqFull
    <2>. QED
        BY ONLY <2>1, <2>3, <2>4
<1>13. drafted' \in Seq(Token) /\ Len(drafted') = n + 1
    BY <1>1, <1>5, AppendProperties DEF e, n
<1>14. /\ Continues(<<t>> \o drafted', prefix')
       /\ cached' = Fed(StartCtx, prefix' \o SubSeq(<<t>> \o drafted', 1, Len(drafted')))
    BY ONLY <1>1, <1>6, <1>10, <1>11, <1>12, <1>13
<1>. QED
    BY <1>1, <1>5, <1>13, <1>14 DEF DraftInv

(* The invariant of the cache in every behaviour of the draft model's      *)
(* calls, other callers' and passes that raise included.                   *)
THEOREM DraftInvariance == DraftSpec => []DraftInv
<1>1. DraftInit => DraftInv
    BY DraftAssumption DEF DraftInit, DraftInv
<1>2. DraftInv /\ [DraftNext]_draftVars => DraftInv'
    <2>. SUFFICES ASSUME DraftInv, [DraftNext]_draftVars PROVE DraftInv'
        OBVIOUS
    <2>1. CASE OtherCall
        <3>1. /\ dpc = "idle" /\ dpc' = "idle" /\ UNCHANGED <<saved, drafted>>
              /\ saved \in DraftCtx /\ drafted \in Seq(Token) /\ cached \in DraftCtx
            BY <2>1 DEF OtherCall, DraftInv
        <3>2. \A p \in Prefix : Fed(StartCtx, p) \in DraftCtx
            BY FedTypes, PrefixesAreTokens, DraftAssumption
        <3>3. \A t \in Token : DraftAdvance[cached][t] \in DraftCtx
            BY <3>1, DraftAssumption
        <3>4. cached' \in DraftCtx
            BY <2>1, <3>2, <3>3 DEF OtherCall
        <3>. QED
            BY <3>1, <3>4 DEF DraftInv
    <2>2. CASE BeginSpeculate
        BY <2>2, DraftAssumption DEF BeginSpeculate, DraftInv
    <2>3. CASE PrefillPass
        BY <2>3, PrefillDrafts
    <2>4. CASE DecodePass
        BY <2>4, DecodeDrafts
    <2>5. CASE ReturnDraft
        BY <2>5 DEF ReturnDraft, DraftInv
    <2>6. CASE PassRaises
        BY <2>6 DEF PassRaises, DraftInv
    <2>7. CASE CallerContinues
        BY <2>7 DEF CallerContinues, DraftInv
    <2>8. CASE UNCHANGED draftVars
        BY <2>8 DEF draftVars, DraftInv
    <2>. QED
        BY <2>1, <2>2, <2>3, <2>4, <2>5, <2>6, <2>7, <2>8 DEF DraftNext
<1>. QED
    BY <1>1, <1>2, PTL DEF DraftSpec

(* What draft_speculate returns is the greedy continuation of the prefix   *)
(* without its first token, whatever was left in the cache before, for     *)
(* every draft model; the toy drafts from the first token on.              *)
THEOREM DraftContinuesPrefixHolds == DraftSpec => []DraftContinuesPrefix
<1>1. DraftInv => DraftContinuesPrefix
    <2>. SUFFICES ASSUME DraftInv, dpc = "returned"
                  PROVE  /\ cached = saved
                         /\ \E t \in Token : Continues(<<t>> \o drafted, prefix)
                         /\ \A i \in 1..K :
                               ToySpeculate(prefix)[i]
                                   = ToyArgmax[Last(prefix \o SubSeq(ToySpeculate(prefix), 1, i - 1))]
        BY DEF DraftContinuesPrefix
    <2>1. prefix \in Seq(Token) /\ prefix # <<>>
        BY PrefixesAreTokens DEF DraftInv
    <2>. QED
        BY <2>1, ToyContinues DEF DraftInv
<1>. QED
    BY <1>1, DraftInvariance, PTL
-----------------------------------------------------------------------------
(* The share of the f places that percent says, cut to whole places. *)
LEMMA ShareBounds ==
    ASSUME NEW f \in Nat \ {0}, NEW percent \in 0..100
    PROVE  /\ (f * percent) \div 100 \in 0..f
           /\ percent < 100 => (f * percent) \div 100 < f
<1>. DEFINE prod == f * percent
            q == prod \div 100
<1>1. prod \in Nat /\ prod <= f * 100 /\ (percent < 100 => prod <= f * 99)
    <2>1. f * (100 - percent) \in Nat /\ f * 100 = prod + f * (100 - percent)
        OBVIOUS
    <2>2. percent < 100 => f * (99 - percent) \in Nat
        OBVIOUS
    <2>3. f * 99 = prod + f * (99 - percent)
        OBVIOUS
    <2>. QED
        BY <2>1, <2>2, <2>3
<1>. HIDE DEF prod
<1>2. q \in Nat /\ 100 * q <= prod
    BY <1>1
<1>. HIDE DEF q
<1>3. q \in 0..f /\ (percent < 100 => q < f)
    BY <1>1, <1>2
<1>. QED
    BY <1>3 DEF q, prod

LEMMA LargerIs ==
    ASSUME NEW q \in Nat
    PROVE  Max({1, q}) = IF q = 0 THEN 1 ELSE q
<1>. DEFINE m == IF q = 0 THEN 1 ELSE q
<1>1. m \in {1, q} /\ \A y \in {1, q} : m >= y
    OBVIOUS
<1>2. \A x \in {1, q} : (\A y \in {1, q} : x >= y) => x = m
    OBVIOUS
<1>. HIDE DEF m
<1>3. Max({1, q}) = m
    BY <1>1, <1>2 DEF Max
<1>. QED
    BY <1>3 DEF m

(* mix_branch_candidates returns as many candidates as it was given, and   *)
(* short of a full share the model's best one stays first, unless there is *)
(* room for one only: for every list, every context and every share.       *)
THEOREM MixKeepsCandidates ==
    ASSUME NEW S, NEW logit \in Seq(S), NEW ctx \in Seq(S), 0 \in S,
           logit # <<>>, ctx # <<>>, NEW percent \in 0..100
    PROVE  KeepsBestCandidate(logit, ctx, percent)
<1>. DEFINE f == Len(logit)
            share == (f * percent) \div 100
            quota == Max({1, share})
            kept == SubSeq(logit, 1, f - quota)
            added == [i \in 1..quota |-> IF i <= Len(ctx) THEN ctx[i] ELSE 0]
            mixed == kept \o added
<1>1. f \in Nat \ {0} /\ Len(ctx) \in Nat \ {0} /\ 1 \in 1..Len(ctx) /\ 1 \in 1..f
    OBVIOUS
<1>2. share \in 0..f /\ (percent < 100 => share < f)
    BY ONLY <1>1, percent \in 0..100, ShareBounds
<1>3. MixCandidates(logit, ctx, percent) = mixed
    BY DEF MixCandidates
<1>. HIDE DEF share
<1>4. quota = IF share = 0 THEN 1 ELSE share
    BY <1>2, LargerIs
<1>. HIDE DEF f, quota
<1>5. quota \in 1..f /\ (percent < 100 /\ f # 1 => quota < f)
    BY <1>1, <1>2, <1>4
<1>6. /\ kept \in Seq(S) /\ Len(kept) = f - quota
      /\ \A i \in 1..(f - quota) : kept[i] = logit[i]
    <2>1. \A i \in 1..(f - quota) : logit[i] \in S
        BY <1>1, <1>5 DEF f
    <2>. QED
        BY <2>1, <1>1, <1>5, SubSeqProperties
<1>7. added \in Seq(S) /\ Len(added) = quota /\ added[1] = ctx[1]
    <2>1. \A i \in 1..quota : (IF i <= Len(ctx) THEN ctx[i] ELSE 0) \in S
        BY <1>1, <1>5
    <2>. QED
        BY <2>1, <1>1, <1>5
<1>. HIDE DEF kept, added
<1>8. /\ Len(mixed) = f
      /\ \A i \in 1..f : mixed[i] = IF i <= Len(kept) THEN kept[i] ELSE added[i - Len(kept)]
    <2>1. /\ Len(mixed) = Len(kept) + Len(added)
          /\ \A i \in 1..(Len(kept) + Len(added)) :
                 mixed[i] = IF i <= Len(kept) THEN kept[i] ELSE added[i - Len(kept)]
        BY <1>6, <1>7, ConcatProperties
    <2>2. Len(kept) + Len(added) = f
        BY <1>1, <1>5, <1>6, <1>7
    <2>. QED
        BY <2>1, <2>2
<1>. HIDE DEF mixed
<1>9. percent < 100 => mixed[1] = IF f = 1 THEN ctx[1] ELSE logit[1]
    <2>1. CASE f = 1
        <3>1. quota = 1 /\ Len(kept) = 0
            BY <2>1, <1>5, <1>6
        <3>. QED
            BY <3>1, <2>1, <1>1, <1>7, <1>8
    <2>2. CASE f # 1 /\ percent < 100
        <3>1. 1 \in 1..(f - quota)
            BY <2>2, <1>1, <1>5
        <3>. QED
            BY <3>1, <2>2, <1>1, <1>6, <1>8
    <2>. QED
        BY <2>1, <2>2
<1>. QED
    BY <1>3, <1>8, <1>9 DEF KeepsBestCandidate, f

(* The same of every prefix the model of the draft calls works on, split   *)
(* into the model's candidates and the context's.                          *)
THEOREM MixKeepsBestCandidateHolds == DraftSpec => []MixKeepsBestCandidate
<1>1. DraftInv => MixKeepsBestCandidate
    <2>. SUFFICES ASSUME DraftInv, dpc = "prefill",
                         NEW f \in 1..(Len(prefix) - 1), NEW percent \in {0, 30, 60, 99}
                  PROVE  KeepsBestCandidate(SubSeq(prefix, 1, f),
                                            SubSeq(prefix, f + 1, Len(prefix)), percent)
        BY DEF MixKeepsBestCandidate
    <2>. DEFINE logit == SubSeq(prefix, 1, f)
                ctx == SubSeq(prefix, f + 1, Len(prefix))
    <2>1. prefix \in Seq(Token) /\ Len(prefix) \in Nat
        BY PrefixesAreTokens DEF DraftInv
    <2>2. \A i \in 1..Len(prefix) : prefix[i] \in Token
        BY <2>1
    <2>3. logit \in Seq(Token) /\ Len(logit) = f
        BY <2>1, <2>2, SubSeqProperties
    <2>4. ctx \in Seq(Token) /\ Len(ctx) = Len(prefix) - f
        BY <2>1, <2>2, SubSeqProperties
    <2>5. 0 \in Token
        BY ConfigAssumption DEF Token
    <2>. HIDE DEF logit, ctx
    <2>6. logit # <<>> /\ ctx # <<>> /\ percent \in 0..100
        BY <2>1, <2>3, <2>4
    <2>7. KeepsBestCandidate(logit, ctx, percent)
        BY ONLY <2>3, <2>4, <2>5, <2>6, MixKeepsCandidates
    <2>. QED
        BY <2>7 DEF logit, ctx
<1>. QED
    BY <1>1, DraftInvariance, PTL
-----------------------------------------------------------------------------
(* The identifiers among the first i tokens. *)
IdentifiersTo(v, i) == {k \in 1..i : v[k] % 7 = 0}

(* A window's score counts its identifiers: ten tenths for each, one for   *)
(* every other token.                                                      *)
LEMMA ScoreCounts ==
    ASSUME NEW v \in Seq(Nat)
    PROVE  /\ Cardinality(Identifiers(v)) \in Nat
           /\ Score(v) = Len(v) + 9 * Cardinality(Identifiers(v))
<1>. DEFINE n == Len(v)
            scores == [i \in 1..n |-> Salience(v[i])]
            total == CHOOSE f : IsSum(f, n, scores)
            Count(i) == Cardinality(IdentifiersTo(v, i))
            T == {i \in 0..n : Count(i) \in Nat /\ total[i] = i + 9 * Count(i)}
<1>1. n \in Nat /\ scores \in [1..n -> Nat]
    BY DEF Salience
<1>2. Score(v) = total[n]
    BY DEF Score, IsSum
<1>3. Sums(total, n, scores)
    BY <1>1, SumTypes
<1>. HIDE DEF total
<1>4. \A i \in 1..n : scores[i] = IF v[i] % 7 = 0 THEN 10 ELSE 1
    BY DEF Salience
<1>. HIDE DEF scores
<1>5. total[0] = 0 /\ \A i \in 1..n : total[i] = total[i - 1] + scores[i]
    BY <1>3 DEF Sums
<1>6. 0 \in T
    <2>1. IdentifiersTo(v, 0) = {}
        BY DEF IdentifiersTo
    <2>2. Count(0) = 0
        BY <2>1, FS_EmptySet
    <2>. HIDE DEF Count
    <2>. QED
        BY <2>2, <1>1, <1>5
<1>7. ASSUME NEW i \in 1..n, i - 1 \in T PROVE i \in T
    <2>. DEFINE before == IdentifiersTo(v, i - 1)
    <2>1. IsFiniteSet(before) /\ i \notin before
        <3>1. IsFiniteSet(1..(i - 1)) /\ before \subseteq 1..(i - 1)
            BY FS_Interval DEF IdentifiersTo
        <3>. QED
            BY <3>1, FS_Subset
    <2>2. IdentifiersTo(v, i) = IF v[i] % 7 = 0 THEN before \cup {i} ELSE before
        BY DEF IdentifiersTo
    <2>3. Count(i - 1) \in Nat /\ total[i - 1] = i - 1 + 9 * Count(i - 1)
        BY <1>7
    <2>. DEFINE ten == v[i] % 7 = 0
    <2>4. total[i] = total[i - 1] + (IF ten THEN 10 ELSE 1)
        BY <1>4, <1>5
    <2>5. Cardinality(before \cup {i}) = Cardinality(before) + 1
        BY <2>1, FS_AddElement
    <2>6. Count(i) = Count(i - 1) + (IF ten THEN 1 ELSE 0)
        BY <2>2, <2>3, <2>5
    <2>. HIDE DEF Count, ten
    <2>7. Count(i) \in Nat /\ total[i] = i + 9 * Count(i)
        <3>1. \A c \in Nat : c + 1 \in Nat /\ i - 1 + 9 * c + 10 = i + 9 * (c + 1)
                             /\ i - 1 + 9 * c + 1 = i + 9 * c
            BY ONLY i \in 1..n, n \in Nat
        <3>2. CASE ten
            <4>1. Count(i) = Count(i - 1) + 1 /\ total[i] = total[i - 1] + 10
                BY ONLY <3>2, <2>4, <2>6
            <4>. QED
                BY ONLY <4>1, <3>1, <2>3
        <3>3. CASE ~ ten
            <4>1. Count(i) = Count(i - 1) + 0 /\ total[i] = total[i - 1] + 1
                BY ONLY <3>3, <2>4, <2>6
            <4>2. Count(i) = Count(i - 1)
                BY ONLY <4>1, <2>3
            <4>. QED
                BY ONLY <4>1, <4>2, <3>1, <2>3
        <3>. QED
            BY <3>2, <3>3
    <2>. QED
        BY <2>7
<1>8. \A i \in 0..n : i \in T
    <2>. HIDE DEF T
    <2>. QED
        BY <1>1, <1>6, <1>7, UpTo
<1>9. n \in T
    BY <1>1, <1>8
<1>10. Identifiers(v) = IdentifiersTo(v, n)
    BY DEF Identifiers, IdentifiersTo
<1>. QED
    BY <1>2, <1>9, <1>10

(* Instance-SSD drafts a stretch of the prompt, none with more identifiers,*)
(* padded with its last token if the prompt is too short: for every prompt.*)
THEOREM SpansCopyPrompts ==
    ASSUME NEW toks \in Seq(Nat), toks # <<>>
    PROVE  CopiesBestStretch(toks)
<1>. DEFINE n == Len(toks)
            At(i) == SubSeq(toks, i + 1, i + K)
<1>1. n \in Nat \ {0} /\ K \in Nat \ {0} /\ \A i \in 1..n : toks[i] \in Nat
    BY ConfigAssumption
<1>2. ASSUME NEW w \in BestSpans(toks, K), n < K
      PROVE  SpanTokens(w) = toks \o [k \in 1..(K - n) |-> Last(toks)]
    <2>1. w = toks
        BY <1>2 DEF BestSpans, Windows
    <2>. DEFINE pad == [k \in 1..(K - n) |-> Last(toks)]
                last == Last(toks)
    <2>2. last \in Nat
        BY <1>1 DEF Last
    <2>. HIDE DEF last
    <2>3. /\ pad \in Seq(Nat) /\ Len(pad) = K - n
          /\ \A k \in 1..(K - n) : pad[k] = last
        BY <2>2, <1>1, <1>2 DEF last
    <2>. HIDE DEF pad
    <2>4. /\ toks \o pad \in Seq(Nat) /\ Len(toks \o pad) = K
          /\ \A k \in 1..K : (toks \o pad)[k] = IF k <= n THEN toks[k] ELSE last
        BY <2>3, <1>1, <1>2
    <2>5. SpanTokens(w) = [k \in 1..K |-> IF k <= n THEN toks[k] ELSE last]
        BY <2>1 DEF SpanTokens, last
    <2>6. SpanTokens(w) \in Seq(Nat) /\ Len(SpanTokens(w)) = K
          /\ \A k \in 1..K : SpanTokens(w)[k] = IF k <= n THEN toks[k] ELSE last
        <3>1. \A k \in 1..K : (IF k <= n THEN toks[k] ELSE last) \in Nat
            BY <1>1, <2>2
        <3>. QED
            BY <3>1, <2>5, <1>1
    <2>. DEFINE d == SpanTokens(w)
                c == toks \o pad
    <2>7. d \in Seq(Nat) /\ c \in Seq(Nat) /\ Len(d) = Len(c) /\ \A k \in 1..Len(d) : d[k] = c[k]
        BY <2>4, <2>6
    <2>. HIDE DEF d, c
    <2>8. d = c
        BY <2>7, SeqEqual
    <2>. QED
        BY <2>8 DEF d, c, pad
<1>3. ASSUME ~ (n < K), NEW i \in 0..(n - K)
      PROVE  At(i) \in Seq(Nat) /\ Len(At(i)) = K
    <2>1. \A k \in (i + 1)..(i + K) : toks[k] \in Nat
        BY <1>1, <1>3
    <2>. QED
        BY <2>1, <1>1, SubSeqProperties
<1>4. ASSUME NEW w \in BestSpans(toks, K), ~ (n < K)
      PROVE  /\ SpanTokens(w) = w
             /\ \E i \in 0..(n - K) : w = At(i)
             /\ \A i \in 0..(n - K) :
                    Cardinality(Identifiers(At(i))) <= Cardinality(Identifiers(w))
    <2>1. Windows(toks, K) = {At(i) : i \in 0..(n - K)}
        BY <1>4 DEF Windows
    <2>. HIDE DEF At
    <2>2. w \in Windows(toks, K) /\ \A v \in Windows(toks, K) : Score(v) <= Score(w)
        BY DEF BestSpans
    <2>3. PICK o \in 0..(n - K) : w = At(o)
        BY <2>1, <2>2
    <2>4. w \in Seq(Nat) /\ Len(w) = K
        BY <2>3, <1>3, <1>4
    <2>5. SpanTokens(w) = w
        <3>1. SpanTokens(w) = [k \in 1..K |-> w[k]]
            BY <2>4, <1>1 DEF SpanTokens
        <3>2. w = [k \in 1..K |-> w[k]]
            BY <2>4
        <3>. QED
            BY <3>1, <3>2
    <2>6. ASSUME NEW i \in 0..(n - K)
          PROVE  Cardinality(Identifiers(At(i))) <= Cardinality(Identifiers(w))
        <3>1. At(i) \in Seq(Nat) /\ Len(At(i)) = K
            BY <1>3, <1>4
        <3>2. /\ Cardinality(Identifiers(At(i))) \in Nat
              /\ Score(At(i)) = K + 9 * Cardinality(Identifiers(At(i)))
            BY <3>1, ScoreCounts
        <3>3. /\ Cardinality(Identifiers(w)) \in Nat
              /\ Score(w) = K + 9 * Cardinality(Identifiers(w))
            BY <2>4, ScoreCounts
        <3>4. Score(At(i)) <= Score(w)
            BY <2>1, <2>2
        <3>. QED
            BY <3>2, <3>3, <3>4, <1>1
    <2>. QED
        BY <2>3, <2>5, <2>6
<1>. QED
    BY <1>2, <1>4 DEF CopiesBestStretch

(* The same of every prefix the model of the draft calls works on.         *)
THEOREM SpanCopiesPromptHolds == DraftSpec => []SpanCopiesPrompt
<1>1. DraftInv => SpanCopiesPrompt
    <2>. SUFFICES ASSUME DraftInv, dpc = "prefill" PROVE CopiesBestStretch(prefix)
        BY DEF SpanCopiesPrompt
    <2>1. prefix \in Seq(Token) /\ prefix # <<>>
        BY PrefixesAreTokens DEF DraftInv
    <2>2. prefix \in Seq(Nat)
        BY <2>1, ConfigAssumption DEF Token
    <2>. QED
        BY <2>1, <2>2, SpansCopyPrompts
<1>. QED
    BY <1>1, DraftInvariance, PTL
=============================================================================
