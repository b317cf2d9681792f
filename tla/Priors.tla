------------------------------- MODULE Priors -------------------------------
(***************************************************************************)
(* jax_ssd/algorithm/instance_prior.py and branch_prior.py: what Instance- *)
(* SSD copies from the prompt, and the branches the cache is filled for.   *)
(* A prompt is a sequence of tokens; scores are in tenths.                 *)
(***************************************************************************)
EXTENDS SpecCache
LOCAL INSTANCE SequencesExt
LOCAL INSTANCE FiniteSetsExt

(* score_token_salience without attention weights, as the worker calls it: *)
(* every seventh token stands for an identifier.                           *)
Salience(t) == IF t % 7 = 0 THEN 10 ELSE 1

Score(window) ==
    LET scores == [i \in 1..Len(window) |-> Salience(window[i])]
        total[i \in 0..Len(window)] == IF i = 0 THEN 0 ELSE total[i - 1] + scores[i]
    IN  total[Len(window)]

(* Mutant: range(n - span_length). *)
WindowsButLast(toks, length) ==
    IF Len(toks) <= length
    THEN {toks}
    ELSE {SubSeq(toks, i + 1, i + length) : i \in 0..(Len(toks) - length - 1)}

(* The spans find_high_salience_spans ranks: the prompt if it is shorter.  *)
Windows(toks, length) ==
    IF Len(toks) < length
    THEN {toks}
    ELSE {SubSeq(toks, i + 1, i + length) : i \in 0..(Len(toks) - length)}

(* spans[0].  The scores are means of float32 numbers, so rounding may     *)
(* decide between windows with the same tokens in another order.           *)
BestSpans(toks, length) ==
    {w \in Windows(toks, length) : \A v \in Windows(toks, length) : Score(v) <= Score(w)}

(* spans_to_speculation_tokens of a best span: cut, or padded with its     *)
(* last token.                                                             *)
SpanTokens(span) == [j \in 1..K |-> IF j <= Len(span) THEN span[j] ELSE Last(span)]

(* Mutant: the context's share is rounded up. *)
MixRoundingUp(logit, ctx, percent) ==
    LET f == Len(logit)
        quota == (f * percent) \div 100 + 1
    IN  SubSeq(logit, 1, f - quota)
            \o [i \in 1..quota |-> IF i <= Len(ctx) THEN ctx[i] ELSE 0]

(* mix_branch_candidates, one row: a share of percent / 100 of the f       *)
(* places, and at least one, goes to the context's tokens.                 *)
MixCandidates(logit, ctx, percent) ==
    LET f == Len(logit)
        quota == Max({1, (f * percent) \div 100})
    IN  SubSeq(logit, 1, f - quota)
            \o [i \in 1..quota |-> IF i <= Len(ctx) THEN ctx[i] ELSE 0]
-----------------------------------------------------------------------------
BuildBranchKey(seq, accepted, recovery) == [seq |-> seq, acc |-> accepted, recovery |-> recovery]

(* Mutant: the f-th candidate is read as if they were counted from one. *)
BranchBlockFromOne(bases, a, f, candidates) ==
    [b \in 1..Len(bases) |->
        BuildBranchKey(bases[b].seq, a,
                       IF f \in DOMAIN candidates[b] THEN candidates[b][f] ELSE bases[b].recovery)]

(* One block of expand_fanout_branches: every base key, for one accepted   *)
(* length and its f-th candidate; a key keeps its own token when there are *)
(* too few candidates.                                                     *)
BranchBlock(bases, a, f, candidates) ==
    [b \in 1..Len(bases) |->
        BuildBranchKey(bases[b].seq, a,
                       IF f < Len(candidates[b]) THEN candidates[b][f + 1] ELSE bases[b].recovery)]

ExpandFanout(bases, fanOut, candidates) ==
    LET Level(a) == FlattenSeq([i \in 1..fanOut[a + 1] |-> BranchBlock(bases, a, i - 1, candidates)])
        keys == FlattenSeq([i \in 1..Len(fanOut) |-> Level(i - 1)])
    IN  IF keys = <<>> THEN bases ELSE keys
-----------------------------------------------------------------------------
Identifiers(toks) == {i \in 1..Len(toks) : toks[i] % 7 = 0}

(* What Instance-SSD may draft from a prompt: a stretch of it, extended by *)
(* nothing but its last token, such that no K tokens in a row of the prompt*)
(* hold more identifiers.                                                  *)
CopiesBestStretch(toks) ==
    \A draft \in {SpanTokens(w) : w \in BestSpans(toks, K)} :
        IF Len(toks) < K
        THEN draft = toks \o [j \in 1..(K - Len(toks)) |-> Last(toks)]
        ELSE LET At(i) == SubSeq(toks, i + 1, i + K) IN
             /\ \E i \in 0..(Len(toks) - K) : draft = At(i)
             /\ \A i \in 0..(Len(toks) - K) :
                    Cardinality(Identifiers(At(i))) <= Cardinality(Identifiers(draft))

(* Mixing keeps the number of candidates, so that the table has the rows   *)
(* the fan-out asks for, and short of a full share the model's best        *)
(* candidate, except with a fan-out of one: there the context's token      *)
(* replaces the only one, whatever the share.                              *)
KeepsBestCandidate(logit, ctx, percent) ==
    LET mixed == MixCandidates(logit, ctx, percent)
    IN  /\ Len(mixed) = Len(logit)
        /\ percent < 100 => mixed[1] = IF Len(logit) = 1 THEN ctx[1] ELSE logit[1]
=============================================================================
