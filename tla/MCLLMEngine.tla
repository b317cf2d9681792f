----------------------------- MODULE MCLLMEngine -----------------------------
(***************************************************************************)
(* Two small target models.  The toy model forgets everything but the last *)
(* token.  The cached model's context is a residue that every token moves, *)
(* so that a token fed twice, or not at all, shows.                        *)
(***************************************************************************)
EXTENDS LLMEngine

MCFanOut == <<1, 2>>
MCContext == {"short", "long"}
MCSeqId == 0..(MaxCalls * MaxPrompts - 1)

ToyCtx == Token
ToyAdvance == [c \in ToyCtx |-> [t \in Token |-> t]]
ToyArgmax == [c \in ToyCtx |-> (c + 1) % VocabSize]
ToyPromptCtx == [p \in MCContext |-> IF p = "short" THEN 0 ELSE 1]

CachedCtx == 0..4
CachedAdvance == [c \in CachedCtx |-> [t \in Token |-> (2 * c + t + 1) % 5]]
CachedArgmax == [c \in CachedCtx |-> c % VocabSize]
CachedPromptCtx == [p \in MCContext |-> IF p = "short" THEN 1 ELSE 3]

(* Right about every second token, so drafts are accepted in part. *)
MCDraftModel == [t \in Token |-> [j \in 1..K |-> IF j = 1 THEN (t + 1) % VocabSize ELSE 0]]

(* A draft that mixes the two prompts is like neither's own. *)
MCSpanDraft ==
    [scoredBy \in MCContext |-> [copied \in MCContext |->
        [j \in 1..K |-> IF scoredBy # copied THEN 1
                        ELSE IF copied = "short" THEN (j + 1) % VocabSize ELSE 0]]]
=============================================================================
