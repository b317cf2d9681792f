----------------------------- MODULE DraftAdapter -----------------------------
(***************************************************************************)
(* draft_speculate of jax_ssd/models/gemma_adapter.py and toy_model.py.    *)
(*                                                                         *)
(* Gemma's draft model is an automaton over contexts; _past_key_values     *)
(* stand for the context of the tokens fed so far, StartCtx when they are  *)
(* None.  Other calls (prefill, decode, commit_tokens) leave any context   *)
(* there.  A pass of the model may raise; the adapter has no handler, so   *)
(* the exception reaches the caller.  The toy has no cache: its logits are *)
(* those of the token it is shown.                                         *)
(***************************************************************************)
EXTENDS SSDConfig
LOCAL INSTANCE SequencesExt

CONSTANTS
    DraftCtx, StartCtx,
    DraftAdvance,  \* the context after a token
    DraftArgmax,   \* the most likely token in a context
    ToyArgmax,     \* the same of the toy, after a token
    Prefix         \* token sequences that may be continued

ASSUME DraftAssumption ==
    /\ StartCtx \in DraftCtx
    /\ DraftAdvance \in [DraftCtx -> [Token -> DraftCtx]]
    /\ DraftArgmax \in [DraftCtx -> Token]
    /\ ToyArgmax \in [Token -> Token]
    /\ Prefix \subseteq Seq(Token) \ {<<>>}

VARIABLES
    cached,   \* _past_key_values
    saved,    \* draft_speculate's saved
    prefix,   \* prefix_tokens
    drafted,  \* draft_speculate's spec
    dpc       \* where draft_speculate is

draftVars == <<cached, saved, prefix, drafted, dpc>>

(* The context after the tokens, one after the other. *)
Fed(c, toks) ==
    LET after[i \in 0..Len(toks)] == IF i = 0 THEN c ELSE DraftAdvance[after[i - 1]][toks[i]]
    IN  after[Len(toks)]

(* toy_model: the tokens after the prefix, each from the one before it. *)
ToySpeculate(toks) ==
    LET tokens[j \in 0..K] == IF j = 0 THEN Last(toks) ELSE ToyArgmax[tokens[j - 1]]
    IN  [j \in 1..K |-> tokens[j]]
-----------------------------------------------------------------------------
(* prefill, decode and commit_tokens by another caller. *)
OtherCall ==
    /\ dpc = "idle"
    /\ \E c \in {Fed(StartCtx, p) : p \in Prefix} \cup {DraftAdvance[cached][t] : t \in Token} :
          cached' = c
    /\ UNCHANGED <<saved, prefix, drafted, dpc>>

(* The cache is put aside and reset. *)
BeginSpeculate ==
    /\ dpc = "idle"
    /\ prefix' \in Prefix
    /\ saved' = cached /\ cached' = StartCtx
    /\ drafted' = <<>>
    /\ dpc' = "prefill"

(* prefill hands the model no past, whatever is cached. *)
PrefillPass ==
    /\ dpc = "prefill"
    /\ cached' = Fed(StartCtx, prefix)
    /\ dpc' = "decode"
    /\ UNCHANGED <<saved, prefix, drafted>>

(* Mutant: the pass's cache is not kept. *)
DecodeWithoutCache ==
    /\ dpc = "decode" /\ Len(drafted) < K
    /\ LET c == DraftAdvance[cached][DraftArgmax[cached]]
       IN  drafted' = Append(drafted, DraftArgmax[c])
    /\ UNCHANGED <<cached, saved, prefix, dpc>>

(* decode feeds the token the last pass found most likely: the first one,  *)
(* prefill's, is fed but never appended to the draft.                      *)
DecodePass ==
    /\ dpc = "decode" /\ Len(drafted) < K
    /\ cached' = DraftAdvance[cached][DraftArgmax[cached]]
    /\ drafted' = Append(drafted, DraftArgmax[cached'])
    /\ UNCHANGED <<saved, prefix, dpc>>

ReturnDraft ==
    /\ dpc = "decode" /\ Len(drafted) = K
    /\ cached' = saved
    /\ dpc' = "returned"
    /\ UNCHANGED <<saved, prefix, drafted>>

(* Nothing puts the saved cache back. *)
PassRaises ==
    /\ dpc = "prefill" \/ (dpc = "decode" /\ Len(drafted) < K)
    /\ dpc' = "idle"
    /\ UNCHANGED <<cached, saved, prefix, drafted>>

CallerContinues == dpc = "returned" /\ dpc' = "idle" /\ UNCHANGED <<cached, saved, prefix, drafted>>

DraftInit ==
    /\ cached = StartCtx /\ saved = StartCtx
    /\ prefix = <<>> /\ drafted = <<>>
    /\ dpc = "idle"

DraftNext ==
    \/ OtherCall \/ BeginSpeculate \/ PrefillPass \/ DecodePass \/ ReturnDraft \/ PassRaises
    \/ CallerContinues

DraftSpec == DraftInit /\ [][DraftNext]_draftVars
-----------------------------------------------------------------------------
(* g is what greedy decoding appends to the prefix. *)
Continues(g, toks) ==
    \A i \in 1..Len(g) : g[i] = DraftArgmax[Fed(StartCtx, toks \o SubSeq(g, 1, i - 1))]

(* Whatever other calls, earlier drafts and passes that raised left in the *)
(* cache, Gemma drafts the greedy continuation of the prefix it is given,  *)
(* without its first token (draft_speculate appends from the second pass   *)
(* on), and the cache is what the other calls made it.  The toy drafts     *)
(* from the first token on.                                                *)
DraftContinuesPrefix ==
    dpc = "returned" =>
        /\ cached = saved
        /\ \E t \in Token : Continues(<<t>> \o drafted, prefix)
        /\ \A j \in 1..K :
              ToySpeculate(prefix)[j] = ToyArgmax[Last(prefix \o SubSeq(ToySpeculate(prefix), 1, j - 1))]
=============================================================================
