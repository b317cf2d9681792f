---------------------------- MODULE MCVerifyTorch ----------------------------
(***************************************************************************)
(* The sequential algorithms for K = 3 and a vocabulary of three, one of   *)
(* them in each behaviour: verification of every draft against every       *)
(* target row, hence all accepted lengths 0..3 with every kind of tail     *)
(* after them; or draft_speculate on every short prefix.  The priors are   *)
(* functions, applied to the prefix as to a prompt.                        *)
(***************************************************************************)
EXTENDS VerifyTorch, DraftAdapter, Priors

VARIABLE subject

MCPrefix == UNION {[1..n -> Token] : n \in 1..(K + 1)}

(* A draft model whose context every token moves, so that a token fed      *)
(* twice, or not at all, shows.                                            *)
MCDraftCtx == 0..4
MCDraftAdvance == [c \in MCDraftCtx |-> [t \in Token |-> (2 * c + t + 1) % 5]]
MCDraftArgmax == [c \in MCDraftCtx |-> c % VocabSize]
MCToyArgmax == [t \in Token |-> (t + 1) % VocabSize]

(* What is not the subject stays as it begins. *)
BenchRest ==
    /\ DraftInit
    /\ target = [i \in 0..K |-> 0] /\ draft = [i \in 1..K |-> 0]
    /\ j = 0 /\ acc = 0 /\ pc = "loop" /\ recovery = 0

BenchInit ==
    \/ subject = "verify" /\ Init /\ DraftInit
    \/ subject = "draft" /\ BenchRest

BenchNext ==
    \/ subject = "verify" /\ Next /\ UNCHANGED draftVars /\ UNCHANGED subject
    \/ subject = "draft" /\ DraftNext /\ UNCHANGED vars /\ UNCHANGED subject

BenchSpec == BenchInit /\ [][BenchNext]_<<vars, draftVars, subject>>
-----------------------------------------------------------------------------
(* Instance-SSD drafts a stretch of the prompt with the most identifiers   *)
(* (find_high_salience_spans, spans_to_speculation_tokens).                *)
SpanCopiesPrompt == dpc = "prefill" => CopiesBestStretch(prefix)

(* Mixing the first tokens of a row with the rest as the context's         *)
(* candidates (mix_branch_candidates).                                     *)
MixKeepsBestCandidate ==
    dpc = "prefill" =>
        \A f \in 1..(Len(prefix) - 1), percent \in {0, 30, 60, 99} :
            KeepsBestCandidate(SubSeq(prefix, 1, f), SubSeq(prefix, f + 1, Len(prefix)), percent)
=============================================================================
