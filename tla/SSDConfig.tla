------------------------------ MODULE SSDConfig ------------------------------
(***************************************************************************)
(* jax_ssd/config.py: the part of the configuration the decoding loops and *)
(* the draft worker branch on.  Tokens are the vocabulary's indices,       *)
(* because the worker's branch candidates are indices (top_k of a constant *)
(* row), never opaque names.                                               *)
(***************************************************************************)
EXTENDS Integers, Sequences, Functions

CONSTANTS
    K,          \* speculate_k
    VocabSize,  \* vocab_size of the model pair
    FanOut      \* fan_out_list: candidates kept per accepted length

ASSUME ConfigAssumption ==
    /\ K \in Nat \ {0}
    /\ VocabSize \in Nat \ {0}
    /\ FanOut \in Seq(0..VocabSize)
    /\ FanOut # <<>>

Token == 0..VocabSize - 1
Draft == [1..K -> Token]

(* The four values of DecodeMode. *)
DecodeMode == {"ar", "sd", "ssd", "instance"}

(* The modes that decode through the draft worker's queues. *)
AsyncMode == {"ssd", "instance"}

(* The property mq_len pads a short list with its last element; the loop   *)
(* that fills the cache does not (DraftWorker!Levels).                     *)
PaddedFanOut ==
    [i \in 1..(K + 1) |-> IF i <= Len(FanOut) THEN FanOut[i] ELSE FanOut[Len(FanOut)]]

(* The candidates of the first l levels together. *)
FanOutBefore[l \in 0..(K + 1)] ==
    IF l = 0 THEN 0 ELSE FanOutBefore[l - 1] + PaddedFanOut[l]

MqLen == FanOutBefore[K + 1]

(* DraftWorker.start allocates four times that many branch rows. *)
NumBranches == MqLen * 4
=============================================================================
