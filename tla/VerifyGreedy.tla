----------------------------- MODULE VerifyGreedy -----------------------------
(***************************************************************************)
(* jax_ssd/algorithm/verify.py, verify_greedy, for one row of the batch    *)
(* (rows never mix).  target[j] is the argmax of the target's logits at    *)
(* position j of the K+1 verified positions, 0-based as in the source; the *)
(* draft's token j is compared with target[j-1].                           *)
(***************************************************************************)
EXTENDS SSDConfig, FiniteSets

TargetRow == [0..K -> Token]

Matches(target, draft, j) == draft[j] = target[j - 1]

(* Mutant: sum(matches), the cumprod forgotten. *)
AcceptedAnywhere(target, draft) == {j \in 1..K : Matches(target, draft, j)}

(* sum(cumprod(matches)): the positions with no mismatch at or before them. *)
AcceptedPositions(target, draft) ==
    {j \in 1..K : \A i \in 1..j : Matches(target, draft, i)}

AcceptUntil(target, draft) == Cardinality(AcceptedPositions(target, draft))

(* Mutant: always the last position, as after a full acceptance. *)
LastTarget(target, draft) == target[K]

(* Both branches of the source's where() read the target at accept_until. *)
RecoveryToken(target, draft) == target[AcceptUntil(target, draft)]
=============================================================================
