----------------------------- MODULE VerifySample -----------------------------
(***************************************************************************)
(* jax_ssd/algorithm/verify.py, _verify_sample_row: which tokens sampling  *)
(* verification may accept and which it may draw to recover.  A softmax    *)
(* row is a distribution of Mass equal parts over the vocabulary; a random *)
(* draw may be anything of positive probability.  The terms of 1e-12 that  *)
(* keep the logarithms finite are left out.                                *)
(***************************************************************************)
EXTENDS SSDConfig

CONSTANT Mass  \* the parts of a row

Row == {w \in [Token -> 0..Mass] : SumFunction(w) = Mass}

VARIABLES
    lp,        \* the target's rows, 0..K
    lq,        \* the draft's rows, 0..K-1
    spec,      \* the speculated tokens, spec[1 :] of the source
    accept,
    pc,        \* loop | recovery | done
    recovery

vars == <<lp, lq, spec, accept, pc, recovery>>

Init ==
    /\ lp \in [0..K -> Row]
    /\ lq \in [0..K - 1 -> Row]
    /\ spec \in Draft
    /\ accept = 0 /\ pc = "loop" /\ recovery = 0

(* p and q of the token under test: rows j + 1 and j, as accept = j. *)
P(tok) == lp[accept + 1][tok]
Q(tok) == lq[accept][tok]

(* uniform < min(1, p / q) *)
Accept ==
    /\ pc = "loop" /\ accept < K
    /\ P(spec[accept + 1]) > 0
    /\ accept' = accept + 1
    /\ UNCHANGED <<lp, lq, spec, pc, recovery>>

Reject ==
    /\ pc = "loop" /\ accept < K
    /\ P(spec[accept + 1]) = 0 \/ P(spec[accept + 1]) < Q(spec[accept + 1])
    /\ pc' = "recovery"
    /\ UNCHANGED <<lp, lq, spec, accept, recovery>>

AllAccepted ==
    /\ pc = "loop" /\ accept = K
    /\ pc' = "recovery"
    /\ UNCHANGED <<lp, lq, spec, accept, recovery>>

(* The last row, or what sampler_x = 0.5 of the draft leaves of p. *)
Drawable ==
    IF accept = K THEN {t \in Token : lp[K][t] > 0}
                  ELSE {t \in Token : 2 * P(t) > Q(t)}

DrawRecovery ==
    /\ pc = "recovery"
    /\ recovery' \in Drawable
    /\ pc' = "done"
    /\ UNCHANGED <<lp, lq, spec, accept>>

Next == Accept \/ Reject \/ AllAccepted \/ DrawRecovery

Spec == Init /\ [][Next]_vars

TypeOK ==
    /\ lp \in [0..K -> Row] /\ lq \in [0..K - 1 -> Row] /\ spec \in Draft
    /\ accept \in 0..K /\ pc \in {"loop", "recovery", "done"} /\ recovery \in Token

(* Sampling verification is a port of the lossless acceptance rules: like  *)
(* verify_greedy, which reads the target's choice for draft token j in row *)
(* j - 1 (verify.py:34-36), it puts out only tokens that the target itself *)
(* might have put out in their place.                                      *)
EmittedByTarget ==
    /\ \A j \in 1..accept : lp[j - 1][spec[j]] > 0
    /\ pc = "done" => lp[accept][recovery] > 0
=============================================================================
