----------------------------- MODULE VerifyTorch -----------------------------
(***************************************************************************)
(* reference/cuda_ssd/verify_torch.py, verify_greedy_torch, for one row:   *)
(* the loop the repository keeps as the oracle of its parity tests.  It    *)
(* scans the draft from the left and stops at the first mismatch; the JAX  *)
(* port computes the same in closed form (VerifyGreedy).                   *)
(***************************************************************************)
EXTENDS VerifyGreedy

VARIABLES
    target,   \* argmax of the target at each of the K+1 positions
    draft,    \* the K speculated tokens
    j,        \* loop index
    acc,      \* tokens accepted so far
    pc,       \* loop | recovery | done
    recovery  \* the recovery token, once computed

vars == <<target, draft, j, acc, pc, recovery>>

Init ==
    /\ target \in TargetRow
    /\ draft \in Draft
    /\ j = 0 /\ acc = 0 /\ pc = "loop" /\ recovery = 0

(* Mutant: the loop counts without comparing. *)
AcceptUnseen ==
    /\ pc = "loop" /\ j < K
    /\ acc' = acc + 1 /\ j' = j + 1
    /\ UNCHANGED <<target, draft, pc, recovery>>

(* if matches[i, j]: acc += 1; the source's j is 0-based. *)
Accept ==
    /\ pc = "loop" /\ j < K
    /\ draft[j + 1] = target[j]
    /\ acc' = acc + 1 /\ j' = j + 1
    /\ UNCHANGED <<target, draft, pc, recovery>>

(* else: break *)
Break ==
    /\ pc = "loop" /\ j < K
    /\ draft[j + 1] # target[j]
    /\ pc' = "recovery"
    /\ UNCHANGED <<target, draft, j, acc, recovery>>

(* The loop runs out: every token was accepted. *)
Exhaust ==
    /\ pc = "loop" /\ j = K
    /\ pc' = "recovery"
    /\ UNCHANGED <<target, draft, j, acc, recovery>>

SetRecovery ==
    /\ pc = "recovery"
    /\ recovery' = IF acc = K THEN target[K] ELSE target[acc]
    /\ pc' = "done"
    /\ UNCHANGED <<target, draft, j, acc>>

Next == Accept \/ Break \/ Exhaust \/ SetRecovery

Spec == Init /\ [][Next]_vars

TypeOK ==
    /\ target \in TargetRow
    /\ draft \in Draft
    /\ j \in 0..K /\ acc \in 0..K
    /\ pc \in {"loop", "recovery", "done"}
    /\ recovery \in Token

(* The JAX closed form and the reference loop agree on what is accepted    *)
(* and on the recovery token (tests/test_verify_parity.py compares them on *)
(* random logits, where long accepted prefixes hardly occur).              *)
Parity ==
    pc = "done" =>
        /\ acc = AcceptUntil(target, draft)
        /\ recovery = RecoveryToken(target, draft)

(* What a speculative step relies on: the accepted tokens are the target's *)
(* own choices, the recovery token is the target's choice right after them,*)
(* and acceptance stopped only where the draft left the target's choice.   *)
AcceptedPrefixIsTargets ==
    LET n == AcceptUntil(target, draft) IN
        /\ n \in 0..K
        /\ \A i \in 1..n : draft[i] = target[i - 1]
        /\ n < K => draft[n + 1] # RecoveryToken(target, draft)

(* Inductive: while the loop runs, what it passed matched and nothing else *)
(* was counted; after it, it stands at a mismatch or at the end.           *)
LoopInv ==
    /\ TypeOK
    /\ acc = j
    /\ \A i \in 1..acc : Matches(target, draft, i)
    /\ pc # "loop" => (acc = K \/ ~ Matches(target, draft, acc + 1))
    /\ pc = "done" => recovery = target[acc]
=============================================================================
