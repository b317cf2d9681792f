----------------------------- MODULE GreedyDecode -----------------------------
(***************************************************************************)
(* What decoding promises in every mode: the completion is the target      *)
(* model's own greedy continuation of the prompt, token by token.  The     *)
(* target is an automaton: Argmax[c] is the most likely token in context   *)
(* c, Advance[c][t] the context after token t.                             *)
(***************************************************************************)
EXTENDS Sequences

CONSTANTS Ctx, Token, Advance, Argmax, PromptCtxs

VARIABLES ctx, out

Init == ctx \in Ctx /\ out = <<>>

Begin == ctx' \in PromptCtxs /\ out' = <<>>

Emit ==
    /\ out' = Append(out, Argmax[ctx])
    /\ ctx' = Advance[ctx][Argmax[ctx]]

Next == Begin \/ Emit

Spec == Init /\ [][Next]_<<ctx, out>>
=============================================================================
