----------------------------- MODULE DraftService -----------------------------
(***************************************************************************)
(* What the draft worker promises its client: a first-in first-out server. *)
(* asked holds the keys of requests not yet answered, answers the keys of  *)
(* answers not yet collected.                                              *)
(***************************************************************************)
EXTENDS Sequences

CONSTANT Key

VARIABLES asked, answers

Init == asked = <<>> /\ answers = <<>>

Ask == (\E k \in Key : asked' = Append(asked, k)) /\ UNCHANGED answers

Serve ==
    /\ asked # <<>>
    /\ asked' = Tail(asked)
    /\ answers' = Append(answers, Head(asked))

Collect == answers # <<>> /\ answers' = Tail(answers) /\ UNCHANGED asked

Next == Ask \/ Serve \/ Collect

Spec == Init /\ [][Next]_<<asked, answers>>
=============================================================================
