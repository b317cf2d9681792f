--------------------------- MODULE MCPagedScheduler ---------------------------
(* Three requests for a pool that holds one and a half of them in the      *)
(* speculative modes, and more than MaxRunning of them in AR.              *)
EXTENDS PagedScheduler

MCFanOut == <<1>>
MCSeqId == 0..2
=============================================================================
