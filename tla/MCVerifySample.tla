--------------------------- MODULE MCVerifySample ---------------------------
(* Two speculated tokens over a vocabulary of two; rows are certain or even.*)
EXTENDS VerifySample

MCFanOut == <<1>>
=============================================================================
