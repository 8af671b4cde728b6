------------------------------ MODULE MC_Boot ------------------------------
(* Boot for TLC: it has no constants.                                       *)
EXTENDS Boot
=============================================================================
