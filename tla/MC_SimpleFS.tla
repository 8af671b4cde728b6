---------------------------- MODULE MC_SimpleFS ----------------------------
(***************************************************************************)
(* Instances of SimpleFS in 8-bit words with pages of four bytes.          *)
(***************************************************************************)
EXTENDS SimpleFS

\* Names longer than the 16 characters that a handle keeps are cut off.
CutOff(n) == IF n = "long name" THEN "long nam" ELSE n
=============================================================================
