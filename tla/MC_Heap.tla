------------------------------ MODULE MC_Heap ------------------------------
(* An instance of Heap for TLC.                                            *)
EXTENDS Heap
=============================================================================
