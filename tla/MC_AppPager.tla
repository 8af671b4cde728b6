---------------------------- MODULE MC_AppPager ----------------------------
(* An instance of AppPager for TLC, with a file that does not exist.       *)
(* Thread ids and names of existing files are only compared, so they may   *)
(* be permuted.                                                            *)
EXTENDS AppPager, TLC

CONSTANTS t1, t2, t3, fa, fb, fc

Symmetry == Permutations(Threads) \cup Permutations(StoredFiles)
=============================================================================
