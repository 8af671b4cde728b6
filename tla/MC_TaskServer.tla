--------------------------- MODULE MC_TaskServer ---------------------------
(* Model-checking instances of TaskServer; the constants are in the .cfg.  *)
EXTENDS TaskServer
=============================================================================
