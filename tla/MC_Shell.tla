------------------------------ MODULE MC_Shell ------------------------------
(* An instance of Shell for TLC: a screen of three columns and rows, and   *)
(* three boot modules, one of which is larger than a window.               *)
EXTENDS Shell

MCTexts == {<<>>, <<"o">>}
MCModuleSize == <<4, 5, 1>>

\* the hypothesis of ScreenAlwaysShowsLine holds
ASSUME LineFits
=============================================================================
