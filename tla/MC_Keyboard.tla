---------------------------- MODULE MC_Keyboard ----------------------------
(* Instances of Keyboard: two readers, a letter key and a function key.    *)
EXTENDS Keyboard

CONSTANTS c1, c2

MCChars == {"a", "A", "e", "f"}

\* The letter gives one character, the function key a string of the longest
\* length there is in stdmap (one less than MAX_CHAR_LEN).
MCStdmap == [lv \in Levels |-> [k \in Keys |->
    CASE k = "fn" -> <<"e", "f">>
      [] k = "letter" -> IF "shift" \in lv THEN <<"A">> ELSE <<"a">>]]
=============================================================================
