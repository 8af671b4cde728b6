------------------------------ MODULE Console ------------------------------
(***************************************************************************)
(* The console of sdiOS (sdios/src/consoleserver/console.cc): the text     *)
(* screen in VGA memory and the cursor.                                    *)
(*                                                                         *)
(* A console is a record of its cells, numbered from 0 line by line, and   *)
(* the two cursor counters.  The horizontal one may be one past the end    *)
(* of the line: the console goes to the next line only for the character   *)
(* that follows.  The operators map the console before a request to the    *)
(* one after it.  The CRTC registers that drawCursor sets are a function   *)
(* of the counters and are left out.                                       *)
(***************************************************************************)
EXTENDS Integers, Sequences, SequencesExt

CONSTANTS
    Cols,           \* 80
    Rows            \* 25

ASSUME ConsoleAssumption == Cols \in Nat \ {0} /\ Rows \in Nat \ {0}

NL    == "newline"
Blank == "blank"    \* 0xa00, of which the low byte is the character

Cells == 0 .. Cols * Rows - 1

\* The cell of the cursor; it is behind the last one when the last line is full.
Cursor(con) == Cols * con.consoleCursorVPos + con.consoleCursorHPos

\* A store into VGA memory; what is behind the last line is not displayed.
Put(con, cell, c) ==
    [con EXCEPT !.screen = [x \in Cells |-> IF x = cell THEN c ELSE @[x]]]

\* The next line: on the last one, everything moves up.
NewLine(con) ==
    IF con.consoleCursorVPos = Rows - 1
    THEN [con EXCEPT !.screen = [x \in Cells |-> IF x + Cols \in Cells
                                                 THEN @[x + Cols] ELSE Blank],
                     !.consoleCursorHPos = 0]
    ELSE [con EXCEPT !.consoleCursorVPos = @ + 1,
                     !.consoleCursorHPos = 0]

WriteChar(con, c) ==
    LET there == IF con.consoleCursorHPos = Cols \/ c = NL THEN NewLine(con) ELSE con
    IN  IF c = NL THEN there
        ELSE [Put(there, Cursor(there), c) EXCEPT !.consoleCursorHPos = @ + 1]

write(con, text) == FoldLeft(WriteChar, con, text)

\* One character back, over the end of the line above but not over the top.
Back_SameLine(con) ==
    [con EXCEPT !.consoleCursorHPos = IF @ = 0 THEN Cols - 1 ELSE @ - 1]
Back(con) ==
    IF con.consoleCursorHPos # 0 THEN [con EXCEPT !.consoleCursorHPos = @ - 1]
    ELSE IF con.consoleCursorVPos # 0
         THEN [con EXCEPT !.consoleCursorVPos = @ - 1, !.consoleCursorHPos = Cols - 1]
         ELSE con

\* delete of one character, the only number any caller asks for: the cell
\* of the cursor is cleared before and after it moves.
delete(con) ==
    LET moved == Back(Put(con, Cursor(con), Blank))
    IN  Put(moved, Cursor(moved), Blank)

clear == [screen |-> [x \in Cells |-> Blank],
          consoleCursorHPos |-> 0, consoleCursorVPos |-> 0]

Consoles(chars) ==
    [screen : [Cells -> chars], consoleCursorHPos : 0 .. Cols, consoleCursorVPos : 0 .. Rows - 1]
=============================================================================
