------------------------------- MODULE Shell -------------------------------
(***************************************************************************)
(* The shell of sdiOS (sdios/src/shell/main.cc, shell_loop), composed with *)
(* the console it writes to.                                               *)
(*                                                                         *)
(* The shell reads up to seven characters from the keyboard at a time.  It *)
(* goes through them one by one, editing the command line, and prints what *)
(* was left of them afterwards; only deletions and tabs reach the console  *)
(* at once.  A newline makes it execute the command line, which it parses  *)
(* where it lies: whatever characters are in the buffer up to the first    *)
(* newline or NUL, typed or left over.                                     *)
(*                                                                         *)
(* Commands are told apart by their first character.  Their effect on the  *)
(* file system is in SimpleFS, on the task server in TaskServer; here they *)
(* print some text, and download maps boot modules from sigma0.  Which     *)
(* file or module a command names is a choice of the user.                 *)
(***************************************************************************)
EXTENDS Console

CONSTANTS
    Letters,                \* characters that are not special
    MAX_COMMAND_LENGTH,     \* size of cmdChars
    MaxBatch,               \* OUT_BUF_SIZE - 1, as many as keyboard_read gives
    MaxKeys,                \* bound: characters typed in a behaviour
    Texts,                  \* what a file or a program may print
    ModuleSize,             \* sizes of the boot modules, in halves of a page
    WindowPages             \* 1024 * 256, in pages

KEY_BACKSPACE == "backspace"
TAB  == "tab"
NUL  == "nul"
Keys == Letters \cup {KEY_BACKSPACE, TAB, NL}
Prompt == <<"#", " ">>
Modules == DOMAIN ModuleSize

ASSUME ShellAssumption ==
    /\ MAX_COMMAND_LENGTH \in Nat \ {0}
    /\ Letters \cap {KEY_BACKSPACE, TAB, NL, NUL} = {}
    /\ ModuleSize \in Seq(Nat \ {0}) /\ WindowPages \in Nat \ {0}
    /\ MaxBatch \in Nat /\ Texts \subseteq Seq(STRING)

VARIABLES
    console,                \* the console server's screen and cursor
    \* the loop
    pc,                     \* "read", "scan", "execute"
    inChars, numchars, pos, \* the characters read, how many, the next one
    cleanChars,             \* those to be printed
    cmdChars,               \* the command buffer, from 0
    cmdPointer,             \* index of the next free character in it
    exCmd,
    \* download
    modulePos,              \* window of each module, or Nowhere
    nextPos,                \* the next window, in pages from 0x80000000
    view,                   \* the page of physical memory behind each of these
    copied,                 \* the module last copied, and the pages it came from
    status,                 \* "up", or why the shell is gone
    owner,                  \* sigma0: who has each page of the boot modules
    \* the user
    typed,                  \* characters typed since the last prompt
    line,                   \* what the line should be after these, if careful
    keys,                   \* characters typed at all
    careful                 \* FALSE after typing that the loop mistreats

scanning == <<inChars, numchars, pos, cleanChars, exCmd>>
buffer   == <<cmdChars, cmdPointer>>
download == <<modulePos, nextPos, view, copied, owner>>
user     == <<typed, line, keys, careful>>
vars     == <<console, pc, scanning, buffer, download, status, user>>

Nowhere == -1
Free    == "free"

\* Boot modules lie one behind the other, each on pages of its own, with one
\* more page behind the last.
FullPages(halves) == (halves + 1) \div 2
Start(m) == FoldLeft(LAMBDA a, n : a + FullPages(n), 0, SubSeq(ModuleSize, 1, m - 1))
Phys   == 0 .. Start(Len(ModuleSize) + 1)
OwnPages(m) == [i \in 1 .. FullPages(ModuleSize[m]) |-> Start(m) + (i - 1)]
Window == 0 .. WindowPages * Len(ModuleSize) + Len(OwnPages(CHOOSE m \in Modules :
                  \A n \in Modules : ModuleSize[n] <= ModuleSize[m])) + 1

\* At the first prompt, without the greeting above it.
Init ==
    /\ console = write(clear, Prompt)
    /\ pc = "read"
    /\ inChars = <<>> /\ numchars = 0 /\ pos = 0 /\ cleanChars = <<>> /\ exCmd = FALSE
    /\ cmdChars = [i \in 0 .. MAX_COMMAND_LENGTH - 1 |-> NUL]
    /\ cmdPointer = 0
    /\ modulePos = [m \in Modules |-> Nowhere]
    /\ nextPos = 0
    /\ view = [w \in Window |-> Nowhere]
    /\ copied = [module |-> 0, pages |-> <<>>]
    /\ owner = [p \in Phys |-> Free]
    /\ status = "up"
    /\ typed = <<>> /\ line = <<>> /\ keys = 0 /\ careful = TRUE

-----------------------------------------------------------------------------
\* The user's side.
\* Characters that arrive one by one, or together without any to be treated
\* specially but a newline at the end.
Careful(batch) ==
    /\ TAB \notin ToSet(batch)
    /\ Len(batch) = 1 \/ KEY_BACKSPACE \notin ToSet(batch)
    /\ NL \notin ToSet(Front(batch))

\* What such characters make of the line.
Edited(batch) ==
    IF batch = <<KEY_BACKSPACE>> THEN IF line = <<>> THEN line ELSE Front(line)
    ELSE line \o (IF Last(batch) = NL THEN Front(batch) ELSE batch)

\* keyboard_read, which gives what was typed in the meantime.
read(batch) ==
    /\ pc = "read"
    /\ keys + Len(batch) <= MaxKeys
    /\ inChars' = batch
    /\ numchars' = Len(batch)
    /\ pos' = 0
    /\ cleanChars' = <<>>
    /\ exCmd' = FALSE
    /\ pc' = "scan"
    /\ typed' = typed \o batch
    /\ line' = Edited(batch)
    /\ keys' = keys + Len(batch)
    /\ careful' = (careful /\ Careful(batch))
    /\ UNCHANGED <<console, buffer, download, status>>

-----------------------------------------------------------------------------
\* The loop over the characters.  The buffer has no check: a store behind it
\* overwrites other variables of the shell.
Scan(k) ==
    /\ pc = "scan"
    /\ pos < numchars
    /\ inChars[pos + 1] \in k
    /\ pos' = pos + 1
    /\ UNCHANGED <<pc, inChars, download, user>>

Store(chars) ==
    /\ cmdChars' = [i \in DOMAIN cmdChars |->
           IF i - cmdPointer \in 0 .. Len(chars) - 1
           THEN chars[i - cmdPointer + 1] ELSE cmdChars[i]]
    /\ cmdPointer' = cmdPointer + Len(chars)
    /\ status' = IF cmdPointer + Len(chars) > MAX_COMMAND_LENGTH THEN "overrun" ELSE status

ScanBackspace_Keeps ==
    /\ Scan({KEY_BACKSPACE})
    /\ cmdPointer > 0
    /\ numchars' = numchars - 1
    /\ console' = delete(console)
    /\ UNCHANGED <<cleanChars, exCmd, cmdChars, cmdPointer, status>>
ScanBackspace ==
    /\ Scan({KEY_BACKSPACE})
    /\ cmdPointer > 0
    /\ cmdPointer' = cmdPointer - 1
    /\ numchars' = numchars - 1
    /\ console' = delete(console)
    /\ UNCHANGED <<cleanChars, exCmd, cmdChars, status>>

ScanBackspaceAtStart ==
    /\ Scan({KEY_BACKSPACE})
    /\ cmdPointer = 0
    /\ UNCHANGED <<console, numchars, cleanChars, exCmd, buffer, status>>

ScanNewline ==
    /\ Scan({NL})
    /\ cleanChars' = Append(cleanChars, NL)
    /\ Store(<<NL, NUL>>)
    /\ exCmd' = TRUE
    /\ UNCHANGED <<console, numchars>>

ScanTab ==
    /\ Scan({TAB})
    /\ console' = write(console, <<" ", " ", " ", " ">>)
    /\ UNCHANGED <<numchars, cleanChars, exCmd, buffer, status>>

ScanLetter ==
    /\ Scan(Letters)
    /\ cleanChars' = Append(cleanChars, inChars[pos + 1])
    /\ Store(<<inChars[pos + 1]>>)
    /\ UNCHANGED <<console, numchars, exCmd>>

\* The end of the loop.  What was left of the characters is printed.
Scanned ==
    /\ pc = "scan"
    /\ pos >= numchars
    /\ console' = IF numchars # 0 THEN write(console, cleanChars) ELSE console
    /\ pc' = IF exCmd THEN "execute" ELSE "read"
    /\ UNCHANGED <<scanning, buffer, download, status, user>>

-----------------------------------------------------------------------------
\* The command that is executed: the buffer up to the first newline or NUL.
CommandEnd == {i \in DOMAIN cmdChars : cmdChars[i] \in {NL, NUL}}
Command ==
    LET n == IF CommandEnd = {} THEN MAX_COMMAND_LENGTH
             ELSE CHOOSE i \in CommandEnd : \A j \in CommandEnd : i <= j
    IN  [i \in 1 .. n |-> cmdChars[i - 1]]
\* The parser puts a NUL in the place of the newline.
Parsed == [i \in DOMAIN cmdChars |->
              IF i = Len(Command) /\ cmdChars[i] = NL THEN NUL ELSE cmdChars[i]]
Letter == IF Command = <<>> THEN NUL ELSE Head(Command)

\* After every command: text it has printed, then a new line to type.
Prompted_KeepsPointer(text) ==
    /\ console' = write(console, text \o Prompt)
    /\ cmdChars' = Parsed
    /\ cmdPointer' = cmdPointer
    /\ pc' = "read"
    /\ typed' = <<>>
    /\ line' = <<>>
    /\ careful' = TRUE
    /\ UNCHANGED <<scanning, status, keys>>
Prompted(text) ==
    /\ console' = write(console, text \o Prompt)
    /\ cmdChars' = Parsed
    /\ cmdPointer' = 0
    /\ pc' = "read"
    /\ typed' = <<>>
    /\ line' = <<>>
    /\ careful' = TRUE
    /\ UNCHANGED <<scanning, status, keys>>

\* cat, ls, ? and start, whose program prints while the shell waits; rm and
\* touch; anything else is an error.
Output(letter) ==
    CASE letter \in {"c", "l", "?", "s"} -> Texts
      [] letter \in {"r", "t"} -> {<<>>}
      [] OTHER -> {<<"!", NL>>}

Execute ==
    /\ pc = "execute"
    /\ Letter # "d"
    /\ \E text \in Output(Letter) : Prompted(text)
    /\ UNCHANGED download

\* download of module m.  The first time its memory is mapped into the next
\* window, up to and including the page of the byte behind it; the copy goes
\* through the window either way.
Requested(m) == {Start(m) + i : i \in 0 .. ModuleSize[m] \div 2}
Mapped(m) == [w \in Window |->
    IF w - nextPos \in 0 .. ModuleSize[m] \div 2 THEN Start(m) + (w - nextPos) ELSE view[w]]
CopyOf(m, v, window) ==
    [module |-> m, pages |-> [i \in DOMAIN OwnPages(m) |-> v[window + i - 1]]]
\* nextPos += 1024 * 256
AfterWindow_OnePage == nextPos + 1
AfterWindow == nextPos + WindowPages

DownloadNew(m) ==
    /\ pc = "execute"
    /\ Letter = "d"
    /\ modulePos[m] = Nowhere
    /\ \A p \in Requested(m) : owner[p] \in {Free, "shell"}
    /\ modulePos' = [modulePos EXCEPT ![m] = nextPos]
    /\ nextPos' = AfterWindow
    /\ view' = Mapped(m)
    /\ owner' = [p \in Phys |-> IF p \in Requested(m) THEN "shell" ELSE owner[p]]
    /\ copied' = CopyOf(m, Mapped(m), nextPos)
    /\ Prompted(<<>>)

DownloadAgain(m) ==
    /\ pc = "execute"
    /\ Letter = "d"
    /\ modulePos[m] # Nowhere
    /\ copied' = CopyOf(m, view, modulePos[m])
    /\ Prompted(<<>>)
    /\ UNCHANGED <<modulePos, nextPos, view, owner>>

\* One page is another task's: the shell panics where it stands.
DownloadRejected(m) ==
    /\ pc = "execute"
    /\ Letter = "d"
    /\ modulePos[m] = Nowhere
    /\ \E p \in Requested(m) : owner[p] \notin {Free, "shell"}
    /\ status' = "sigma0 rejected request"
    /\ UNCHANGED <<console, pc, scanning, buffer, download, user>>

\* RAM-DSM brings in the memory of a module for associateImage.  The shell
\* sees it only when it executes a download, and so no earlier moment is
\* worth telling apart.
OtherLoads(m) ==
    /\ pc = "execute"
    /\ \A i \in DOMAIN OwnPages(m) : owner[OwnPages(m)[i]] = Free
    /\ owner' = [p \in Phys |-> IF p \in ToSet(OwnPages(m)) THEN "RAM-DSM" ELSE owner[p]]
    /\ UNCHANGED <<console, pc, scanning, buffer, modulePos, nextPos, view, copied, status, user>>

Next ==
    /\ status = "up"
    /\ \/ \E n \in 1 .. MaxBatch : \E batch \in [1 .. n -> Keys] : read(batch)
       \/ ScanBackspace \/ ScanBackspaceAtStart \/ ScanNewline \/ ScanTab \/ ScanLetter
       \/ Scanned
       \/ Execute
       \/ \E m \in Modules :
             DownloadNew(m) \/ DownloadAgain(m) \/ DownloadRejected(m) \/ OtherLoads(m)

Spec == Init /\ [][Next]_vars

-----------------------------------------------------------------------------
Characters == Letters \cup {"#", " ", "!", Blank} \cup UNION {ToSet(text) : text \in Texts}

\* Type invariant: the cursor stays on the screen, also when deletions and
\* prints of one batch are out of order.
TypeOK ==
    /\ console \in Consoles(Characters)
    /\ pc \in {"read", "scan", "execute"}
    /\ cmdChars \in [0 .. MAX_COMMAND_LENGTH - 1 -> Letters \cup {NL, NUL}]
    /\ cmdPointer \in 0 .. MAX_COMMAND_LENGTH + 2
    /\ pos \in 0 .. MaxBatch /\ numchars \in 0 .. MaxBatch
    /\ modulePos \in [Modules -> Window \cup {Nowhere}]
    /\ view \in [Window -> Phys \cup {Nowhere}]
    /\ status \in {"up", "overrun", "sigma0 rejected request"}

\* A line that fits the buffer, and the prompt in front of it, fit on the screen
\* without what a last line takes away when it scrolls.
LineFits == MAX_COMMAND_LENGTH < Cols * (Rows - 1)

\* main.cc:144 and console.cc:41, :73: whoever types no faster than the
\* shell reads, or corrects nothing while doing so, has on the screen in front
\* of the cursor the prompt and the line as edited, over the ends of lines and
\* while the screen scrolls.
ScreenShowsLine ==
    pc = "read" /\ careful =>
        LET shown == Prompt \o line
        IN  \A i \in 1 .. Len(shown) :
                console.screen[Cursor(console) - Len(shown) + i - 1] = shown[i]

\* main.cc:155 and :186: the command that is executed is the line as edited,
\* whatever earlier and longer command lines have left in the buffer.
CommandAsTyped ==
    /\ pc = "read" /\ careful => cmdPointer = Len(line)
    /\ pc = "execute" /\ careful => Command = line

\* main.cc:165: the shell writes behind its buffer only when more is typed
\* between two prompts than fits, the terminators included.
OverrunOnlyByLongLine ==
    status = "overrun" =>
        Len(typed) + Cardinality({i \in DOMAIN typed : typed[i] = NL}) > MAX_COMMAND_LENGTH

\* main.cc:277 and :292: a module that fits a window is copied from its own
\* memory, the first time and again after others were mapped, larger ones too.
CopyIsModule ==
    LET m == copied.module
    IN  m # 0 /\ FullPages(ModuleSize[m]) <= WindowPages => copied.pages = OwnPages(m)
=============================================================================
