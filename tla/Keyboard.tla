------------------------------ MODULE Keyboard ------------------------------
(***************************************************************************)
(* The keyboard driver of the console server                               *)
(* (sdios/src/consoleserver/keyboard.cc and keymap.cc).                    *)
(*                                                                         *)
(* One thread serves two kinds of requests: read, from any client, and     *)
(* interrupt, from the kernel.  It keeps a buffer of decoded characters    *)
(* and remembers at most one client that is blocked in read.  The          *)
(* interrupt handler polls the controller until it is empty or the buffer  *)
(* is full; keys may be pressed between two polls, so each poll is a step  *)
(* and the server takes no other request while handling is TRUE.           *)
(*                                                                         *)
(* External: the keyboard controller with its bytes waiting to be read,    *)
(* and the interrupt line.  The line is edge triggered: a byte that is     *)
(* presented to an empty output port raises it, and reading the port takes *)
(* it back until the next byte is presented.  The kernel delivers an edge  *)
(* once and holds further ones back until the driver's reply.              *)
(***************************************************************************)
EXTENDS Integers, Sequences

CONSTANTS
    Clients,        \* threads that call read
    NoClient,       \* L4_nilthread
    Keys,           \* keys that are not modifiers
    Chars,          \* characters
    Stdmap,         \* stdmap: modifier level -> key -> characters
    BUFFER_LENGTH,
    MAX_CHAR_LEN,
    MsgChars,       \* characters in one answer to read (7)
    MaxPresses      \* bound: scancodes the keyboard ever sends

(***************************************************************************)
(* A scancode is the make code of a key, a make or break code of a         *)
(* modifier, or one that means nothing to the driver (the break code of a  *)
(* key, the escape 0xe0, an acknowledgement of the keyboard).              *)
(***************************************************************************)
Modifiers == {"ctrl", "shift", "alt", "caps", "num", "scroll"}
Down      == {<<m, "make">> : m \in Modifiers}
Up        == {<<m, "break">> : m \in {"ctrl", "shift", "alt"}}
Ignored   == <<"other", "break">>
Scancodes == {<<k, "key">> : k \in Keys} \cup Down \cup Up \cup {Ignored}
Levels    == SUBSET {"ctrl", "shift", "alt"}

ASSUME KeyboardAssumption ==
    /\ NoClient \notin Clients
    /\ MAX_CHAR_LEN \in Nat \ {0}
    /\ BUFFER_LENGTH \in Nat /\ BUFFER_LENGTH > MAX_CHAR_LEN
    /\ MsgChars \in Nat \ {0}
    /\ MaxPresses \in Nat
    /\ Stdmap \in [Levels -> [Keys -> Seq(Chars)]]
    /\ \A lv \in Levels, k \in Keys : Len(Stdmap[lv][k]) <= MAX_CHAR_LEN

VARIABLES
    buffer,         \* the characters between buffer and buffer_pos
    clientWaiting,  \* the client blocked in read, or NoClient
    modifiers,      \* the modifiers that are set
    handling,       \* the server is in the interrupt handler
    controller,     \* external: bytes waiting in the keyboard controller
    edge,           \* external: an edge is waiting to be delivered
    presses,        \* history: number of scancodes sent so far
    typed,          \* history: all characters decoded so far
    delivered       \* history: all characters handed to clients so far

vars == <<buffer, clientWaiting, modifiers, handling,
          controller, edge, presses, typed, delivered>>

Init ==
    /\ buffer = <<>>
    /\ clientWaiting = NoClient
    /\ modifiers = {}
    /\ handling = FALSE
    /\ controller = <<>>
    /\ edge = FALSE
    /\ presses = 0
    /\ typed = <<>>
    /\ delivered = <<>>

-----------------------------------------------------------------------------
(***************************************************************************)
(* keycodeToChars.  Caps lock is a shift key that stays down until a shift *)
(* key is released; num and scroll lock toggle.                            *)
(***************************************************************************)

NewModifiers(code) ==
    LET m == code[1]
    IN  CASE code = <<"caps", "make">>   -> modifiers \cup {"caps", "shift"}
          [] code = <<"shift", "break">> -> modifiers \ {"caps", "shift"}
          [] code \in {<<"num", "make">>, <<"scroll", "make">>} ->
                (modifiers \cup {m}) \ (modifiers \cap {m})
          [] code \in {<<"ctrl", "make">>, <<"shift", "make">>, <<"alt", "make">>} ->
                modifiers \cup {m}
          [] code \in Up \ {<<"shift", "break">>} -> modifiers \ {m}
          [] OTHER -> modifiers

Decoded(code) ==
    IF code[2] = "key" THEN Stdmap[modifiers \cap {"ctrl", "shift", "alt"}][code[1]]
    ELSE <<>>

-----------------------------------------------------------------------------
\* External: the keyboard sends a scancode to the controller.
Press(code) ==
    /\ presses < MaxPresses
    /\ presses' = presses + 1
    /\ controller' = Append(controller, code)
    /\ edge' = (edge \/ controller = <<>>)
    /\ UNCHANGED <<buffer, clientWaiting, modifiers, handling, typed, delivered>>

\* The kernel delivers the interrupt and keeps the line masked.
interrupt_enter ==
    /\ edge /\ ~handling
    /\ handling' = TRUE
    /\ edge' = FALSE
    /\ UNCHANGED <<buffer, clientWaiting, modifiers, controller, presses, typed, delivered>>

\* There is a byte to read, and room for the longest string it can become.
Drainable_NoRoomCheck == controller # <<>>
Drainable == controller # <<>> /\ Len(buffer) < BUFFER_LENGTH - MAX_CHAR_LEN

\* One turn of the loop: read a byte and decode it.  (The LEDs that are written
\* after a lock key are output only.)
interrupt_drain ==
    /\ handling /\ Drainable
    /\ LET code == Head(controller)
       IN  /\ modifiers' = NewModifiers(code)
           /\ buffer' = buffer \o Decoded(code)
           /\ typed' = typed \o Decoded(code)
    /\ controller' = Tail(controller)
    /\ edge' = (Tail(controller) # <<>>)
    /\ UNCHANGED <<clientWaiting, handling, presses, delivered>>

-----------------------------------------------------------------------------
\* The characters of one answer, and what is left in the buffer.
Taken == IF Len(buffer) <= MsgChars THEN buffer ELSE SubSeq(buffer, 1, MsgChars)
Left_Clears == <<>>
Left  == IF Len(buffer) <= MsgChars THEN <<>> ELSE SubSeq(buffer, MsgChars + 1, Len(buffer))

keyboard_read_processbuffers ==
    /\ buffer' = Left
    /\ delivered' = delivered \o Taken

\* After the loop: answer the blocked client if there is something for it,
\* then reply to the kernel, which unmasks the line.
interrupt_leave_KeepsClient ==
    /\ handling /\ ~Drainable
    /\ IF clientWaiting # NoClient /\ buffer # <<>>
       THEN keyboard_read_processbuffers
       ELSE UNCHANGED <<buffer, delivered>>
    /\ handling' = FALSE
    /\ UNCHANGED <<clientWaiting, modifiers, controller, edge, presses, typed>>

interrupt_leave ==
    /\ handling /\ ~Drainable
    /\ IF clientWaiting # NoClient /\ buffer # <<>>
       THEN keyboard_read_processbuffers /\ clientWaiting' = NoClient
       ELSE UNCHANGED <<buffer, delivered, clientWaiting>>
    /\ handling' = FALSE
    /\ UNCHANGED <<modifiers, controller, edge, presses, typed>>

\* read: answer with data, block, or answer with nothing if another client is
\* blocked.
read(c) ==
    /\ ~handling
    /\ c # clientWaiting
    /\ \/ /\ buffer # <<>>
          /\ keyboard_read_processbuffers
          /\ UNCHANGED clientWaiting
       \/ /\ buffer = <<>> /\ clientWaiting = NoClient
          /\ clientWaiting' = c
          /\ UNCHANGED <<buffer, delivered>>
       \/ /\ buffer = <<>> /\ clientWaiting # NoClient
          /\ UNCHANGED <<buffer, delivered, clientWaiting>>
    /\ UNCHANGED <<modifiers, handling, controller, edge, presses, typed>>

Next ==
    \/ \E code \in Scancodes : Press(code)
    \/ interrupt_enter
    \/ interrupt_drain
    \/ interrupt_leave
    \/ \E c \in Clients : read(c)

\* The kernel delivers interrupts and the driver works on them; nobody has to
\* press keys or to read.
Fairness ==
    /\ WF_vars(interrupt_enter)
    /\ WF_vars(interrupt_drain)
    /\ WF_vars(interrupt_leave)

Spec == Init /\ [][Next]_vars /\ Fairness

-----------------------------------------------------------------------------
\* Each variable has values of its type.
TypeOK ==
    /\ buffer \in Seq(Chars)
    /\ clientWaiting \in Clients \cup {NoClient}
    /\ modifiers \subseteq Modifiers
    /\ handling \in BOOLEAN
    /\ controller \in Seq(Scancodes)
    /\ edge \in BOOLEAN
    /\ presses \in 0 .. MaxPresses
    /\ typed \in Seq(Chars)
    /\ delivered \in Seq(Chars)

\* The terminating zero that keycodeToChars writes behind the last character
\* is still inside the buffer, for whatever keys are pressed before anybody
\* reads.
TerminatorFits == Len(buffer) < BUFFER_LENGTH

\* Characters reach the clients in the order they were typed, none twice and
\* none lost: what was handed out and what is still in the buffer is what was
\* typed.  And outside the interrupt handler none is kept back: a client is
\* blocked only while there is nothing to read.
BlockedOnlyWhenEmpty == clientWaiting # NoClient /\ ~handling => buffer = <<>>
InOrder == delivered \o buffer = typed /\ BlockedOnlyWhenEmpty

\* A blocked client gets its answer (keyboard.cc:103) once the interrupt of a key
\* that stands for characters is on its way, whatever else is typed between two
\* polls of the controller and even if the buffer fills up.  (A byte that a full
\* buffer has left in the controller is announced by no interrupt: nobody is
\* promised an answer for that one.)
BlockedClientServed ==
    \A c \in Clients :
        (/\ clientWaiting = c
         /\ edge \/ handling
         /\ \E i \in 1 .. Len(controller) : controller[i][2] = "key")
            ~> clientWaiting # c
=============================================================================
