--------------------------- MODULE KeyboardProofs ---------------------------
(***************************************************************************)
(* Theorems about the keyboard driver, for every keymap, every length of   *)
(* the buffer and of an answer, and any number of clients and keys.        *)
(***************************************************************************)
EXTENDS Keyboard, SequenceTheorems, TLAPS

\* What a key stands for is a string that keycodeToChars has room for.
LEMMA DecodedType ==
    ASSUME TypeOK, NEW code \in Scancodes
    PROVE  Decoded(code) \in Seq(Chars) /\ Len(Decoded(code)) <= MAX_CHAR_LEN
<1>1. CASE code[2] = "key"
  <2>1. PICK k \in Keys : code = <<k, "key">>
    BY <1>1 DEF Scancodes, Down, Up, Ignored
  <2> DEFINE lv == modifiers \cap {"ctrl", "shift", "alt"}
  <2>2. lv \in Levels
    BY DEF Levels
  <2>3. Decoded(code) = Stdmap[lv][k]
    BY <1>1, <2>1 DEF Decoded
  <2> HIDE DEF lv
  <2> QED BY <2>2, <2>3, KeyboardAssumption
<1>2. CASE code[2] # "key"
  <2>1. Decoded(code) = <<>>
    BY <1>2 DEF Decoded
  <2> QED BY <2>1, EmptySeq, KeyboardAssumption
<1> QED BY <1>1, <1>2

\* Only modifiers are set.
LEMMA NewModifiersType ==
    ASSUME TypeOK, NEW code \in Scancodes
    PROVE  NewModifiers(code) \subseteq Modifiers
<1>1. modifiers \subseteq Modifiers
  BY DEF TypeOK
<1>2. code \in {<<"num", "make">>, <<"scroll", "make">>} => code[1] \in Modifiers
  BY DEF Modifiers
<1>3. code \in {<<"ctrl", "make">>, <<"shift", "make">>, <<"alt", "make">>} => code[1] \in Modifiers
  BY DEF Modifiers
<1>4. {"caps", "shift"} \subseteq Modifiers
  BY DEF Modifiers
<1> DEFINE m == code[1]
<1>5. \/ NewModifiers(code) = modifiers \cup {"caps", "shift"}
      \/ NewModifiers(code) = modifiers \ {"caps", "shift"}
      \/ /\ NewModifiers(code) = (modifiers \cup {m}) \ (modifiers \cap {m})
         /\ m \in Modifiers
      \/ NewModifiers(code) = modifiers \cup {m} /\ m \in Modifiers
      \/ NewModifiers(code) = modifiers \ {m}
      \/ NewModifiers(code) = modifiers
  BY <1>2, <1>3 DEF NewModifiers
<1> HIDE DEF m
<1> QED BY <1>1, <1>4, <1>5

\* An answer and what it leaves are the buffer, in this order.
LEMMA AnswerSplitsBuffer ==
    ASSUME buffer \in Seq(Chars)
    PROVE  /\ Taken \in Seq(Chars) /\ Left \in Seq(Chars)
           /\ Taken \o Left = buffer
           /\ Len(Left) <= Len(buffer)
<1>1. CASE Len(buffer) <= MsgChars
  <2>1. Taken = buffer /\ Left = <<>>
    BY <1>1 DEF Taken, Left
  <2> QED BY <2>1, EmptySeq, ConcatEmptySeq, LenProperties
<1>2. CASE ~ (Len(buffer) <= MsgChars)
  <2>1. Taken = SubSeq(buffer, 1, MsgChars) /\ Left = SubSeq(buffer, MsgChars + 1, Len(buffer))
    BY <1>2 DEF Taken, Left
  <2>2. MsgChars \in Nat \ {0} /\ Len(buffer) \in Nat /\ MsgChars < Len(buffer)
    BY <1>2, KeyboardAssumption, LenProperties
  <2>3. \A i \in 1 .. Len(buffer) : buffer[i] \in Chars
    BY ElementOfSeq
  <2>4. Taken \in Seq(Chars)
    BY <2>1, <2>2, <2>3, SubSeqProperties
  <2>5. Left \in Seq(Chars) /\ Len(Left) = Len(buffer) - MsgChars
    <3>1. MsgChars + 1 \in Int /\ Len(buffer) \in Int /\ MsgChars + 1 <= Len(buffer)
      BY <2>2
    <3>2. \A i \in MsgChars + 1 .. Len(buffer) : buffer[i] \in Chars
      BY <2>2, <2>3
    <3>3. /\ SubSeq(buffer, MsgChars + 1, Len(buffer)) \in Seq(Chars)
          /\ Len(SubSeq(buffer, MsgChars + 1, Len(buffer))) = Len(buffer) - (MsgChars + 1) + 1
      BY <3>1, <3>2, SubSeqProperties
    <3> QED BY <2>1, <2>2, <3>3
  <2>6. Taken \o Left = SubSeq(buffer, 1, Len(buffer))
    <3>1. 1 \in 1 .. Len(buffer) + 1 /\ MsgChars \in 1 - 1 .. Len(buffer) /\ Len(buffer) \in MsgChars .. Len(buffer)
      BY <2>2
    <3> QED BY <2>1, <3>1, ConcatAdjacentSubSeq
  <2>7. SubSeq(buffer, 1, Len(buffer)) = buffer
    BY SubSeqFull
  <2> QED BY <2>2, <2>4, <2>5, <2>6, <2>7
<1> QED BY <1>1, <1>2

-----------------------------------------------------------------------------
\* The inductive invariant: the types, the room in the buffer and the order.
BufferInv == TypeOK /\ TerminatorFits /\ InOrder

LEMMA BufferInvInit == Init => BufferInv
<1> SUFFICES ASSUME Init
             PROVE  BufferInv
  OBVIOUS
<1>1. TypeOK
  <2>1. <<>> \in Seq(Chars) /\ <<>> \in Seq(Scancodes)
    BY EmptySeq
  <2>2. 0 \in 0 .. MaxPresses
    BY KeyboardAssumption
  <2> QED BY <2>1, <2>2 DEF Init, TypeOK
<1>2. TerminatorFits
  BY EmptySeq, KeyboardAssumption DEF Init, TerminatorFits
<1>3. InOrder
  BY EmptySeq, ConcatEmptySeq DEF Init, InOrder, BlockedOnlyWhenEmpty
<1> QED BY <1>1, <1>2, <1>3 DEF BufferInv

\* An answer to a client hands out what is in the buffer, from the front.
LEMMA AnswerKeepsOrder ==
    ASSUME BufferInv, keyboard_read_processbuffers, UNCHANGED typed
    PROVE  /\ buffer' \in Seq(Chars) /\ delivered' \in Seq(Chars)
           /\ Len(buffer') < BUFFER_LENGTH
           /\ delivered' \o buffer' = typed'
<1>1. /\ buffer \in Seq(Chars) /\ delivered \in Seq(Chars)
      /\ Len(buffer) < BUFFER_LENGTH /\ delivered \o buffer = typed
  BY DEF BufferInv, TypeOK, TerminatorFits, InOrder
<1>2. /\ Taken \in Seq(Chars) /\ Left \in Seq(Chars)
      /\ Taken \o Left = buffer /\ Len(Left) <= Len(buffer)
  BY <1>1, AnswerSplitsBuffer
<1>3. buffer' = Left /\ delivered' = delivered \o Taken
  BY DEF keyboard_read_processbuffers
<1> HIDE DEF Left, Taken
<1>4. (delivered \o Taken) \o Left = delivered \o (Taken \o Left)
  <2>1. delivered \in Seq(Chars) /\ Taken \in Seq(Chars) /\ Left \in Seq(Chars)
    BY <1>1, <1>2
  <2> QED BY <2>1, ConcatAssociative
<1>5. delivered \o Taken \in Seq(Chars)
  BY <1>1, <1>2, ConcatProperties
<1>6. Len(Left) < BUFFER_LENGTH
  BY <1>1, <1>2, LenProperties, KeyboardAssumption
<1> QED BY <1>1, <1>2, <1>3, <1>4, <1>5, <1>6

LEMMA PressKeeps ==
    ASSUME BufferInv, NEW code \in Scancodes, Press(code)
    PROVE  BufferInv'
<1>1. controller' \in Seq(Scancodes)
  BY AppendProperties DEF Press, BufferInv, TypeOK
<1>2. presses' \in 0 .. MaxPresses
  BY KeyboardAssumption DEF Press, BufferInv, TypeOK
<1>3. edge' \in BOOLEAN
  BY DEF Press
<1>4. TypeOK'
  BY <1>1, <1>2, <1>3 DEF Press, BufferInv, TypeOK
<1>5. TerminatorFits' /\ InOrder'
  BY DEF Press, BufferInv, TerminatorFits, InOrder, BlockedOnlyWhenEmpty
<1> QED BY <1>4, <1>5 DEF BufferInv

LEMMA EnterKeeps ==
    ASSUME BufferInv, interrupt_enter
    PROVE  BufferInv'
<1>1. TypeOK'
  BY DEF interrupt_enter, BufferInv, TypeOK
<1>2. TerminatorFits' /\ InOrder'
  BY DEF interrupt_enter, BufferInv, TerminatorFits, InOrder, BlockedOnlyWhenEmpty
<1> QED BY <1>1, <1>2 DEF BufferInv

LEMMA DrainKeeps ==
    ASSUME BufferInv, interrupt_drain
    PROVE  BufferInv'
<1> DEFINE code == Head(controller)
           new  == Decoded(code)
<1>1. controller \in Seq(Scancodes) /\ controller # <<>>
  BY DEF interrupt_drain, Drainable, BufferInv, TypeOK
<1>2. code \in Scancodes /\ Tail(controller) \in Seq(Scancodes)
  BY <1>1, HeadTailProperties
<1>3. new \in Seq(Chars) /\ Len(new) <= MAX_CHAR_LEN
  BY <1>2, DecodedType DEF BufferInv
<1>4. modifiers' \subseteq Modifiers
  BY <1>2, NewModifiersType DEF interrupt_drain, BufferInv
<1>6. /\ buffer' = buffer \o new /\ typed' = typed \o new
      /\ controller' = Tail(controller) /\ edge' \in BOOLEAN
      /\ handling /\ Len(buffer) < BUFFER_LENGTH - MAX_CHAR_LEN
      /\ UNCHANGED <<clientWaiting, handling, presses, delivered>>
  BY DEF interrupt_drain, Drainable
<1> HIDE DEF new, code
<1>7. buffer \in Seq(Chars) /\ delivered \in Seq(Chars) /\ typed \in Seq(Chars)
  BY DEF BufferInv, TypeOK
<1>8. /\ buffer \o new \in Seq(Chars) /\ typed \o new \in Seq(Chars)
      /\ Len(buffer \o new) = Len(buffer) + Len(new)
  BY <1>3, <1>7, ConcatProperties
<1>9. TypeOK'
  BY <1>2, <1>4, <1>6, <1>8 DEF BufferInv, TypeOK
<1>10. TerminatorFits'
  <2>1. Len(buffer) \in Nat /\ Len(new) \in Nat /\ MAX_CHAR_LEN \in Nat /\ BUFFER_LENGTH \in Nat
    BY <1>3, <1>7, LenProperties, KeyboardAssumption
  <2> QED BY <1>3, <1>6, <1>8, <2>1 DEF TerminatorFits
<1>11. InOrder'
  <2>1. delivered \o (buffer \o new) = (delivered \o buffer) \o new
    BY <1>3, <1>7, ConcatAssociative
  <2> QED BY <1>6, <2>1 DEF BufferInv, InOrder, BlockedOnlyWhenEmpty
<1> QED BY <1>9, <1>10, <1>11 DEF BufferInv

LEMMA LeaveKeeps ==
    ASSUME BufferInv, interrupt_leave
    PROVE  BufferInv'
<1>1. UNCHANGED <<modifiers, controller, edge, presses, typed>> /\ handling' = FALSE
  BY DEF interrupt_leave
<1>2. CASE clientWaiting # NoClient /\ buffer # <<>>
  <2>1. keyboard_read_processbuffers /\ clientWaiting' = NoClient
    BY <1>2 DEF interrupt_leave
  <2>2. /\ buffer' \in Seq(Chars) /\ delivered' \in Seq(Chars)
        /\ Len(buffer') < BUFFER_LENGTH /\ delivered' \o buffer' = typed'
    BY <1>1, <2>1, AnswerKeepsOrder
  <2> QED BY <1>1, <2>1, <2>2 DEF BufferInv, TypeOK, TerminatorFits, InOrder, BlockedOnlyWhenEmpty
<1>3. CASE ~ (clientWaiting # NoClient /\ buffer # <<>>)
  <2>1. UNCHANGED <<buffer, delivered, clientWaiting>>
    BY <1>3 DEF interrupt_leave
  <2> QED BY <1>1, <1>3, <2>1 DEF BufferInv, TypeOK, TerminatorFits, InOrder, BlockedOnlyWhenEmpty
<1> QED BY <1>2, <1>3

LEMMA ReadKeeps ==
    ASSUME BufferInv, NEW c \in Clients, read(c)
    PROVE  BufferInv'
<1>1. UNCHANGED <<modifiers, handling, controller, edge, presses, typed>> /\ ~ handling
  BY DEF read
<1>2. CASE buffer # <<>>
  <2>1. keyboard_read_processbuffers /\ clientWaiting' = clientWaiting
    BY <1>2 DEF read
  <2>2. clientWaiting = NoClient
    BY <1>1, <1>2 DEF BufferInv, InOrder, BlockedOnlyWhenEmpty
  <2>3. /\ buffer' \in Seq(Chars) /\ delivered' \in Seq(Chars)
        /\ Len(buffer') < BUFFER_LENGTH /\ delivered' \o buffer' = typed'
    BY <1>1, <2>1, AnswerKeepsOrder
  <2> QED BY <1>1, <2>1, <2>2, <2>3 DEF BufferInv, TypeOK, TerminatorFits, InOrder, BlockedOnlyWhenEmpty
<1>3. CASE buffer = <<>>
  <2>1. UNCHANGED <<buffer, delivered>> /\ clientWaiting' \in {clientWaiting, c}
    BY <1>3 DEF read
  <2> QED BY <1>1, <1>3, <2>1 DEF BufferInv, TypeOK, TerminatorFits, InOrder, BlockedOnlyWhenEmpty
<1> QED BY <1>2, <1>3

LEMMA BufferInvStep == BufferInv /\ [Next]_vars => BufferInv'
<1>1. BufferInv /\ UNCHANGED vars => BufferInv'
  BY DEF vars, BufferInv, TypeOK, TerminatorFits, InOrder, BlockedOnlyWhenEmpty
<1> QED BY <1>1, PressKeeps, EnterKeeps, DrainKeeps, LeaveKeeps, ReadKeeps DEF Next

LEMMA KeyboardInv == Spec => []BufferInv
BY BufferInvInit, BufferInvStep, PTL DEF Spec

\* keyboard.cc, interrupt: with the check for room before each byte is read, the
\* zero behind the last character is inside the buffer, whatever the keymap and
\* whatever is typed before anybody reads.
THEOREM TerminatorAlwaysFits == Spec => []TerminatorFits
<1>1. BufferInv => TerminatorFits
  BY DEF BufferInv
<1> QED BY <1>1, KeyboardInv, PTL

\* keyboard.cc, read and interrupt: the clients get the characters in the order
\* they were typed, none twice and none lost, for any length of an answer, and
\* nobody is blocked while there is something to read.
THEOREM DeliveredInOrder == Spec => []InOrder
<1>1. BufferInv => InOrder
  BY DEF BufferInv
<1> QED BY <1>1, KeyboardInv, PTL
=============================================================================
