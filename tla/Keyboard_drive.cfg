SPECIFICATION Spec
CONSTANTS
    c1 = c1
    c2 = c2
    Clients = {c1, c2}
    NoClient = NoClient
    Keys = {"letter", "fn"}
    Chars <- MCChars
    Stdmap <- MCStdmap
    BUFFER_LENGTH = 7
    MAX_CHAR_LEN = 3
    MsgChars = 2
    MaxPresses = 4
INVARIANTS
    TerminatorFits
    InOrder
PROPERTIES BlockedClientServed
