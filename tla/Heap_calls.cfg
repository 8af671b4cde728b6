SPECIFICATION Spec
CONSTANTS
    Arena = 9
    HeaderSize = 2
    Word = 32
    Requests = {0, 1, 3, 5, 31}
INVARIANTS
    EveryUnitOnce
    FreeReturns
    RefusedOnlyWithoutRoom
CHECK_DEADLOCK FALSE
