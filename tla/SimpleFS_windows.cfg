SPECIFICATION Spec
CONSTANTS
    Names = {"a", "b"}
    Stored <- CutOff
    Sizes = {9, 32}
    NumHandles = 2
    PageSize = 4
    WordBits = 8
    Begin = 64
    Limit = 192
INVARIANTS
    WindowsShowOneFile
CHECK_DEADLOCK FALSE
