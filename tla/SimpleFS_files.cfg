SPECIFICATION Spec
CONSTANTS
    Names = {"a", "long nam", "long name"}
    Stored <- CutOff
    Sizes = {3, 9, 12, 200}
    NumHandles = 2
    PageSize = 4
    WordBits = 8
    Begin = 64
    Limit = 116
INVARIANTS
    FilesDisjoint
PROPERTIES
    NewFilesUnseen
CHECK_DEADLOCK FALSE
