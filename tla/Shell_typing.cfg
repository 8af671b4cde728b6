SPECIFICATION Spec
CONSTANTS
    Cols = 3
    Rows = 3
    Letters = {"d", "l"}
    MAX_COMMAND_LENGTH = 5
    MaxBatch = 2
    MaxKeys = 6
    Texts <- MCTexts
    ModuleSize <- MCModuleSize
    WindowPages = 2
INVARIANTS
    ScreenShowsLine
    CommandAsTyped
    OverrunOnlyByLongLine
    CopyIsModule
CHECK_DEADLOCK FALSE
