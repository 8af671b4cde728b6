SPECIFICATION Spec
CONSTANTS
    PageSize = 2
    Word = 12
    Threads = {1, 2, 3, 4}
    Entries = 2
    BootInfos <- MCBootInfos
    Image <- MCImage
    Ids = {0, 1, 2, 3}
    VPages = {2, 4}
    Pages = {1, 2}
    ASSOC_TABLE_SIZE = 4
INVARIANTS
    PagesOnce
    PagesShowOwnImage
    PanicOnlyExhausted
PROPERTIES
    ReplacedOnlyInRace
CHECK_DEADLOCK FALSE
