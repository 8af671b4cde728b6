SPECIFICATION Spec
CONSTANTS
    Parts = 2
    Word = 16
    VgaStart = 4
    RomStart = 5
    RomEnd = 6
    MAX_KMEM_END = 14
    Machines <- MCMachines
    Users = {u1, u2}
    Sizes = {0, 1, 2, 4}
    NumInitial = 11
    PerPage = 3
    MaxRequests = 3
INVARIANTS EveryPageOnce GrantsExclusive RefusedOnlyWithoutPages RefusedTakesNothing FreeMemoryUnused
SYMMETRY UserSymmetry
CHECK_DEADLOCK FALSE
