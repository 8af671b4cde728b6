SPECIFICATION Spec
CONSTANTS
    NumSpaces = 2
    NumThreads = 3
    NumListeners = 2
    NumUtcbs = 2
    MaxThreadNo = 5
INVARIANTS
    TypeOK
    KernelThreadsHaveTcb
    SpaceListsAgree
    UtcbsDistinct
    AssociationsAgree
CHECK_DEADLOCK FALSE
