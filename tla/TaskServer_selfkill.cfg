SPECIFICATION SelfKillSpec
CONSTANTS
    NumSpaces = 2
    NumThreads = 3
    NumListeners = 3
    NumUtcbs = 2
    MaxThreadNo = 5
INVARIANT ListenersNotShared
PROPERTY ServiceSpec
CHECK_DEADLOCK FALSE
