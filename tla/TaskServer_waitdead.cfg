SPECIFICATION SelfKillSpec
CONSTANTS
    NumSpaces = 2
    NumThreads = 3
    NumListeners = 2
    NumUtcbs = 2
    MaxThreadNo = 4
INVARIANT NoWaitForTheDead
CHECK_DEADLOCK FALSE
