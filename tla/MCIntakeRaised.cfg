CONSTANTS
    Files <- MCFiles
    MaxRowLines = 3
SPECIFICATION Spec
INVARIANT EveryFileIsAnswered
CHECK_DEADLOCK FALSE
