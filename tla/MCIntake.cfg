CONSTANTS
    Files <- MCFiles
    MaxRowLines = 3
SPECIFICATION Spec
INVARIANTS
    DetectionNeverGuesses
    EveryLineIsAccounted
    RecordsAreTheRows
    StatementsAreAllOrNothing
    GapsAreNeverSilent
CHECK_DEADLOCK FALSE
