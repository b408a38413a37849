CONSTANTS
    Runs <- MCRuns
    Datasets = {ds}
    NoDataset = NoDataset
    NoRun = NoRun
    Asked <- MCAsked
    MaxClock = 1
    MaxFaults = 1
    MaxCrashes = 1
SPECIFICATION Safety
INVARIANTS
    TypeOK
    CompletedRunsAreWhole
PROPERTIES
    TerminalIsFinal
    PolledRowMovesForward
    BaselineOnlyMovesCloser
    ImplementsPublishedRun
CHECK_DEADLOCK FALSE
