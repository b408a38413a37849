CONSTANTS
    Runs <- MCRuns
    Datasets = {ds}
    NoDataset = NoDataset
    Asked <- MCAsked
    NoRun = NoRun
    MaxClock = 0
    MaxFaults = 1
    MaxCrashes = 0
SPECIFICATION ReadSpec
INVARIANTS
    StoppedScreenIsFinal
    ReadersSeeWholeResults
PROPERTIES
    ScreenStops
    RunEnds
CHECK_DEADLOCK FALSE
