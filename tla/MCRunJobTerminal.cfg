CONSTANTS
    Runs <- MCRuns
    Datasets = {ds}
    NoDataset = NoDataset
    NoRun = NoRun
    Asked <- MCAsked
    MaxClock = 0
    MaxFaults = 0
    MaxCrashes = 1
SPECIFICATION Spec
PROPERTIES
    AlwaysTerminal
CHECK_DEADLOCK FALSE
