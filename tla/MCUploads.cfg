CONSTANTS
    statement = statement
    blank = blank
    photo = photo
    row1 = row1
    row2 = row2
    damaged1 = damaged1
    WholeFile = WholeFile
    Uploaders <- MCUploaders
    Readers <- MCReaders
    Files <- MCFiles
    Readable <- MCReadable
    Found <- MCFound
    MaxClock = 0
    MaxFaults = 1
    MaxCrashes = 1
SPECIFICATION Spec
INVARIANTS
    AnswersAreBacked
    LateUploadIsRecognised
    SameSelectionSameInputs
CHECK_DEADLOCK FALSE
