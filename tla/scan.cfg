SPECIFICATION FairSpec
CONSTANTS
    Contents <- TheContents
    Initially <- TheFile
    Links <- TheLinks
    MaxInputs = 1
    MaxLooks = 1
    MaxEdits = 1
    MaxCommits = 1
    MaxFaults = 1
INVARIANTS
    TypeOK
    BracketIsScan
    RecordTruthful
PROPERTIES
    DatedNeverBackwards
    HostIsNotUser
    WholeFilesOnly
    Caught
CHECK_DEADLOCK FALSE
