SPECIFICATION Spec
CONSTANTS
    Contents <- TwoFiles
    Initially <- TheFile
    Links <- NoLinks
    MaxInputs = 2
    MaxLooks = 1
    MaxEdits = 2
    MaxCommits = 0
    MaxFaults = 0
PROPERTY
    NeverBackwards
CHECK_DEADLOCK FALSE
