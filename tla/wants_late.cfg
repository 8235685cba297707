SPECIFICATION Spec
CONSTANTS
    Peer <- TwoPeers
    Path <- FourPaths
    Above <- Tree
    Length <- Names
    Dirs <- TwoDirs
    Big <- TheBig
    Initial <- Starts
    Batches <- News
    Sources <- Both
    Reverts <- Undone
    PerPeer = 1
    PerFolder = 2
    MaxVersion = 1
    MaxBatches = 0
    MaxRules = 1
    MaxFaults = 3
INVARIANT
    GoneOnlyIfNobodyHas
CHECK_DEADLOCK FALSE
