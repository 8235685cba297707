SPECIFICATION FairSpec
CONSTANTS
    Peer <- TwoPeers
    Path <- FourPaths
    Above <- Tree
    Length <- Names
    Dirs <- TwoDirs
    Big <- TheBig
    Initial <- Starts
    Batches <- News
    Sources <- Both
    Reverts <- Undone
    PerPeer = 1
    PerFolder = 2
    MaxVersion = 2
    MaxBatches = 1
    MaxRules = 1
    MaxFaults = 2
INVARIANTS
    TypeOK
    NeverHeldBehind
    NothingLandsInTrash
    OneCommitPerPath
PROPERTIES
    WantsEnd
CHECK_DEADLOCK FALSE
