SPECIFICATION FairSpec
CONSTANTS
    Trash <- TwoPlaces
    Temps <- OneTemp
    MaxFiles = 3
    MaxEdits = 1
    MaxFaults = 2
    MaxCrashes = 1
INVARIANTS
    TypeOK
    FilesKept
    OpenRowsKnown
    TrashAccounted
PROPERTIES
    NoPhantomDeletion
    NoResurrection
    RowsClose
CHECK_DEADLOCK FALSE
