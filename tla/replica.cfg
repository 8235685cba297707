SPECIFICATION Spec
CONSTANTS
    Node <- Two
    MaxCounter = 2
    Hashes <- OneContent
    Mtimes <- OneTime
    Execs <- NoExec
    Editing <- FirstTwo
    Braking <- OnlySecond
    Pausing <- OnlyFirst
    Faulty <- OnlyFirst
INVARIANTS
    TypeOK
    SameVersionSameContent
    AnnouncedNeverRewinds
    PendingNeverLeaks
    WantDominates
    NothingLost
CHECK_DEADLOCK FALSE
