SPECIFICATION Spec
CONSTANTS
    Node <- Three
    MaxCounter = 2
    Hashes <- OneContent
    Mtimes <- OneTime
    Execs <- NoExec
    Editing <- SecondAndLast
    Braking <- OnlyFirst
    Pausing <- Nobody
    Faulty <- Nobody
INVARIANT NothingLost
CHECK_DEADLOCK FALSE
