SPECIFICATION FairSpec
CONSTANTS
    Node <- Three
    MaxCounter = 1
    Hashes <- TwoContents
    Mtimes <- OneTime
    Execs <- NoExec
    Editing <- FirstTwo
    Braking <- Nobody
    Pausing <- Nobody
    Faulty <- Nobody
INVARIANTS
    NeverFallback
    SettledAgree
PROPERTIES
    Converges
CHECK_DEADLOCK FALSE
