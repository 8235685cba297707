SPECIFICATION FairSpec
CONSTANTS
    p1 = p1
    p2 = p2
    q1 = q1
    Path <- Paths
    Peer <- OnePeer
    MaxSeq = 3
    MaxFaults = 1
CHECK_DEADLOCK FALSE
INVARIANTS
    TypeOK
    BatchesComplete
    WatermarkTruthful
    AckedIsHeld
    DiscardedNeverSent
PROPERTIES
    AnnouncedArrives
