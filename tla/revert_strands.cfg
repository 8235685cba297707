SPECIFICATION Spec
CONSTANTS
    p1 = p1
    p2 = p2
    q1 = q1
    Path <- Paths
    Peer <- OnePeer
    MaxSeq = 2
    MaxFaults = 0
CHECK_DEADLOCK FALSE
INVARIANT
    NeverStranded
