SPECIFICATION FairSpec
CONSTANTS
    Queue = 1
    Inputs = 1
    Kinds <- TwoKinds
    MaxGroups = 4
    MaxFaults = 1
INVARIANTS
    TypeOK
    JournalFirst
    BoundedBacklog
PROPERTIES
    Implements
    EffectsHappen
    RefusalStops
