SPECIFICATION FairSpec
CONSTANTS
    MaxDials = 3
    MaxTroubles = 2
INVARIANTS
    TypeOK
    NeverStranded
PROPERTIES
    ImplementsDial
    Recovers
    EveryWorkerEnds
CHECK_DEADLOCK FALSE
