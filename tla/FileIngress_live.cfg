SPECIFICATION MCFairSpec
CONSTANTS
    owner = owner
    rtc = rtc
    p1 = p1
    p2 = p2
    t1 = t1
    t2 = t2
    Callbacks = {"open", "drain", "error", "closed"}
    Threads = {owner, rtc}
    Owner = owner
    Network = rtc
    MaxCallbacksPerDrain = 2
    MaxWaiting = 6
    Packets = {p1, p2}
    Transfers = {t1, t2}
    transferOf <- MCTransferOf
    fragmentsOf <- MCFragmentsOf
    SecondFragments = 1
    FullBytes = 2
    MaxIngressBytes = 3
    MaxIngressFragments = 2
    IngressBatchSize = 1
    MaxReassemblies = 2
    MaxCancelled = 3
    Failures = {}
    MaxOnWire = 2
    MaxRetentions = 0
CHECK_DEADLOCK FALSE
INVARIANTS
    DrainComing
    CancelledIsNotWritten
PROPERTIES
    TransfersEnd
