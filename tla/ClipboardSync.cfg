SPECIFICATION Spec
CONSTANTS
    a = a
    l = l
    Short = {a}
    Long = {l}
    NoText = NoText
    Torn = Torn
    Chunks = 1
    BatchMessages = 2
    HighWatermark = 2
    MaxPending = 1
    FaultKinds = {"loss", "renewal", "refusal", "timeout", "expiry", "write"}
    MaxFaults = 1
    MaxExpansions = 1
    MaxGestures = 2
INVARIANTS
    TypeOK
    ClipboardSound
CHECK_DEADLOCK FALSE
PROPERTIES
    ImplementsLanes
