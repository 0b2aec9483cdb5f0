SPECIFICATION FairSpec
CONSTANTS
    m1 = m1
    m2 = m2
    m3 = m3
    Messages = {m1, m2, m3}
    SessionMessages = {m1, m2}
    dev1 = dev1
    here = here
    Devices = {dev1, here}
    LocalId = here
    Lists = {{dev1, here}}
    MaxPending = 2
    MaxRetry = 1
    MaxResets = 1
INVARIANTS
    TypeOK
    NothingStuck
    PresenceHonest
PROPERTIES
    ImplementsLink
    NeverGivesUp
CHECK_DEADLOCK FALSE
