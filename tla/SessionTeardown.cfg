SPECIFICATION FairSpec
CONSTANTS
    r1 = r1
    r2 = r2
    o1 = o1
    comThread1 = comThread1
    comThread2 = comThread2
    Owner = Owner
    NoChunk = NoChunk
    Calls = {r1, r2, o1}
    Readers = {r1, r2}
    Threads = {Owner, comThread1, comThread2}
    threadOf <- MCThreadOf
    MaxChunks = 1
    MaxInbox = 2
INVARIANTS
    TypeOK
    ReadsSound
    TeardownSound
PROPERTIES
    ImplementsScope
    WaitsEnd
