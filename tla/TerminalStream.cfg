SPECIFICATION FairSpec
CONSTANTS
    ChannelHigh = 1
    ChannelLow = 0
    MaxPendingCli = 1
    FlowHigh = 2
    FlowLow = 0
    MaxPendingCtl = 2
    MaxDrain = 2
    MaxRequests = 2
    MaxWritten <- MCMaxWritten
    MaxEmitted = 2
    MaxFlickers = 1
INVARIANTS
    TypeOK
    PauseHasAnEnd
PROPERTIES
    ImplementsTranscript
    TerminalSettles
CHECK_DEADLOCK FALSE
