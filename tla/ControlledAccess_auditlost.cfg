SPECIFICATION Spec
CONSTANTS
  NoSession = NoSession
  r1 = r1
  r2 = r2
  r3 = r3
  alice = alice
  bob = bob
  i1 = i1
  i2 = i2
  i3 = i3
  desktop = desktop
  file = file
  Requests <- TwoRequests
  Peers <- OnePeer
  SessionIds <- ThreeIds
  Modes <- TwoModes
  PeerOf <- AllFromAlice
  SidOf <- OwnIds
  ModeOf <- AllDesktop
  MaxPending = 1
  MaxSessions = 2
  MaxPerPeer = 2
  MaxPolicyChanges = 0
  MaxAuditFailures = 1
INVARIANTS
  SessionsAudited
CHECK_DEADLOCK FALSE
