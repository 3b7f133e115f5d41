\* A message expires while its worker is slow.
CONSTANTS
    IntWidth = 32
    MaskWidth = 64
    NumWorkers = 1
    Clients = {c1}
    NoFd = NoFd
    NoStamp = NoStamp
    MaxDelay = 1
    NsecPerSec = 1
    TTL = 2
    MaxMsgs = 1
    FirstClock = 0
    MaxClock = 4
SPECIFICATION Spec
INVARIANT NoBadAccess
CHECK_DEADLOCK FALSE
