\* A worker is reused after a failed send; nothing expires.
CONSTANTS
    IntWidth = 32
    MaskWidth = 64
    NumWorkers = 1
    Clients = {c1, c2}
    NoFd = NoFd
    NoStamp = NoStamp
    MaxDelay = 1
    NsecPerSec = 1
    TTL = 2
    MaxMsgs = 2
    FirstClock = 0
    MaxClock = 1
SPECIFICATION Spec
PROPERTY ClosesOnlyGone
CHECK_DEADLOCK FALSE
