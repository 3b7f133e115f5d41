\* A message expires under workers at every step of their loop.
CONSTANTS
    IntWidth = 32
    MaskWidth = 64
    NumWorkers = 1
    Clients = {c1, c2}
    NoFd = NoFd
    NoStamp = NoStamp
    MaxDelay = 1
    NsecPerSec = 1
    TTL = 2
    MaxMsgs = 1
    FirstClock = 0
    MaxClock = 4
SPECIFICATION Spec
INVARIANT TypeOK
INVARIANT BadAccessOnlyPastTTL
CHECK_DEADLOCK FALSE
