\* A client waits for the only worker while a message arrives.
CONSTANTS
    IntWidth = 32
    MaskWidth = 64
    NumWorkers = 1
    Clients = {c1, c2}
    NoFd = NoFd
    NoStamp = NoStamp
    MaxDelay = 1
    NsecPerSec = 1
    TTL = 2
    MaxMsgs = 1
    FirstClock = 0
    MaxClock = 1
SPECIFICATION Spec
INVARIANT NoMissedMessage
CHECK_DEADLOCK FALSE
