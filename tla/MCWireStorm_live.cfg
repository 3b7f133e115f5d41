\* A worker and the cleanup thread wait for messages that expire, with fairness.
CONSTANTS
    IntWidth = 32
    MaskWidth = 64
    NumWorkers = 1
    Clients = {c1}
    NoFd = NoFd
    NoStamp = NoStamp
    MaxDelay = 1
    NsecPerSec = 1
    TTL = 2
    MaxMsgs = 2
    FirstClock = 0
    MaxClock = 3
SPECIFICATION FairSpec
PROPERTY NoLossOnceRunning
PROPERTY PassFreesExpired
CHECK_DEADLOCK FALSE
