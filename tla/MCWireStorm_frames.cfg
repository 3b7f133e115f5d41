\* Three messages, enough for one to be left out in between, stamped on the two
\* sides of a full second.
CONSTANTS
    IntWidth = 32
    MaskWidth = 64
    NumWorkers = 1
    Clients = {c1, c2}
    NoFd = NoFd
    NoStamp = NoStamp
    MaxDelay = 1
    NsecPerSec = 2
    TTL = 2
    MaxMsgs = 3
    FirstClock = 1
    MaxClock = 2
SPECIFICATION Spec
SYMMETRY Symmetry
INVARIANT NoStaleDelivery
INVARIANT GaplessFrames
PROPERTY NoEntrySkipped
PROPERTY ImplementsBroadcast
CHECK_DEADLOCK FALSE
