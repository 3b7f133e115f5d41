\* One source, a refused magic byte and what follows it.
CONSTANTS
    Sources = {s1}
    NoSrc = NoSrc
    Messages <- Mixed
    MaxSent = 2
    MaxLost = 1
    Backlog = 2
SPECIFICATION Spec
INVARIANT ForwardsValidMessages
CHECK_DEADLOCK FALSE
