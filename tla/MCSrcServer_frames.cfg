\* Two sources, two messages in all, plain and extended mode, with fairness.
CONSTANTS
    Sources = {s1, s2}
    NoSrc = NoSrc
    Messages <- Mixed
    MaxSent = 2
    MaxLost = 1
    Backlog = 2
SPECIFICATION FairSpec
INVARIANT TypeOK
INVARIANT FramesWhatWasSent
INVARIANT EntryIsPiece
PROPERTY NextSourceServed
CHECK_DEADLOCK FALSE
