\* Three workers on an int of two bits: positions 1 and 2 meet the sign bit and
\* the shift that wraps.  Workers are created, reused and refused.
CONSTANTS
    IntWidth = 2
    MaskWidth = 4
    NumWorkers = 3
    Clients = {c1, c2, c3, c4}
    Stamps = {t1, t2}
    NoFd = NoFd
    NoStamp = NoStamp
    MaxDelay = 2
SPECIFICATION Spec
SYMMETRY Symmetry
INVARIANT TypeOK
INVARIANT NoClientDropped
INVARIANT SoleOwner

