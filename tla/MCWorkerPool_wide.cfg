\* More workers than an int has bits: the scaled widths keep MAX_NUM_WORKERS
\* at twice the width of an int, as 64 is to 32.
CONSTANTS
    IntWidth = 2
    MaskWidth = 4
    NumWorkers = 3
    Clients = {c1, c2, c3}
    Stamps = {t1}
    NoFd = NoFd
    NoStamp = NoStamp
    MaxDelay = 1
SPECIFICATION Spec
INVARIANT BacksOffOnlyWhenFull

