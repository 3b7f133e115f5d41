\* Two workers, three connections, with fairness; no symmetry.
CONSTANTS
    IntWidth = 2
    MaskWidth = 4
    NumWorkers = 2
    Clients = {c1, c2, c3}
    Stamps = {t1}
    NoFd = NoFd
    NoStamp = NoStamp
    MaxDelay = 2
SPECIFICATION FairSpec

PROPERTY ClientGetsWorker
PROPERTY ImplementsService
