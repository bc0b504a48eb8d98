CONSTANTS
    Entries = 8
    BootVMA = 4
    KernelStart = 5
    KernelEnd = 7
    HighVMA = 16
    HeapSpace = 32
    HeapSize = 3
    Drivers = {40, 41}
    Terminal = 40
    StructuresSpace = 48
    Video = 2
    Maps <- MCMaps
    Mbis = {0, 1}
    TopFrame = 30
    Cached = {2, 4, 32, 40, 41, 49}
    MaxOwn = 2
    NULL = NULL
SPECIFICATION Spec
INVARIANTS
    EveryFrameOnce
    StackFits
    KernelStaysMapped
    HeapIsPrivate
    TlbIsCurrent
PROPERTY PagesChangeAlone
CHECK_DEADLOCK FALSE
