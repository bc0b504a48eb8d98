CONSTANTS
    Threads = {kernel, t1, t2}
    Kernel = kernel
    NULL = NULL
    Sleeps = {0, 1}
    TickBits = 2
    NoTickInNap = TRUE
    ButlerWaits = TRUE
SPECIFICATION Spec
INVARIANTS
    ListsSound
    StatesTellPlaces
    FreedIsUnused
PROPERTIES
    
    SleepersWake
    RunnersRun
    TerminatedAreFreed
