CONSTANTS
    Threads = {kernel, t1, t2}
    Kernel = kernel
    NULL = NULL
    Sleeps = {0, 2}
    TickBits = 3
    NoTickInNap = FALSE
    ButlerWaits = TRUE
SPECIFICATION Spec
INVARIANT QueuedAreRunning
\* Nothing is modelled after a NULL pointer was followed.
CHECK_DEADLOCK FALSE
