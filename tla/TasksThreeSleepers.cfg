CONSTANTS
    Threads = {kernel, t1, t2, t3}
    Kernel = kernel
    NULL = NULL
    Sleeps = {0, 2}
    TickBits = 3
    NoTickInNap = TRUE
    ButlerWaits = TRUE
SPECIFICATION Spec
INVARIANT SizeMeansSleeping
\* Nothing is modelled after a NULL pointer was followed.
CHECK_DEADLOCK FALSE
