CONSTANTS
    Threads = {kernel, t1, t2}
    Kernel = kernel
    NULL = NULL
    Locks = {"mutex", "pool"}
    Signals = {"sync"}
    MaxCount <- MCMaxCount
SPECIFICATION Spec
INVARIANT SemaphoresSound
PROPERTIES
    ImplementsGates
    WaitersEnter
