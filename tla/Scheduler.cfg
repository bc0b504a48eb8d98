CONSTANTS
    Threads = {kernel, t1, t2}
    Kernel = kernel
    NULL = NULL
    MaxOpen = 3
    MaxNest = 2
SPECIFICATION Spec
INVARIANTS
    SectionsHold
    
    
    PostponedSwitchIsPending
    SwitchedOutParked
PROPERTIES
    SectionsAreAtomic
    SwitchIsSafe
