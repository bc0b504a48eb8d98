CONSTANTS
    Lines = {0, 1, 2, 8, 12}
    DriverLines = {12}
    Threads = {kernel, t1, t2}
    Kernel = kernel
    MaxNest = 2
SPECIFICATION Spec
INVARIANTS
    MasksFollowCalls
    EveryEoiIsOwn
    
