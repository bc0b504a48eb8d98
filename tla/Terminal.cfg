CONSTANTS
    typist = typist
    timer = timer
    Threads = {typist, timer}
    VGA_WIDTH = 2
    VGA_HEIGHT = 3
    Calls <- MCCalls
    Painters = {timer}
    WordSize = 256
    blank = " "
    newline = "newline"
    MaxCalls = 3
    NULL = NULL
    Bits = 8
SPECIFICATION Spec
INVARIANTS
    StaysOnScreen
    TextIsShown
    
\* No call is left.
CHECK_DEADLOCK FALSE
