CONSTANTS
    Tail = 21
    Requests = {1, 4, 7}
    NULL = NULL
    SparesTail = FALSE
SPECIFICATION Spec
INVARIANT StaysBeforeTail
CHECK_DEADLOCK FALSE
