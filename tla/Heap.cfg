CONSTANTS
    Tail = 51
    Requests = {1, 4, 7}
    NULL = NULL
    SparesTail = TRUE
SPECIFICATION Spec
INVARIANTS
    Tiled
    GivenAreKept
    Coalesced
    NothingLeaks
    FailsOnlyForFirst
PROPERTY FreeingTwiceIsHarmless
