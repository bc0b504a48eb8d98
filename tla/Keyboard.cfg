CONSTANTS
    t1 = t1
    t2 = t2
    Packets = {p1, p2, p3}
    NULL = NULL
    plain = plain
SPECIFICATION FairSpec
INVARIANTS
    TakesItsOwnPacket
    EveryPacketInOnePlace
PROPERTY WokenComesBack
\* With every packet in a queue whose thread nobody wakes, malloc has none to give.
CHECK_DEADLOCK FALSE
