CONSTANTS
    Threads = {t1, t2, t3, t4}
    Lists = {threads_ready, threads_sleeping}
    NULL = NULL
    RemovesInside = FALSE
    Nodes = {n1, n2, n3}
    Values = {v1, v2}
SPECIFICATION BothSpec
PROPERTIES
    ImplementsQueues
    
