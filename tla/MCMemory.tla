------------------------------ MODULE MCMemory ------------------------------
(* Memory with memory maps as a PC's firmware reports them.                *)
EXTENDS Memory

Area(type, first, pages) ==
    [type |-> type, high |-> FALSE, first |-> first, pages |-> pages, whole |-> TRUE]
Torn(a) == [a EXCEPT !.whole = FALSE]
High(a) == [a EXCEPT !.high = TRUE]

Low == << Torn(Area("free", 0, 2)), Area("reserved", 1, 1), Area("reserved", 3, 1) >>

MCMaps ==
    { \* ending below the firmware's tables
      Low \o << Area("free", 4, 20), Area("other", 24, 2) >>,
      \* more of it, so that the stack does not fill its last page
      Low \o << Area("free", 4, 26) >>,
      \* with a hole, half a page at the end, and memory above 4 GiB
      Low \o << Area("free", 4, 19), Area("other", 23, 1), Torn(Area("free", 24, 2)),
               High(Area("free", 5, 3)) >>,
      \* too little of it for the heap
      << Area("free", 0, 1), Area("reserved", 3, 1), Area("free", 4, 17) >> }

=============================================================================
