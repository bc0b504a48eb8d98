-------------------------------- MODULE Heap --------------------------------
(***************************************************************************)
(* The kernel heap: memory/kernel_heap.c and memory/kernel_heap_malloc.c.  *)
(*                                                                         *)
(* Addresses and sizes count units of 4 bytes from the left boundary       *)
(* block, so a block_t is 4 units long.  A block lies at an address; its   *)
(* payload follows it.  The boundary blocks, at 0 and at Tail, have none.  *)
(* Calls do not overlap here: one step is one call.                        *)
(***************************************************************************)
EXTENDS Integers

CONSTANTS Tail,        \* the address of the right boundary block
          Requests,    \* the sizes clients ask for
          NULL,        \* the null pointer
          SparesTail   \* TRUE: clients never ask for the very end of the heap

Header == 4

ASSUME TailAssumption == Tail \in Nat /\ Tail >= 2 * Header
ASSUME RequestsAssumption == Requests \subseteq Nat
ASSUME NullAssumption == NULL \notin Nat
ASSUME SparesTailIsBoolean == SparesTail \in BOOLEAN

VARIABLES heap,   \* the block list: where blocks are, and their four fields
          given   \* what clients hold: the block and the size they asked for

vars == <<heap, given>>

Addresses == 0..Tail

\* ALIGN_SIZE: to 8 bytes.
Align(n) == n + (n % 2)

\* init_heap: between the boundary blocks one free block, whose size is counted
\* from the left boundary block and not from itself.
InitHeap ==
    [blocks |-> {0, Header, Tail},
     size   |-> [a \in Addresses |-> IF a = Header THEN Tail - Header ELSE 0],
     free   |-> [a \in Addresses |-> IF a = Header THEN 1 ELSE 0],
     p_next |-> [a \in Addresses |-> IF a = 0 THEN Header ELSE IF a = Header THEN Tail ELSE NULL],
     p_prev |-> [a \in Addresses |-> IF a = Header THEN 0 ELSE IF a = Tail THEN Header ELSE NULL]]

Init ==
    /\ heap = InitHeap
    /\ given = {}

-----------------------------------------------------------------------------
\* Slip: blocks in use are not skipped.
IsLargestOfAll(h, b) ==
    /\ b \in h.blocks \ {0, Tail}
    /\ \A c \in h.blocks \ {0, Tail} : h.size[c] < h.size[b] \/ (h.size[c] = h.size[b] /\ c <= b)

\* find_worst_fit's candidate: the largest free block, the last one of several, but
\* compared with the first block even if that is allocated.
IsLargest(h, b) ==
    LET first   == h.p_next[0]
        against == {first} \cup {c \in h.blocks \ {0, Tail} : h.free[c] = 1}
    IN  /\ b \in against
        /\ \A c \in against : h.size[c] < h.size[b] \/ (h.size[c] = h.size[b] /\ c <= b)

\* Slip: not looking whether the first block is allocated.
FitsTaken(h, b, n) == IsLargest(h, b) /\ h.size[b] >= n

Fits(h, b, n) == IsLargest(h, b) /\ h.free[b] = 1 /\ h.size[b] >= n

Splits(h, b, n) == h.size[b] >= n + Header

\* malloc, where it cuts the block in two.
Split(h, b, n) ==
    LET rest == b + Header + n
        next == h.p_next[b]
    IN  [blocks |-> h.blocks \cup {rest},
         size   |-> [h.size EXCEPT ![rest] = h.size[b] - n - Header, ![b] = n],
         free   |-> [h.free EXCEPT ![rest] = 1, ![b] = 0],
         p_next |-> [h.p_next EXCEPT ![rest] = next, ![b] = rest],
         p_prev |-> [h.p_prev EXCEPT ![rest] = b, ![next] = rest]]

MarkAllocated(h, b) == [h EXCEPT !.free[b] = 0]

\* Slip: the block behind still points back to the one that is gone.
JoinOneWay(h, b) ==
    LET next == h.p_next[b]
    IN  [blocks |-> h.blocks \ {next},
         size   |-> [h.size EXCEPT ![b] = @ + Header + h.size[next], ![next] = 0],
         free   |-> [h.free EXCEPT ![b] = 1, ![next] = 0],
         p_next |-> [h.p_next EXCEPT ![b] = h.p_next[next], ![next] = NULL],
         p_prev |-> [h.p_prev EXCEPT ![next] = NULL]]

\* Slip: the header gained is not counted.
JoinWithoutHeader(h, b) ==
    LET next == h.p_next[b]
        last == h.p_next[next]
    IN  [blocks |-> h.blocks \ {next},
         size   |-> [h.size EXCEPT ![b] = @ + h.size[next], ![next] = 0],
         free   |-> [h.free EXCEPT ![b] = 1, ![next] = 0],
         p_next |-> [h.p_next EXCEPT ![b] = last, ![next] = NULL],
         p_prev |-> [h.p_prev EXCEPT ![last] = b, ![next] = NULL]]

\* heap_block_join: b takes in the block behind it, whose header is no block any more.
Join(h, b) ==
    LET next == h.p_next[b]
        last == h.p_next[next]
    IN  [blocks |-> h.blocks \ {next},
         size   |-> [h.size EXCEPT ![b] = @ + Header + h.size[next], ![next] = 0],
         free   |-> [h.free EXCEPT ![b] = 1, ![next] = 0],
         p_next |-> [h.p_next EXCEPT ![b] = last, ![next] = NULL],
         p_prev |-> [h.p_prev EXCEPT ![last] = b, ![next] = NULL]]

\* free's three steps for a block it has found on the list.
MarkFree(h, b) == [h EXCEPT !.free[b] = 1]

\* Slip: the neighbours mixed up.
JoinNextByPrev(h, b) == IF h.free[h.p_prev[b]] = 1 THEN Join(h, b) ELSE h
JoinNext(h, b) == IF h.free[h.p_next[b]] = 1 THEN Join(h, b) ELSE h

\* Slip: the neighbours mixed up.
JoinPrevByNext(h, b) == IF h.free[h.p_next[b]] = 1 THEN Join(h, h.p_prev[b]) ELSE h
JoinPrev(h, b) == IF h.free[h.p_prev[b]] = 1 THEN Join(h, h.p_prev[b]) ELSE h

-----------------------------------------------------------------------------
\* No header and no payload in use reaches into the right boundary block.  Where one
\* does, the next write destroys it; nothing after that is modelled.
StaysBeforeTail ==
    \A b \in heap.blocks \ {Tail} :
        b + Header + (IF heap.free[b] = 1 THEN 0 ELSE heap.size[b]) <= Tail

\* The part of the heap in front of the right boundary block that clients leave free.
Spared(h, b, n) == h.p_next[b] = Tail => h.size[b] >= n + 2 * Header

Malloc(size) ==
    LET n == Align(size)
    IN  \E b \in heap.blocks :
            /\ StaysBeforeTail
            /\ Fits(heap, b, n)
            /\ SparesTail => Spared(heap, b, n)
            /\ heap' = IF Splits(heap, b, n) THEN Split(heap, b, n) ELSE MarkAllocated(heap, b)
            /\ given' = given \cup {[block |-> b, size |-> size]}

\* free, of any pointer but those to the boundary blocks: one that malloc returned, one
\* that was freed before, or one that was never a block's.
Free(b) ==
    /\ StaysBeforeTail
    /\ heap' = IF b \in heap.blocks
               THEN JoinPrev(JoinNext(MarkFree(heap, b), b), b)
               ELSE heap
    /\ given' = {g \in given : g.block # b}

Next ==
    \/ \E size \in Requests : Malloc(size)
    \/ \E b \in Addresses \ {0, Tail} : Free(b)

Spec == Init /\ [][Next]_vars

-----------------------------------------------------------------------------
HeapType(h) ==
    h \in [blocks : SUBSET Addresses,
           size   : [Addresses -> Nat],
           free   : [Addresses -> {0, 1}],
           p_next : [Addresses -> Addresses \cup {NULL}],
           p_prev : [Addresses -> Addresses \cup {NULL}]]

TypeOK ==
    /\ HeapType(heap)
    /\ given \subseteq [block : Addresses, size : Nat]

\* Where the memory of block b ends.  The last block's size counts the right boundary
\* block's header too.
End(h, b) == b + h.size[b] + (IF h.p_next[b] = Tail THEN 0 ELSE Header)

TiledHeap(h) ==
    /\ {0, Tail} \subseteq h.blocks
    /\ \A b \in h.blocks \ {Tail} :
           /\ h.p_next[b] \in h.blocks
           /\ h.p_prev[h.p_next[b]] = b
           /\ h.p_next[b] = End(h, b)
           /\ b + Header <= h.p_next[b]
           /\ \A c \in h.blocks : c <= b \/ h.p_next[b] <= c
    /\ \A b \in h.blocks \ {0} :
           /\ h.p_prev[b] \in h.blocks \ {Tail}
           /\ h.p_next[h.p_prev[b]] = b

\* From the left to the right boundary block every unit belongs to exactly one block,
\* each block's neighbour begins where it ends, and both directions of the list
\* agree; sizes and pointers keep their types
\* (kernel_heap_malloc.c:34-53, kernel_heap.c:75-83).
Tiled == TypeOK /\ TiledHeap(heap)

\* What a client got stays a block of its own, at least as long as it asked for, and
\* apart from everybody else's, whatever is allocated and freed around it
\* (kernel_heap_malloc.c:23-58, 87-111).
GivenAreKept ==
    /\ \A g \in given :
           /\ g.block \in heap.blocks \ {0, Tail}
           /\ heap.free[g.block] = 0
           /\ g.block + Header + g.size <= heap.p_next[g.block]
    /\ \A g, k \in given : g.block = k.block => g = k

CoalescedHeap(h) ==
    \A b \in h.blocks \ {Tail} : ~(h.free[b] = 1 /\ h.free[h.p_next[b]] = 1)

\* No two neighbours are both free: freeing joins on both sides
\* (kernel_heap_malloc.c:104-109).
Coalesced == CoalescedHeap(heap)

\* Nothing is lost: when everything was freed the heap is one free block again, of
\* the size it began with, whatever the order of the calls (kernel_heap.c:75-83).
NothingLeaks ==
    given = {} => /\ heap.blocks = {0, Header, Tail}
                  /\ heap.size[Header] = Tail - Header
                  /\ heap.free[Header] = 1

\* To free a pointer a second time, or one that is no block's, does nothing, as long
\* as malloc has not returned it again (kernel_heap_malloc.c:95-102).
FreeingTwiceIsHarmless == [][given' = given => UNCHANGED heap]_vars

\* malloc returns NULL while a free block is long enough only if the first block is in
\* use and longer than every free one: find_worst_fit starts its search from the first
\* block (kernel_heap_malloc.c:31-32, 67-85).
FailsOnlyForFirst ==
    LET first == heap.p_next[0] IN
    \A size \in Requests, b \in heap.blocks :
        heap.free[b] = 1 /\ heap.size[b] >= Align(size)
            => \/ heap.free[first] = 0 /\ heap.size[first] > heap.size[b]
               \/ \E c \in heap.blocks : Fits(heap, c, Align(size))

=============================================================================
