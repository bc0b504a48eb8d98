---------------------------- MODULE ThreadListOps ---------------------------
(***************************************************************************)
(* The linked lists of multitask/thread_list.c under every legal sequence  *)
(* of calls: a thread is pushed only when it is on no list, and removed    *)
(* only from the list it is on.  RemovesInside says whether a client       *)
(* removes threads that have a neighbour on both sides.                    *)
(***************************************************************************)
EXTENDS ThreadList

CONSTANT RemovesInside
ASSUME RemovesInsideIsBoolean == RemovesInside \in BOOLEAN

VARIABLES mem,      \* the lists and the next pointers
          result    \* what the last operation returned

vars == <<mem, result>>

OnSomeList == UNION {Members(mem, l) : l \in Lists}

Init ==
    /\ mem = FreshMemory
    /\ result = NULL

CallPushFront(l, t) ==
    /\ t \notin OnSomeList
    /\ mem' = PushFront(mem, l, t)
    /\ result' = NULL

CallPushBack(l, t) ==
    /\ t \notin OnSomeList
    /\ mem' = PushBack(mem, l, t)
    /\ result' = NULL

CallPopFront(l) ==
    /\ mem' = PopFront(mem, l)
    /\ result' = FrontOf(mem, l)

CallPopBack(l) ==
    /\ mem' = PopBack(mem, l)
    /\ result' = BackOf(mem, l)

CallRemove(l, t) ==
    /\ t \in Members(mem, l)
    /\ ~RemovesInside => t \in {mem.list[l].head, mem.list[l].tail}
    /\ mem' = Remove(mem, l, t)
    /\ result' = t

Next ==
    \E l \in Lists :
        \/ CallPopFront(l)
        \/ CallPopBack(l)
        \/ \E t \in Threads : CallPushFront(l, t) \/ CallPushBack(l, t) \/ CallRemove(l, t)

Spec == Init /\ [][Next]_vars

-----------------------------------------------------------------------------
\* Fields hold pointers to threads or NULL, and no size (a u32) is counted down
\* past zero (thread_list.h:25-29).
TypeOK == mem \in MemoryType /\ result \in Threads \cup {NULL}

\* No operation dereferences NULL or walks for ever, and head, tail, size and the
\* next pointers of every list describe one and the same queue, although push_back
\* tests the tail, push_front and remove the head, and the pops the size
\* (thread_list.c:16-97).
ListsSound ==
    /\ TypeOK /\ ~mem.fault
    /\ \A l \in Lists : WellFormed(mem, l)

\* The pointers read as sequences.
Queue == INSTANCE ThreadQueue WITH queue <- [l \in Lists |-> Chain(mem, l)]

\* The linked lists implement queues: order, membership and every returned thread
\* are those of a sequence, and every operation leaves the lists sound
\* (thread_list.c:16-138).  This is Queue!Spec and []ListsSound.
ImplementsQueues ==
    /\ Queue!Init /\ ListsSound
    /\ [][[Queue!Next]_(Queue!qvars) /\ ListsSound']_vars

=============================================================================
