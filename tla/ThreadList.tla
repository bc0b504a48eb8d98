----------------------------- MODULE ThreadList -----------------------------
(***************************************************************************)
(* The singly linked lists of thread control blocks of                     *)
(* multitask/thread_list.c, as operators on the memory they live in.       *)
(*                                                                         *)
(* A thread_control_block has ONE next field, which every list it is put   *)
(* on uses.  A memory m is therefore a record                              *)
(*    m.list[l]   the thread_list l: its head, tail and size fields        *)
(*    m.next[t]   the next field of the thread control block t             *)
(*    m.fault     TRUE once a NULL pointer was dereferenced, or a walk     *)
(*                along next cannot end; nothing after that is modelled.   *)
(* Nothing here checks that a list is well formed: like the code, the      *)
(* operators do what the fields say.                                       *)
(***************************************************************************)
EXTENDS Integers, FiniteSets

CONSTANTS Threads,  \* the thread control blocks
          Lists,    \* the thread_lists
          NULL      \* the null pointer

ASSUME NullIsNoThread == NULL \notin Threads

\* list_thread_create: a list with no element.
EmptyList == [head |-> NULL, tail |-> NULL, size |-> 0]

\* What `next' holds before a thread was ever on a list.
FreshMemory == [list |-> [l \in Lists |-> EmptyList],
                next |-> [t \in Threads |-> NULL],
                fault |-> FALSE]

MemoryType ==
    [list : [Lists -> [head : Threads \cup {NULL}, tail : Threads \cup {NULL}, size : Nat]],
     next : [Threads -> Threads \cup {NULL}],
     fault : BOOLEAN]

Fault(m) == [m EXCEPT !.fault = TRUE]

-----------------------------------------------------------------------------
\* list_thread_push_front: only an empty list gets `next' cleared and a tail.
PushFront(m, l, t) ==
    [m EXCEPT !.list[l] = [head |-> t,
                           tail |-> IF @.head = NULL THEN t ELSE @.tail,
                           size |-> @.size + 1],
              !.next[t] = m.list[l].head]

\* Slip: next keeps what it held on the list the thread was on before.
PushBackStale(m, l, t) ==
    LET last == m.list[l].tail
    IN  IF last = NULL
        THEN [m EXCEPT !.list[l] = [head |-> t, tail |-> t, size |-> @.size + 1]]
        ELSE [m EXCEPT !.next[last] = t, !.list[l].tail = t, !.list[l].size = @ + 1]

\* list_thread_push_back: emptiness is read from the tail, unlike push_front.
PushBack(m, l, t) ==
    LET cleared == [m EXCEPT !.next[t] = NULL]
        last    == m.list[l].tail
    IN  IF last = NULL
        THEN [cleared EXCEPT !.list[l] = [head |-> t, tail |-> t, size |-> @.size + 1]]
        ELSE [cleared EXCEPT !.next[last] = t,
                             !.list[l].tail = t,
                             !.list[l].size = @ + 1]

\* The thread list_thread_pop_front returns.
FrontOf(m, l) == IF m.list[l].size < 1 THEN NULL ELSE m.list[l].head

\* list_thread_pop_front: the size field alone says what is on the list.
PopFront(m, l) ==
    CASE m.list[l].size < 1  -> m
      [] m.list[l].size = 1  -> [m EXCEPT !.list[l] = EmptyList]
      [] OTHER               -> IF m.list[l].head = NULL
                                THEN Fault(m)
                                ELSE [m EXCEPT !.list[l].head = m.next[@],
                                               !.list[l].size = @ - 1]

-----------------------------------------------------------------------------
\* The first pointers a walk `i = i->next' from a first node meets.  It either
\* ends in NULL within Cardinality(Threads) steps or never ends.
WalkFrom(m, first) ==
    LET at[n \in 0..Cardinality(Threads)] ==
            IF n = 0 THEN first
            ELSE IF at[n - 1] = NULL THEN NULL ELSE m.next[at[n - 1]]
    IN  at

Walk(m, l) == WalkFrom(m, m.list[l].head)

\* Where a walk first satisfies Stop (at a node, or at the NULL it would fault on).
FirstStop(walk, Stop(_)) ==
    LET stops == {n \in DOMAIN walk : walk[n] = NULL \/ Stop(walk[n])}
    IN  IF stops = {} THEN NULL
        ELSE walk[CHOOSE n \in stops : \A k \in stops : n <= k]

\* The thread list_thread_pop_back returns.
BackOf(m, l) == IF m.list[l].size < 1 THEN NULL ELSE m.list[l].tail

\* list_thread_pop_back: walks to the node before the tail.
PopBack(m, l) ==
    LET back == m.list[l].tail
        PrecedesBack(i) == m.next[i] = back
        temp == FirstStop(Walk(m, l), PrecedesBack)
    IN  CASE m.list[l].size < 1  -> m
          [] m.list[l].size = 1  -> [m EXCEPT !.list[l] = EmptyList]
          [] OTHER               -> IF temp = NULL
                                    THEN Fault(m)
                                    ELSE [m EXCEPT !.next[temp] = NULL,
                                                   !.list[l].tail = temp,
                                                   !.list[l].size = @ - 1]

\* list_thread_remove, its loop: t is unlinked from between two neighbours and
\* the size stays what it was; only when the loop reaches the tail without
\* meeting t does the size go down.
RemoveInside(m, l, t) ==
    LET TOrTail(i) == i \in {t, m.list[l].tail}
        i == FirstStop(Walk(m, l), TOrTail)
        Precedes(j) == m.next[j] = t
        prev == FirstStop(Walk(m, l), Precedes)
    IN  IF i = t THEN [m EXCEPT !.next[prev] = m.next[t], !.next[t] = NULL]
        ELSE IF i = m.list[l].tail THEN [m EXCEPT !.list[l].size = @ - 1]
        ELSE Fault(m)

Remove(m, l, t) ==
    IF t = m.list[l].head THEN PopFront(m, l)
    ELSE IF t = m.list[l].tail THEN PopBack(m, l)
    ELSE RemoveInside(m, l, t)

-----------------------------------------------------------------------------
\* The threads linked by next, in order: from a first one, and from the head of l.
ChainFrom(m, first) ==
    LET walk == WalkFrom(m, first)
        length == Cardinality({n \in DOMAIN walk : walk[n] # NULL})
    IN  [n \in 1..length |-> walk[n - 1]]

Chain(m, l) == ChainFrom(m, m.list[l].head)

Members(m, l) == {Chain(m, l)[n] : n \in DOMAIN Chain(m, l)}

\* The size, the tail and the chain of l describe the same queue.
WellFormed(m, l) ==
    LET chain == Chain(m, l)
        length == Cardinality(DOMAIN chain)
    IN  /\ m.list[l].size = length
        /\ length = 0 => m.list[l].tail = NULL
        /\ length > 0 => m.list[l].tail = chain[length] /\ m.next[chain[length]] = NULL

=============================================================================
