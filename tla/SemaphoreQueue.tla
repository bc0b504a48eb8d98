---------------------------- MODULE SemaphoreQueue --------------------------
(***************************************************************************)
(* What lock_semaphore and unlock_semaphore promise: at most MaxCount      *)
(* threads are inside at once, the others wait in the order they came, and *)
(* a thread that leaves hands its place to the first of them, so that no   *)
(* newcomer can take it.  Semaphore is shown to implement this.            *)
(***************************************************************************)
EXTENDS Integers, Sequences, FiniteSets

CONSTANTS Threads,
          MaxCount   \* how many threads may be inside at once

VARIABLES inside,    \* the threads that have locked and not yet unlocked
          waiting    \* the threads that wait, in order

qvars == <<inside, waiting>>

Waits(t) == \E i \in 1..Len(waiting) : waiting[i] = t
Outside(t) == t \notin inside /\ ~Waits(t)

Init ==
    /\ inside = {}
    /\ waiting = <<>>

Enter(t) ==
    /\ Outside(t)
    /\ Cardinality(inside) < MaxCount
    /\ inside' = inside \cup {t}
    /\ UNCHANGED waiting

Queue(t) ==
    /\ Outside(t)
    /\ Cardinality(inside) = MaxCount
    /\ waiting' = Append(waiting, t)
    /\ UNCHANGED inside

Leave(t) ==
    /\ t \in inside
    /\ waiting = <<>>
    /\ inside' = inside \ {t}
    /\ UNCHANGED waiting

HandOver(t) ==
    /\ t \in inside
    /\ waiting # <<>>
    /\ inside' = (inside \ {t}) \cup {Head(waiting)}
    /\ waiting' = Tail(waiting)

Next == \E t \in Threads : Enter(t) \/ Queue(t) \/ Leave(t) \/ HandOver(t)

Spec == Init /\ [][Next]_qvars

-----------------------------------------------------------------------------
TypeOK ==
    /\ inside \in SUBSET Threads
    /\ waiting \in Seq(Threads)

\* A semaphore never admits more threads than it was created for
\* (thread_semaphore.c:53-69, 90-100).
Exclusion == IsFiniteSet(inside) /\ Cardinality(inside) <= MaxCount

\* A thread waits once, and not while it is inside.
WaitsOnce ==
    /\ \A i \in 1..Len(waiting) : waiting[i] \notin inside
    /\ \A i, j \in 1..Len(waiting) : waiting[i] = waiting[j] => i = j

\* No thread waits while there is room: only a thread inside wakes one
\* (thread_semaphore.c:90-100).
NoIdleSlot == waiting # <<>> => Cardinality(inside) = MaxCount

=============================================================================
