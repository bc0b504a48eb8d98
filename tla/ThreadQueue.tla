----------------------------- MODULE ThreadQueue ----------------------------
(***************************************************************************)
(* What the kernel expects of its thread lists: each is a queue of         *)
(* threads, a thread is on at most one of them, and every operation        *)
(* returns the thread the queue says.  Pointers do not appear here;        *)
(* ThreadListOps shows that the linked lists behave like this.             *)
(***************************************************************************)
EXTENDS Sequences, SequencesExt

CONSTANTS Threads, Lists, NULL

VARIABLES queue,    \* queue[l]: the threads on list l, front first
          result    \* what the last operation returned

qvars == <<queue, result>>

QueuedOn(l) == ToSet(queue[l])
Queued == UNION {QueuedOn(l) : l \in Lists}

Init ==
    /\ queue = [l \in Lists |-> <<>>]
    /\ result = NULL

PushFront(l, t) ==
    /\ t \notin Queued
    /\ queue' = [queue EXCEPT ![l] = <<t>> \o @]
    /\ result' = NULL

PushBack(l, t) ==
    /\ t \notin Queued
    /\ queue' = [queue EXCEPT ![l] = Append(@, t)]
    /\ result' = NULL

PopNothing(l) ==
    /\ queue[l] = <<>>
    /\ result' = NULL
    /\ UNCHANGED queue

PopFront(l) ==
    /\ queue[l] # <<>>
    /\ result' = Head(queue[l])
    /\ queue' = [queue EXCEPT ![l] = Tail(@)]

PopBack(l) ==
    /\ queue[l] # <<>>
    /\ result' = Last(queue[l])
    /\ queue' = [queue EXCEPT ![l] = Front(@)]

\* The others keep their order.
RemoveThread(l, t) ==
    /\ t \in QueuedOn(l)
    /\ result' = t
    /\ queue' = [queue EXCEPT ![l] = SelectSeq(@, LAMBDA u : u # t)]

Next ==
    \E l \in Lists :
        \/ PopNothing(l)
        \/ PopFront(l)
        \/ PopBack(l)
        \/ \E t \in Threads : PushFront(l, t) \/ PushBack(l, t) \/ RemoveThread(l, t)

Spec == Init /\ [][Next]_qvars

=============================================================================
