------------------------------- MODULE DlList -------------------------------
(***************************************************************************)
(* The generic doubly linked list of include/data_structures/dl_list.h:    *)
(* every sequence of calls on one list that is not NULL, with a malloc     *)
(* that may return NULL.  One step is one call.  No source file uses the   *)
(* macro yet.  list_doc.md names the functions for a list of int.          *)
(***************************************************************************)
EXTENDS Naturals, FiniteSets, Sequences, SequencesExt

CONSTANTS Nodes,     \* what malloc returns for a node
          Values,    \* Type
          NULL

VARIABLES ll,        \* head and tail, and the nodes' memory
          answer     \* what the last call returned, and its error code

dlvars == <<ll, answer>>

\* list_create.
Created == [head |-> NULL, tail |-> NULL, used |-> {},
            next |-> [n \in Nodes |-> NULL], prev |-> [n \in Nodes |-> NULL],
            data |-> [n \in Nodes |-> NULL]]

Init ==
    /\ ll = Created
    /\ answer = [err |-> 0, value |-> NULL]

-----------------------------------------------------------------------------
\* The node that so many steps lead to, and how many of them lead to the tail.
NodeAt(l, index) ==
    LET at[i \in 0 .. index] == IF i = 0 THEN l.head ELSE l.next[at[i - 1]] IN at[index]
Size(l) ==
    IF l.head = NULL THEN 0
    ELSE CHOOSE n \in 1 .. Cardinality(Nodes) : NodeAt(l, n - 1) = l.tail

\* The values of the nodes from one on, as the pointers lead to them, until NULL.
Follow(l, start, link) ==
    LET at[i \in 1 .. Cardinality(Nodes)] ==
            IF i = 1 THEN start ELSE IF at[i - 1] = NULL THEN NULL ELSE link[at[i - 1]]
    IN  [i \in 1 .. Cardinality({k \in DOMAIN at : at[k] # NULL}) |-> l.data[at[i]]]

\* list_display and list_display_reverse, as the values they hand over.
Displayed(l) == Follow(l, l.head, l.next)
DisplayedReverse(l) == Follow(l, l.tail, l.prev)

NewNode(l, n, value) ==
    [l EXCEPT !.used = @ \cup {n}, !.next[n] = NULL, !.prev[n] = NULL, !.data[n] = value]

PushBack(l, n, value) ==
    LET m == NewNode(l, n, value) IN
    IF m.head = NULL THEN [m EXCEPT !.head = n, !.tail = n]
    ELSE [m EXCEPT !.prev[n] = m.tail, !.next[m.tail] = n, !.tail = n]

PushFront(l, n, value) ==
    LET m == NewNode(l, n, value) IN
    IF m.head = NULL THEN [m EXCEPT !.head = n, !.tail = n]
    ELSE [m EXCEPT !.next[n] = m.head, !.prev[m.head] = n, !.head = n]

PopLast(l) == [l EXCEPT !.used = @ \ {l.head}, !.head = NULL, !.tail = NULL]

PopFront(l) ==
    IF l.head = l.tail THEN PopLast(l)
    ELSE [l EXCEPT !.used = @ \ {l.head}, !.head = l.next[l.head], !.prev[l.next[l.head]] = NULL]

PopBack(l) ==
    IF l.head = l.tail THEN PopLast(l)
    ELSE LET before == NodeAt(l, Size(l) - 2) IN
         [l EXCEPT !.used = @ \ {l.tail}, !.next[before] = NULL, !.tail = before]

\* Slip: the node behind the new one goes on pointing back past it.
LinkBehindOneWay(l, p, n, value) ==
    LET m == NewNode(l, n, value) IN [m EXCEPT !.next[n] = m.next[p], !.prev[n] = p, !.next[p] = n]

LinkBehind(l, p, n, value) ==
    LET m == NewNode(l, n, value) IN
    [m EXCEPT !.next[n] = m.next[p], !.prev[n] = p, !.prev[m.next[p]] = n, !.next[p] = n]

Insert(l, index, n, value) ==
    IF index = 0 THEN PushFront(l, n, value)
    ELSE IF index = Size(l) THEN PushBack(l, n, value)
    ELSE LinkBehind(l, NodeAt(l, index - 1), n, value)

UnlinkBehind(l, p) ==
    LET gone == l.next[p] IN
    [l EXCEPT !.next[p] = l.next[gone], !.prev[l.next[gone]] = p, !.used = @ \ {gone}]

RemoveIndex(l, index) ==
    IF index = 0 THEN PopFront(l)
    ELSE IF index = Size(l) - 1 THEN PopBack(l)
    ELSE UnlinkBehind(l, NodeAt(l, index - 1))

\* list_clear pops until there is nothing to pop.
Clear(l) == LET after[n \in 0 .. Size(l)] == IF n = 0 THEN l ELSE PopBack(after[n - 1])
            IN  after[Size(l)]

-----------------------------------------------------------------------------
Answer(err, value) == answer' = [err |-> err, value |-> value]

\* list_insert, list_push_front and list_push_back, where malloc has a node for them.
CallInsert(index, value) ==
    \E n \in Nodes \ ll.used : ll' = Insert(ll, index, n, value) /\ Answer(0, NULL)
CallPushFront(value) ==
    \E n \in Nodes \ ll.used : ll' = PushFront(ll, n, value) /\ Answer(0, NULL)
CallPushBack(value) ==
    \E n \in Nodes \ ll.used : ll' = PushBack(ll, n, value) /\ Answer(0, NULL)

\* list_pop_front, list_pop_back and list_remove, where there is something to remove.
CallPopFront == ll.head # NULL /\ ll' = PopFront(ll) /\ Answer(0, ll.data[ll.head])
CallPopBack == ll.head # NULL /\ ll' = PopBack(ll) /\ Answer(0, ll.data[ll.tail])
CallRemove(index) == ll' = RemoveIndex(ll, index) /\ Answer(0, ll.data[NodeAt(ll, index)])

\* list_remove_node of a node of the list.  Between two others its value is not returned.
CallRemoveNode(index) ==
    LET gone == NodeAt(ll, index) IN
    /\ ll' = IF gone = ll.head THEN PopFront(ll)
             ELSE IF gone = ll.tail THEN PopBack(ll) ELSE UnlinkBehind(ll, NodeAt(ll, index - 1))
    /\ Answer(0, IF gone \in {ll.head, ll.tail} THEN ll.data[gone] ELSE NULL)

\* The same three, whenever malloc returns NULL.
OutOfMemory == Answer(2, NULL) /\ UNCHANGED ll

\* list_at, list_front, list_back; and what all calls do with an index there is not, or
\* with nothing to pop.
CallAt(index) == Answer(0, ll.data[NodeAt(ll, index)]) /\ UNCHANGED ll
OutOfRange == Answer(1, NULL) /\ UNCHANGED ll

CallClear == ll' = Clear(ll) /\ Answer(0, NULL)

Next ==
    \/ \E value \in Values :
           \/ CallPushFront(value) \/ CallPushBack(value)
           \/ \E index \in 0 .. Size(ll) : CallInsert(index, value)
    \/ \E index \in 0 .. Size(ll) - 1 : CallRemove(index) \/ CallRemoveNode(index) \/ CallAt(index)
    \/ CallPopFront \/ CallPopBack \/ CallClear \/ OutOfRange \/ OutOfMemory

-----------------------------------------------------------------------------
(* However nodes were put in and taken out, the list reads the same from    *)
(* both ends (only list_display_reverse would tell), exactly its nodes are  *)
(* allocated, and the two ends are NULL together, so that list_is_empty     *)
(* never answers -1.                                                        *)
ReadsBothWays ==
    /\ ll.used = {NodeAt(ll, i - 1) : i \in 1 .. Size(ll)}
    /\ Cardinality(ll.used) = Size(ll)
    /\ DisplayedReverse(ll) = Reverse(Displayed(ll))
    /\ (ll.head = NULL) = (ll.tail = NULL)

\* The nodes read as a sequence.
Sequence == INSTANCE DlSequence WITH items <- Displayed(ll)

(* Every call changes and answers what it would of a sequence, with no      *)
(* memory for a node changes nothing, and leaves a list that reads the same *)
(* from both ends (dl_list.h:37-378).  This is Sequence!Spec and            *)
(* []ReadsBothWays.                                                         *)
ImplementsSequence ==
    /\ Sequence!Init /\ ReadsBothWays
    /\ [][[Sequence!Next]_(Sequence!svars) /\ ReadsBothWays']_dlvars

=============================================================================
