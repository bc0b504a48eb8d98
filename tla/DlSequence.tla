----------------------------- MODULE DlSequence -----------------------------
(***************************************************************************)
(* What the functions of dl_list.h promise by their names and parameters   *)
(* (list_doc.md): a sequence of values, its ends, and an index from 0.     *)
(***************************************************************************)
EXTENDS Naturals, Sequences, SequencesExt

CONSTANTS Values, NULL

VARIABLES items, answer

svars == <<items, answer>>

Init == items = <<>> /\ answer = [err |-> 0, value |-> NULL]

Answer(err, value) == answer' = [err |-> err, value |-> value]

Insert(i, value) == items' = InsertAt(items, i, value) /\ Answer(0, NULL)

\* list_remove_node does not say what it removed from the middle.
TakeOut(i) ==
    /\ items' = RemoveAt(items, i)
    /\ Answer(0, items[i]) \/ (i \notin {1, Len(items)} /\ Answer(0, NULL))

At(i) == UNCHANGED items /\ Answer(0, items[i])
Clear == items' = <<>> /\ Answer(0, NULL)
OutOfRange == UNCHANGED items /\ Answer(1, NULL)
OutOfMemory == UNCHANGED items /\ Answer(2, NULL)

Next ==
    \/ \E i \in 1 .. Len(items) + 1, value \in Values : Insert(i, value)
    \/ \E i \in 1 .. Len(items) : TakeOut(i) \/ At(i)
    \/ Clear \/ OutOfRange \/ OutOfMemory

=============================================================================
