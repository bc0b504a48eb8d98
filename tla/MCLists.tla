------------------------------- MODULE MCLists ------------------------------
(* The two kinds of linked list of the kernel.  They share nothing, so each *)
(* is exercised while the other is as it was made.                          *)
EXTENDS ThreadListOps

CONSTANTS Nodes, Values
VARIABLES ll, answer

Dl == INSTANCE DlList

BothInit == Init /\ Dl!Init
CallThreadList == Next /\ Dl!Init /\ UNCHANGED <<ll, answer>>
CallDlList == Dl!Next /\ Init /\ UNCHANGED vars
BothSpec == BothInit /\ [][CallThreadList \/ CallDlList]_<<vars, ll, answer>>

ImplementsSequence == Dl!ImplementsSequence

=============================================================================
