----------------------------- MODULE CharQueue ------------------------------
(***************************************************************************)
(* What the receive buffer promises: a bounded queue, filled at one end    *)
(* and emptied at the other.                                               *)
(***************************************************************************)
EXTENDS Naturals, Sequences

CONSTANTS Item, Capacity

VARIABLES
    queue,
    taken       \* the item taken last

vars == <<queue, taken>>

Init == queue = <<>> /\ taken \in Item

Put ==
    /\ Len(queue) < Capacity
    /\ \E x \in Item : queue' = Append(queue, x)
    /\ UNCHANGED taken

Take ==
    /\ queue # <<>>
    /\ taken' = Head(queue)
    /\ queue' = Tail(queue)

Next == Put \/ Take

Spec == Init /\ [][Next]_vars
=============================================================================
