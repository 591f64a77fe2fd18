----------------------------- MODULE AtomicSwap -----------------------------
(* What AtomicPtr::Swap promises ("swap pointers atomically and               *)
(* deadlock-free"): the locations of the elements of a netlist change only by *)
(* the exchange of two of them.                                               *)
CONSTANTS Elements, place0

VARIABLE place    \* the location of each element

Init == place = place0

Swap == \E x, y \in Elements :
            place' = [place EXCEPT ![x] = place[y], ![y] = place[x]]

Spec == Init /\ [][Swap]_place
=============================================================================
