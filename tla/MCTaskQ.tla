------------------------------ MODULE MCTaskQ ------------------------------
(* Main and two workers.  The first batch deals out three tasks, one of which *)
(* enqueues another from inside the parallel region, and that one a last, so  *)
(* that a signal can meet threads at work, counted, and asleep; the second    *)
(* batch is a grid of as many tasks as give one queue two, half of which can  *)
(* be stolen.                                                                 *)
EXTENDS TaskQ

MCBatches == <<[grid |-> FALSE, tasks |-> <<1, 2, 3>>],
               [grid |-> TRUE, tasks |-> <<6, 7, 8, 9>>]>>
MCChildren == [k \in 1 .. 9 |-> CASE k = 2 -> {4} [] k = 4 -> {5} [] OTHER -> {}]
=============================================================================
