-------------------------- MODULE AbstractBarrier --------------------------
(* What a reusable barrier promises its threads: nobody passes its k-th use   *)
(* before everybody has arrived at the k-th use.                              *)
EXTENDS Integers

CONSTANTS Threads, Uses

VARIABLES arrived,    \* per thread: the uses of the barrier it has arrived at
          passed      \* per thread: the uses it has returned from

vars == <<arrived, passed>>

Init ==
    /\ arrived = [t \in Threads |-> 0]
    /\ passed = [t \in Threads |-> 0]

Arrive(t) ==
    /\ arrived[t] = passed[t]
    /\ arrived[t] < Uses
    /\ arrived' = [arrived EXCEPT ![t] = @ + 1]
    /\ UNCHANGED passed

Pass(t) ==
    /\ passed[t] < arrived[t]
    /\ \A u \in Threads : arrived[u] > passed[t]
    /\ passed' = [passed EXCEPT ![t] = @ + 1]
    /\ UNCHANGED arrived

(* The last thread to arrive need not stop.                                   *)
ArriveLast(t) ==
    /\ arrived[t] = passed[t]
    /\ arrived[t] < Uses
    /\ \A u \in Threads \ {t} : arrived[u] > passed[t]
    /\ arrived' = [arrived EXCEPT ![t] = @ + 1]
    /\ passed' = [passed EXCEPT ![t] = @ + 1]

Next == \E t \in Threads : Arrive(t) \/ Pass(t) \/ ArriveLast(t)

Spec == Init /\ [][Next]_vars
=============================================================================
