---------------------------- MODULE BoundedQueue ----------------------------
(* What the queues between dedup's pipeline stages promise: a bounded FIFO    *)
(* between producers and consumers that the producers close together.  An     *)
(* element leaves its producer in order, sits in `queue' and goes to exactly  *)
(* one consumer; nothing enters once every producer has closed.               *)
EXTENDS Integers, Sequences

CONSTANTS Producers, Consumers, Items, Capacity

VARIABLES queue,      \* the elements inside the queue, oldest first
          pending,    \* per producer: what it has not handed over yet, in order
          received,   \* per consumer: everything it got so far, in order
          open        \* number of producers that have not closed

vars == <<queue, pending, received, open>>

Init ==
    /\ queue = << >>
    /\ pending \in [Producers -> Seq(Items)]
    /\ received = [c \in Consumers |-> << >>]
    /\ open \in Nat

Put(p) ==
    /\ open > 0
    /\ pending[p] # << >>
    /\ Len(queue) < Capacity
    /\ queue' = Append(queue, Head(pending[p]))
    /\ pending' = [pending EXCEPT ![p] = Tail(@)]
    /\ UNCHANGED <<received, open>>

Take(c) ==
    /\ queue # << >>
    /\ received' = [received EXCEPT ![c] = Append(@, Head(queue))]
    /\ queue' = Tail(queue)
    /\ UNCHANGED <<pending, open>>

Close(p) ==
    /\ open > 0
    /\ pending[p] = << >>
    /\ open' = open - 1
    /\ UNCHANGED <<queue, pending, received>>

Next == \/ \E p \in Producers : Put(p) \/ Close(p)
        \/ \E c \in Consumers : Take(c)

Spec == Init /\ [][Next]_vars
=============================================================================
