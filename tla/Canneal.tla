------------------------------ MODULE Canneal ------------------------------
(* The annealing threads of canneal: annealer_thread::Run and the lock-free   *)
(* pointers of AtomicPtr.h in which the elements of the netlist keep their    *)
(* locations.  A swap checks one element out, which leaves a null pointer     *)
(* there, exchanges the location of the other, and checks the first one in    *)
(* again; every access waits while it finds a null pointer.                   *)
(*   A step is one atomic load, compare-and-set or store.  Whether a move     *)
(* pays depends on locations that other threads may be changing: any decision *)
(* is possible.                                                               *)
EXTENDS Integers, FiniteSets

CONSTANTS Threads,
          nElements,          \* _chip_size
          moves,              \* _moves_per_thread_temp
          TempSteps,          \* the values that number_temp_steps can have
          MaxSteps            \* how long a move can be good at all: the routing
                              \* cost does not fall for ever

Elements == 1 .. nElements    \* in the order of their addresses
NULL == 0                     \* ATOMIC_NULL

ASSUME CannealAssumption ==
    /\ IsFiniteSet(Threads) /\ Threads # {}
    /\ nElements \in Nat /\ nElements > 1
    /\ moves \in Nat \ {0} /\ MaxSteps \in Nat
    /\ TempSteps \subseteq Nat \cup {-1}

VARIABLES number_temp_steps, keep_going_global_flag,
          loc,                \* present_loc of each element
          pc,                 \* where each thread is
          a, b,               \* Run's a and b
          left,               \* the moves left at this temperature
          steps,              \* temp_steps_completed
          good, bad,          \* accepted_good_moves, accepted_bad_moves
          val,                \* PrivateSet's val
          valFirst, valLast   \* Swap's

vars == <<number_temp_steps, keep_going_global_flag, loc, pc, a, b, left, steps,
          good, bad, val, valFirst, valLast>>
control  == <<number_temp_steps, keep_going_global_flag, steps>>
swapping == <<val, valFirst, valLast>>
counts   == <<left, good, bad>>

Init ==
    /\ number_temp_steps \in TempSteps
    /\ keep_going_global_flag = TRUE
    /\ loc = [e \in Elements |-> e]
    /\ pc = [t \in Threads |-> "keepGoing"]
    /\ a = [t \in Threads |-> 1]
    /\ b \in [Threads -> Elements]
    /\ left = [t \in Threads |-> moves]
    /\ steps = [t \in Threads |-> 0]
    /\ good = [t \in Threads |-> 0] /\ bad = [t \in Threads |-> -1]
    /\ val = [t \in Threads |-> NULL]
    /\ valFirst = [t \in Threads |-> NULL]
    /\ valLast = [t \in Threads |-> NULL]

Goto(t, label) == pc' = [pc EXCEPT ![t] = label]

-----------------------------------------------------------------------------
(* keep_going                                                                 *)

(* A thread goes on for a fixed number of steps or, with -1, for as long as   *)
(* good moves are in the majority and the flag is up.                         *)
GoesOn(t) ==
    IF number_temp_steps = -1
    THEN keep_going_global_flag /\ good[t] > bad[t]
    ELSE steps[t] < number_temp_steps

KeepGoing(t) ==
    /\ pc[t] = "keepGoing"
    /\ GoesOn(t)
    /\ good' = [good EXCEPT ![t] = 0]
    /\ bad' = [bad EXCEPT ![t] = 0]
    /\ left' = [left EXCEPT ![t] = moves]
    /\ Goto(t, "choose")
    /\ UNCHANGED <<control, loc, a, b, swapping>>

Stop(t) ==
    /\ pc[t] = "keepGoing"
    /\ ~GoesOn(t)
    /\ Goto(t, IF number_temp_steps = -1 THEN "converged" ELSE "done")
    /\ UNCHANGED <<control, loc, a, b, counts, swapping>>

(* "signal we have converged"                                                 *)
Converged(t) ==
    /\ pc[t] = "converged"
    /\ keep_going_global_flag' = FALSE
    /\ Goto(t, "done")
    /\ UNCHANGED <<number_temp_steps, steps, loc, a, b, counts, swapping>>

-----------------------------------------------------------------------------
(* A move.                                                                    *)

(* Mutant: the second element may be the first one again.                     *)
Choose_any(t) ==
    /\ pc[t] = "choose"
    /\ left[t] > 0
    /\ a' = [a EXCEPT ![t] = b[t]]
    /\ \E e \in Elements : b' = [b EXCEPT ![t] = e]
    /\ Goto(t, "costA")
    /\ UNCHANGED <<control, loc, counts, swapping>>

(* Mutant: one move too many.                                                 *)
Choose_more(t) ==
    /\ pc[t] = "choose"
    /\ left[t] >= 0
    /\ a' = [a EXCEPT ![t] = b[t]]
    /\ \E e \in Elements \ {b[t]} : b' = [b EXCEPT ![t] = e]
    /\ Goto(t, "costA")
    /\ UNCHANGED <<control, loc, counts, swapping>>

(* a = b, and get_random_element finds another b.                             *)
Choose(t) ==
    /\ pc[t] = "choose"
    /\ left[t] > 0
    /\ a' = [a EXCEPT ![t] = b[t]]
    /\ \E e \in Elements \ {b[t]} : b' = [b EXCEPT ![t] = e]
    /\ Goto(t, "costA")
    /\ UNCHANGED <<control, loc, counts, swapping>>

(* calculate_delta_routing_cost gets a's location, then b's, at which it has  *)
(* to wait for the thread that has checked it out.                            *)
CostA(t) ==
    /\ pc[t] = "costA"
    /\ loc[a[t]] # NULL
    /\ Goto(t, "costB")
    /\ UNCHANGED <<control, loc, a, b, counts, swapping>>

Reject(t) ==
    /\ pc[t] = "costB"
    /\ loc[b[t]] # NULL
    /\ left' = [left EXCEPT ![t] = @ - 1]
    /\ Goto(t, "choose")
    /\ UNCHANGED <<control, loc, a, b, good, bad, swapping>>

Accept(t) ==
    /\ pc[t] = "costB"
    /\ loc[b[t]] # NULL
    /\ \/ steps[t] < MaxSteps /\ good' = [good EXCEPT ![t] = @ + 1] /\ UNCHANGED bad
       \/ bad' = [bad EXCEPT ![t] = @ + 1] /\ UNCHANGED good
    /\ left' = [left EXCEPT ![t] = @ - 1]
    /\ Goto(t, "getFirst")
    /\ UNCHANGED <<control, loc, a, b, swapping>>

-----------------------------------------------------------------------------
(* AtomicPtr::Swap                                                            *)

(* Mutant: the element that is called comes first, whatever its address.      *)
First_called(t) == a[t]

First(t) == IF a[t] < b[t] THEN a[t] ELSE b[t]

Last(t) == IF First(t) = a[t] THEN b[t] ELSE a[t]

(* Get, as PrivateSet begins with it.                                         *)
Get(t, e) ==
    /\ loc[e] # NULL
    /\ val' = [val EXCEPT ![t] = loc[e]]

(* Checkout of the first element.                                             *)
GetFirst(t) ==
    /\ pc[t] = "getFirst"
    /\ Get(t, First(t))
    /\ Goto(t, "casFirst")
    /\ UNCHANGED <<control, loc, a, b, counts, valFirst, valLast>>

CasFirst(t) ==
    /\ pc[t] = "casFirst"
    /\ IF loc[First(t)] = val[t]
       THEN /\ loc' = [loc EXCEPT ![First(t)] = NULL]
            /\ valFirst' = [valFirst EXCEPT ![t] = val[t]]
            /\ Goto(t, "getLast")
       ELSE Goto(t, "getFirst") /\ UNCHANGED <<loc, valFirst>>
    /\ UNCHANGED <<control, a, b, counts, val, valLast>>

(* PrivateSet of the last one.                                                *)
GetLast(t) ==
    /\ pc[t] = "getLast"
    /\ Get(t, Last(t))
    /\ Goto(t, "casLast")
    /\ UNCHANGED <<control, loc, a, b, counts, valFirst, valLast>>

(* Mutant: a plain store instead of the compare-and-set.                      *)
CasLast_store(t) ==
    /\ pc[t] = "casLast"
    /\ loc' = [loc EXCEPT ![Last(t)] = valFirst[t]]
    /\ valLast' = [valLast EXCEPT ![t] = val[t]]
    /\ Goto(t, "checkin")
    /\ UNCHANGED <<control, a, b, counts, val, valFirst>>

CasLast(t) ==
    /\ pc[t] = "casLast"
    /\ IF loc[Last(t)] = val[t]
       THEN /\ loc' = [loc EXCEPT ![Last(t)] = valFirst[t]]
            /\ valLast' = [valLast EXCEPT ![t] = val[t]]
            /\ Goto(t, "checkin")
       ELSE Goto(t, "getLast") /\ UNCHANGED <<loc, valLast>>
    /\ UNCHANGED <<control, a, b, counts, val, valFirst>>

(* Checkin.  The locals of Swap are gone.                                     *)
Checkin(t) ==
    /\ pc[t] = "checkin"
    /\ loc' = [loc EXCEPT ![First(t)] = valLast[t]]
    /\ val' = [val EXCEPT ![t] = NULL]
    /\ valFirst' = [valFirst EXCEPT ![t] = NULL]
    /\ valLast' = [valLast EXCEPT ![t] = NULL]
    /\ Goto(t, "choose")
    /\ UNCHANGED <<control, a, b, counts>>

-----------------------------------------------------------------------------
(* The barrier at the end of a temperature step.                              *)

AtBarrier == {t \in Threads : pc[t] = "barrier"}

(* Mutant: only the last thread to come counts the step.                      *)
EndStep_serial(t) ==
    /\ pc[t] = "choose" /\ left[t] = 0
    /\ IF Cardinality(AtBarrier) + 1 < Cardinality(Threads)
       THEN Goto(t, "barrier") /\ UNCHANGED steps
       ELSE /\ pc' = [u \in Threads |-> IF u = t \/ u \in AtBarrier THEN "keepGoing" ELSE pc[u]]
            /\ steps' = [steps EXCEPT ![t] = @ + 1]
    /\ UNCHANGED <<number_temp_steps, keep_going_global_flag, loc, a, b, counts, swapping>>

EndStep(t) ==
    /\ pc[t] = "choose" /\ left[t] = 0
    /\ steps' = [steps EXCEPT ![t] = @ + 1]
    /\ IF Cardinality(AtBarrier) + 1 < Cardinality(Threads)
       THEN Goto(t, "barrier")
       ELSE pc' = [u \in Threads |-> IF u = t \/ u \in AtBarrier THEN "keepGoing" ELSE pc[u]]
    /\ UNCHANGED <<number_temp_steps, keep_going_global_flag, loc, a, b, counts, swapping>>

(* All threads have returned, or some wait at the barrier for others that     *)
(* have: see OnlyConvergenceStrands.                                          *)
Stopped == /\ \A t \in Threads : pc[t] \in {"barrier", "done"}
           /\ UNCHANGED vars

ThreadStep(t) ==
    \/ KeepGoing(t) \/ Stop(t) \/ Converged(t)
    \/ Choose(t) \/ CostA(t) \/ Reject(t) \/ Accept(t)
    \/ GetFirst(t) \/ CasFirst(t) \/ GetLast(t) \/ CasLast(t) \/ Checkin(t)
    \/ EndStep(t)

Next == (\E t \in Threads : ThreadStep(t)) \/ Stopped

Spec == Init /\ [][Next]_vars

(* The scheduler runs every thread that can run.                              *)
FairSpec == Spec /\ \A t \in Threads : WF_vars(ThreadStep(t))

-----------------------------------------------------------------------------
(* Properties.                                                                *)

InMove == {"costA", "costB", "getFirst", "casFirst", "getLast", "casLast", "checkin"}
Holding == {"getLast", "casLast", "checkin"}
Locations == Elements

(* Every variable keeps its type, and nobody counts more moves than it made.  *)
TypeOK ==
    /\ number_temp_steps \in TempSteps
    /\ keep_going_global_flag \in BOOLEAN
    /\ loc \in [Elements -> Locations \cup {NULL}]
    /\ pc \in [Threads -> {"keepGoing", "converged", "choose", "barrier", "done"} \cup InMove]
    /\ a \in [Threads -> Elements] /\ b \in [Threads -> Elements]
    /\ left \in [Threads -> 0 .. moves]
    /\ steps \in [Threads -> Nat]
    /\ good \in [Threads -> 0 .. moves] /\ bad \in [Threads -> -1 .. moves]
    /\ \A t \in Threads : good[t] + left[t] <= moves /\ bad[t] + left[t] <= moves
    /\ val \in [Threads -> Locations \cup {NULL}]
    /\ valFirst \in [Threads -> Locations \cup {NULL}]
    /\ valLast \in [Threads -> Locations \cup {NULL}]

(* A null pointer is one thread's checkout, and a thread that has checked an  *)
(* element out finds it so when it checks it in: nobody stores over it.       *)
OneOwner ==
    /\ \A t \in Threads : pc[t] \in InMove => a[t] # b[t]
    /\ \A t \in Threads : pc[t] \in Holding => loc[First(t)] = NULL
    /\ \A t, u \in Threads : pc[t] \in Holding /\ pc[u] \in Holding /\ t # u =>
                                First(t) # First(u)
    /\ \A e \in Elements : loc[e] = NULL =>
          \E t \in Threads : pc[t] \in Holding /\ First(t) = e

(* The three accesses of a swap are one exchange, which takes place when the  *)
(* last element gets its new location; no location is lost or doubled.        *)
LocationOf(e) ==
    IF loc[e] # NULL THEN loc[e]
    ELSE LET t == CHOOSE t \in Threads : pc[t] \in Holding /\ First(t) = e
         IN IF pc[t] = "checkin" THEN valLast[t] ELSE valFirst[t]

Atomic == INSTANCE AtomicSwap WITH place <- [e \in Elements |-> LocationOf(e)],
                                   place0 <- [e \in Elements |-> e]
ImplementsSwap == Atomic!Spec

(* With a fixed number of steps no thread waits at the barrier for one that   *)
(* has returned.  Run to convergence, a thread does when it saw the flag up   *)
(* and another one took it down before its own test of the same step: then it *)
(* is one step ahead of those that have left.                                 *)
OnlyConvergenceStrands ==
    \A t, u \in Threads : pc[t] = "barrier" /\ pc[u] = "done" =>
        number_temp_steps = -1 /\ steps[t] = steps[u] + 1

(* No thread spins for ever: all come to the barrier or return, and with a    *)
(* fixed number of steps all return.                                          *)
EveryThreadReturns ==
    /\ <>[](\A t \in Threads : pc[t] \in {"barrier", "done"})
    /\ number_temp_steps # -1 => <>(\A t \in Threads : pc[t] = "done")
=============================================================================
