--------------------------- MODULE ParsecBarrier ---------------------------
(* parsec_barrier_wait (parsec_barrier.cpp, the same file in streamcluster    *)
(* and fluidanimate), used by as many threads as the barrier was made for,    *)
(* over and over.  A use has two phases: threads arrive and are counted up;   *)
(* the last one starts the departure, in which they are counted down; the     *)
(* last one to leave starts the next arrival phase.                           *)
(*   The code holds the mutex from each lock to the next unlock or wait, so   *)
(* each such stretch is one step.  With ENABLE_SPIN_BARRIER a thread gives    *)
(* the mutex up and polls the flag before it sleeps; however the polling      *)
(* ends, it locks and tests again, so polling is only a delay, and a bounded  *)
(* one (SPIN_COUNTER_MAX).                                                    *)
EXTENDS Integers, FiniteSets

CONSTANTS Threads,    \* the threads that use the barrier
          Uses,       \* how often each of them will
          Spin        \* is ENABLE_SPIN_BARRIER defined?

ASSUME BarrierAssumption ==
    /\ IsFiniteSet(Threads) /\ Threads # {}
    /\ Uses \in Nat
    /\ Spin \in BOOLEAN

max == Cardinality(Threads)

VARIABLES n,                  \* barrier->n
          is_arrival_phase,   \* barrier->is_arrival_phase
          pc,                 \* where each thread is
          master,             \* each thread's local variable of that name
          passed,             \* per thread: its returns from the barrier
          serial              \* per use: the threads that were told that they
                              \* are the PARSEC_BARRIER_SERIAL_THREAD

vars == <<n, is_arrival_phase, pc, master, passed, serial>>

(* The two loops in which a thread may poll, sleep, and lock again to test.   *)
Counted == {"spinArrive", "sleepArrive", "wokenArrive"}
AtEntry == {"work", "spinEnter", "wokenEnter"}
AtExit  == {"spinArrive", "wokenArrive"}

Inside == {t \in Threads : pc[t] \in Counted}

(* parsec_barrier_init                                                        *)
Init ==
    /\ n = 0
    /\ is_arrival_phase = TRUE
    /\ pc = [t \in Threads |-> "work"]
    /\ master = [t \in Threads |-> FALSE]
    /\ passed = [t \in Threads |-> 0]
    /\ serial = [k \in 1 .. Uses |-> {}]

-----------------------------------------------------------------------------

Awake(label) == CASE label = "sleepEnter" -> "wokenEnter"
                  [] label = "sleepArrive" -> "wokenArrive"
                  [] OTHER -> label

Goto(t, label) == pc' = [pc EXCEPT ![t] = label]

(* Mutant: only one sleeper is woken.                                         *)
Broadcast_signal(t, label) ==
    IF \E u \in Threads : Awake(pc[u]) # pc[u]
    THEN \E u \in Threads : /\ Awake(pc[u]) # pc[u]
                            /\ pc' = [pc EXCEPT ![t] = label, ![u] = Awake(pc[u])]
    ELSE Goto(t, label)

(* pthread_cond_broadcast, then t goes to label.                              *)
Broadcast(t, label) ==
    pc' = [u \in Threads |-> IF u = t THEN label ELSE Awake(pc[u])]

(* What the call returns, and that it does.                                   *)
Return(t, isMaster) ==
    /\ passed' = [passed EXCEPT ![t] = @ + 1]
    /\ serial' = IF isMaster THEN [serial EXCEPT ![passed[t] + 1] = @ \cup {t}] ELSE serial

(* Wait for the departure phase of the previous use to end.                   *)
AwaitArrivalPhase(t) ==
    /\ pc[t] \in AtEntry
    /\ passed[t] < Uses
    /\ ~is_arrival_phase
    /\ Goto(t, IF pc[t] = "work" /\ Spin THEN "spinEnter" ELSE "sleepEnter")
    /\ UNCHANGED <<n, is_arrival_phase, master, passed, serial>>

(* Mutant: a thread does not wait for the departure phase to end.             *)
MayArrive_anytime(t) ==
    /\ pc[t] \in AtEntry
    /\ passed[t] < Uses

(* The thread may proceed: it is in an arrival phase.                         *)
MayArrive(t) ==
    /\ pc[t] \in AtEntry
    /\ passed[t] < Uses
    /\ is_arrival_phase

(* A thread that is not the last one is counted and waits for the others.     *)
Arrive(t) ==
    /\ MayArrive(t)
    /\ n + 1 < max
    /\ master' = [master EXCEPT ![t] = n = 0]
    /\ n' = n + 1
    /\ Goto(t, IF Spin THEN "spinArrive" ELSE "sleepArrive")
    /\ UNCHANGED <<is_arrival_phase, passed, serial>>

(* Mutant: the last thread counts itself in and not out.                      *)
ArriveLast_counted(t) ==
    /\ MayArrive(t)
    /\ n + 1 >= max
    /\ master' = [master EXCEPT ![t] = n = 0]
    /\ is_arrival_phase' = (n = 0)
    /\ Broadcast(t, "work")
    /\ Return(t, n = 0)
    /\ n' = n + 1

(* The last thread to arrive starts the departure phase, and leaves at once;  *)
(* when it is the only one it also ends that phase.                           *)
ArriveLast(t) ==
    /\ MayArrive(t)
    /\ n + 1 >= max
    /\ master' = [master EXCEPT ![t] = n = 0]
    /\ is_arrival_phase' = (n = 0)
    /\ Broadcast(t, "work")
    /\ Return(t, n = 0)
    /\ UNCHANGED n

(* A counted thread finds that not everybody has arrived.                     *)
AwaitDeparturePhase(t) ==
    /\ pc[t] \in AtExit
    /\ is_arrival_phase
    /\ Goto(t, "sleepArrive")
    /\ UNCHANGED <<n, is_arrival_phase, master, passed, serial>>

(* Mutant: the last but one to leave already starts the next arrival phase.   *)
Leave_early_phase(t) ==
    /\ pc[t] \in AtExit
    /\ ~is_arrival_phase
    /\ n' = n - 1
    /\ IF n' <= 1
       THEN is_arrival_phase' = TRUE /\ Broadcast(t, "work")
       ELSE UNCHANGED is_arrival_phase /\ Goto(t, "work")
    /\ Return(t, master[t])
    /\ UNCHANGED master

(* Mutant: the next arrival phase begins without a broadcast.                 *)
Leave_silent(t) ==
    /\ pc[t] \in AtExit
    /\ ~is_arrival_phase
    /\ n' = n - 1
    /\ is_arrival_phase' = (n' = 0)
    /\ Goto(t, "work")
    /\ Return(t, master[t])
    /\ UNCHANGED master

(* A counted thread leaves; the last one starts the next arrival phase.       *)
Leave(t) ==
    /\ pc[t] \in AtExit
    /\ ~is_arrival_phase
    /\ n' = n - 1
    /\ IF n' = 0
       THEN is_arrival_phase' = TRUE /\ Broadcast(t, "work")
       ELSE UNCHANGED is_arrival_phase /\ Goto(t, "work")
    /\ Return(t, master[t])
    /\ UNCHANGED master

(* pthread_cond_wait may return unsignalled; no fairness is assumed of it.    *)
SpuriousWakeup(t) ==
    /\ pc[t] \in {"sleepEnter", "sleepArrive"}
    /\ Goto(t, Awake(pc[t]))
    /\ UNCHANGED <<n, is_arrival_phase, master, passed, serial>>

AllDone == \A t \in Threads : pc[t] = "work" /\ passed[t] = Uses

(* The threads are joined and the barrier is destroyed.                       *)
Finished == AllDone /\ UNCHANGED vars

ThreadStep(t) ==
    \/ AwaitArrivalPhase(t) \/ Arrive(t) \/ ArriveLast(t)
    \/ AwaitDeparturePhase(t) \/ Leave(t)

Next ==
    \/ \E t \in Threads : ThreadStep(t) \/ SpuriousWakeup(t)
    \/ Finished

Spec == Init /\ [][Next]_vars

(* The scheduler runs every thread that can run; each polling loop is         *)
(* bounded, so it is part of that thread's next step.                         *)
FairSpec == Spec /\ \A t \in Threads : WF_vars(ThreadStep(t))

-----------------------------------------------------------------------------
(* Properties.                                                                *)

(* Every variable keeps its type, and the counter is the number of threads    *)
(* inside: never more than max, never below zero (it is unsigned).            *)
TypeOK ==
    /\ n \in 0 .. max
    /\ n = Cardinality(Inside)
    /\ is_arrival_phase \in BOOLEAN
    /\ pc \in [Threads -> AtEntry \cup {"sleepEnter"} \cup Counted]
    /\ master \in [Threads -> BOOLEAN]
    /\ passed \in [Threads -> 0 .. Uses]
    /\ serial \in [1 .. Uses -> SUBSET Threads]

(* A thread sleeps only for what has not come yet: the broadcasts miss no one, *)
(* although one condition variable serves both phases.                        *)
SleepersHaveAReason ==
    \A t \in Threads : /\ pc[t] = "sleepArrive" => is_arrival_phase
                       /\ pc[t] = "sleepEnter" => ~is_arrival_phase

(* "master" is one thread in each use, as PTHREAD_BARRIER_SERIAL_THREAD       *)
(* requires: never two, and one as soon as everybody has returned.            *)
OneSerialThread ==
    \A k \in 1 .. Uses :
        /\ \A t, u \in serial[k] : t = u
        /\ (\A t \in Threads : passed[t] >= k) => serial[k] # {}

(* The two phases on one counter and one flag are a barrier: nobody returns   *)
(* from a use before everybody has arrived at it, and a thread that comes     *)
(* back early is not counted for the use that the others are leaving.         *)
ArrivedAt(t) == IF t \in Inside THEN passed[t] + 1 ELSE passed[t]
Barrier == INSTANCE AbstractBarrier WITH arrived <- [t \in Threads |-> ArrivedAt(t)]
ImplementsBarrier == Barrier!Spec

(* Every thread returns from all of its uses.                                 *)
EveryUseEnds == <>AllDone
=============================================================================
