----------------------------- MODULE DedupQueue -----------------------------
(* The synchronized queue between two stages of dedup's pipeline              *)
(* (dedup/src/queue.c) under the only way the stages use it (encoder.c):      *)
(*   - a producer collects elements in a private ring buffer, hands the       *)
(*     buffer over with queue_enqueue whenever it is full, drains what is     *)
(*     left at the end and then calls queue_terminate once;                   *)
(*   - a consumer refills its private ring buffer with queue_dequeue whenever *)
(*     it is empty, works through it, and stops when queue_dequeue says -1.   *)
(* Both calls move a whole batch inside one critical section and then signal  *)
(* at most ONE sleeper, whatever the size of the batch.                       *)
EXTENDS RingBuffer, FiniteSets

CONSTANTS Producers, Consumers,
          Quota,         \* elements each producer will produce
          Capacity,      \* the size given to queue_init
          InsertLimit,   \* ITEM_PER_INSERT: producer's buffer and batch size
          FetchLimit,    \* ITEM_PER_FETCH: consumer's buffer and batch size
          Nobody,        \* "no thread": an unlocked mutex
          Junk           \* what an unused slot of a ring buffer holds

Threads == Producers \cup Consumers

(* The k-th element of producer p, the only identity an element needs here.   *)
Items == Producers \X (1 .. Quota)

ASSUME ThreadsAssumption ==
    /\ IsFiniteSet(Producers) /\ Producers # {}
    /\ IsFiniteSet(Consumers) /\ Consumers # {}
    /\ Producers \cap Consumers = {}
    /\ Nobody \notin Producers \cup Consumers
ASSUME SizesAssumption ==
    /\ Quota \in Nat
    /\ Capacity \in Nat \ {0}
    /\ InsertLimit \in Nat \ {0}
    /\ FetchLimit \in Nat \ {0}
ASSUME JunkAssumption == Junk \notin Items

(* Mutant: every queue is set up like the refine queue, for one producer.     *)
nProducers_one == 1

nProducers == Cardinality(Producers)

VARIABLES buf,          \* que->buf
          nTerminated,  \* que->nTerminated
          mutex,        \* the owner of que->mutex, or Nobody
          pc,           \* where each thread is
          priv,         \* each thread's private ring buffer
          i,            \* the loop counter of the batch being moved
          produced,     \* per producer: how many elements it has made
          received      \* per consumer: the elements it has worked on, in order

vars == <<buf, nTerminated, mutex, pc, priv, i, produced, received>>

Goto(t, label) == pc' = [pc EXCEPT ![t] = label]

(* The threads blocked in pthread_cond_wait on each condition variable.       *)
notEmpty == {c \in Consumers : pc[c] = "deqWait"}
notFull  == {p \in Producers : pc[p] = "enqWait"}

queue_isTerminated == nTerminated = nProducers

Init ==
    /\ buf = ringbuffer_init(Capacity, Junk)
    /\ nTerminated = 0
    /\ mutex = Nobody
    /\ pc = [t \in Threads |-> IF t \in Producers THEN "produce" ELSE "fetch"]
    /\ priv = [t \in Threads |->
                  ringbuffer_init(IF t \in Producers THEN InsertLimit ELSE FetchLimit, Junk)]
    /\ i = 0
    /\ produced = [p \in Producers |-> 0]
    /\ received = [c \in Consumers |-> << >>]

-----------------------------------------------------------------------------
(* The producer's side.                                                       *)

(* One element is made and put into the private buffer; a full buffer is      *)
(* handed over at once.                                                       *)
Produce(p) ==
    /\ pc[p] = "produce"
    /\ produced[p] < Quota
    /\ produced' = [produced EXCEPT ![p] = @ + 1]
    /\ priv' = [priv EXCEPT ![p] = ringbuffer_insert(@, <<p, produced[p] + 1>>)]
    /\ IF ringbuffer_isFull(priv'[p]) THEN Goto(p, "enqueue") ELSE UNCHANGED pc
    /\ UNCHANGED <<buf, nTerminated, mutex, i, received>>

(* Mutant: the elements left in the private buffer are forgotten.             *)
EndOfInput_undrained(p) ==
    /\ pc[p] = "produce"
    /\ produced[p] = Quota
    /\ Goto(p, "terminate")
    /\ UNCHANGED <<buf, nTerminated, mutex, priv, i, produced, received>>

(* The end of the producer's input: drain the private buffer, then shut down. *)
EndOfInput(p) ==
    /\ pc[p] = "produce"
    /\ produced[p] = Quota
    /\ Goto(p, IF ringbuffer_isEmpty(priv[p]) THEN "terminate" ELSE "enqueue")
    /\ UNCHANGED <<buf, nTerminated, mutex, priv, i, produced, received>>

(* Mutant: "if" instead of "while" around pthread_cond_wait.                  *)
EnqueueLock_if(p) ==
    /\ pc[p] \in {"enqueue", "enqWoken"}
    /\ mutex = Nobody
    /\ \/ /\ pc[p] = "enqueue" /\ ringbuffer_isFull(buf)
          /\ Goto(p, "enqWait")
          /\ UNCHANGED <<mutex, i>>
       \/ /\ pc[p] = "enqWoken" \/ ~ringbuffer_isFull(buf)
          /\ Goto(p, "enqMove")
          /\ mutex' = p
          /\ i' = 0
    /\ UNCHANGED <<buf, nTerminated, priv, produced, received>>

(* queue_enqueue up to its loop: take the mutex (on entry, or again on the    *)
(* way out of pthread_cond_wait) and sleep while the queue is full.           *)
EnqueueLock(p) ==
    /\ pc[p] \in {"enqueue", "enqWoken"}
    /\ mutex = Nobody
    /\ \/ /\ ringbuffer_isFull(buf)
          /\ Goto(p, "enqWait")
          /\ UNCHANGED <<mutex, i>>
       \/ /\ ~ringbuffer_isFull(buf)
          /\ Goto(p, "enqMove")
          /\ mutex' = p
          /\ i' = 0
    /\ UNCHANGED <<buf, nTerminated, priv, produced, received>>

EnqueueMore(p) ==
    i < InsertLimit /\ ~ringbuffer_isFull(buf) /\ ~ringbuffer_isEmpty(priv[p])

(* One round of the loop that moves the batch.                                *)
EnqueueMove(p) ==
    /\ pc[p] = "enqMove"
    /\ EnqueueMore(p)
    /\ buf' = ringbuffer_insert(buf, ringbuffer_front(priv[p]))
    /\ priv' = [priv EXCEPT ![p] = ringbuffer_remove(@)]
    /\ i' = i + 1
    /\ UNCHANGED <<nTerminated, mutex, pc, produced, received>>

(* Mutant: off by one, a batch of one element signals nobody.                 *)
EnqueueReturn_i_gt_1(p) ==
    /\ pc[p] = "enqMove"
    /\ ~EnqueueMore(p)
    /\ IF i > 1 /\ notEmpty # {}
       THEN \E c \in notEmpty : pc' = [pc EXCEPT ![p] = "produce", ![c] = "deqWoken"]
       ELSE Goto(p, "produce")
    /\ mutex' = Nobody
    /\ UNCHANGED <<buf, nTerminated, priv, i, produced, received>>

(* The end of queue_enqueue: one pthread_cond_signal(notEmpty) if anything    *)
(* moved, and the unlock.                                                     *)
EnqueueReturn(p) ==
    /\ pc[p] = "enqMove"
    /\ ~EnqueueMore(p)
    /\ IF i > 0 /\ notEmpty # {}
       THEN \E c \in notEmpty : pc' = [pc EXCEPT ![p] = "produce", ![c] = "deqWoken"]
       ELSE Goto(p, "produce")
    /\ mutex' = Nobody
    /\ UNCHANGED <<buf, nTerminated, priv, i, produced, received>>

(* Mutant: the last producer signals one consumer instead of all of them.     *)
Terminate_signal(p) ==
    /\ pc[p] = "terminate"
    /\ mutex = Nobody
    /\ nTerminated' = nTerminated + 1
    /\ IF nTerminated' = nProducers /\ notEmpty # {}
       THEN \E c \in notEmpty : pc' = [pc EXCEPT ![p] = "done", ![c] = "deqWoken"]
       ELSE Goto(p, "done")
    /\ UNCHANGED <<buf, mutex, priv, i, produced, received>>

(* queue_terminate: the last producer wakes every consumer that sleeps.       *)
Terminate(p) ==
    /\ pc[p] = "terminate"
    /\ mutex = Nobody
    /\ nTerminated' = nTerminated + 1
    /\ pc' = [t \in Threads |->
                 IF t = p THEN "done"
                 ELSE IF nTerminated' = nProducers /\ t \in notEmpty THEN "deqWoken"
                 ELSE pc[t]]
    /\ UNCHANGED <<buf, mutex, priv, i, produced, received>>

-----------------------------------------------------------------------------
(* The consumer's side.                                                       *)

(* queue_dequeue up to its loop: sleep while the queue is empty and open,     *)
(* return -1 when it is empty and closed.                                     *)
DequeueLock(c) ==
    /\ pc[c] \in {"fetch", "deqWoken"}
    /\ mutex = Nobody
    /\ \/ /\ ringbuffer_isEmpty(buf) /\ ~queue_isTerminated
          /\ Goto(c, "deqWait")
          /\ UNCHANGED <<mutex, i>>
       \/ /\ ringbuffer_isEmpty(buf) /\ queue_isTerminated
          /\ Goto(c, "done")
          /\ UNCHANGED <<mutex, i>>
       \/ /\ ~ringbuffer_isEmpty(buf)
          /\ Goto(c, "deqMove")
          /\ mutex' = c
          /\ i' = 0
    /\ UNCHANGED <<buf, nTerminated, priv, produced, received>>

DequeueMore(c) ==
    i < FetchLimit /\ ~ringbuffer_isEmpty(buf) /\ ~ringbuffer_isFull(priv[c])

DequeueMove(c) ==
    /\ pc[c] = "deqMove"
    /\ DequeueMore(c)
    /\ priv' = [priv EXCEPT ![c] = ringbuffer_insert(@, ringbuffer_front(buf))]
    /\ buf' = ringbuffer_remove(buf)
    /\ i' = i + 1
    /\ UNCHANGED <<nTerminated, mutex, pc, produced, received>>

(* Mutant: off by one, a batch of one element signals nobody.                 *)
DequeueReturn_i_gt_1(c) ==
    /\ pc[c] = "deqMove"
    /\ ~DequeueMore(c)
    /\ IF i > 1 /\ notFull # {}
       THEN \E p \in notFull : pc' = [pc EXCEPT ![c] = "consume", ![p] = "enqWoken"]
       ELSE Goto(c, "consume")
    /\ mutex' = Nobody
    /\ UNCHANGED <<buf, nTerminated, priv, i, produced, received>>

(* The end of queue_dequeue: one pthread_cond_signal(notFull) if anything     *)
(* moved, and the unlock.                                                     *)
DequeueReturn(c) ==
    /\ pc[c] = "deqMove"
    /\ ~DequeueMore(c)
    /\ IF i > 0 /\ notFull # {}
       THEN \E p \in notFull : pc' = [pc EXCEPT ![c] = "consume", ![p] = "enqWoken"]
       ELSE Goto(c, "consume")
    /\ mutex' = Nobody
    /\ UNCHANGED <<buf, nTerminated, priv, i, produced, received>>

(* One element leaves the private buffer and is worked on.                    *)
Consume(c) ==
    /\ pc[c] = "consume"
    /\ received' = [received EXCEPT ![c] = Append(@, ringbuffer_front(priv[c]))]
    /\ priv' = [priv EXCEPT ![c] = ringbuffer_remove(@)]
    /\ IF ringbuffer_isEmpty(priv'[c]) THEN Goto(c, "fetch") ELSE UNCHANGED pc
    /\ UNCHANGED <<buf, nTerminated, mutex, i, produced>>

-----------------------------------------------------------------------------

(* POSIX lets pthread_cond_wait return unsignalled: both loops test again.    *)
(* No fairness is assumed of it, so it can never stand in for a lost signal.  *)
SpuriousWakeup(t) ==
    /\ \/ /\ pc[t] = "enqWait"
          /\ Goto(t, "enqWoken")
       \/ /\ pc[t] = "deqWait"
          /\ Goto(t, "deqWoken")
    /\ UNCHANGED <<buf, nTerminated, mutex, priv, i, produced, received>>

AllDone == \A t \in Threads : pc[t] = "done"

(* Every thread has returned: the program goes on to pthread_join.            *)
Finished == AllDone /\ UNCHANGED vars

ProducerStep(p) ==
    \/ Produce(p) \/ EndOfInput(p) \/ EnqueueLock(p) \/ EnqueueMove(p)
    \/ EnqueueReturn(p) \/ Terminate(p)

ConsumerStep(c) ==
    DequeueLock(c) \/ DequeueMove(c) \/ DequeueReturn(c) \/ Consume(c)

Next ==
    \/ \E p \in Producers : ProducerStep(p)
    \/ \E c \in Consumers : ConsumerStep(c)
    \/ \E t \in Threads : SpuriousWakeup(t)
    \/ Finished

Spec == Init /\ [][Next]_vars

(* The scheduler runs every thread that can run.  Weak fairness is enough:    *)
(* a run is finite, so no thread can be overtaken at the mutex for ever.      *)
FairSpec ==
    /\ Spec
    /\ \A p \in Producers : WF_vars(ProducerStep(p))
    /\ \A c \in Consumers : WF_vars(ConsumerStep(c))

-----------------------------------------------------------------------------
(* Properties.                                                                *)

ProducerLabels == {"produce", "enqueue", "enqWait", "enqWoken", "enqMove", "terminate", "done"}
ConsumerLabels == {"fetch", "deqWait", "deqWoken", "deqMove", "consume", "done"}

(* Every variable keeps its type; in particular the indices of every ring     *)
(* buffer stay inside its slots and the counter never passes nProducers.      *)
TypeOK ==
    /\ buf \in RingBuffers(Capacity, Items \cup {Junk})
    /\ nTerminated \in 0 .. nProducers
    /\ mutex \in Threads \cup {Nobody}
    /\ pc \in [Threads -> ProducerLabels \cup ConsumerLabels]
    /\ \A p \in Producers : /\ pc[p] \in ProducerLabels
                            /\ priv[p] \in RingBuffers(InsertLimit, Items \cup {Junk})
    /\ \A c \in Consumers : /\ pc[c] \in ConsumerLabels
                            /\ priv[c] \in RingBuffers(FetchLimit, Items \cup {Junk})
    /\ DOMAIN priv = Threads
    /\ i \in Nat
    /\ produced \in [Producers -> 0 .. Quota]
    /\ received \in [Consumers -> Seq(Items)]

(* The assertion at the head of queue_enqueue: nobody hands over elements to  *)
(* a queue that every producer has terminated.                                *)
EnqueueOnOpenQueue ==
    \A p \in Producers :
        pc[p] \in {"enqueue", "enqWait", "enqWoken", "enqMove"} => ~queue_isTerminated

(* The callers' assert(r >= 1), and the loops of the consumers that take an   *)
(* element without looking: a call that returns has moved something.          *)
BatchesAreNotEmpty ==
    /\ \A p \in Producers : pc[p] = "enqMove" /\ ~EnqueueMore(p) => i >= 1
    /\ \A c \in Consumers : pc[c] = "consume" => ~ringbuffer_isEmpty(priv[c])

(* One signal per batch is enough for the consumers: while elements wait and  *)
(* a consumer sleeps, another consumer is awake and will come for them.       *)
NoStrandedElements ==
    notEmpty # {} /\ ~ringbuffer_isEmpty(buf)
        => \E c \in Consumers : pc[c] \notin {"deqWait", "done"}
                               \/ \E p \in Producers : pc[p] = "enqMove"

(* One signal per batch is enough for the producers: when a producer sleeps   *)
(* and the queue is empty, so that no consumer would ever signal notFull,     *)
(* another producer is awake with elements in hand, or a consumer is about to *)
(* signal.                                                                    *)
NoStrandedProducer ==
    notFull # {} /\ ringbuffer_isEmpty(buf)
        => \/ \E p \in Producers : pc[p] \in {"enqWoken", "enqMove"}
           \/ \E c \in Consumers : pc[c] = "deqMove" /\ i > 0

(* Nothing is lost, invented or duplicated and order is kept: the ring        *)
(* buffers and their batches implement a bounded FIFO.                        *)
ElementsOf(p) == [k \in 1 .. Quota |-> <<p, k>>]
Fifo == INSTANCE BoundedQueue WITH
    queue    <- Contents(buf),
    pending  <- [p \in Producers |->
                    Contents(priv[p]) \o SubSeq(ElementsOf(p), produced[p] + 1, Quota)],
    received <- [c \in Consumers |-> received[c] \o Contents(priv[c])],
    open     <- nProducers - nTerminated
ImplementsFifo == Fifo!Spec

(* Every thread returns: no sleeper is forgotten and nobody waits for ever.   *)
EveryThreadReturns == <>AllDone
=============================================================================
