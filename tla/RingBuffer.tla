----------------------------- MODULE RingBuffer -----------------------------
(* The ring buffer of dedup/src/queue.h: it is both the storage inside a     *)
(* queue and the private batch buffer of a queue user.  A buffer made for n   *)
(* elements has n + 1 slots, because head = tail must mean "empty" and one    *)
(* slot is therefore never used.  Pure operators on the C structure; the      *)
(* indices are kept, because the wrap-around is what can go wrong.            *)
EXTENDS Integers, Sequences

(* struct _ringbuffer_t for n elements; what malloc returns is `junk'.        *)
ringbuffer_init(n, junk) ==
    [head |-> 0, tail |-> 0, size |-> n + 1, data |-> [s \in 0 .. n |-> junk]]

ringbuffer_isEmpty(b) == b.tail = b.head

(* (tail - 1 + size) % size                                                   *)
PrevSlot(b) == IF b.tail = 0 THEN b.size - 1 ELSE b.tail - 1

ringbuffer_isFull(b) == b.head = PrevSlot(b)

(* The element ringbuffer_remove returns, and the buffer it leaves behind.    *)
ringbuffer_front(b) == b.data[b.tail]

ringbuffer_remove(b) ==
    [b EXCEPT !.tail = IF b.tail + 1 >= b.size THEN 0 ELSE b.tail + 1]

StoreAtHead(b, x) == [b EXCEPT !.data = [b.data EXCEPT ![b.head] = x]]

(* Mutant: the head wraps one slot too late.                                  *)
ringbuffer_insert_late_wrap(b, x) ==
    [StoreAtHead(b, x) EXCEPT !.head = IF b.head = b.size THEN 0 ELSE b.head + 1]

(* A successful ringbuffer_insert.                                            *)
ringbuffer_insert(b, x) ==
    [StoreAtHead(b, x) EXCEPT !.head = IF b.head + 1 = b.size THEN 0 ELSE b.head + 1]

-----------------------------------------------------------------------------
(* What a ring buffer stands for: the sequence of its elements, oldest first. *)

Count(b) == IF b.head >= b.tail THEN b.head - b.tail
                                ELSE b.head - b.tail + b.size

Slot(b, k) == IF b.tail + k - 1 >= b.size THEN b.tail + k - 1 - b.size
                                          ELSE b.tail + k - 1

Contents(b) == [k \in 1 .. Count(b) |-> b.data[Slot(b, k)]]

RingBuffers(n, S) ==
    [head : 0 .. n, tail : 0 .. n, size : {n + 1}, data : [0 .. n -> S]]
=============================================================================
