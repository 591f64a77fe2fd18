-------------------------- MODULE DedupQueueProofs --------------------------
(* The safety of dedup's queue for every number of producers and consumers,   *)
(* every size of the queue and of the batches, and every amount of input.     *)
EXTENDS DedupQueue, FiniteSetTheorems, SequenceTheorems, TLAPS

-----------------------------------------------------------------------------
(* What insert and remove do to a ring buffer of any size, proved once for    *)
(* the queue and for the private buffers of its users.                        *)

(* The slots that hold the elements: from tail up to head, around the end.    *)
Occupied(b) == IF b.tail <= b.head THEN b.tail .. b.head - 1
                                   ELSE (b.tail .. b.size - 1) \cup (0 .. b.head - 1)

(* Every element of the buffer is in S, whatever its unused slots hold.       *)
Holds(b, S) == \A s \in Occupied(b) : b.data[s] \in S

(* A new buffer (ringbuffer_init) has its type and is empty.                  *)
LEMMA InitLemma ==
    ASSUME NEW n \in Nat, NEW S, NEW junk \in S
    PROVE  /\ ringbuffer_init(n, junk) \in RingBuffers(n, S)
           /\ ringbuffer_isEmpty(ringbuffer_init(n, junk))
           /\ \A R : Holds(ringbuffer_init(n, junk), R)
BY DEF ringbuffer_init, RingBuffers, ringbuffer_isEmpty, Holds, Occupied

(* No buffer with room for an element is empty and full at once: the slot     *)
(* that is never used tells the two apart.                                    *)
LEMMA EmptyIsNotFull ==
    ASSUME NEW n \in Nat \ {0}, NEW S, NEW b \in RingBuffers(n, S),
           ringbuffer_isEmpty(b)
    PROVE  ~ringbuffer_isFull(b)
BY DEF RingBuffers, ringbuffer_isEmpty, ringbuffer_isFull, PrevSlot

(* An insert into a buffer that is not full keeps its type, leaves it         *)
(* non-empty and adds nothing but the element.                                *)
LEMMA InsertLemma ==
    ASSUME NEW n \in Nat \ {0}, NEW S, NEW R, NEW b \in RingBuffers(n, S), NEW x \in S,
           ~ringbuffer_isFull(b)
    PROVE  /\ ringbuffer_insert(b, x) \in RingBuffers(n, S)
           /\ ~ringbuffer_isEmpty(ringbuffer_insert(b, x))
           /\ Holds(b, R) /\ x \in R => Holds(ringbuffer_insert(b, x), R)
<1> DEFINE d == ringbuffer_insert(b, x)
<1>1. /\ b.head \in 0 .. n /\ b.tail \in 0 .. n /\ b.size = n + 1
      /\ b.data \in [0 .. n -> S]
      /\ b = [head |-> b.head, tail |-> b.tail, size |-> b.size, data |-> b.data]
  BY DEF RingBuffers
<1>2. d = [head |-> IF b.head + 1 = b.size THEN 0 ELSE b.head + 1,
           tail |-> b.tail, size |-> b.size, data |-> [b.data EXCEPT ![b.head] = x]]
  <2>1. StoreAtHead(b, x) = [head |-> b.head, tail |-> b.tail, size |-> b.size,
                             data |-> [b.data EXCEPT ![b.head] = x]]
    BY <1>1 DEF StoreAtHead
  <2> QED BY <2>1 DEF ringbuffer_insert
<1>3. d \in RingBuffers(n, S)
  BY <1>1, <1>2 DEF RingBuffers
<1>4. ~ringbuffer_isEmpty(d)
  BY <1>1, <1>2 DEF ringbuffer_isEmpty, ringbuffer_isFull, PrevSlot
<1>5. ASSUME Holds(b, R), x \in R PROVE Holds(d, R)
  <2> SUFFICES ASSUME NEW s \in Occupied(d) PROVE d.data[s] \in R
    BY DEF Holds
  <2>1. s = b.head \/ (s # b.head /\ s \in Occupied(b))
    BY <1>1, <1>2 DEF Occupied, ringbuffer_isFull, PrevSlot
  <2>2. s \in 0 .. n
    BY <1>1, <2>1 DEF Occupied
  <2> QED BY <1>1, <1>2, <1>5, <2>1, <2>2 DEF Holds
<1> QED BY <1>3, <1>4, <1>5

(* A remove from a buffer that is not empty keeps its type, leaves it with    *)
(* room and takes nothing but the front, which is one of its elements.        *)
LEMMA RemoveLemma ==
    ASSUME NEW n \in Nat \ {0}, NEW S, NEW R, NEW b \in RingBuffers(n, S),
           ~ringbuffer_isEmpty(b)
    PROVE  /\ ringbuffer_remove(b) \in RingBuffers(n, S)
           /\ ~ringbuffer_isFull(ringbuffer_remove(b))
           /\ ringbuffer_front(b) \in S
           /\ Holds(b, R) => Holds(ringbuffer_remove(b), R) /\ ringbuffer_front(b) \in R
<1> DEFINE d == ringbuffer_remove(b)
<1>1. /\ b.head \in 0 .. n /\ b.tail \in 0 .. n /\ b.size = n + 1
      /\ b.data \in [0 .. n -> S]
      /\ b = [head |-> b.head, tail |-> b.tail, size |-> b.size, data |-> b.data]
  BY DEF RingBuffers
<1>2. d = [head |-> b.head, tail |-> IF b.tail + 1 >= b.size THEN 0 ELSE b.tail + 1,
           size |-> b.size, data |-> b.data]
  BY <1>1 DEF ringbuffer_remove
<1>3. d \in RingBuffers(n, S)
  BY <1>1, <1>2 DEF RingBuffers
<1>4. ~ringbuffer_isFull(d)
  BY <1>1, <1>2 DEF ringbuffer_isEmpty, ringbuffer_isFull, PrevSlot
<1>5. ringbuffer_front(b) \in S
  BY <1>1 DEF ringbuffer_front
<1>6. ASSUME Holds(b, R) PROVE Holds(d, R) /\ ringbuffer_front(b) \in R
  <2>1. b.tail \in Occupied(b)
    BY <1>1 DEF Occupied, ringbuffer_isEmpty
  <2>2. Occupied(d) \subseteq Occupied(b)
    BY <1>1, <1>2 DEF Occupied, ringbuffer_isEmpty
  <2> QED BY <1>2, <1>6, <2>1, <2>2 DEF Holds, ringbuffer_front
<1> QED BY <1>3, <1>4, <1>5, <1>6
-----------------------------------------------------------------------------
(* What a ring buffer stands for as a sequence.                               *)

(* The number of elements tells an empty and a full buffer.                   *)
LEMMA CountLemma ==
    ASSUME NEW n \in Nat \ {0}, NEW S, NEW b \in RingBuffers(n, S)
    PROVE  /\ Count(b) \in 0 .. n
           /\ ringbuffer_isEmpty(b) <=> Count(b) = 0
           /\ ringbuffer_isFull(b) <=> Count(b) = n
           /\ \A k \in 1 .. Count(b) : Slot(b, k) \in Occupied(b) /\ Slot(b, k) \in 0 .. n
<1>1. b.head \in 0 .. n /\ b.tail \in 0 .. n /\ b.size = n + 1
  BY DEF RingBuffers
<1>2. Count(b) \in 0 .. n
  BY <1>1 DEF Count
<1>3. ringbuffer_isEmpty(b) <=> Count(b) = 0
  BY <1>1 DEF Count, ringbuffer_isEmpty
<1>4. ringbuffer_isFull(b) <=> Count(b) = n
  BY <1>1 DEF Count, ringbuffer_isFull, PrevSlot
<1>5. ASSUME NEW k \in 1 .. Count(b)
      PROVE  Slot(b, k) \in Occupied(b) /\ Slot(b, k) \in 0 .. n
  BY <1>1 DEF Count, Slot, Occupied
<1> QED
  BY <1>2, <1>3, <1>4, <1>5

(* The elements between tail and head, in order.                              *)
LEMMA ContentsLemma ==
    ASSUME NEW n \in Nat \ {0}, NEW S, NEW R, NEW b \in RingBuffers(n, S), Holds(b, R)
    PROVE  /\ Contents(b) \in Seq(R) /\ Len(Contents(b)) = Count(b)
           /\ \A k \in 1 .. Count(b) : Contents(b)[k] = b.data[Slot(b, k)]
           /\ ringbuffer_isEmpty(b) <=> Contents(b) = << >>
<1>1. /\ Count(b) \in Nat /\ (ringbuffer_isEmpty(b) <=> Count(b) = 0)
      /\ \A k \in 1 .. Count(b) : b.data[Slot(b, k)] \in R
  BY CountLemma DEF Holds
<1>2. Contents(b) \in [1 .. Count(b) -> R]
  BY <1>1 DEF Contents
<1>3. Contents(b) \in Seq(R) /\ Len(Contents(b)) = Count(b)
  BY <1>1, <1>2
<1>4. \A k \in 1 .. Count(b) : Contents(b)[k] = b.data[Slot(b, k)]
  BY DEF Contents
<1>5. Count(b) = 0 <=> Contents(b) = << >>
  BY <1>1, <1>3, EmptySeq
<1> QED
  BY <1>1, <1>3, <1>4, <1>5

(* A new buffer stands for the empty sequence.                                *)
LEMMA InitContents ==
    ASSUME NEW n \in Nat \ {0}, NEW S, NEW junk \in S
    PROVE  Contents(ringbuffer_init(n, junk)) = << >>
BY InitLemma, ContentsLemma

(* An insert appends its element, around the end of the slots as well.        *)
LEMMA InsertContents ==
    ASSUME NEW n \in Nat \ {0}, NEW S, NEW R, NEW b \in RingBuffers(n, S), Holds(b, R),
           NEW x \in S, x \in R, ~ringbuffer_isFull(b)
    PROVE  Contents(ringbuffer_insert(b, x)) = Append(Contents(b), x)
<1> DEFINE d == ringbuffer_insert(b, x)
<1>1. /\ b.head \in 0 .. n /\ b.tail \in 0 .. n /\ b.size = n + 1
      /\ b.data \in [0 .. n -> S]
      /\ b = [head |-> b.head, tail |-> b.tail, size |-> b.size, data |-> b.data]
  BY DEF RingBuffers
<1>2. d = [head |-> IF b.head + 1 = b.size THEN 0 ELSE b.head + 1,
           tail |-> b.tail, size |-> b.size, data |-> [b.data EXCEPT ![b.head] = x]]
  <2>1. StoreAtHead(b, x) = [head |-> b.head, tail |-> b.tail, size |-> b.size,
                             data |-> [b.data EXCEPT ![b.head] = x]]
    BY <1>1 DEF StoreAtHead
  <2> QED BY <2>1 DEF ringbuffer_insert
<1>3. d \in RingBuffers(n, S) /\ Holds(d, R)
  BY InsertLemma
<1> HIDE DEF d
<1>4. Count(d) = Count(b) + 1 /\ Count(b) \in 0 .. n /\ Count(d) \in 0 .. n
  <2>1. /\ d.tail = b.tail /\ d.size = n + 1
        /\ d.head = IF b.head + 1 = n + 1 THEN 0 ELSE b.head + 1
    BY <1>1, <1>2
  <2>2. Count(d) = Count(b) + 1
    BY <1>1, <2>1 DEF Count, ringbuffer_isFull, PrevSlot
  <2> QED
    BY <1>3, <2>2, CountLemma
<1>5. \A k \in 1 .. Count(b) : Slot(d, k) = Slot(b, k) /\ Slot(b, k) # b.head
  BY <1>1, <1>2 DEF Slot, Count
<1>6. Slot(d, Count(b) + 1) = b.head
  BY <1>1, <1>2 DEF Slot, Count
<1>7. /\ Contents(b) \in Seq(R) /\ Len(Contents(b)) = Count(b)
      /\ Contents(d) \in Seq(R) /\ Len(Contents(d)) = Count(d)
      /\ \A k \in 1 .. Count(b) : Contents(b)[k] = b.data[Slot(b, k)]
      /\ \A k \in 1 .. Count(d) : Contents(d)[k] = d.data[Slot(d, k)]
  BY <1>3, ContentsLemma
<1>8. /\ Append(Contents(b), x) \in Seq(R)
      /\ Len(Append(Contents(b), x)) = Count(b) + 1
      /\ \A k \in 1 .. Count(b) : Append(Contents(b), x)[k] = Contents(b)[k]
      /\ Append(Contents(b), x)[Count(b) + 1] = x
  BY <1>7, AppendProperties
<1>9. ASSUME NEW k \in 1 .. Count(d) PROVE Contents(d)[k] = Append(Contents(b), x)[k]
  <2>1. CASE k = Count(b) + 1
    <3>1. d.data[b.head] = x
      BY <1>1, <1>2
    <3> QED
      BY <1>6, <1>7, <1>8, <2>1, <3>1
  <2>2. CASE k # Count(b) + 1
    <3>1. k \in 1 .. Count(b)
      BY <1>4, <2>2
    <3>2. Slot(b, k) \in 0 .. n /\ Slot(b, k) # b.head /\ Slot(d, k) = Slot(b, k)
      BY <1>5, <3>1, CountLemma
    <3>3. d.data[Slot(b, k)] = b.data[Slot(b, k)]
      BY <1>1, <1>2, <3>2
    <3> QED
      BY <1>7, <1>8, <3>1, <3>2, <3>3
  <2> QED
    BY <2>1, <2>2
<1>10. Contents(d) = Append(Contents(b), x)
  BY <1>4, <1>7, <1>8, <1>9, SeqEqual
<1> QED
  BY <1>10 DEF d

(* A remove takes the head of the sequence, which is the front.               *)
LEMMA RemoveContents ==
    ASSUME NEW n \in Nat \ {0}, NEW S, NEW R, NEW b \in RingBuffers(n, S), Holds(b, R),
           ~ringbuffer_isEmpty(b)
    PROVE  /\ Contents(b) # << >>
           /\ Head(Contents(b)) = ringbuffer_front(b)
           /\ Contents(ringbuffer_remove(b)) = Tail(Contents(b))
<1> DEFINE d == ringbuffer_remove(b)
<1>1. /\ b.head \in 0 .. n /\ b.tail \in 0 .. n /\ b.size = n + 1
      /\ b = [head |-> b.head, tail |-> b.tail, size |-> b.size, data |-> b.data]
  BY DEF RingBuffers
<1>2. d = [head |-> b.head, tail |-> IF b.tail + 1 >= b.size THEN 0 ELSE b.tail + 1,
           size |-> b.size, data |-> b.data]
  BY <1>1 DEF ringbuffer_remove
<1>3. d \in RingBuffers(n, S) /\ Holds(d, R)
  BY RemoveLemma
<1> HIDE DEF d
<1>4. /\ Count(d) = Count(b) - 1 /\ Count(b) \in 1 .. n
      /\ Slot(b, 1) = b.tail
      /\ \A k \in 1 .. Count(b) - 1 : Slot(d, k) = Slot(b, k + 1)
  BY <1>1, <1>2 DEF Slot, Count, ringbuffer_isEmpty
<1>5. /\ Contents(b) \in Seq(R) /\ Len(Contents(b)) = Count(b) /\ Contents(b) # << >>
      /\ Contents(d) \in Seq(R) /\ Len(Contents(d)) = Count(d)
      /\ \A k \in 1 .. Count(b) : Contents(b)[k] = b.data[Slot(b, k)]
      /\ \A k \in 1 .. Count(d) : Contents(d)[k] = d.data[Slot(d, k)]
  BY <1>3, ContentsLemma
<1>6. Head(Contents(b)) = ringbuffer_front(b)
  <2>1. Head(Contents(b)) = Contents(b)[1]
    BY <1>5
  <2> QED
    BY <1>4, <1>5, <2>1 DEF ringbuffer_front
<1>7. /\ Tail(Contents(b)) \in Seq(R) /\ Len(Tail(Contents(b))) = Count(b) - 1
      /\ \A k \in 1 .. Count(b) - 1 : Tail(Contents(b))[k] = Contents(b)[k + 1]
  BY <1>5, HeadTailProperties
<1>8. ASSUME NEW k \in 1 .. Count(d) PROVE Contents(d)[k] = Tail(Contents(b))[k]
  <2>1. k \in 1 .. Count(b) - 1 /\ k + 1 \in 1 .. Count(b)
    BY <1>4
  <2> QED
    BY <1>2, <1>4, <1>5, <1>7, <2>1
<1>9. Contents(d) = Tail(Contents(b))
  BY <1>4, <1>5, <1>7, <1>8, SeqEqual
<1> QED
  BY <1>5, <1>6, <1>9 DEF d

(* The first of one sequence becomes the last of the one before it.           *)
LEMMA HandOver ==
    ASSUME NEW S, NEW s \in Seq(S), NEW t \in Seq(S), t # << >>
    PROVE  Append(s, Head(t)) \o Tail(t) = s \o t
<1>1. /\ Head(t) \in S /\ Tail(t) \in Seq(S) /\ Len(Tail(t)) = Len(t) - 1 /\ Head(t) = t[1]
      /\ \A j \in 1 .. Len(Tail(t)) : Tail(t)[j] = t[j + 1]
  BY HeadTailProperties
<1>2. Len(s) \in Nat /\ Len(t) \in Nat \ {0}
  BY EmptySeq, LenProperties
<1>a. PICK a \in Seq(S) : a = Append(s, Head(t))
  BY <1>1, AppendProperties
<1>u. PICK u \in Seq(S) : u = Tail(t)
  BY <1>1
<1>3. /\ Len(a) = Len(s) + 1
      /\ \A j \in 1 .. Len(s) : a[j] = s[j]
      /\ a[Len(s) + 1] = Head(t)
  BY <1>1, <1>a, AppendProperties
<1>4. /\ a \o u \in Seq(S) /\ Len(a \o u) = Len(s) + Len(t)
      /\ \A j \in 1 .. Len(s) + Len(t) :
            (a \o u)[j] = IF j <= Len(a) THEN a[j] ELSE u[j - Len(a)]
  <2>1. Len(a) + Len(u) = Len(s) + Len(t)
    BY <1>1, <1>2, <1>3, <1>u
  <2>2. /\ a \o u \in Seq(S) /\ Len(a \o u) = Len(a) + Len(u)
        /\ \A j \in 1 .. Len(a) + Len(u) :
              (a \o u)[j] = IF j <= Len(a) THEN a[j] ELSE u[j - Len(a)]
    BY ConcatProperties
  <2> QED
    BY <2>1, <2>2
<1>5. /\ s \o t \in Seq(S) /\ Len(s \o t) = Len(s) + Len(t)
      /\ \A j \in 1 .. Len(s) + Len(t) :
            (s \o t)[j] = IF j <= Len(s) THEN s[j] ELSE t[j - Len(s)]
  BY ConcatProperties
<1>6. ASSUME NEW j \in 1 .. Len(s) + Len(t) PROVE (a \o u)[j] = (s \o t)[j]
  <2>1. CASE j <= Len(s)
    BY <1>2, <1>3, <1>4, <1>5, <2>1
  <2>2. CASE j = Len(s) + 1
    BY <1>1, <1>2, <1>3, <1>4, <1>5, <1>u, <2>2
  <2>3. CASE j > Len(s) + 1
    <3>1. /\ (a \o u)[j] = u[j - Len(a)] /\ (s \o t)[j] = t[j - Len(s)]
      BY <1>2, <1>3, <1>4, <1>5, <2>3
    <3>2. j - Len(a) \in 1 .. Len(u) /\ (j - Len(a)) + 1 = j - Len(s)
      BY <1>1, <1>2, <1>3, <1>u, <2>3
    <3>3. u[j - Len(a)] = t[(j - Len(a)) + 1]
      BY <1>1, <1>u, <3>2
    <3> QED
      BY <3>1, <3>2, <3>3
  <2>4. j <= Len(s) \/ j = Len(s) + 1 \/ j > Len(s) + 1
    BY <1>2
  <2> QED
    BY <2>1, <2>2, <2>3, <2>4
<1>7. a \o u = s \o t
  BY <1>4, <1>5, <1>6, SeqEqual
<1> QED
  BY <1>7, <1>a, <1>u

(* The first of two sequences, when there is something in it, gives the head. *)
LEMMA HeadOfConcat ==
    ASSUME NEW S, NEW s \in Seq(S), NEW t \in Seq(S), s # << >>
    PROVE  s \o t # << >> /\ Head(s \o t) = Head(s) /\ Tail(s \o t) = Tail(s) \o t
<1>1. /\ Tail(s) \in Seq(S) /\ Len(Tail(s)) = Len(s) - 1
      /\ \A j \in 1 .. Len(Tail(s)) : Tail(s)[j] = s[j + 1]
      /\ Len(s) \in Nat \ {0} /\ Len(t) \in Nat
  BY HeadTailProperties, EmptySeq, LenProperties
<1>2. /\ s \o t \in Seq(S) /\ Len(s \o t) = Len(s) + Len(t)
      /\ \A j \in 1 .. Len(s) + Len(t) :
            (s \o t)[j] = IF j <= Len(s) THEN s[j] ELSE t[j - Len(s)]
  BY ConcatProperties
<1>3. s \o t # << >>
  BY <1>1, <1>2, EmptySeq
<1>4. Head(s \o t) = Head(s)
  <2>1. Head(s \o t) = (s \o t)[1] /\ Head(s) = s[1]
    BY <1>2, <1>3
  <2> QED
    BY <1>1, <1>2, <2>1
<1>5. /\ Tail(s \o t) \in Seq(S) /\ Len(Tail(s \o t)) = Len(s) + Len(t) - 1
      /\ \A j \in 1 .. Len(s) + Len(t) - 1 : Tail(s \o t)[j] = (s \o t)[j + 1]
  BY <1>2, <1>3, HeadTailProperties
<1>6. /\ Tail(s) \o t \in Seq(S) /\ Len(Tail(s) \o t) = Len(s) - 1 + Len(t)
      /\ \A j \in 1 .. Len(s) - 1 + Len(t) :
            (Tail(s) \o t)[j] = IF j <= Len(s) - 1 THEN Tail(s)[j] ELSE t[j - (Len(s) - 1)]
  BY <1>1, ConcatProperties
<1>7. ASSUME NEW j \in 1 .. Len(s) + Len(t) - 1 PROVE Tail(s \o t)[j] = (Tail(s) \o t)[j]
  <2>1. j + 1 \in 1 .. Len(s) + Len(t) /\ j \in 1 .. Len(s) - 1 + Len(t)
    BY <1>1
  <2>2. CASE j <= Len(s) - 1
    BY <1>1, <1>2, <1>5, <1>6, <2>1, <2>2
  <2>3. CASE j > Len(s) - 1
    <3>1. (j + 1) - Len(s) = j - (Len(s) - 1)
      BY <1>1
    <3> QED
      BY <1>1, <1>2, <1>5, <1>6, <2>1, <2>3, <3>1
  <2> QED
    BY <1>1, <2>2, <2>3
<1>8. Tail(s \o t) = Tail(s) \o t
  BY <1>1, <1>5, <1>6, <1>7, SeqEqual
<1> QED
  BY <1>3, <1>4, <1>8
(* Appending to two sequences put together.                                   *)
LEMMA AppendToConcat ==
    ASSUME NEW S, NEW s \in Seq(S), NEW t \in Seq(S), NEW e \in S
    PROVE  s \o Append(t, e) = Append(s \o t, e)
<1>1. PICK u \in Seq(S) : u = s \o t
  BY ConcatProperties
<1>2. << e >> \in Seq(S)
  OBVIOUS
<1>3. Append(t, e) = t \o << e >> /\ Append(u, e) = u \o << e >>
  BY AppendIsConcat
<1>4. (s \o t) \o << e >> = s \o (t \o << e >>)
  BY <1>2, ConcatAssociative
<1> QED
  BY <1>1, <1>3, <1>4

-----------------------------------------------------------------------------
(* The inductive invariant.                                                   *)

(* The mutex is held exactly while a thread moves its batch.                  *)
MutexInv ==
    /\ \A p \in Producers : pc[p] = "enqMove" <=> mutex = p
    /\ \A c \in Consumers : pc[c] = "deqMove" <=> mutex = c

(* nTerminated counts the producers that are done.                            *)
Terminated == {p \in Producers : pc[p] = "done"}
TerminatedInv == nTerminated = Cardinality(Terminated)

(* Every ring buffer holds items between its tail and its head.               *)
BuffersInv ==
    /\ Holds(buf, Items)
    /\ \A t \in Threads : Holds(priv[t], Items)

(* A producer has room for the next element and never calls queue_enqueue     *)
(* with nothing in hand; once it has moved an element its buffer has room     *)
(* again and the queue is not empty.                                          *)
ProducersInv ==
    \A p \in Producers :
        /\ pc[p] = "produce" => ~ringbuffer_isFull(priv[p])
        /\ pc[p] \in {"enqueue", "enqWait", "enqWoken"} => ~ringbuffer_isEmpty(priv[p])
        /\ pc[p] = "enqMove" /\ i = 0 => ~ringbuffer_isFull(buf) /\ ~ringbuffer_isEmpty(priv[p])
        /\ pc[p] = "enqMove" /\ i # 0 => ~ringbuffer_isEmpty(buf) /\ ~ringbuffer_isFull(priv[p])

(* A consumer calls queue_dequeue with an empty buffer only, and works on     *)
(* elements only when it has some.                                            *)
ConsumersInv ==
    \A c \in Consumers :
        /\ pc[c] \in {"fetch", "deqWait", "deqWoken"} => ringbuffer_isEmpty(priv[c])
        /\ pc[c] = "consume" => ~ringbuffer_isEmpty(priv[c])
        /\ pc[c] = "deqMove" /\ i = 0 => ~ringbuffer_isEmpty(buf) /\ ringbuffer_isEmpty(priv[c])
        /\ pc[c] = "deqMove" /\ i # 0 => ~ringbuffer_isEmpty(priv[c])

Inv == TypeOK /\ MutexInv /\ TerminatedInv /\ BuffersInv /\ ProducersInv /\ ConsumersInv

-----------------------------------------------------------------------------
(* Facts used in several places.                                              *)

(* The constants as the proofs below use them.                                *)
LEMMA ConstantsLemma ==
    /\ Quota \in Nat /\ Capacity \in Nat \ {0}
    /\ InsertLimit \in Nat \ {0} /\ FetchLimit \in Nat \ {0}
    /\ nProducers \in Nat \ {0}
    /\ \A p \in Producers, c \in Consumers : p # c
    /\ \A p \in Producers, k \in 1 .. Quota : <<p, k>> \in Items
    /\ \A t \in Threads : t # Nobody
<1>1. nProducers \in Nat /\ nProducers # 0
  BY ThreadsAssumption, FS_CardinalityType, FS_EmptySet DEF nProducers
<1> QED BY <1>1, SizesAssumption, ThreadsAssumption DEF Items, Threads

(* As long as some producer is not done, the queue is not terminated          *)
(* (queue_isTerminated), and there is room for one more call.                 *)
LEMMA OpenLemma ==
    ASSUME TerminatedInv, NEW p \in Producers, pc[p] # "done"
    PROVE  nTerminated \in Nat /\ nTerminated < nProducers
<1>1. Terminated \subseteq Producers /\ Terminated # Producers
  BY DEF Terminated
<1>2. /\ Cardinality(Terminated) \in Nat /\ Cardinality(Producers) \in Nat
      /\ Cardinality(Terminated) < Cardinality(Producers)
  BY <1>1, ThreadsAssumption, FS_Subset, FS_CardinalityType
<1> QED BY <1>2 DEF TerminatedInv, nProducers

(* A step in which no producer becomes or ceases to be done, and which leaves *)
(* the counter alone, keeps the count right.                                  *)
LEMMA TerminatedFrame ==
    ASSUME TerminatedInv, nTerminated' = nTerminated,
           \A p \in Producers : pc'[p] = "done" <=> pc[p] = "done"
    PROVE  TerminatedInv'
BY DEF TerminatedInv, Terminated

-----------------------------------------------------------------------------
(* The invariant holds at the start: every buffer is empty, nobody holds the  *)
(* mutex and no producer is done.                                             *)
LEMMA InitInv == Init => Inv
<1> SUFFICES ASSUME Init PROVE Inv
  OBVIOUS
<1> USE ConstantsLemma
<1>1. /\ buf \in RingBuffers(Capacity, Items \cup {Junk})
      /\ Holds(buf, Items)
  BY InitLemma DEF Init
<1>2. \A p \in Producers :
          /\ priv[p] \in RingBuffers(InsertLimit, Items \cup {Junk})
          /\ Holds(priv[p], Items) /\ ringbuffer_isEmpty(priv[p])
          /\ ~ringbuffer_isFull(priv[p])
          /\ pc[p] = "produce"
  <2> TAKE p \in Producers
  <2>1. priv[p] = ringbuffer_init(InsertLimit, Junk) /\ pc[p] = "produce"
    BY DEF Init, Threads
  <2> QED BY <2>1, InitLemma, EmptyIsNotFull
<1>3. \A c \in Consumers :
          /\ priv[c] \in RingBuffers(FetchLimit, Items \cup {Junk})
          /\ Holds(priv[c], Items) /\ ringbuffer_isEmpty(priv[c])
          /\ pc[c] = "fetch"
  <2> TAKE c \in Consumers
  <2>1. priv[c] = ringbuffer_init(FetchLimit, Junk) /\ pc[c] = "fetch"
    BY DEF Init, Threads
  <2> QED BY <2>1, InitLemma
<1>4. TypeOK
  <2>1. nTerminated \in 0 .. nProducers /\ mutex \in Threads \cup {Nobody} /\ i \in Nat
    BY DEF Init
  <2>2. pc \in [Threads -> ProducerLabels \cup ConsumerLabels]
    BY DEF Init, ProducerLabels, ConsumerLabels
  <2>3. DOMAIN priv = Threads
    BY DEF Init
  <2>4. produced \in [Producers -> 0 .. Quota] /\ received \in [Consumers -> Seq(Items)]
    BY DEF Init
  <2> QED
    BY <1>1, <1>2, <1>3, <2>1, <2>2, <2>3, <2>4 DEF TypeOK, ProducerLabels, ConsumerLabels
<1>5. MutexInv
  BY <1>2, <1>3 DEF Init, MutexInv, Threads
<1>6. TerminatedInv
  <2>1. Terminated = {}
    BY <1>2 DEF Terminated
  <2> QED BY <2>1, FS_EmptySet DEF TerminatedInv, Init
<1>7. BuffersInv
  BY <1>1, <1>2, <1>3 DEF BuffersInv, Threads
<1>8. ProducersInv /\ ConsumersInv
  BY <1>2, <1>3 DEF ProducersInv, ConsumersInv
<1> QED BY <1>4, <1>5, <1>6, <1>7, <1>8 DEF Inv

-----------------------------------------------------------------------------
(* Every action of a producer keeps the invariant.                            *)

(* Produce keeps it: a producer at this point has room in its buffer.         *)
LEMMA ProduceInv ==
    ASSUME Inv, NEW p \in Producers, Produce(p) PROVE Inv'
<1> USE ConstantsLemma DEF Inv, Goto
<1> DEFINE x == <<p, produced[p] + 1>>
<1>1. /\ p \in Threads /\ p \notin Consumers
      /\ produced[p] \in 0 .. Quota /\ x \in Items
      /\ pc[p] = "produce" /\ ~ringbuffer_isFull(priv[p])
      /\ pc \in [Threads -> ProducerLabels \cup ConsumerLabels] /\ DOMAIN priv = Threads
  BY DEF Produce, TypeOK, Threads, ProducersInv
<1>2. priv' = [priv EXCEPT ![p] = ringbuffer_insert(priv[p], x)]
  BY DEF Produce
<1>3. /\ priv'[p] \in RingBuffers(InsertLimit, Items \cup {Junk})
      /\ ~ringbuffer_isEmpty(priv'[p])
      /\ Holds(priv'[p], Items)
  <2>1. priv[p] \in RingBuffers(InsertLimit, Items \cup {Junk}) /\ Holds(priv[p], Items)
    BY <1>1 DEF TypeOK, BuffersInv
  <2>2. priv'[p] = ringbuffer_insert(priv[p], x)
    BY <1>1, <1>2
  <2> QED BY <1>1, <2>1, <2>2, InsertLemma
<1>4. /\ pc'[p] \in {"produce", "enqueue"}
      /\ pc'[p] = "produce" => ~ringbuffer_isFull(priv'[p])
      /\ pc' \in [Threads -> ProducerLabels \cup ConsumerLabels]
      /\ \A t \in Threads : t # p => pc'[t] = pc[t] /\ priv'[t] = priv[t]
  BY <1>1, <1>2 DEF Produce, ProducerLabels
<1>5. UNCHANGED <<buf, nTerminated, mutex, i, received>>
  BY DEF Produce
<1>6. TypeOK'
  <2>1. produced' \in [Producers -> 0 .. Quota]
    BY <1>1 DEF Produce, TypeOK
  <2>2. DOMAIN priv' = Threads
    BY <1>1, <1>2
  <2> QED BY <1>1, <1>3, <1>4, <1>5, <2>1, <2>2 DEF TypeOK, ProducerLabels, Threads
<1>7. MutexInv'
  BY <1>1, <1>4, <1>5 DEF MutexInv, Threads
<1>8. TerminatedInv'
  BY <1>1, <1>4, <1>5, TerminatedFrame DEF Threads
<1>9. BuffersInv'
  BY <1>3, <1>4, <1>5 DEF BuffersInv
<1>10. ProducersInv' /\ ConsumersInv'
  BY <1>1, <1>3, <1>4, <1>5 DEF ProducersInv, ConsumersInv, Threads
<1> QED BY <1>6, <1>7, <1>8, <1>9, <1>10

(* EndOfInput keeps it: who goes on to queue_enqueue has elements left.       *)
LEMMA EndOfInputInv ==
    ASSUME Inv, NEW p \in Producers, EndOfInput(p) PROVE Inv'
<1> USE ConstantsLemma DEF Inv, Goto
<1>1. /\ p \in Threads /\ p \notin Consumers /\ pc[p] = "produce"
      /\ pc \in [Threads -> ProducerLabels \cup ConsumerLabels]
  BY DEF EndOfInput, TypeOK, Threads
<1>2. /\ pc'[p] \in {"terminate", "enqueue"}
      /\ pc'[p] = "enqueue" => ~ringbuffer_isEmpty(priv[p])
      /\ pc' \in [Threads -> ProducerLabels \cup ConsumerLabels]
      /\ \A t \in Threads : t # p => pc'[t] = pc[t]
  BY <1>1 DEF EndOfInput, ProducerLabels
<1>3. UNCHANGED <<buf, nTerminated, mutex, priv, i, produced, received>>
  BY DEF EndOfInput
<1>4. TypeOK'
  BY <1>1, <1>2, <1>3 DEF TypeOK, ProducerLabels, Threads
<1>5. MutexInv'
  BY <1>1, <1>2, <1>3 DEF MutexInv, Threads
<1>6. TerminatedInv'
  BY <1>1, <1>2, <1>3, TerminatedFrame DEF Threads
<1>7. BuffersInv' /\ ProducersInv' /\ ConsumersInv'
  BY <1>1, <1>2, <1>3 DEF BuffersInv, ProducersInv, ConsumersInv, Threads
<1> QED BY <1>4, <1>5, <1>6, <1>7

(* The entry of queue_enqueue keeps it (queue.c:82-91).                       *)
LEMMA EnqueueLockInv ==
    ASSUME Inv, NEW p \in Producers, EnqueueLock(p) PROVE Inv'
<1> USE ConstantsLemma DEF Inv, Goto
<1>1. /\ p \in Threads /\ p \notin Consumers /\ p # Nobody
      /\ pc[p] \in {"enqueue", "enqWoken"} /\ mutex = Nobody
      /\ pc \in [Threads -> ProducerLabels \cup ConsumerLabels]
      /\ ~ringbuffer_isEmpty(priv[p])
      /\ \A t \in Threads : t # Nobody
  BY DEF EnqueueLock, TypeOK, Threads, ProducersInv
<1>2. UNCHANGED <<buf, nTerminated, priv, produced, received>>
  BY DEF EnqueueLock
<1>3. /\ pc' \in [Threads -> ProducerLabels \cup ConsumerLabels]
      /\ \A t \in Threads : t # p => pc'[t] = pc[t]
      /\ \/ pc'[p] = "enqWait" /\ mutex' = Nobody /\ i' = i
         \/ pc'[p] = "enqMove" /\ mutex' = p /\ i' = 0 /\ ~ringbuffer_isFull(buf)
  BY <1>1 DEF EnqueueLock, ProducerLabels
<1>4. /\ \A q \in Producers : q # p => pc'[q] # "enqMove"
      /\ \A c \in Consumers : pc'[c] # "deqMove"
  BY <1>1, <1>3 DEF MutexInv, Threads
<1>5. TypeOK'
  <2>1. mutex' \in Threads \cup {Nobody} /\ i' \in Nat
    BY <1>1, <1>3 DEF TypeOK
  <2>2. \A q \in Producers : pc'[q] \in ProducerLabels
    BY <1>3 DEF TypeOK, ProducerLabels, Threads
  <2>3. \A c \in Consumers : pc'[c] \in ConsumerLabels
    BY <1>1, <1>3 DEF TypeOK, Threads
  <2> QED BY <1>2, <1>3, <2>1, <2>2, <2>3 DEF TypeOK
<1>6. MutexInv'
  BY <1>1, <1>3, <1>4 DEF MutexInv, Threads
<1>7. TerminatedInv'
  BY <1>1, <1>2, <1>3, TerminatedFrame DEF Threads
<1>8. BuffersInv'
  BY <1>2 DEF BuffersInv
<1>9. ProducersInv' /\ ConsumersInv'
  BY <1>1, <1>2, <1>3, <1>4 DEF ProducersInv, ConsumersInv, Threads
<1> QED BY <1>5, <1>6, <1>7, <1>8, <1>9

(* Moving one element into the queue keeps it (queue.c:95-104).               *)
LEMMA EnqueueMoveInv ==
    ASSUME Inv, NEW p \in Producers, EnqueueMove(p) PROVE Inv'
<1> USE ConstantsLemma DEF Inv
<1> DEFINE x == ringbuffer_front(priv[p])
           S == Items \cup {Junk}
<1>1. /\ p \in Threads /\ p \notin Consumers /\ p # Nobody
      /\ pc[p] = "enqMove" /\ mutex = p
      /\ buf \in RingBuffers(Capacity, S) /\ Holds(buf, Items) /\ ~ringbuffer_isFull(buf)
      /\ priv[p] \in RingBuffers(InsertLimit, S) /\ Holds(priv[p], Items)
      /\ ~ringbuffer_isEmpty(priv[p])
      /\ DOMAIN priv = Threads
  BY DEF EnqueueMove, EnqueueMore, TypeOK, Threads, MutexInv, BuffersInv
<1>2. /\ ringbuffer_remove(priv[p]) \in RingBuffers(InsertLimit, S)
      /\ Holds(ringbuffer_remove(priv[p]), Items)
      /\ ~ringbuffer_isFull(ringbuffer_remove(priv[p]))
      /\ x \in Items /\ x \in S
  BY <1>1, RemoveLemma
<1>3. /\ buf' \in RingBuffers(Capacity, S)
      /\ Holds(buf', Items)
      /\ ~ringbuffer_isEmpty(buf')
  BY <1>1, <1>2, InsertLemma DEF EnqueueMove
<1>4. /\ priv'[p] = ringbuffer_remove(priv[p])
      /\ DOMAIN priv' = Threads
      /\ \A t \in Threads : t # p => priv'[t] = priv[t]
  BY <1>1 DEF EnqueueMove
<1>5. UNCHANGED <<nTerminated, mutex, pc, produced, received>> /\ i' = i + 1
  BY DEF EnqueueMove
<1>6. /\ \A q \in Producers : q # p => pc[q] # "enqMove"
      /\ \A c \in Consumers : pc[c] # "deqMove"
  BY <1>1 DEF MutexInv, Threads
<1>7. TypeOK'
  <2>1. i' \in Nat
    BY <1>5 DEF TypeOK
  <2>2. \A q \in Producers : priv'[q] \in RingBuffers(InsertLimit, S)
    BY <1>2, <1>4 DEF TypeOK, Threads
  <2>3. \A c \in Consumers : priv'[c] \in RingBuffers(FetchLimit, S)
    BY <1>1, <1>4 DEF TypeOK, Threads
  <2> QED BY <1>3, <1>4, <1>5, <2>1, <2>2, <2>3 DEF TypeOK
<1>8. MutexInv' /\ TerminatedInv'
  BY <1>5 DEF MutexInv, TerminatedInv, Terminated
<1>9. BuffersInv'
  BY <1>2, <1>3, <1>4 DEF BuffersInv
<1>10. ProducersInv' /\ ConsumersInv'
  <2>1. i' # 0 /\ i \in Nat
    BY <1>5 DEF TypeOK
  <2> QED BY <1>1, <1>2, <1>3, <1>4, <1>5, <1>6, <2>1 DEF ProducersInv, ConsumersInv, Threads
<1> QED BY <1>7, <1>8, <1>9, <1>10

(* A producer that is about to return from queue_enqueue has moved at least   *)
(* one element (the callers' assert(r >= 1)).                                 *)
LEMMA EnqueuedSome ==
    ASSUME Inv, NEW p \in Producers, pc[p] = "enqMove", ~EnqueueMore(p) PROVE i >= 1
<1>1. i \in Nat /\ (i = 0 => ~ringbuffer_isFull(buf) /\ ~ringbuffer_isEmpty(priv[p]))
  BY DEF Inv, TypeOK, ProducersInv
<1>2. CASE i = 0
  BY <1>1, <1>2, ConstantsLemma DEF EnqueueMore
<1> QED BY <1>1, <1>2

(* The return from queue_enqueue keeps it (queue.c:105-110).                  *)
LEMMA EnqueueReturnInv ==
    ASSUME Inv, NEW p \in Producers, EnqueueReturn(p) PROVE Inv'
<1> USE ConstantsLemma DEF Inv, Goto
<1>1. /\ p \in Threads /\ p \notin Consumers /\ p # Nobody
      /\ pc[p] = "enqMove" /\ mutex = p /\ i >= 1
      /\ pc \in [Threads -> ProducerLabels \cup ConsumerLabels]
      /\ ~ringbuffer_isFull(priv[p])
  <2>1. pc[p] = "enqMove" /\ mutex = p
    BY DEF EnqueueReturn, MutexInv
  <2>2. i \in Nat /\ i >= 1
    BY EnqueuedSome DEF EnqueueReturn, TypeOK
  <2>3. ~ringbuffer_isFull(priv[p])
    BY <2>1, <2>2 DEF ProducersInv
  <2> QED BY <2>1, <2>2, <2>3 DEF TypeOK, Threads
<1>2. UNCHANGED <<buf, nTerminated, priv, i, produced, received>> /\ mutex' = Nobody
  BY DEF EnqueueReturn
<1>3. /\ pc' \in [Threads -> ProducerLabels \cup ConsumerLabels]
      /\ pc'[p] = "produce"
      /\ \A q \in Producers : q # p => pc'[q] = pc[q]
      /\ \A c \in Consumers : \/ pc'[c] = pc[c]
                              \/ pc[c] = "deqWait" /\ pc'[c] = "deqWoken"
  <2>1. CASE notEmpty # {} /\ i > 0
    <3>1. PICK c \in notEmpty : pc' = [pc EXCEPT ![p] = "produce", ![c] = "deqWoken"]
      BY <2>1 DEF EnqueueReturn
    <3>2. c \in Consumers /\ c \in Threads /\ pc[c] = "deqWait"
      BY DEF notEmpty, Threads
    <3> QED BY <1>1, <3>1, <3>2 DEF ProducerLabels, ConsumerLabels, Threads
  <2>2. CASE ~(notEmpty # {} /\ i > 0)
    <3>1. pc' = [pc EXCEPT ![p] = "produce"]
      BY <2>2 DEF EnqueueReturn
    <3> QED BY <1>1, <3>1 DEF ProducerLabels, Threads
  <2> QED BY <2>1, <2>2
<1>4. /\ \A q \in Producers : q # p => pc[q] # "enqMove"
      /\ \A c \in Consumers : pc[c] # "deqMove"
  BY <1>1 DEF MutexInv, Threads
<1>5. TypeOK'
  BY <1>1, <1>2, <1>3 DEF TypeOK, ProducerLabels, ConsumerLabels, Threads
<1>6. MutexInv'
  BY <1>1, <1>2, <1>3, <1>4 DEF MutexInv, Threads
<1>7. TerminatedInv'
  BY <1>1, <1>2, <1>3, TerminatedFrame
<1>8. BuffersInv'
  BY <1>2 DEF BuffersInv
<1>9. ProducersInv' /\ ConsumersInv'
  BY <1>1, <1>2, <1>3, <1>4 DEF ProducersInv, ConsumersInv
<1> QED BY <1>5, <1>6, <1>7, <1>8, <1>9

(* queue_terminate keeps it: one more producer is done and is counted.        *)
LEMMA TerminateInv ==
    ASSUME Inv, NEW p \in Producers, Terminate(p) PROVE Inv'
<1> USE ConstantsLemma DEF Inv
<1>1. /\ p \in Threads /\ p \notin Consumers
      /\ pc[p] = "terminate" /\ mutex = Nobody
      /\ pc \in [Threads -> ProducerLabels \cup ConsumerLabels]
      /\ nTerminated \in Nat /\ nTerminated < nProducers
  BY OpenLemma DEF Terminate, TypeOK, Threads
<1>2. UNCHANGED <<buf, mutex, priv, i, produced, received>> /\ nTerminated' = nTerminated + 1
  BY DEF Terminate
<1>3. /\ pc' \in [Threads -> ProducerLabels \cup ConsumerLabels]
      /\ pc'[p] = "done"
      /\ \A q \in Producers : q # p => pc'[q] = pc[q]
      /\ \A c \in Consumers : \/ pc'[c] = pc[c]
                              \/ pc[c] = "deqWait" /\ pc'[c] = "deqWoken"
  BY <1>1 DEF Terminate, Threads, notEmpty, ProducerLabels, ConsumerLabels
<1>4. TypeOK'
  <2>1. nTerminated' \in 0 .. nProducers
    BY <1>1, <1>2
  <2>2. \A q \in Producers : pc'[q] \in ProducerLabels
    BY <1>3 DEF TypeOK, ProducerLabels
  <2>3. \A c \in Consumers : pc'[c] \in ConsumerLabels
    BY <1>3 DEF TypeOK, ConsumerLabels
  <2> QED BY <1>2, <1>3, <2>1, <2>2, <2>3 DEF TypeOK
<1>5. MutexInv'
  BY <1>1, <1>2, <1>3 DEF MutexInv
<1>6. TerminatedInv'
  <2>1. Terminated' = Terminated \cup {p} /\ p \notin Terminated
    BY <1>1, <1>3 DEF Terminated
  <2>2. IsFiniteSet(Terminated)
    BY ThreadsAssumption, FS_Subset DEF Terminated
  <2>3. Cardinality(Terminated \cup {p}) = Cardinality(Terminated) + 1
    BY <2>1, <2>2, FS_AddElement
  <2> QED BY <1>2, <2>1, <2>3 DEF TerminatedInv
<1>7. BuffersInv'
  BY <1>2 DEF BuffersInv
<1>8. ProducersInv' /\ ConsumersInv'
  BY <1>1, <1>2, <1>3 DEF ProducersInv, ConsumersInv
<1> QED BY <1>4, <1>5, <1>6, <1>7, <1>8

-----------------------------------------------------------------------------
(* Every action of a consumer keeps the invariant.                            *)

(* The entry of queue_dequeue keeps it (queue.c:49-63).                       *)
LEMMA DequeueLockInv ==
    ASSUME Inv, NEW c \in Consumers, DequeueLock(c) PROVE Inv'
<1> USE ConstantsLemma DEF Inv, Goto
<1>1. /\ c \in Threads /\ c \notin Producers /\ c # Nobody
      /\ pc[c] \in {"fetch", "deqWoken"} /\ mutex = Nobody
      /\ pc \in [Threads -> ProducerLabels \cup ConsumerLabels]
      /\ ringbuffer_isEmpty(priv[c])
      /\ \A t \in Threads : t # Nobody
  BY DEF DequeueLock, TypeOK, Threads, ConsumersInv
<1>2. UNCHANGED <<buf, nTerminated, priv, produced, received>>
  BY DEF DequeueLock
<1>3. /\ pc' \in [Threads -> ProducerLabels \cup ConsumerLabels]
      /\ \A t \in Threads : t # c => pc'[t] = pc[t]
      /\ \/ pc'[c] \in {"deqWait", "done"} /\ mutex' = Nobody /\ i' = i
         \/ pc'[c] = "deqMove" /\ mutex' = c /\ i' = 0 /\ ~ringbuffer_isEmpty(buf)
  BY <1>1 DEF DequeueLock, ConsumerLabels
<1>4. /\ \A p \in Producers : pc'[p] # "enqMove"
      /\ \A d \in Consumers : d # c => pc'[d] # "deqMove"
  BY <1>1, <1>3 DEF MutexInv, Threads
<1>5. TypeOK'
  <2>1. mutex' \in Threads \cup {Nobody} /\ i' \in Nat
    BY <1>1, <1>3 DEF TypeOK
  <2>2. \A p \in Producers : pc'[p] \in ProducerLabels
    BY <1>1, <1>3 DEF TypeOK, Threads
  <2>3. \A d \in Consumers : pc'[d] \in ConsumerLabels
    BY <1>3 DEF TypeOK, ConsumerLabels, Threads
  <2> QED BY <1>2, <1>3, <2>1, <2>2, <2>3 DEF TypeOK
<1>6. MutexInv'
  BY <1>1, <1>3, <1>4 DEF MutexInv, Threads
<1>7. TerminatedInv'
  BY <1>1, <1>2, <1>3, TerminatedFrame DEF Threads
<1>8. BuffersInv'
  BY <1>2 DEF BuffersInv
<1>9. ProducersInv' /\ ConsumersInv'
  BY <1>1, <1>2, <1>3, <1>4 DEF ProducersInv, ConsumersInv, Threads
<1> QED BY <1>5, <1>6, <1>7, <1>8, <1>9

(* Moving one element out of the queue keeps it (queue.c:67-75).              *)
LEMMA DequeueMoveInv ==
    ASSUME Inv, NEW c \in Consumers, DequeueMove(c) PROVE Inv'
<1> USE ConstantsLemma DEF Inv
<1> DEFINE x == ringbuffer_front(buf)
           S == Items \cup {Junk}
<1>1. /\ c \in Threads /\ c \notin Producers /\ c # Nobody
      /\ pc[c] = "deqMove" /\ mutex = c
      /\ buf \in RingBuffers(Capacity, S) /\ Holds(buf, Items) /\ ~ringbuffer_isEmpty(buf)
      /\ priv[c] \in RingBuffers(FetchLimit, S) /\ Holds(priv[c], Items)
      /\ ~ringbuffer_isFull(priv[c])
      /\ DOMAIN priv = Threads
  BY DEF DequeueMove, DequeueMore, TypeOK, Threads, MutexInv, BuffersInv
<1>2. /\ buf' \in RingBuffers(Capacity, S)
      /\ Holds(buf', Items)
      /\ x \in Items /\ x \in S
  BY <1>1, RemoveLemma DEF DequeueMove
<1>3. /\ ringbuffer_insert(priv[c], x) \in RingBuffers(FetchLimit, S)
      /\ Holds(ringbuffer_insert(priv[c], x), Items)
      /\ ~ringbuffer_isEmpty(ringbuffer_insert(priv[c], x))
  BY <1>1, <1>2, InsertLemma
<1>4. /\ priv'[c] = ringbuffer_insert(priv[c], x)
      /\ DOMAIN priv' = Threads
      /\ \A t \in Threads : t # c => priv'[t] = priv[t]
  BY <1>1 DEF DequeueMove
<1>5. UNCHANGED <<nTerminated, mutex, pc, produced, received>> /\ i' = i + 1
  BY DEF DequeueMove
<1>6. /\ \A p \in Producers : pc[p] # "enqMove"
      /\ \A d \in Consumers : d # c => pc[d] # "deqMove"
  BY <1>1 DEF MutexInv, Threads
<1>7. TypeOK'
  <2>1. i' \in Nat
    BY <1>5 DEF TypeOK
  <2>2. \A p \in Producers : priv'[p] \in RingBuffers(InsertLimit, S)
    BY <1>1, <1>4 DEF TypeOK, Threads
  <2>3. \A d \in Consumers : priv'[d] \in RingBuffers(FetchLimit, S)
    BY <1>3, <1>4 DEF TypeOK, Threads
  <2> QED BY <1>2, <1>4, <1>5, <2>1, <2>2, <2>3 DEF TypeOK
<1>8. MutexInv' /\ TerminatedInv'
  BY <1>5 DEF MutexInv, TerminatedInv, Terminated
<1>9. BuffersInv'
  BY <1>2, <1>3, <1>4 DEF BuffersInv
<1>10. ProducersInv' /\ ConsumersInv'
  <2>1. i' # 0 /\ i \in Nat
    BY <1>5 DEF TypeOK
  <2> QED BY <1>1, <1>2, <1>3, <1>4, <1>5, <1>6, <2>1 DEF ProducersInv, ConsumersInv, Threads
<1> QED BY <1>7, <1>8, <1>9, <1>10

(* A consumer that is about to return from queue_dequeue has moved at least   *)
(* one element.                                                               *)
LEMMA DequeuedSome ==
    ASSUME Inv, NEW c \in Consumers, pc[c] = "deqMove", ~DequeueMore(c) PROVE i >= 1
<1>1. i \in Nat /\ (i = 0 => ~ringbuffer_isEmpty(buf) /\ ringbuffer_isEmpty(priv[c]))
  BY DEF Inv, TypeOK, ConsumersInv
<1>2. priv[c] \in RingBuffers(FetchLimit, Items \cup {Junk})
  BY DEF Inv, TypeOK
<1>3. CASE i = 0
  <2>1. ~ringbuffer_isFull(priv[c])
    BY <1>1, <1>2, <1>3, EmptyIsNotFull, ConstantsLemma
  <2> QED BY <1>1, <1>3, <2>1, ConstantsLemma DEF DequeueMore
<1> QED BY <1>1, <1>3

(* The return from queue_dequeue keeps it (queue.c:76-80).                    *)
LEMMA DequeueReturnInv ==
    ASSUME Inv, NEW c \in Consumers, DequeueReturn(c) PROVE Inv'
<1> USE ConstantsLemma DEF Inv, Goto
<1>1. /\ c \in Threads /\ c \notin Producers /\ c # Nobody
      /\ pc[c] = "deqMove" /\ mutex = c /\ i >= 1
      /\ pc \in [Threads -> ProducerLabels \cup ConsumerLabels]
      /\ ~ringbuffer_isEmpty(priv[c])
  <2>1. pc[c] = "deqMove" /\ mutex = c
    BY DEF DequeueReturn, MutexInv
  <2>2. i \in Nat /\ i >= 1
    BY DequeuedSome DEF DequeueReturn, TypeOK
  <2>3. ~ringbuffer_isEmpty(priv[c])
    BY <2>1, <2>2 DEF ConsumersInv
  <2> QED BY <2>1, <2>2, <2>3 DEF TypeOK, Threads
<1>2. UNCHANGED <<buf, nTerminated, priv, i, produced, received>> /\ mutex' = Nobody
  BY DEF DequeueReturn
<1>3. /\ pc' \in [Threads -> ProducerLabels \cup ConsumerLabels]
      /\ pc'[c] = "consume"
      /\ \A d \in Consumers : d # c => pc'[d] = pc[d]
      /\ \A p \in Producers : \/ pc'[p] = pc[p]
                              \/ pc[p] = "enqWait" /\ pc'[p] = "enqWoken"
  <2>1. CASE notFull # {} /\ i > 0
    <3>1. PICK p \in notFull : pc' = [pc EXCEPT ![c] = "consume", ![p] = "enqWoken"]
      BY <2>1 DEF DequeueReturn
    <3>2. p \in Producers /\ p \in Threads /\ pc[p] = "enqWait"
      BY DEF notFull, Threads
    <3> QED BY <1>1, <3>1, <3>2 DEF ProducerLabels, ConsumerLabels, Threads
  <2>2. CASE ~(notFull # {} /\ i > 0)
    <3>1. pc' = [pc EXCEPT ![c] = "consume"]
      BY <2>2 DEF DequeueReturn
    <3> QED BY <1>1, <3>1 DEF ConsumerLabels, Threads
  <2> QED BY <2>1, <2>2
<1>4. /\ \A p \in Producers : pc[p] # "enqMove"
      /\ \A d \in Consumers : d # c => pc[d] # "deqMove"
  BY <1>1 DEF MutexInv, Threads
<1>5. TypeOK'
  BY <1>1, <1>2, <1>3 DEF TypeOK, ProducerLabels, ConsumerLabels, Threads
<1>6. MutexInv'
  BY <1>1, <1>2, <1>3, <1>4 DEF MutexInv, Threads
<1>7. TerminatedInv'
  BY <1>1, <1>2, <1>3, TerminatedFrame
<1>8. BuffersInv'
  BY <1>2 DEF BuffersInv
<1>9. ProducersInv' /\ ConsumersInv'
  BY <1>1, <1>2, <1>3, <1>4 DEF ProducersInv, ConsumersInv
<1> QED BY <1>5, <1>6, <1>7, <1>8, <1>9

(* Consume keeps it: a consumer at this point has an element to work on.      *)
LEMMA ConsumeInv ==
    ASSUME Inv, NEW c \in Consumers, Consume(c) PROVE Inv'
<1> USE ConstantsLemma DEF Inv, Goto
<1>1. /\ c \in Threads /\ c \notin Producers
      /\ pc[c] = "consume"
      /\ pc \in [Threads -> ProducerLabels \cup ConsumerLabels]
      /\ priv[c] \in RingBuffers(FetchLimit, Items \cup {Junk}) /\ Holds(priv[c], Items)
      /\ ~ringbuffer_isEmpty(priv[c])
      /\ DOMAIN priv = Threads
  BY DEF Consume, TypeOK, Threads, BuffersInv, ConsumersInv
<1>2. /\ ringbuffer_remove(priv[c]) \in RingBuffers(FetchLimit, Items \cup {Junk})
      /\ Holds(ringbuffer_remove(priv[c]), Items)
      /\ ringbuffer_front(priv[c]) \in Items
  BY <1>1, RemoveLemma
<1>3. /\ priv'[c] = ringbuffer_remove(priv[c])
      /\ DOMAIN priv' = Threads
      /\ \A t \in Threads : t # c => priv'[t] = priv[t]
  BY <1>1 DEF Consume
<1>4. /\ pc' \in [Threads -> ProducerLabels \cup ConsumerLabels]
      /\ \A t \in Threads : t # c => pc'[t] = pc[t]
      /\ \/ pc'[c] = "fetch" /\ ringbuffer_isEmpty(priv'[c])
         \/ pc'[c] = "consume" /\ ~ringbuffer_isEmpty(priv'[c])
  BY <1>1 DEF Consume, ConsumerLabels
<1>5. UNCHANGED <<buf, nTerminated, mutex, i, produced>>
  BY DEF Consume
<1>6. TypeOK'
  <2>1. received' \in [Consumers -> Seq(Items)]
    BY <1>2 DEF Consume, TypeOK
  <2>2. \A p \in Producers : /\ pc'[p] \in ProducerLabels
                             /\ priv'[p] \in RingBuffers(InsertLimit, Items \cup {Junk})
    BY <1>1, <1>3, <1>4 DEF TypeOK, Threads
  <2>3. \A d \in Consumers : /\ pc'[d] \in ConsumerLabels
                             /\ priv'[d] \in RingBuffers(FetchLimit, Items \cup {Junk})
    BY <1>2, <1>3, <1>4 DEF TypeOK, Threads, ConsumerLabels
  <2> QED BY <1>3, <1>4, <1>5, <2>1, <2>2, <2>3 DEF TypeOK
<1>7. MutexInv'
  BY <1>1, <1>4, <1>5 DEF MutexInv, Threads
<1>8. TerminatedInv'
  BY <1>1, <1>4, <1>5, TerminatedFrame DEF Threads
<1>9. BuffersInv'
  BY <1>2, <1>3, <1>5 DEF BuffersInv
<1>10. ProducersInv' /\ ConsumersInv'
  BY <1>1, <1>3, <1>4, <1>5 DEF ProducersInv, ConsumersInv, Threads
<1> QED BY <1>6, <1>7, <1>8, <1>9, <1>10

(* A wakeup nobody asked for keeps it, because the sleeper tests again.       *)
LEMMA SpuriousWakeupInv ==
    ASSUME Inv, NEW t \in Threads, SpuriousWakeup(t) PROVE Inv'
<1> USE ConstantsLemma DEF Inv, Goto
<1>1. pc \in [Threads -> ProducerLabels \cup ConsumerLabels]
  BY DEF TypeOK
<1>2. /\ pc' \in [Threads -> ProducerLabels \cup ConsumerLabels]
      /\ \A s \in Threads : s # t => pc'[s] = pc[s]
      /\ \/ pc[t] = "enqWait" /\ pc'[t] = "enqWoken"
         \/ pc[t] = "deqWait" /\ pc'[t] = "deqWoken"
  BY <1>1 DEF SpuriousWakeup, ProducerLabels, ConsumerLabels
<1>3. UNCHANGED <<buf, nTerminated, mutex, priv, i, produced, received>>
  BY DEF SpuriousWakeup
<1>4. TypeOK'
  BY <1>2, <1>3 DEF TypeOK, ProducerLabels, ConsumerLabels, Threads
<1>5. MutexInv'
  BY <1>2, <1>3 DEF MutexInv, Threads
<1>6. TerminatedInv'
  BY <1>2, <1>3, TerminatedFrame DEF Threads
<1>7. BuffersInv' /\ ProducersInv' /\ ConsumersInv'
  BY <1>2, <1>3 DEF BuffersInv, ProducersInv, ConsumersInv, Threads
<1> QED BY <1>4, <1>5, <1>6, <1>7

-----------------------------------------------------------------------------
(* Every step keeps the invariant.                                            *)
LEMMA NextInv == Inv /\ [Next]_vars => Inv'
<1> SUFFICES ASSUME Inv, [Next]_vars PROVE Inv'
  OBVIOUS
<1>1. CASE \E p \in Producers : ProducerStep(p)
  <2> PICK p \in Producers : ProducerStep(p)
    BY <1>1
  <2> QED
    BY ProduceInv, EndOfInputInv, EnqueueLockInv, EnqueueMoveInv, EnqueueReturnInv, TerminateInv
       DEF ProducerStep
<1>2. CASE \E c \in Consumers : ConsumerStep(c)
  <2> PICK c \in Consumers : ConsumerStep(c)
    BY <1>2
  <2> QED
    BY DequeueLockInv, DequeueMoveInv, DequeueReturnInv, ConsumeInv DEF ConsumerStep
<1>3. CASE \E t \in Threads : SpuriousWakeup(t)
  BY <1>3, SpuriousWakeupInv
<1>4. CASE Finished \/ UNCHANGED vars
  BY <1>4 DEF Finished, vars, Inv, TypeOK, MutexInv, TerminatedInv, Terminated, BuffersInv,
              ProducersInv, ConsumersInv, EnqueueMore, DequeueMore, queue_isTerminated
<1> QED BY <1>1, <1>2, <1>3, <1>4 DEF Next

(* The inductive invariant holds throughout (queue.c as encoder.c uses it).   *)
THEOREM Invariance == Spec => []Inv
<1> QED BY InitInv, NextInv, PTL DEF Spec

(* Types: every ring buffer's indices stay inside its slots (queue.h:66-91),  *)
(* only items come out of a buffer, and nTerminated never passes nProducers.  *)
THEOREM TypeCorrect == Spec => []TypeOK
<1>1. Inv => TypeOK
  BY DEF Inv
<1> QED BY <1>1, Invariance, PTL

(* The assertion of queue_enqueue (queue.c:88) can never fail.                *)
THEOREM NoEnqueueAfterTermination == Spec => []EnqueueOnOpenQueue
<1>1. Inv => EnqueueOnOpenQueue
  <2> SUFFICES ASSUME Inv, NEW p \in Producers, pc[p] # "done" PROVE ~queue_isTerminated
    BY DEF EnqueueOnOpenQueue
  <2> QED BY OpenLemma, ConstantsLemma DEF Inv, queue_isTerminated
<1> QED BY <1>1, Invariance, PTL

(* No call returns without having moved an element: the callers' assertions   *)
(* on the result, and the removals they do without looking, are safe.         *)
THEOREM NoEmptyBatch == Spec => []BatchesAreNotEmpty
<1>1. Inv => BatchesAreNotEmpty
  <2> SUFFICES ASSUME Inv PROVE BatchesAreNotEmpty
    OBVIOUS
  <2>1. \A p \in Producers : pc[p] = "enqMove" /\ ~EnqueueMore(p) => i >= 1
    BY EnqueuedSome
  <2>2. \A c \in Consumers : pc[c] = "consume" => ~ringbuffer_isEmpty(priv[c])
    BY DEF Inv, ConsumersInv
  <2> QED BY <2>1, <2>2 DEF BatchesAreNotEmpty
<1> QED BY <1>1, Invariance, PTL

-----------------------------------------------------------------------------
(* One signal per batch is enough.                                            *)

(* Nobody sleeps on a queue that has been terminated.                         *)
NobodySleepsOnAClosedQueue == queue_isTerminated => notEmpty = {}

SignalInv == NobodySleepsOnAClosedQueue /\ NoStrandedElements /\ NoStrandedProducer

(* At the start nobody sleeps.                                                *)
LEMMA InitSignal == Init => SignalInv
<1> SUFFICES ASSUME Init PROVE notEmpty = {} /\ notFull = {}
  BY DEF SignalInv, NobodySleepsOnAClosedQueue, NoStrandedElements, NoStrandedProducer
<1> QED BY ThreadsAssumption DEF Init, notEmpty, notFull, Threads

(* What each action needs to know of the invariant.                           *)
LEMMA InvFacts ==
    ASSUME Inv
    PROVE  /\ pc \in [Threads -> ProducerLabels \cup ConsumerLabels]
           /\ \A p \in Producers : p \in Threads /\ p \notin Consumers
           /\ \A c \in Consumers : c \in Threads /\ c \notin Producers
           /\ mutex = Nobody => /\ \A p \in Producers : pc[p] # "enqMove"
                                /\ \A c \in Consumers : pc[c] # "deqMove"
           /\ ringbuffer_isFull(buf) => ~ringbuffer_isEmpty(buf)
           /\ i \in Nat
<1> USE DEF Inv
<1>1. ringbuffer_isFull(buf) => ~ringbuffer_isEmpty(buf)
  BY EmptyIsNotFull, ConstantsLemma DEF TypeOK
<1>2. mutex = Nobody => /\ \A p \in Producers : pc[p] # "enqMove"
                        /\ \A c \in Consumers : pc[c] # "deqMove"
  BY ConstantsLemma DEF MutexInv, Threads
<1> QED BY <1>1, <1>2, ConstantsLemma DEF TypeOK, Threads

(* No step of a producer leaves a sleeper without somebody to wake it.        *)
LEMMA ProducerSignal ==
    ASSUME Inv, SignalInv, NEW p \in Producers, ProducerStep(p) PROVE SignalInv'
<1> USE InvFacts DEF Goto, notEmpty, notFull, queue_isTerminated,
                     NobodySleepsOnAClosedQueue, NoStrandedElements, NoStrandedProducer
<1>1. CASE Produce(p)
  BY <1>1 DEF Produce, SignalInv
<1>2. CASE EndOfInput(p)
  BY <1>2 DEF EndOfInput, SignalInv
<1>3. CASE EnqueueLock(p)
  BY <1>3 DEF EnqueueLock, SignalInv
<1>4. CASE EnqueueMove(p)
  <2>1. ~ringbuffer_isEmpty(buf')
    <3>1. ~ringbuffer_isEmpty(priv[p]) /\ ~ringbuffer_isFull(buf)
      BY <1>4 DEF EnqueueMove, EnqueueMore
    <3>2. /\ ringbuffer_front(priv[p]) \in Items \cup {Junk}
          /\ buf \in RingBuffers(Capacity, Items \cup {Junk})
      BY <3>1, RemoveLemma, ConstantsLemma DEF Inv, TypeOK
    <3> QED BY <1>4, <3>1, <3>2, InsertLemma, ConstantsLemma DEF EnqueueMove
  <2>2. pc[p] = "enqMove" /\ UNCHANGED <<pc, nTerminated>>
    BY <1>4 DEF EnqueueMove
  <2> QED BY <2>1, <2>2 DEF SignalInv
<1>5. CASE EnqueueReturn(p)
  <2>1. i > 0 /\ ~ringbuffer_isEmpty(buf) /\ UNCHANGED <<buf, nTerminated>>
    BY <1>5, EnqueuedSome DEF EnqueueReturn, Inv, ProducersInv
  <2>2. CASE notEmpty = {}
    <3>1. pc' = [pc EXCEPT ![p] = "produce"]
      BY <1>5, <2>2 DEF EnqueueReturn
    <3> QED BY <2>1, <2>2, <3>1 DEF SignalInv
  <2>3. CASE notEmpty # {}
    <3>1. PICK c \in notEmpty : pc' = [pc EXCEPT ![p] = "produce", ![c] = "deqWoken"]
      BY <1>5, <2>1, <2>3 DEF EnqueueReturn
    <3>2. pc'[c] = "deqWoken" /\ \A d \in Consumers : d # c => pc'[d] = pc[d]
      BY <3>1
    <3> QED BY <2>1, <3>2 DEF SignalInv
  <2> QED BY <2>2, <2>3
<1>6. CASE Terminate(p)
  BY <1>6 DEF Terminate, SignalInv
<1> QED BY <1>1, <1>2, <1>3, <1>4, <1>5, <1>6 DEF ProducerStep

(* No step of a consumer leaves a sleeper without somebody to wake it.        *)
LEMMA ConsumerSignal ==
    ASSUME Inv, SignalInv, NEW c \in Consumers, ConsumerStep(c) PROVE SignalInv'
<1> USE InvFacts DEF Goto, notEmpty, notFull, queue_isTerminated,
                     NobodySleepsOnAClosedQueue, NoStrandedElements, NoStrandedProducer
<1>1. CASE DequeueLock(c)
  BY <1>1 DEF DequeueLock, SignalInv
<1>2. CASE DequeueMove(c)
  BY <1>2 DEF DequeueMove, SignalInv
<1>3. CASE DequeueReturn(c)
  <2>1. i > 0 /\ UNCHANGED <<buf, nTerminated>>
    BY <1>3, DequeuedSome DEF DequeueReturn
  <2>2. CASE notFull = {}
    <3>1. pc' = [pc EXCEPT ![c] = "consume"]
      BY <1>3, <2>2 DEF DequeueReturn
    <3> QED BY <2>1, <2>2, <3>1 DEF SignalInv
  <2>3. CASE notFull # {}
    <3>1. PICK p \in notFull : pc' = [pc EXCEPT ![c] = "consume", ![p] = "enqWoken"]
      BY <1>3, <2>1, <2>3 DEF DequeueReturn
    <3>2. /\ pc'[c] = "consume" /\ pc'[p] = "enqWoken"
          /\ \A d \in Consumers : d # c => pc'[d] = pc[d]
      BY <3>1
    <3> QED BY <2>1, <3>2 DEF SignalInv
  <2> QED BY <2>2, <2>3
<1>4. CASE Consume(c)
  BY <1>4 DEF Consume, SignalInv
<1> QED BY <1>1, <1>2, <1>3, <1>4 DEF ConsumerStep

(* No step at all leaves a sleeper without somebody to wake it.               *)
LEMMA NextSignal == Inv /\ SignalInv /\ [Next]_vars => SignalInv'
<1> SUFFICES ASSUME Inv, SignalInv, [Next]_vars PROVE SignalInv'
  OBVIOUS
<1> USE DEF notEmpty, notFull, queue_isTerminated, SignalInv,
            NobodySleepsOnAClosedQueue, NoStrandedElements, NoStrandedProducer
<1>1. CASE \E p \in Producers : ProducerStep(p)
  BY <1>1, ProducerSignal
<1>2. CASE \E c \in Consumers : ConsumerStep(c)
  BY <1>2, ConsumerSignal
<1>3. CASE \E t \in Threads : SpuriousWakeup(t)
  BY <1>3, InvFacts DEF SpuriousWakeup, Goto
<1>4. CASE Finished \/ UNCHANGED vars
  BY <1>4 DEF Finished, vars
<1> QED BY <1>1, <1>2, <1>3, <1>4 DEF Next

(* The signals of queue.c never leave a sleeper behind.                       *)
LEMMA SignalInvariance == Spec => []SignalInv
<1> QED BY InitSignal, NextSignal, Invariance, PTL DEF Spec

(* While elements wait in the queue somebody will come for them, although a   *)
(* batch of many elements signals notEmpty only once (queue.c:107).           *)
THEOREM NoElementIsStranded == Spec => []NoStrandedElements
<1>1. SignalInv => NoStrandedElements
  BY DEF SignalInv
<1> QED BY <1>1, SignalInvariance, PTL

(* A producer that sleeps on an empty queue is not alone: another producer is *)
(* about to fill it, or a consumer is about to signal notFull (queue.c:77).   *)
THEOREM NoProducerIsStranded == Spec => []NoStrandedProducer
<1>1. SignalInv => NoStrandedProducer
  BY DEF SignalInv
<1> QED BY <1>1, SignalInvariance, PTL
-----------------------------------------------------------------------------
(* The queue and its batches as one bounded FIFO.                             *)

(* A producer shuts down when it has made everything and handed it over.      *)
Drained ==
    \A p \in Producers : pc[p] \in {"terminate", "done"} =>
        ringbuffer_isEmpty(priv[p]) /\ produced[p] = Quota

(* In the beginning no producer is done.                                      *)
LEMMA InitDrained == Init => Drained
BY ThreadsAssumption DEF Init, Drained, Threads

(* A producer that is done has handed over everything it had.                 *)
LEMMA NextDrained == Inv /\ Drained /\ [Next]_vars => Drained'
<1> SUFFICES ASSUME Inv, Drained, [Next]_vars PROVE Drained'
  OBVIOUS
<1>1. /\ pc \in [Threads -> ProducerLabels \cup ConsumerLabels] /\ DOMAIN priv = Threads
      /\ \A p \in Producers : p \in Threads
      /\ \A c \in Consumers : c \in Threads /\ \A p \in Producers : p # c
  BY ThreadsAssumption DEF Inv, TypeOK, Threads
<1>2. ASSUME NEW p \in Producers, ProducerStep(p) PROVE Drained'
  <2>1. \A q \in Producers \ {p} : /\ pc'[q] = pc[q] /\ priv'[q] = priv[q]
                                   /\ produced'[q] = produced[q]
    <3>1. CASE Produce(p)
      BY <1>1, <3>1 DEF Produce, Goto, Inv, TypeOK
    <3>2. CASE EndOfInput(p)
      BY <1>1, <3>2 DEF EndOfInput, Goto
    <3>3. CASE EnqueueLock(p)
      BY <1>1, <3>3 DEF EnqueueLock, Goto
    <3>4. CASE EnqueueMove(p)
      BY <1>1, <3>4 DEF EnqueueMove
    <3>5. CASE EnqueueReturn(p)
      <4>1. /\ priv' = priv /\ produced' = produced
            /\ \/ pc' = [pc EXCEPT ![p] = "produce"]
               \/ \E c \in Consumers : pc' = [pc EXCEPT ![p] = "produce", ![c] = "deqWoken"]
        BY <3>5 DEF EnqueueReturn, Goto, notEmpty
      <4> QED
        BY <1>1, <4>1
    <3>6. CASE Terminate(p)
      <4>1. /\ priv' = priv /\ produced' = produced
            /\ \A t \in Threads \ {p} : pc'[t] = pc[t] \/ t \in Consumers
        BY <3>6 DEF Terminate, notEmpty
      <4> QED
        BY <1>1, <4>1
    <3> QED
      BY <1>2, <3>1, <3>2, <3>3, <3>4, <3>5, <3>6 DEF ProducerStep
  <2>2. pc'[p] \in {"terminate", "done"} => ringbuffer_isEmpty(priv'[p]) /\ produced'[p] = Quota
    <3>1. CASE Produce(p)
      BY <1>1, <3>1 DEF Produce, Goto
    <3>2. CASE EndOfInput(p)
      BY <1>1, <3>2 DEF EndOfInput, Goto
    <3>3. CASE EnqueueLock(p)
      BY <1>1, <3>3 DEF EnqueueLock, Goto
    <3>4. CASE EnqueueMove(p)
      BY <1>1, <3>4 DEF EnqueueMove
    <3>5. CASE EnqueueReturn(p)
      <4>1. \/ pc' = [pc EXCEPT ![p] = "produce"]
            \/ \E c \in Consumers : pc' = [pc EXCEPT ![p] = "produce", ![c] = "deqWoken"]
        BY <3>5 DEF EnqueueReturn, Goto, notEmpty
      <4> QED
        BY <1>1, <4>1
    <3>6. CASE Terminate(p)
      BY <1>1, <3>6 DEF Terminate, Drained
    <3> QED
      BY <1>2, <3>1, <3>2, <3>3, <3>4, <3>5, <3>6 DEF ProducerStep
  <2> QED
    BY <2>1, <2>2 DEF Drained
<1>3. ASSUME NEW c \in Consumers, ConsumerStep(c) PROVE Drained'
  <2>1. \A p \in Producers : /\ pc'[p] = pc[p] \/ pc'[p] = "enqWoken"
                             /\ priv'[p] = priv[p] /\ produced'[p] = produced[p]
    <3>1. CASE DequeueLock(c)
      BY <1>1, <3>1 DEF DequeueLock, Goto
    <3>2. CASE DequeueMove(c)
      BY <1>1, <3>2 DEF DequeueMove
    <3>3. CASE DequeueReturn(c)
      <4>1. /\ priv' = priv /\ produced' = produced
            /\ \/ pc' = [pc EXCEPT ![c] = "consume"]
               \/ \E p \in Producers : pc' = [pc EXCEPT ![c] = "consume", ![p] = "enqWoken"]
        BY <3>3 DEF DequeueReturn, Goto, notFull
      <4> QED
        BY <1>1, <4>1
    <3>4. CASE Consume(c)
      BY <1>1, <3>4 DEF Consume, Goto
    <3> QED
      BY <1>3, <3>1, <3>2, <3>3, <3>4 DEF ConsumerStep
  <2> QED
    BY <2>1 DEF Drained
<1>4. CASE \E t \in Threads : SpuriousWakeup(t)
  BY <1>1, <1>4 DEF SpuriousWakeup, Goto, Drained
<1>5. CASE Finished \/ UNCHANGED vars
  BY <1>5 DEF Finished, vars, Drained
<1> QED
  BY <1>2, <1>3, <1>4, <1>5 DEF Next

(* The four variables of the FIFO.                                            *)
Left(p)    == SubSeq(ElementsOf(p), produced[p] + 1, Quota)
Pending(p) == Contents(priv[p]) \o Left(p)
Taken(c)   == received[c] \o Contents(priv[c])
PendingBar == [p \in Producers |-> Pending(p)]
TakenBar   == [c \in Consumers |-> Taken(c)]

(* What is left of a sequence after its first m elements.                     *)
LEMMA SuffixLength ==
    ASSUME NEW S, NEW E \in Seq(S), NEW m \in 0 .. Len(E)
    PROVE  Len(SubSeq(E, m + 1, Len(E))) = Len(E) - m
OBVIOUS

(* What is left of a sequence after its first m elements.                     *)
LEMMA SuffixLemma ==
    ASSUME NEW S, NEW E \in Seq(S), NEW m \in 0 .. Len(E)
    PROVE  /\ SubSeq(E, m + 1, Len(E)) \in Seq(S)
           /\ m < Len(E) =>
                /\ SubSeq(E, m + 1, Len(E)) # << >>
                /\ Head(SubSeq(E, m + 1, Len(E))) = E[m + 1]
                /\ Tail(SubSeq(E, m + 1, Len(E))) = SubSeq(E, m + 2, Len(E))
           /\ m = Len(E) => SubSeq(E, m + 1, Len(E)) = << >>
<1>0. Len(E) \in Nat /\ m \in Nat
  BY LenProperties
<1>1. /\ Len(E) \in Nat /\ m \in Nat /\ m <= Len(E) /\ m + 1 \in Int /\ Len(E) \in Int
      /\ \A k \in m + 1 .. Len(E) : E[k] \in S
  BY <1>0, ElementOfSeq
<1>2. SubSeq(E, m + 1, Len(E)) \in Seq(S)
  BY <1>1, SubSeqProperties
<1>3. ASSUME m < Len(E)
      PROVE  /\ SubSeq(E, m + 1, Len(E)) # << >>
             /\ Head(SubSeq(E, m + 1, Len(E))) = E[m + 1]
             /\ Tail(SubSeq(E, m + 1, Len(E))) = SubSeq(E, m + 2, Len(E))
  <2>1. m + 1 \in 1 .. Len(E) /\ Len(E) \in m + 1 .. Len(E) /\ (m + 1) + 1 = m + 2
    BY <1>1, <1>3
  <2>2. m + 1 <= Len(E)
    BY <1>1, <1>3
  <2>3. SubSeq(E, m + 1, Len(E)) # << >>
    <3>1. Len(SubSeq(E, m + 1, Len(E))) = Len(E) - m
      BY SuffixLength, Zenon
    <3>2. Len(E) - m # 0
      BY <1>0, <1>3
    <3>3. Len(<< >>) = 0
      BY EmptySeq
    <3> QED
      BY <3>1, <3>2, <3>3, Zenon
  <2>4. /\ Head(SubSeq(E, m + 1, Len(E))) = E[m + 1]
        /\ Tail(SubSeq(E, m + 1, Len(E))) = SubSeq(E, (m + 1) + 1, Len(E))
    BY <2>1, HeadTailOfSubSeq
  <2> QED
    BY <2>1, <2>3, <2>4
<1>4. ASSUME m = Len(E) PROVE SubSeq(E, m + 1, Len(E)) = << >>
  <2>1. Len(E) < m + 1
    BY <1>1, <1>4
  <2> QED
    BY <1>1, <2>1, SubSeqEmpty
<1> QED
  BY <1>2, <1>3, <1>4

(* What is left of a producer's elements after the first m of them.           *)
LEMMA ElementsLemma ==
    ASSUME NEW p \in Producers, NEW m \in 0 .. Quota
    PROVE  /\ SubSeq(ElementsOf(p), m + 1, Quota) \in Seq(Items)
           /\ m < Quota =>
                /\ SubSeq(ElementsOf(p), m + 1, Quota) # << >>
                /\ Head(SubSeq(ElementsOf(p), m + 1, Quota)) = <<p, m + 1>>
                /\ Tail(SubSeq(ElementsOf(p), m + 1, Quota))
                     = SubSeq(ElementsOf(p), m + 2, Quota)
           /\ m = Quota => SubSeq(ElementsOf(p), m + 1, Quota) = << >>
<1>1. Quota \in Nat /\ \A k \in 1 .. Quota : <<p, k>> \in Items
  BY ConstantsLemma
<1>2. ElementsOf(p) \in [1 .. Quota -> Items]
  BY <1>1 DEF ElementsOf
<1>3. ElementsOf(p) \in Seq(Items) /\ Len(ElementsOf(p)) = Quota
  BY <1>1, <1>2
<1>4. PICK E \in Seq(Items) : E = ElementsOf(p)
  BY <1>3
<1>5. Len(E) = Quota /\ m \in 0 .. Len(E)
  BY <1>3, <1>4
<1>6. m < Quota => E[m + 1] = <<p, m + 1>>
  BY <1>1, <1>4 DEF ElementsOf
<1>7. /\ SubSeq(E, m + 1, Len(E)) \in Seq(Items)
      /\ m < Len(E) =>
           /\ SubSeq(E, m + 1, Len(E)) # << >>
           /\ Head(SubSeq(E, m + 1, Len(E))) = E[m + 1]
           /\ Tail(SubSeq(E, m + 1, Len(E))) = SubSeq(E, m + 2, Len(E))
      /\ m = Len(E) => SubSeq(E, m + 1, Len(E)) = << >>
  BY <1>5, SuffixLemma
<1> QED
  BY <1>4, <1>5, <1>6, <1>7, Zenon

(* The types of what the refinement mapping reads off the buffers.            *)
LEMMA BarTypes ==
    ASSUME Inv
    PROVE  /\ Contents(buf) \in Seq(Items)
           /\ \A p \in Producers : /\ p \in Threads /\ Contents(priv[p]) \in Seq(Items)
                                   /\ produced[p] \in 0 .. Quota /\ Left(p) \in Seq(Items)
           /\ \A c \in Consumers : /\ c \in Threads /\ Contents(priv[c]) \in Seq(Items)
                                   /\ received[c] \in Seq(Items)
           /\ DOMAIN priv = Threads /\ nProducers \in Nat /\ nTerminated \in 0 .. nProducers
<1> USE ConstantsLemma
<1>1. /\ buf \in RingBuffers(Capacity, Items \cup {Junk}) /\ Holds(buf, Items)
  BY DEF Inv, TypeOK, BuffersInv
<1>2. ASSUME NEW p \in Producers
      PROVE  /\ p \in Threads /\ priv[p] \in RingBuffers(InsertLimit, Items \cup {Junk})
             /\ Holds(priv[p], Items) /\ produced[p] \in 0 .. Quota
  BY DEF Inv, TypeOK, BuffersInv, Threads
<1>3. ASSUME NEW c \in Consumers
      PROVE  /\ c \in Threads /\ priv[c] \in RingBuffers(FetchLimit, Items \cup {Junk})
             /\ Holds(priv[c], Items) /\ received[c] \in Seq(Items)
  BY DEF Inv, TypeOK, BuffersInv, Threads
<1>4. Contents(buf) \in Seq(Items)
  BY <1>1, ContentsLemma
<1>5. \A p \in Producers : Contents(priv[p]) \in Seq(Items) /\ Left(p) \in Seq(Items)
  BY <1>2, ContentsLemma, ElementsLemma DEF Left
<1>6. \A c \in Consumers : Contents(priv[c]) \in Seq(Items)
  BY <1>3, ContentsLemma
<1> QED
  BY <1>2, <1>3, <1>4, <1>5, <1>6 DEF Inv, TypeOK

(* The queue starts as an empty and open FIFO.                                *)
LEMMA InitFifo == Init => Fifo!Init
<1> SUFFICES ASSUME Init PROVE Fifo!Init
  OBVIOUS
<1> USE ConstantsLemma
<1>1. Inv
  BY InitInv
<1>2. Contents(buf) = << >>
  BY InitContents DEF Init
<1>3. PendingBar \in [Producers -> Seq(Items)]
  BY <1>1, BarTypes, ConcatProperties DEF PendingBar, Pending
<1>4. ASSUME NEW c \in Consumers PROVE received[c] \o Contents(priv[c]) = << >>
  <2>1. priv[c] = ringbuffer_init(FetchLimit, Junk) /\ received[c] = << >>
    BY DEF Init, Threads
  <2>2. Contents(priv[c]) = << >>
    BY <2>1, InitContents
  <2> QED
    BY <2>1, <2>2, ConcatEmptySeq, EmptySeq
<1>5. nProducers - nTerminated \in Nat
  BY DEF Init
<1> QED
  BY <1>2, <1>3, <1>4, <1>5 DEF Fifo!Init, PendingBar, Pending, Left

(* What an element in the making stands for does not change when it is made.  *)
LEMMA ProduceStutters ==
    ASSUME Inv, NEW p \in Producers, Produce(p)
    PROVE  UNCHANGED Fifo!vars
<1> USE ConstantsLemma
<1> DEFINE e == <<p, produced[p] + 1>>
<1>1. /\ produced[p] \in 0 .. Quota /\ produced[p] < Quota /\ p \in Threads
      /\ produced' = [produced EXCEPT ![p] = @ + 1] /\ produced \in [Producers -> 0 .. Quota]
      /\ priv' = [priv EXCEPT ![p] = ringbuffer_insert(@, e)]
      /\ DOMAIN priv = Threads /\ e \in Items
      /\ UNCHANGED <<buf, nTerminated, received>>
  <2>1. /\ produced[p] < Quota
        /\ produced' = [produced EXCEPT ![p] = @ + 1]
        /\ priv' = [priv EXCEPT ![p] = ringbuffer_insert(@, e)]
        /\ UNCHANGED <<buf, nTerminated, received>>
    BY DEF Produce
  <2>2. /\ produced[p] \in 0 .. Quota /\ p \in Threads /\ DOMAIN priv = Threads
        /\ produced \in [Producers -> 0 .. Quota]
    BY BarTypes DEF Inv, TypeOK
  <2>3. produced[p] + 1 \in 1 .. Quota
    BY <2>1, <2>2
  <2> QED
    BY <2>1, <2>2, <2>3
<1>2. /\ priv[p] \in RingBuffers(InsertLimit, Items \cup {Junk}) /\ Holds(priv[p], Items)
      /\ ~ringbuffer_isFull(priv[p])
  BY <1>1 DEF Produce, Inv, TypeOK, BuffersInv, ProducersInv
<1>3. Contents(priv'[p]) = Append(Contents(priv[p]), e)
  <2>1. priv'[p] = ringbuffer_insert(priv[p], e)
    BY <1>1
  <2> QED
    BY <1>1, <1>2, <2>1, InsertContents
<1>4. /\ Left(p) \in Seq(Items) /\ Left(p) # << >> /\ Head(Left(p)) = e
      /\ Left(p)' = Tail(Left(p))
  <2>1. produced'[p] = produced[p] + 1 /\ (produced[p] + 1) + 1 = produced[p] + 2
    BY <1>1
  <2>2. Left(p)' = SubSeq(ElementsOf(p), produced[p] + 2, Quota)
    BY <2>1 DEF Left, ElementsOf
  <2> QED
    BY <1>1, <2>2, ElementsLemma DEF Left
<1>5. Pending(p)' = Pending(p)
  <2>1. Append(Contents(priv[p]), Head(Left(p))) \o Tail(Left(p)) = Contents(priv[p]) \o Left(p)
    BY <1>4, BarTypes, HandOver
  <2> QED
    BY <1>3, <1>4, <2>1 DEF Pending
<1>6. \A q \in Producers \ {p} : Pending(q)' = Pending(q)
  <2>1. \A q \in Producers \ {p} : priv'[q] = priv[q] /\ Left(q)' = Left(q)
    BY <1>1, BarTypes DEF Left, ElementsOf
  <2> QED
    BY <2>1 DEF Pending
<1>7. \A c \in Consumers : Taken(c)' = Taken(c)
  <2>1. \A c \in Consumers : priv'[c] = priv[c]
    BY <1>1, BarTypes, ThreadsAssumption
  <2> QED
    BY <1>1, <2>1 DEF Taken
<1>8. PendingBar' = PendingBar /\ TakenBar' = TakenBar
  BY <1>1, <1>5, <1>6, <1>7 DEF PendingBar, TakenBar
<1> QED
  BY <1>1, <1>8 DEF Fifo!vars, PendingBar, TakenBar, Pending, Taken, Left

(* Moving one element into the queue is the FIFO's Put.                       *)
LEMMA EnqueueMovePuts ==
    ASSUME Inv, NEW p \in Producers, EnqueueMove(p)
    PROVE  Fifo!Put(p)
<1> USE ConstantsLemma
<1> DEFINE e == ringbuffer_front(priv[p])
<1>1. /\ p \in Threads /\ ~ringbuffer_isFull(buf) /\ ~ringbuffer_isEmpty(priv[p])
      /\ buf' = ringbuffer_insert(buf, e)
      /\ priv' = [priv EXCEPT ![p] = ringbuffer_remove(@)]
      /\ DOMAIN priv = Threads /\ pc[p] = "enqMove"
      /\ UNCHANGED <<nTerminated, produced, received>>
  BY BarTypes DEF EnqueueMove, EnqueueMore
<1>2. /\ priv[p] \in RingBuffers(InsertLimit, Items \cup {Junk}) /\ Holds(priv[p], Items)
      /\ buf \in RingBuffers(Capacity, Items \cup {Junk}) /\ Holds(buf, Items)
  BY <1>1 DEF Inv, TypeOK, BuffersInv
<1>3. /\ Contents(priv[p]) # << >> /\ Head(Contents(priv[p])) = e
      /\ Contents(priv'[p]) = Tail(Contents(priv[p]))
  <2>1. priv'[p] = ringbuffer_remove(priv[p])
    BY <1>1
  <2> QED
    BY <1>1, <1>2, <2>1, RemoveContents
<1>4. e \in Items /\ Contents(buf') = Append(Contents(buf), e)
  <2>1. e \in Items
    BY <1>1, <1>2, RemoveLemma
  <2> QED
    BY <1>1, <1>2, <2>1, InsertContents
<1>5. Len(Contents(buf)) < Capacity
  <2>1. Len(Contents(buf)) = Count(buf)
    BY <1>2, ContentsLemma
  <2>2. Count(buf) \in 0 .. Capacity /\ Count(buf) # Capacity
    BY <1>1, <1>2, CountLemma
  <2> QED
    BY <2>1, <2>2
<1>6. nProducers - nTerminated > 0
  BY <1>1, OpenLemma DEF Inv
<1>7. Pending(p) # << >> /\ Head(Pending(p)) = e /\ Pending(p)' = Tail(Pending(p))
  <2>1. /\ Contents(priv[p]) \o Left(p) # << >>
        /\ Head(Contents(priv[p]) \o Left(p)) = Head(Contents(priv[p]))
        /\ Tail(Contents(priv[p]) \o Left(p)) = Tail(Contents(priv[p])) \o Left(p)
    BY <1>3, BarTypes, HeadOfConcat
  <2>2. Left(p)' = Left(p)
    BY <1>1 DEF Left, ElementsOf
  <2> QED
    BY <1>3, <2>1, <2>2 DEF Pending
<1>8. /\ \A q \in Producers \ {p} : Pending(q)' = Pending(q)
      /\ \A c \in Consumers : Taken(c)' = Taken(c)
  <2>1. /\ \A q \in Producers \ {p} : priv'[q] = priv[q] /\ Left(q)' = Left(q)
        /\ \A c \in Consumers : priv'[c] = priv[c]
    BY <1>1, BarTypes, ThreadsAssumption DEF Left, ElementsOf
  <2> QED
    BY <1>1, <2>1 DEF Pending, Taken
<1>9. PendingBar' = [PendingBar EXCEPT ![p] = Tail(@)]
  BY <1>7, <1>8 DEF PendingBar
<1>10. TakenBar' = TakenBar
  BY <1>1, <1>8 DEF TakenBar
<1>11. PendingBar[p] # << >> /\ Head(PendingBar[p]) = e
  BY <1>7 DEF PendingBar
<1> QED
  BY <1>1, <1>4, <1>5, <1>6, <1>9, <1>10, <1>11
  DEF Fifo!Put, PendingBar, TakenBar, Pending, Taken, Left

(* Moving one element out of it is the FIFO's Take.                           *)
LEMMA DequeueMoveTakes ==
    ASSUME Inv, NEW c \in Consumers, DequeueMove(c)
    PROVE  Fifo!Take(c)
<1> USE ConstantsLemma
<1> DEFINE e == ringbuffer_front(buf)
<1>1. /\ c \in Threads /\ ~ringbuffer_isEmpty(buf) /\ ~ringbuffer_isFull(priv[c])
      /\ buf' = ringbuffer_remove(buf)
      /\ priv' = [priv EXCEPT ![c] = ringbuffer_insert(@, e)]
      /\ DOMAIN priv = Threads
      /\ UNCHANGED <<nTerminated, produced, received>>
  BY BarTypes DEF DequeueMove, DequeueMore
<1>2. /\ priv[c] \in RingBuffers(FetchLimit, Items \cup {Junk}) /\ Holds(priv[c], Items)
      /\ buf \in RingBuffers(Capacity, Items \cup {Junk}) /\ Holds(buf, Items)
  BY <1>1 DEF Inv, TypeOK, BuffersInv
<1>3. /\ Contents(buf) # << >> /\ Head(Contents(buf)) = e
      /\ Contents(buf') = Tail(Contents(buf))
  BY <1>1, <1>2, RemoveContents
<1>4. e \in Items /\ Contents(priv'[c]) = Append(Contents(priv[c]), e)
  <2>1. e \in Items /\ priv'[c] = ringbuffer_insert(priv[c], e)
    BY <1>1, <1>2, RemoveLemma
  <2> QED
    BY <1>1, <1>2, <2>1, InsertContents
<1>5. Taken(c)' = Append(Taken(c), e)
  <2>1. received[c] \o Append(Contents(priv[c]), e) = Append(received[c] \o Contents(priv[c]), e)
    <3>1. PICK s \in Seq(Items), u \in Seq(Items), f \in Items :
              s = received[c] /\ u = Contents(priv[c]) /\ f = e
      BY <1>4, BarTypes
    <3>2. s \o Append(u, f) = Append(s \o u, f)
      BY AppendToConcat
    <3> QED
      BY <3>1, <3>2
  <2> QED
    BY <1>1, <1>4, <2>1 DEF Taken
<1>6. /\ \A d \in Consumers \ {c} : Taken(d)' = Taken(d)
      /\ \A p \in Producers : Pending(p)' = Pending(p)
  <2>1. /\ \A d \in Consumers \ {c} : priv'[d] = priv[d]
        /\ \A p \in Producers : priv'[p] = priv[p] /\ Left(p)' = Left(p)
    BY <1>1, BarTypes, ThreadsAssumption DEF Left, ElementsOf
  <2> QED
    BY <1>1, <2>1 DEF Pending, Taken
<1>7. TakenBar' = [TakenBar EXCEPT ![c] = Append(@, e)]
  BY <1>1, <1>5, <1>6 DEF TakenBar
<1>8. PendingBar' = PendingBar
  BY <1>6 DEF PendingBar
<1> QED
  BY <1>1, <1>3, <1>7, <1>8
  DEF Fifo!Take, PendingBar, TakenBar, Pending, Taken, Left

(* What a consumer does with an element it has taken is nothing to the FIFO.  *)
LEMMA ConsumeStutters ==
    ASSUME Inv, NEW c \in Consumers, Consume(c)
    PROVE  UNCHANGED Fifo!vars
<1> USE ConstantsLemma
<1> DEFINE e == ringbuffer_front(priv[c])
<1>1. /\ c \in Threads /\ ~ringbuffer_isEmpty(priv[c])
      /\ priv' = [priv EXCEPT ![c] = ringbuffer_remove(@)]
      /\ received' = [received EXCEPT ![c] = Append(@, e)]
      /\ received \in [Consumers -> Seq(Items)]
      /\ DOMAIN priv = Threads
      /\ UNCHANGED <<buf, nTerminated, produced>>
  BY BarTypes DEF Consume, Inv, TypeOK, ConsumersInv
<1>2. priv[c] \in RingBuffers(FetchLimit, Items \cup {Junk}) /\ Holds(priv[c], Items)
  BY <1>1 DEF Inv, TypeOK, BuffersInv
<1>3. /\ Contents(priv[c]) # << >> /\ Head(Contents(priv[c])) = e
      /\ Contents(priv'[c]) = Tail(Contents(priv[c]))
  <2>1. priv'[c] = ringbuffer_remove(priv[c])
    BY <1>1
  <2> QED
    BY <1>1, <1>2, <2>1, RemoveContents
<1>4. Taken(c)' = Taken(c)
  <2>1. received'[c] = Append(received[c], Head(Contents(priv[c])))
    BY <1>1, <1>3
  <2>2. Append(received[c], Head(Contents(priv[c]))) \o Tail(Contents(priv[c]))
          = received[c] \o Contents(priv[c])
    BY <1>3, BarTypes, HandOver
  <2> QED
    BY <1>3, <2>1, <2>2 DEF Taken
<1>5. /\ \A d \in Consumers \ {c} : Taken(d)' = Taken(d)
      /\ \A p \in Producers : Pending(p)' = Pending(p)
  <2>1. /\ \A d \in Consumers \ {c} : priv'[d] = priv[d] /\ received'[d] = received[d]
        /\ \A p \in Producers : priv'[p] = priv[p] /\ Left(p)' = Left(p)
    BY <1>1, BarTypes, ThreadsAssumption DEF Left, ElementsOf
  <2> QED
    BY <2>1 DEF Pending, Taken
<1>6. TakenBar' = TakenBar /\ PendingBar' = PendingBar
  BY <1>4, <1>5 DEF TakenBar, PendingBar
<1> QED
  BY <1>1, <1>6 DEF Fifo!vars, PendingBar, TakenBar, Pending, Taken, Left

(* queue_terminate is the FIFO's Close: the producer has nothing left.        *)
LEMMA TerminateCloses ==
    ASSUME Inv, Drained, NEW p \in Producers, Terminate(p)
    PROVE  Fifo!Close(p)
<1> USE ConstantsLemma
<1>1. /\ pc[p] = "terminate" /\ nTerminated' = nTerminated + 1
      /\ UNCHANGED <<buf, priv, produced, received>>
  BY DEF Terminate
<1>2. nProducers - nTerminated > 0 /\ nTerminated \in Nat
  BY <1>1, OpenLemma DEF Inv
<1>3. Pending(p) = << >>
  <2>1. ringbuffer_isEmpty(priv[p]) /\ produced[p] = Quota
    BY <1>1 DEF Drained
  <2>2. Contents(priv[p]) = << >>
    BY <2>1, ContentsLemma DEF Inv, TypeOK, BuffersInv, Threads
  <2>3. Left(p) = << >>
    BY <2>1, BarTypes, ElementsLemma DEF Left
  <2> QED
    BY <2>2, <2>3, EmptySeq, ConcatEmptySeq DEF Pending
<1>4. TakenBar' = TakenBar /\ PendingBar' = PendingBar
  BY <1>1 DEF TakenBar, PendingBar, Taken, Pending, Left, ElementsOf
<1>5. PendingBar[p] = << >>
  BY <1>3 DEF PendingBar
<1>6. nProducers' - nTerminated' = (nProducers - nTerminated) - 1
  BY <1>1, <1>2 DEF nProducers
<1> QED
  BY <1>1, <1>2, <1>4, <1>5, <1>6
  DEF Fifo!Close, PendingBar, TakenBar, Pending, Taken, Left

(* Every step of the queue is a step of the FIFO or none.                     *)
LEMMA NextFifo == Inv /\ Drained /\ [Next]_vars => [Fifo!Next]_Fifo!vars
<1> SUFFICES ASSUME Inv, Drained, [Next]_vars PROVE Fifo!Next \/ UNCHANGED Fifo!vars
  OBVIOUS
<1>1. ASSUME UNCHANGED <<buf, nTerminated, priv, produced, received>>
      PROVE  UNCHANGED Fifo!vars
  BY <1>1 DEF Fifo!vars, ElementsOf, nProducers
<1>2. ASSUME NEW p \in Producers, ProducerStep(p) PROVE Fifo!Next \/ UNCHANGED Fifo!vars
  <2>1. CASE Produce(p)
    BY <2>1, ProduceStutters
  <2>2. CASE EndOfInput(p) \/ EnqueueLock(p) \/ EnqueueReturn(p)
    BY <1>1, <2>2 DEF EndOfInput, EnqueueLock, EnqueueReturn
  <2>3. CASE EnqueueMove(p)
    BY <2>3, EnqueueMovePuts DEF Fifo!Next
  <2>4. CASE Terminate(p)
    BY <2>4, TerminateCloses DEF Fifo!Next
  <2> QED
    BY <1>2, <2>1, <2>2, <2>3, <2>4 DEF ProducerStep
<1>3. ASSUME NEW c \in Consumers, ConsumerStep(c) PROVE Fifo!Next \/ UNCHANGED Fifo!vars
  <2>1. CASE DequeueLock(c) \/ DequeueReturn(c)
    BY <1>1, <2>1 DEF DequeueLock, DequeueReturn
  <2>2. CASE DequeueMove(c)
    BY <2>2, DequeueMoveTakes DEF Fifo!Next
  <2>3. CASE Consume(c)
    BY <2>3, ConsumeStutters
  <2> QED
    BY <1>3, <2>1, <2>2, <2>3 DEF ConsumerStep
<1>4. CASE \E t \in Threads : SpuriousWakeup(t)
  BY <1>1, <1>4 DEF SpuriousWakeup
<1>5. CASE Finished \/ UNCHANGED vars
  BY <1>1, <1>5 DEF Finished, vars
<1> QED
  BY <1>2, <1>3, <1>4, <1>5 DEF Next

(* The ring buffers with their batches, signals and termination implement a   *)
(* bounded FIFO: nothing is lost, invented, duplicated or reordered between   *)
(* the stages, for any number of threads and any sizes (queue.c).             *)
THEOREM QueueIsFifo == Spec => ImplementsFifo
<1>1. Spec => [](Inv /\ Drained)
  BY InitInv, InitDrained, NextInv, NextDrained, PTL DEF Spec
<1> QED
  BY <1>1, InitFifo, NextFifo, PTL DEF Spec, ImplementsFifo, Fifo!Spec
=============================================================================
