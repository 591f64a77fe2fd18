---------------------------- MODULE TaskQProofs ----------------------------
(* The safety of the task queues for any number of threads and queues and any *)
(* tasks: a task is in one place and run once, and taskQWait returns only     *)
(* when all of them have been run.                                            *)
EXTENDS TaskQ, LineTheorems, FiniteSetTheorems, TLAPS

-----------------------------------------------------------------------------
(* The threads and their queues.                                              *)
Workers == Threads \ {0}

(* Division by the number of threads per queue.                               *)
LEMMA DivLemma ==
    ASSUME NEW n \in Nat, NEW k \in Nat, k > 0
    PROVE  /\ n \div k \in Nat
           /\ k * (n \div k) <= n /\ n < k * (n \div k) + k
<1>1. n \div k \in Nat
  OBVIOUS
<1>2. k * (n \div k) <= n /\ n < k * (n \div k) + k
  OBVIOUS
<1> QED
  BY <1>1, <1>2

(* Main is a thread; the threads and the queues are numbered from 0, and each *)
(* thread has a queue.                                                        *)
LEMMA ThreadsLemma ==
    /\ numThreads \in Nat /\ numThreads > 0 /\ numTaskQs \in Nat /\ numTaskQs > 0
    /\ 0 \in Threads /\ 0 \in Queues /\ Threads \subseteq Nat /\ Queues \subseteq Nat
    /\ \A t \in Threads : myQ(t) \in Queues
    /\ myQ(0) = 0
    /\ Queues # {0} => Workers # {}
    /\ NONE \notin Threads
<1> DEFINE N == numThreads  K == threadsPerTaskQ  Q == numTaskQs
<1>1. N \in Nat /\ N > 0 /\ K \in Nat /\ K > 0
  BY TaskQAssumption
<1>2. Q = (N + K - 1) \div K
  BY DEF numTaskQs
<1>3. Q \in Nat /\ K * Q <= N + K - 1 /\ N + K - 1 < K * Q + K
  BY <1>1, <1>2, DivLemma, N + K - 1 \in Nat
<1>4. Q > 0
  <2>1. SUFFICES ASSUME Q = 0 PROVE FALSE
    BY <1>3
  <2>2. K * Q = 0
    BY <1>1, <2>1
  <2> QED
    BY <1>1, <1>3, <2>2
<1>5. 0 \in Threads /\ 0 \in Queues /\ Threads \subseteq Nat /\ Queues \subseteq Nat
  BY <1>1, <1>3, <1>4 DEF Threads, Queues
<1>6. ASSUME NEW t \in Threads PROVE myQ(t) \in Queues
  <2>1. t \in Nat /\ t < N
    BY <1>1 DEF Threads
  <2>2. t \div K \in Nat /\ K * (t \div K) <= t
    BY <1>1, <2>1, DivLemma
  <2>3. t \div K < Q
    <3>1. SUFFICES ASSUME t \div K >= Q PROVE FALSE
      BY <1>3, <2>2
    <3>2. PICK d \in Nat : t \div K = Q + d
      BY <1>3, <2>2, <3>1, t \div K - Q \in Nat
    <3>3. K * (Q + d) = K * Q + K * d /\ K * d \in Nat
      BY <1>1, <1>3
    <3> HIDE DEF N, K, Q
    <3> QED
      BY <1>1, <1>3, <2>1, <2>2, <3>2, <3>3
  <2> QED
    BY <1>3, <2>2, <2>3 DEF myQ, Queues
<1>7. myQ(0) = 0
  BY <1>1 DEF myQ
<1>8. ASSUME Queues # {0} PROVE Workers # {}
  <2>1. Q # 1
    BY <1>8 DEF Queues
  <2>2. N # 1
    <3>1. SUFFICES ASSUME N = 1, Q >= 2 PROVE FALSE
      BY <1>3, <1>4, <2>1
    <3>2. PICK d \in Nat : Q = 2 + d
      BY <1>3, <3>1, Q - 2 \in Nat
    <3>3. K * (2 + d) = 2 * K + K * d /\ K * d \in Nat
      BY <1>1
    <3> HIDE DEF N, K, Q
    <3> QED
      BY <1>1, <1>3, <3>1, <3>2, <3>3
  <2>3. 1 \in Workers
    BY <1>1, <2>2 DEF Workers, Threads
  <2> QED
    BY <2>3
<1>9. NONE \notin Threads
  BY <1>5 DEF NONE
<1> QED
  BY <1>1, <1>3, <1>4, <1>5, <1>6, <1>7, <1>8, <1>9

-----------------------------------------------------------------------------
(* The distribution of a grid.                                                *)

(* One level of the recursion, in terms of the levels below.                  *)
Halved(f, s) ==
    IF s.total = 1 \/ s.hi - s.lo = 1 THEN {s} ELSE f[FirstHalf(s)] \cup f[SecondHalf(s)]

(* Splitting a stretch with more than one queue makes two stretches.          *)
LEMMA HalvesLemma ==
    ASSUME NEW s \in Stretches, s.total # 1
    PROVE  /\ FirstHalf(s) \in Stretches /\ SecondHalf(s) \in Stretches
           /\ FirstHalf(s).total < s.total /\ SecondHalf(s).total < s.total
           /\ FirstHalf(s).start = s.start /\ FirstHalf(s).lo = s.lo
           /\ FirstHalf(s).hi = SecondHalf(s).lo
           /\ SecondHalf(s).start = s.start + FirstHalf(s).total
           /\ SecondHalf(s).total = s.total - FirstHalf(s).total
           /\ SecondHalf(s).hi = s.hi
           /\ s.lo <= s.hi => s.lo <= FirstHalf(s).hi /\ FirstHalf(s).hi <= s.hi
<1>1. /\ s.lo \in Nat /\ s.hi \in Nat /\ s.start \in Nat /\ s.total \in Nat
      /\ s.total > 1 /\ s.total <= numTaskQs /\ numTaskQs \in Nat
  BY ThreadsLemma DEF Stretches
<1>2. Middle(s) \in Nat /\ (s.lo <= s.hi => s.lo <= Middle(s) /\ Middle(s) <= s.hi)
  BY <1>1 DEF Middle
<1>3. PICK h : h = s.total \div 2
  OBVIOUS
<1>4. h \in Nat /\ h > 0 /\ h < s.total
  BY <1>1, <1>3
<1>5. FirstHalf(s) = [lo |-> s.lo, hi |-> Middle(s), start |-> s.start, total |-> h]
  BY <1>3 DEF FirstHalf
<1>6. SecondHalf(s) = [lo |-> Middle(s), hi |-> s.hi, start |-> s.start + h, total |-> s.total - h]
  BY <1>3 DEF SecondHalf
<1> QED
  BY <1>1, <1>2, <1>4, <1>5, <1>6 DEF Stretches

(* The recursion is well defined: a function that satisfies it for up to n    *)
(* queues can be changed to satisfy it for n + 1.                             *)
LEMMA GridRec == \A s \in Stretches : enqueueGridRec[s] = Halved(enqueueGridRec, s)
<1> DEFINE Upto(n, f) == /\ f = [s \in Stretches |-> f[s]]
                         /\ \A s \in Stretches : s.total <= n => f[s] = Halved(f, s)
           bad == {n \in Nat : ~\E f : Upto(n, f)}
<1>0. \A s \in Stretches : s.total \in Nat /\ s.total > 0 /\ s.total <= numTaskQs
  BY ThreadsLemma DEF Stretches
<1>1. 0 \notin bad
  <2> DEFINE f == [s \in Stretches |-> {}]
  <2>1. Upto(0, f)
    BY <1>0
  <2> QED
    BY <2>1
<1>2. ASSUME NEW n \in Nat, NEW f, Upto(n, f) PROVE \E g : Upto(n + 1, g)
  <2> DEFINE g == [s \in Stretches |-> IF s.total = n + 1 THEN Halved(f, s) ELSE f[s]]
  <2>1. ASSUME NEW s \in Stretches, s.total <= n + 1 PROVE g[s] = Halved(g, s)
    <3>1. g[s] = Halved(f, s)
      BY <1>0, <1>2, <2>1
    <3>2. CASE s.total = 1 \/ s.hi - s.lo = 1
      BY <3>1, <3>2 DEF Halved
    <3>3. CASE ~(s.total = 1 \/ s.hi - s.lo = 1)
      <4>1. /\ FirstHalf(s) \in Stretches /\ SecondHalf(s) \in Stretches
            /\ FirstHalf(s).total # n + 1 /\ SecondHalf(s).total # n + 1
        BY <1>0, <2>1, <3>3, HalvesLemma
      <4>2. g[FirstHalf(s)] = f[FirstHalf(s)] /\ g[SecondHalf(s)] = f[SecondHalf(s)]
        BY <4>1
      <4> HIDE DEF g
      <4> QED
        BY <3>1, <3>3, <4>2 DEF Halved
    <3> QED
      BY <3>2, <3>3
  <2>2. g = [s \in Stretches |-> g[s]]
    OBVIOUS
  <2> HIDE DEF g
  <2> QED
    BY <2>1, <2>2
<1>3. bad = {}
  <2>1. SUFFICES ASSUME bad # {} PROVE FALSE
    OBVIOUS
  <2>2. bad \in SUBSET Nat
    OBVIOUS
  <2>3. PICK m \in bad : \A n \in bad : m <= n
    <3> HIDE DEF bad
    <3> QED
      BY <2>1, <2>2, LeastLemma
  <2>4. m \in Nat /\ m # 0
    BY <1>1
  <2>5. m - 1 \in Nat /\ m - 1 \notin bad
    <3> HIDE DEF bad
    <3> QED
      BY <2>3, <2>4
  <2>6. PICK f : Upto(m - 1, f)
    BY <2>5
  <2>7. \E g : Upto(m - 1 + 1, g)
    <3> HIDE DEF Upto
    <3> QED
      BY <1>2, <2>5, <2>6
  <2>8. m - 1 + 1 = m
    BY <2>4
  <2>9. \E g : Upto(m, g)
    <3> HIDE DEF Upto
    <3> QED
      BY <2>7, <2>8
  <2> QED
    BY <2>9
<1>4. PICK f : Upto(numTaskQs, f)
  BY <1>3, ThreadsLemma
<1> DEFINE Rec(g) == g = [s \in Stretches |->
                            IF s.total = 1 \/ s.hi - s.lo = 1 THEN {s}
                            ELSE g[FirstHalf(s)] \cup g[SecondHalf(s)]]
<1>5. \A s \in Stretches : f[s] = Halved(f, s)
  BY <1>0, <1>4
<1>6. f = [s \in Stretches |-> f[s]]
  BY <1>4
<1>7. f = [s \in Stretches |-> Halved(f, s)]
  BY <1>5, <1>6
<1>8. Rec(f)
  BY <1>7, Zenon DEF Halved
<1>9. enqueueGridRec = CHOOSE g : Rec(g)
  BY DEF enqueueGridRec
<1>10. Rec(enqueueGridRec)
  <2> HIDE DEF Rec
  <2> QED
    BY <1>8, <1>9
<1> QED
  BY <1>10, Zenon DEF Halved

(* What the recursion makes of a stretch: pieces of it, one for a queue, that *)
(* do not overlap and leave nothing out.                                      *)
Deals(S, s) ==
    /\ \A r \in S : /\ r \in Stretches
                    /\ s.lo <= r.lo /\ r.lo <= r.hi /\ r.hi <= s.hi
                    /\ s.start <= r.start /\ r.start < s.start + s.total
    /\ \A r, u \in S : r # u => r.start # u.start /\ (r.hi <= u.lo \/ u.hi <= r.lo)
    /\ \A i \in Nat : s.lo <= i /\ i < s.hi => \E r \in S : r.lo <= i /\ i < r.hi

(* By recursion down to one queue or one task, each queue of a stretch gets   *)
(* at most one share, and the shares are the stretch cut up.                  *)
LEMMA SharesLemma ==
    ASSUME NEW s \in Stretches, s.lo <= s.hi
    PROVE  Deals(enqueueGridRec[s], s)
<1> DEFINE rec(u) == enqueueGridRec[u]
           bad == {n \in Nat : \E u \in Stretches : u.total = n /\ u.lo <= u.hi /\ ~Deals(rec(u), u)}
<1>0. \A u \in Stretches : /\ u.total \in Nat /\ u.total > 0 /\ u.lo \in Nat /\ u.hi \in Nat
                            /\ u.start \in Nat
  BY ThreadsLemma DEF Stretches
<1>1. ASSUME NEW u \in Stretches, u.lo <= u.hi,
             \A n \in Nat : n < u.total => n \notin bad
      PROVE  Deals(rec(u), u)
  <2>1. CASE u.total = 1 \/ u.hi - u.lo = 1
    <3>1. rec(u) = {u}
      BY <2>1, GridRec DEF Halved
    <3> QED
      BY <1>0, <1>1, <3>1 DEF Deals
  <2>2. CASE ~(u.total = 1 \/ u.hi - u.lo = 1)
    <3>1. PICK a, b : a = FirstHalf(u) /\ b = SecondHalf(u)
      OBVIOUS
    <3>2. rec(u) = rec(a) \cup rec(b)
      BY <2>2, <3>1, GridRec DEF Halved
    <3>3. /\ a \in Stretches /\ b \in Stretches /\ a.total < u.total /\ b.total < u.total
          /\ a.start = u.start /\ a.lo = u.lo /\ a.hi = b.lo /\ b.start = u.start + a.total
          /\ b.total = u.total - a.total /\ b.hi = u.hi /\ u.lo <= a.hi /\ a.hi <= u.hi
      BY <1>1, <2>2, <3>1, HalvesLemma
    <3>4. Deals(rec(a), a) /\ Deals(rec(b), b)
      <4>1. ASSUME NEW v \in Stretches, v.total < u.total, v.lo <= v.hi PROVE Deals(rec(v), v)
        <5>1. v.total \notin bad
          <6> HIDE DEF bad
          <6> QED
            BY <1>0, <1>1, <4>1
        <5> HIDE DEF rec
        <5> QED
          BY <1>0, <4>1, <5>1
      <4> HIDE DEF rec
      <4> QED
        BY <3>3, <4>1
    <3>5. PICK A, B : A = rec(a) /\ B = rec(b)
      OBVIOUS
    <3>6. Deals(A \cup B, u)
      <4>1. \A r \in A \cup B : /\ r \in Stretches
                               /\ u.lo <= r.lo /\ r.lo <= r.hi /\ r.hi <= u.hi
                               /\ u.start <= r.start /\ r.start < u.start + u.total
        BY <1>0, <3>3, <3>4, <3>5 DEF Deals
      <4>2. \A r \in A, v \in B : r.start # v.start /\ r.hi <= v.lo
        BY <1>0, <3>3, <3>4, <3>5 DEF Deals
      <4>3. \A r, v \in A \cup B : r # v => r.start # v.start /\ (r.hi <= v.lo \/ v.hi <= r.lo)
        BY <3>4, <3>5, <4>2 DEF Deals
      <4>4. ASSUME NEW i \in Nat, u.lo <= i, i < u.hi PROVE \E r \in A \cup B : r.lo <= i /\ i < r.hi
        <5>1. (a.lo <= i /\ i < a.hi) \/ (b.lo <= i /\ i < b.hi)
          BY <1>0, <3>3, <4>4
        <5> QED
          BY <3>4, <3>5, <5>1 DEF Deals
      <4> QED
        BY <4>1, <4>3, <4>4 DEF Deals
    <3> HIDE DEF rec
    <3> QED
      BY <3>2, <3>5, <3>6
  <2> QED
    BY <2>1, <2>2
<1>2. bad = {}
  <2>1. SUFFICES ASSUME bad # {} PROVE FALSE
    OBVIOUS
  <2>2. bad \in SUBSET Nat
    OBVIOUS
  <2>3. PICK m \in bad : \A n \in bad : m <= n
    <3> HIDE DEF bad
    <3> QED
      BY <2>1, <2>2, LeastLemma
  <2>4. PICK u \in Stretches : u.total = m /\ u.lo <= u.hi /\ ~Deals(rec(u), u)
    <3> HIDE DEF rec
    <3> QED
      OBVIOUS
  <2>5. \A n \in Nat : n < u.total => n \notin bad
    <3> HIDE DEF bad
    <3> QED
      BY <1>0, <2>2, <2>3, <2>4
  <2> HIDE DEF bad, rec
  <2> QED
    BY <1>1, <2>4, <2>5
<1> HIDE DEF rec
<1>3. Deals(rec(s), s)
  BY <1>0, <1>2
<1> QED
  BY <1>3 DEF rec

-----------------------------------------------------------------------------
(* The invariant, part by part.                                               *)
Labels(t) == {"own", "run", "signalTasks", "reset", "steal", "lock", "move", "exited"}
             \cup IF t = 0 THEN {"waitForEnd", "tasksDone", "ended", "enqueue", "taskQEnd"}
                           ELSE {"waitForTasks", "taskAvail", "awake"}

(* Main stands at enqueue or taskQEnd, or signals from there, and so has no   *)
(* task at hand.                                                              *)
Filling == \/ pc[0] \in {"enqueue", "taskQEnd"}
           \/ pc[0] \in {"signalTasks", "reset"} /\ task[0] = NONE

SharedTypes ==
    /\ queue \in [Queues -> Seq(Tasks)]
    /\ owner \in [Queues -> Threads \cup {NONE}]
    /\ parallelRegion \in BOOLEAN /\ noMoreTasks \in BOOLEAN /\ nextQ \in Queues
LocalTypes ==
    /\ DOMAIN pc = Threads /\ \A t \in Threads : pc[t] \in Labels(t)
    /\ victim \in [Threads -> Queues]
    /\ \A t \in Threads : pc[t] \in {"lock", "move"} => victim[t] # myQ(t)
    /\ stole \in BOOLEAN
    /\ task \in [Threads -> Tasks \cup {NONE}]
    /\ todo \in [Threads -> SUBSET Tasks]
    /\ ran \in [Tasks -> Nat]

(* A thread has a task from when it takes it from a queue until it has run    *)
(* it, its calls of taskQEnqueueTask included.                                *)
TaskInv ==
    \A t \in Threads :
        /\ pc[t] = "run" => task[t] # NONE
        /\ pc[t] \in {"signalTasks", "reset"} => task[t] # NONE \/ t = 0
        /\ pc[t] \notin {"run", "signalTasks", "reset"} => task[t] = NONE
        /\ task[t] = NONE => todo[t] = {}
        /\ task[t] # NONE => todo[t] \subseteq Children[task[t]]

(* The workers sleep while main fills the queues, and nobody works outside of *)
(* the parallel region.                                                       *)
RegionInv ==
    /\ Filling => \A w \in Workers : pc[w] = "taskAvail"
    /\ pc[0] \in {"enqueue", "taskQEnd"} => ~parallelRegion
    /\ ~parallelRegion =>
          /\ pc[0] \in {"waitForEnd", "tasksDone", "ended", "enqueue", "taskQEnd",
                        "signalTasks", "reset", "exited"}
          /\ pc[0] \in {"signalTasks", "reset", "exited"} => noMoreTasks
          /\ task[0] = NONE
          /\ \A w \in Workers : pc[w] \in {"waitForTasks", "taskAvail"}
                                 \/ (noMoreTasks /\ pc[w] \in {"awake", "exited"})
    /\ noMoreTasks => ~parallelRegion /\ pc[0] \in {"signalTasks", "reset", "exited"}
    /\ \A t \in Threads : pc[t] = "exited" => noMoreTasks

(* Main's way through the batches.                                            *)
BatchInv ==
    /\ batch \in 0 .. Len(Batches) + 1
    /\ batch = Len(Batches) + 1 <=> noMoreTasks \/ pc[0] = "taskQEnd"
    /\ pc[0] = "enqueue" =>
          /\ batch \in DOMAIN Batches
          /\ pending \in Seq(Tasks) /\ Len(pending) <= Len(Batches[batch].tasks)
          /\ \A i \in 1 .. Len(pending) :
                pending[i] = Batches[batch].tasks[Len(Batches[batch].tasks) - Len(pending) + i]
    /\ pc[0] # "enqueue" => pending = <<>>

(* sync.threadCount counts the sleepers, main among them.                     *)
Sleepers == {w \in Workers : pc[w] = "taskAvail"}
CountInv ==
    /\ pc[0] \notin {"tasksDone", "ended"} /\ ~Filling => threadCount = Cardinality(Sleepers)
    /\ pc[0] = "tasksDone" => threadCount = Cardinality(Sleepers) + 1
    /\ Filling => threadCount = numThreads
    /\ pc[0] = "ended" => \/ threadCount = numThreads /\ Sleepers = Workers
                          \/ threadCount = Cardinality(Sleepers) /\ parallelRegion

(* Where a task is, and which tasks have been enqueued so far.                *)
Queued  == Among(queue, Queues)
Running == {task[t] : t \in Threads} \ {NONE}
Ran     == {k \in Tasks : ran[k] > 0}
HandedOut(b, i) == b < batch \/ (b = batch /\ i <= Len(Batches[b].tasks) - Len(pending))
FromMain == {k \in Tasks : \E b \in DOMAIN Batches : \E i \in DOMAIN Batches[b].tasks :
                k = Batches[b].tasks[i] /\ HandedOut(b, i)}
FromTasks == {k \in Tasks : \E p \in Running \cup Ran :
                k \in Children[p] /\ \A t \in Threads : task[t] = p => k \notin todo[t]}
PlaceInv ==
    /\ OnceIn(Queues, queue)
    /\ \A t, u \in Threads : task[t] = task[u] /\ task[t] # NONE => t = u
    /\ Queued \cap Running = {} /\ Queued \cap Ran = {} /\ Running \cap Ran = {}
    /\ \A k \in Tasks : ran[k] <= 1
    /\ Queued \cup Running \cup Ran = FromMain \cup FromTasks

(* Nobody goes to sleep with a task left: as long as there is one in a queue, *)
(* a worker is at work or has yet to look into that queue on its round, or it *)
(* is main's own queue and main has yet to look.                              *)
Ahead(t) == {q \in Queues : \/ victim[t] <= q /\ (q < myQ(t) \/ myQ(t) < victim[t])
                            \/ q < myQ(t) /\ myQ(t) < victim[t]}
Looks(t, q) ==
    \/ t # 0 /\ pc[t] \in {"awake", "own", "run", "signalTasks", "reset"}
    \/ t # 0 /\ pc[t] \in {"steal", "lock", "move"} /\ q \in Ahead(t)
    \/ t = 0 /\ q = 0 /\ pc[t] \in {"own", "run", "signalTasks", "reset", "steal", "lock", "move"}
WatchInv ==
    parallelRegion /\ ~Filling => \A q \in Queues : queue[q] # <<>> => \E t \in Threads : Looks(t, q)

IInv == SharedTypes /\ LocalTypes /\ TaskInv /\ RegionInv /\ BatchInv /\ CountInv /\ PlaceInv /\ WatchInv

-----------------------------------------------------------------------------
(* Steps of the program counters.                                             *)
Places == DOMAIN pc = Threads /\ \A t \in Threads : pc[t] \in Labels(t)

(* One thread goes to another place.                                          *)
LEMMA GotoLemma ==
    ASSUME DOMAIN pc = Threads, NEW t \in Threads, NEW l, Goto(t, l)
    PROVE  DOMAIN pc' = Threads /\ pc'[t] = l /\ \A u \in Threads : u # t => pc'[u] = pc[u]
BY DEF Goto

(* Or wakes others besides.                                                   *)
LEMMA BroadcastLemma ==
    ASSUME DOMAIN pc = Threads, NEW t \in Threads, NEW l, NEW L, Broadcast(t, l, L)
    PROVE  /\ DOMAIN pc' = Threads /\ pc'[t] = l
           /\ \A u \in Threads : u # t =>
                 pc'[u] = IF pc[u] \in L THEN IF pc[u] = "tasksDone" THEN "ended" ELSE "awake"
                          ELSE pc[u]
<1>1. DOMAIN pc' = Threads /\ pc'[t] = l
  BY DEF Broadcast
<1>2. ASSUME NEW u \in Threads, u # t
      PROVE  pc'[u] = IF pc[u] \in L THEN IF pc[u] = "tasksDone" THEN "ended" ELSE "awake"
                      ELSE pc[u]
  <2>1. CASE pc[u] \in L
    BY <1>2, <2>1 DEF Broadcast
  <2>2. CASE pc[u] \notin L
    BY <1>2, <2>2 DEF Broadcast
  <2> QED
    BY <2>1, <2>2
<1> QED
  BY <1>1, <1>2

(* What every step of a thread in the pool does to the program counters.      *)
LEMMA PlacesStep ==
    ASSUME Places, [Next]_vars
    PROVE  Places'
<1> USE ThreadsLemma
<1>1. ASSUME NEW t \in Threads, NEW l \in Labels(t), Goto(t, l) PROVE Places'
  BY <1>1, GotoLemma DEF Places
<1>2. ASSUME NEW t \in Threads, NEW l \in Labels(t), NEW L,
             L = {"tasksDone"} \/ L = {"taskAvail", "tasksDone"}, Broadcast(t, l, L)
      PROVE  Places'
  <2>1. DOMAIN pc' = Threads
    BY <1>2, BroadcastLemma DEF Places
  <2>2. ASSUME NEW u \in Threads PROVE pc'[u] \in Labels(u)
    <3>1. CASE u = t
      BY <1>2, <3>1, BroadcastLemma DEF Places
    <3>2. CASE u # t /\ pc[u] \in L
      <4>1. pc'[u] = IF pc[u] = "tasksDone" THEN "ended" ELSE "awake"
        BY <1>2, <3>2, BroadcastLemma DEF Places
      <4>2. pc[u] = "tasksDone" => u = 0
        BY DEF Places, Labels
      <4>3. pc[u] = "taskAvail" => u # 0
        BY DEF Places, Labels
      <4> QED
        BY <1>2, <3>2, <4>1, <4>2, <4>3 DEF Labels
    <3>3. CASE u # t /\ pc[u] \notin L
      <4>1. pc'[u] = pc[u]
        BY <1>2, <3>3, BroadcastLemma DEF Places
      <4> QED
        BY <4>1 DEF Places
    <3> QED
      BY <3>1, <3>2, <3>3
  <2> QED
    BY <2>1, <2>2 DEF Places
<1>3. CASE MainStep
  <2>1. CASE WaitForEnd
    BY <1>1, <2>1 DEF WaitForEnd, Labels
  <2>2. CASE EndWait
    <3>1. Goto(0, "own") \/ Goto(0, "enqueue") \/ Goto(0, "taskQEnd")
      BY <2>2 DEF EndWait
    <3> QED
      BY <1>1, <3>1 DEF Labels
  <2>3. CASE AddTask
    BY <2>3 DEF AddTask, Places
  <2>4. CASE AddTaskGrid
    BY <2>4 DEF AddTaskGrid, Places
  <2>5. CASE BeginWait
    BY <1>1, <2>5 DEF BeginWait, Labels
  <2>6. CASE TaskQEnd
    BY <1>1, <2>6 DEF TaskQEnd, Labels
  <2> QED
    BY <1>3, <2>1, <2>2, <2>3, <2>4, <2>5, <2>6 DEF MainStep
<1>4. ASSUME NEW t \in Threads, PoolStep(t) PROVE Places'
  <2>1. CASE WaitForTasks(t)
    <3>1. t # 0
      BY <2>1 DEF WaitForTasks, Places, Labels
    <3>2. Broadcast(t, "taskAvail", {"tasksDone"}) \/ Goto(t, "taskAvail")
      BY <2>1 DEF WaitForTasks
    <3> QED
      BY <1>1, <1>2, <3>1, <3>2 DEF Labels
  <2>2. CASE SignalTasks(t)
    <3>1. AfterSignal(t) \in Labels(t)
      BY DEF AfterSignal, Labels
    <3>2. Broadcast(t, AfterSignal(t), {"taskAvail", "tasksDone"})
      BY <2>2 DEF SignalTasks
    <3> QED
      BY <1>2, <3>1, <3>2
  <2>3. CASE SignalTasksTest(t)
    <3>1. AfterSignal(t) \in Labels(t)
      BY DEF AfterSignal, Labels
    <3>2. Goto(t, "reset") \/ Goto(t, AfterSignal(t))
      BY <2>3 DEF SignalTasksTest
    <3> QED
      BY <1>1, <3>1, <3>2 DEF Labels
  <2>4. CASE StealNothing(t)
    <3>1. Goto(t, IF t = 0 THEN "own" ELSE "waitForTasks")
      BY <2>4 DEF StealNothing
    <3> QED
      BY <1>1, <3>1 DEF Labels
  <2>5. CASE OwnEmpty(t)
    <3>1. (t = 0 /\ Goto(t, "waitForEnd")) \/ Goto(t, "steal")
      BY <2>5 DEF OwnEmpty
    <3> QED
      BY <1>1, <3>1 DEF Labels
  <2>6. CASE Resume(t)
    <3>1. Goto(t, "exited") \/ Goto(t, "own")
      BY <2>6 DEF Resume
    <3> QED
      BY <1>1, <3>1 DEF Labels
  <2>7. CASE QuickCheck(t)
    <3>1. UNCHANGED pc \/ Goto(t, "lock")
      BY <2>7 DEF QuickCheck
    <3> QED
      BY <1>1, <3>1 DEF Labels, Places
  <2>8. CASE Steal(t)
    <3>1. Goto(t, "steal") \/ Goto(t, "own")
      BY <2>8 DEF Steal
    <3> QED
      BY <1>1, <3>1 DEF Labels
  <2>9. CASE GetTask(t) \/ AddChild(t) \/ EndTask(t) \/ LockFirst(t)
    <3>1. Goto(t, "run") \/ Goto(t, "signalTasks") \/ Goto(t, "own") \/ Goto(t, "move")
      BY <2>9 DEF GetTask, AddChild, EndTask, LockFirst
    <3> QED
      BY <1>1, <3>1 DEF Labels
  <2> QED
    BY <1>4, <2>1, <2>2, <2>3, <2>4, <2>5, <2>6, <2>7, <2>8, <2>9 DEF PoolStep
<1>5. CASE Finished \/ UNCHANGED vars
  BY <1>5 DEF Finished, vars, Places
<1> QED
  BY <1>3, <1>4, <1>5 DEF Next

-----------------------------------------------------------------------------
(* What assignTasks gives each queue: the tasks of the grid at consecutive    *)
(* positions, each position in one queue.                                     *)
LEMMA AssignLemma ==
    ASSUME pending \in Seq(Tasks)
    PROVE  \E off \in [Queues -> Nat] :
             /\ \A q \in Queues : AssignTasks(q) \in Seq(Tasks)
             /\ \A q \in Queues : \A j \in 1 .. Len(AssignTasks(q)) :
                   off[q] + j \in 1 .. Len(pending) /\ AssignTasks(q)[j] = pending[off[q] + j]
             /\ \A q, r \in Queues :
                   \A j \in 1 .. Len(AssignTasks(q)), l \in 1 .. Len(AssignTasks(r)) :
                      off[q] + j = off[r] + l => q = r /\ j = l
             /\ \A i \in 1 .. Len(pending) : \E q \in Queues :
                   \E j \in 1 .. Len(AssignTasks(q)) : off[q] + j = i
<1> DEFINE N == Len(pending)
           g == [lo |-> 0, hi |-> N, start |-> 0, total |-> numTaskQs]
           mine(q) == CHOOSE s \in Shares : s.start = q
           some(q) == \E s \in Shares : s.start = q
           off == [q \in Queues |-> IF some(q) THEN mine(q).lo ELSE 0]
<1>1. N \in Nat /\ g \in Stretches /\ g.lo = 0 /\ g.hi = N /\ g.start = 0 /\ g.total = numTaskQs
  BY ThreadsLemma DEF Stretches
<1>2. Deals(Shares, g)
  <2> HIDE DEF g
  <2>1. g.lo <= g.hi
    BY <1>1
  <2>2. Shares = enqueueGridRec[g]
    BY DEF Shares, g
  <2> QED
    BY <1>1, <2>1, <2>2, SharesLemma
<1>3. ASSUME NEW s \in Shares
      PROVE  /\ s.lo \in Nat /\ s.hi \in Nat /\ s.lo <= s.hi /\ s.hi <= N /\ s.start \in Queues
             /\ \A r \in Shares : r # s => r.start # s.start /\ (r.hi <= s.lo \/ s.hi <= r.lo)
  <2>1. /\ s \in Stretches /\ s.lo <= s.hi /\ s.hi <= g.hi /\ s.start < g.start + g.total
        /\ \A r \in Shares : r # s => r.start # s.start /\ (r.hi <= s.lo \/ s.hi <= r.lo)
    BY <1>2 DEF Deals
  <2>2. s.lo \in Nat /\ s.hi \in Nat /\ s.start \in Nat
    BY <2>1 DEF Stretches
  <2>3. s.start \in 0 .. numTaskQs - 1
    BY <1>1, <2>1, <2>2, ThreadsLemma
  <2> QED
    BY <1>1, <2>1, <2>2, <2>3 DEF Queues
<1>4. ASSUME NEW s \in Shares
      PROVE  /\ some(s.start) /\ mine(s.start) = s
             /\ AssignTasks(s.start) = SubSeq(pending, s.lo + 1, s.hi)
             /\ off[s.start] = s.lo
  <2>1. some(s.start)
    BY <1>4
  <2>2. mine(s.start) \in Shares /\ mine(s.start).start = s.start
    BY <1>4
  <2>3. mine(s.start) = s
    <3> HIDE DEF mine
    <3> QED
      BY <1>3, <2>2
  <2>4. AssignTasks(s.start) = SubSeq(pending, mine(s.start).lo + 1, mine(s.start).hi)
    BY <2>1 DEF AssignTasks
  <2>5. off[s.start] = mine(s.start).lo
    <3> HIDE DEF mine, some
    <3> QED
      BY <1>3, <2>1
  <2> HIDE DEF mine
  <2> QED
    BY <2>1, <2>3, <2>4, <2>5
<1>5. ASSUME NEW s \in Shares
      PROVE  /\ AssignTasks(s.start) \in Seq(Tasks) /\ Len(AssignTasks(s.start)) = s.hi - s.lo
             /\ \A j \in 1 .. s.hi - s.lo : AssignTasks(s.start)[j] = pending[s.lo + j]
  <2>1. s.lo \in Nat /\ s.hi \in Nat /\ s.lo <= s.hi /\ s.hi <= N
    BY <1>3
  <2>2. SubSeq(pending, s.lo + 1, s.hi) \in Seq(Tasks)
    BY <1>1, <2>1
  <2>3. Len(SubSeq(pending, s.lo + 1, s.hi)) = s.hi - s.lo
    BY <1>1, <2>1
  <2>4. \A j \in 1 .. s.hi - s.lo : SubSeq(pending, s.lo + 1, s.hi)[j] = pending[s.lo + j]
    BY <1>1, <2>1
  <2> QED
    BY <1>4, <2>2, <2>3, <2>4
<1>6. ASSUME NEW q \in Queues, ~some(q)
      PROVE  AssignTasks(q) = <<>> /\ Len(AssignTasks(q)) = 0
  BY <1>6 DEF AssignTasks
<1>7. off \in [Queues -> Nat]
  <2>1. ASSUME NEW q \in Queues, some(q) PROVE mine(q).lo \in Nat
    <3>1. PICK s \in Shares : s.start = q
      BY <2>1
    <3>2. mine(q) = s
      BY <1>4, <3>1
    <3> QED
      BY <1>3, <3>2
  <2> HIDE DEF mine, some
  <2> QED
    BY <2>1
<1> HIDE DEF mine, off, g, N
<1>8. ASSUME NEW q \in Queues
      PROVE  \/ \E s \in Shares : s.start = q
             \/ AssignTasks(q) = <<>> /\ Len(AssignTasks(q)) = 0
  BY <1>6
<1> HIDE DEF some
<1>9. ASSUME NEW q \in Queues PROVE AssignTasks(q) \in Seq(Tasks)
  <2>1. ASSUME NEW s \in Shares, s.start = q PROVE AssignTasks(q) \in Seq(Tasks)
    BY <1>5, <2>1
  <2>2. <<>> \in Seq(Tasks)
    OBVIOUS
  <2> QED
    BY <1>8, <2>1, <2>2
<1>10. ASSUME NEW q \in Queues, NEW j \in 1 .. Len(AssignTasks(q))
       PROVE  \E s \in Shares : /\ s.start = q /\ off[q] = s.lo
                                /\ j \in 1 .. s.hi - s.lo /\ AssignTasks(q)[j] = pending[s.lo + j]
  <2>1. PICK s \in Shares : s.start = q
    BY <1>8
  <2> QED
    BY <1>4, <1>5, <2>1
<1>11. \A q \in Queues : \A j \in 1 .. Len(AssignTasks(q)) :
          off[q] + j \in 1 .. N /\ AssignTasks(q)[j] = pending[off[q] + j]
  <2>1. ASSUME NEW q \in Queues, NEW j \in 1 .. Len(AssignTasks(q))
        PROVE  off[q] + j \in 1 .. N /\ AssignTasks(q)[j] = pending[off[q] + j]
    <3>1. PICK s \in Shares : /\ s.start = q /\ off[q] = s.lo
                              /\ j \in 1 .. s.hi - s.lo /\ AssignTasks(q)[j] = pending[s.lo + j]
      BY <1>10
    <3> QED
      BY <1>1, <1>3, <3>1
  <2> QED
    BY <2>1
<1>12. ASSUME NEW q \in Queues, NEW r \in Queues, NEW j \in 1 .. Len(AssignTasks(q)),
              NEW l \in 1 .. Len(AssignTasks(r)), off[q] + j = off[r] + l
       PROVE  q = r /\ j = l
  <2>1. PICK s \in Shares : s.start = q /\ off[q] = s.lo /\ j \in 1 .. s.hi - s.lo
    BY <1>10
  <2>2. PICK u \in Shares : u.start = r /\ off[r] = u.lo /\ l \in 1 .. u.hi - u.lo
    BY <1>10
  <2>3. s = u
    BY <1>3, <1>12, <2>1, <2>2
  <2> QED
    BY <1>3, <1>12, <2>1, <2>2, <2>3
<1>13. ASSUME NEW i \in 1 .. N
       PROVE  \E q \in Queues : \E j \in 1 .. Len(AssignTasks(q)) : off[q] + j = i
  <2>1. i - 1 \in Nat /\ g.lo <= i - 1 /\ i - 1 < g.hi
    BY <1>1
  <2>2. PICK s \in Shares : s.lo <= i - 1 /\ i - 1 < s.hi
    BY <1>2, <2>1 DEF Deals
  <2>3. s.start \in Queues /\ s.lo \in Nat /\ s.hi \in Nat
    BY <1>3
  <2>4. i - s.lo \in 1 .. Len(AssignTasks(s.start)) /\ off[s.start] + (i - s.lo) = i
    BY <1>1, <1>4, <1>5, <2>1, <2>2, <2>3
  <2> QED
    BY <2>3, <2>4
<1> QED
  BY <1>7, <1>9, <1>11, <1>12, <1>13 DEF N

-----------------------------------------------------------------------------
(* Types.                                                                     *)

(* main deals its tasks out in turn among the queues, and a task gives its    *)
(* children to the queue of a thread.                                         *)
LEMMA QueuesLemma ==
    /\ nextQ \in Queues => \A t \in Threads : PickQueue(t) \in Queues
    /\ nextQ \in Queues => (IF nextQ + 1 >= numTaskQs THEN 0 ELSE nextQ + 1) \in Queues
    /\ \A q \in Queues : (q + 1) % numTaskQs = (IF q + 1 = numTaskQs THEN 0 ELSE q + 1)
    /\ \A q \in Queues : (q + 1) % numTaskQs \in Queues
<1>1. numTaskQs \in Nat /\ numTaskQs > 0 /\ Queues = 0 .. numTaskQs - 1
  BY ThreadsLemma DEF Queues
<1>2. nextQ \in Queues => \A t \in Threads : PickQueue(t) \in Queues
  BY ThreadsLemma DEF PickQueue
<1>3. \A q \in Queues : (q + 1) % numTaskQs = (IF q + 1 = numTaskQs THEN 0 ELSE q + 1)
  BY <1>1
<1> QED
  BY <1>1, <1>2, <1>3

(* What a thief takes is some, and no more than there are.                    *)
LEMMA StealLemma ==
    ASSUME NEW s \in Seq(Tasks), s # <<>>
    PROVE  NumSteal(Len(s)) \in 0 .. Len(s)
<1>1. Len(s) \in Nat /\ Len(s) > 0
  BY EmptySeq
<1>2. \A n \in Nat : n > 0 => NumSteal(n) \in 0 .. n
  BY DEF NumSteal, MAX_STEAL
<1> QED
  BY <1>1, <1>2

(* Every step keeps the types of what the threads share.                      *)
LEMMA SharedStep ==
    ASSUME SharedTypes, LocalTypes, TaskInv, BatchInv, [Next]_vars
    PROVE  SharedTypes'
<1> USE ThreadsLemma
<1> DEFINE Others == UNCHANGED <<owner, parallelRegion, noMoreTasks, nextQ>>
<1>1. ASSUME UNCHANGED queue,
             owner' \in [Queues -> Threads \cup {NONE}],
             parallelRegion' \in BOOLEAN, noMoreTasks' \in BOOLEAN, nextQ' \in Queues
      PROVE  SharedTypes'
  BY <1>1 DEF SharedTypes
<1>2. UNCHANGED shared => SharedTypes'
  BY DEF shared, SharedTypes
<1>3. ASSUME NEW q \in Queues, NEW k \in Tasks, Put(q, <<k>>) PROVE queue' \in [Queues -> Seq(Tasks)]
  <2>1. queue[q] \o <<k>> \in Seq(Tasks)
    BY DEF SharedTypes
  <2> QED
    BY <1>3, <2>1 DEF Put, SharedTypes
<1>4. CASE MainStep
  <2>1. CASE WaitForEnd
    BY <1>2, <2>1 DEF WaitForEnd
  <2>2. CASE EndWait
    BY <2>2 DEF EndWait, SharedTypes
  <2>3. CASE AddTask
    <3>1. pending \in Seq(Tasks) /\ pending # <<>>
      BY <2>3 DEF AddTask, BatchInv
    <3>2. Head(pending) \in Tasks
      BY <3>1
    <3>3. PickQueue(0) \in Queues /\ nextQ' \in Queues
      BY <2>3, QueuesLemma DEF AddTask, SharedTypes
    <3>4. queue' \in [Queues -> Seq(Tasks)]
      BY <1>3, <2>3, <3>2, <3>3 DEF AddTask
    <3> QED
      BY <2>3, <3>3, <3>4 DEF AddTask, SharedTypes
  <2>4. CASE AddTaskGrid
    <3>1. pending \in Seq(Tasks)
      BY <2>4 DEF AddTaskGrid, BatchInv
    <3>2. \A q \in Queues : AssignTasks(q) \in Seq(Tasks)
      BY <3>1, AssignLemma
    <3>3. \A q \in Queues : queue[q] \o AssignTasks(q) \in Seq(Tasks)
      BY <3>2 DEF SharedTypes
    <3> QED
      BY <2>4, <3>3 DEF AddTaskGrid, SharedTypes
  <2>5. CASE BeginWait
    BY <2>5 DEF BeginWait, SharedTypes
  <2>6. CASE TaskQEnd
    BY <2>6 DEF TaskQEnd, SharedTypes
  <2> QED
    BY <1>4, <2>1, <2>2, <2>3, <2>4, <2>5, <2>6 DEF MainStep
<1>5. ASSUME NEW t \in Threads, PoolStep(t) PROVE SharedTypes'
  <2>1. CASE WaitForTasks(t) \/ Resume(t) \/ SignalTasksTest(t) \/ SignalTasks(t) \/ OwnEmpty(t)
             \/ EndTask(t) \/ StealNothing(t) \/ QuickCheck(t)
    BY <1>2, <2>1 DEF WaitForTasks, Resume, SignalTasksTest, SignalTasks, OwnEmpty, EndTask,
                      StealNothing, QuickCheck
  <2>2. CASE GetTask(t)
    <3>1. queue[myQ(t)] \in Seq(Tasks) /\ queue[myQ(t)] # <<>>
      BY <2>2 DEF GetTask, SharedTypes
    <3>2. SubSeq(queue[myQ(t)], 1, Len(queue[myQ(t)]) - 1) \in Seq(Tasks)
      BY <3>1, EmptySeq, CutLemma
    <3> QED
      BY <2>2, <3>2 DEF GetTask, SharedTypes
  <2>3. CASE AddChild(t)
    <3>1. PICK k \in todo[t], id \in {0, t} : Put(PickQueue(id), <<k>>)
      BY <2>3 DEF AddChild
    <3>2. k \in Tasks /\ PickQueue(id) \in Queues
      BY <3>1, QueuesLemma DEF LocalTypes, SharedTypes
    <3>3. queue' \in [Queues -> Seq(Tasks)]
      BY <1>3, <3>1, <3>2
    <3> QED
      BY <2>3, <3>3 DEF AddChild, SharedTypes
  <2>4. CASE LockFirst(t)
    BY <2>4 DEF LockFirst, SharedTypes
  <2>5. CASE Steal(t)
    <3>1. queue' \in [Queues -> Seq(Tasks)]
      <4> DEFINE v == victim[t]  m == myQ(t)
      <4>1. v \in Queues /\ m \in Queues /\ queue[v] \in Seq(Tasks) /\ queue[m] \in Seq(Tasks)
        BY DEF LocalTypes, SharedTypes
      <4>2. CASE queue[v] = <<>>
        BY <2>5, <4>2 DEF Steal, SharedTypes
      <4>3. CASE queue[v] # <<>>
        <5>1. PICK n : n = NumSteal(Len(queue[v]))
          OBVIOUS
        <5>2. n \in 0 .. Len(queue[v])
          BY <4>1, <4>3, <5>1, StealLemma
        <5>3. /\ SubSeq(queue[v], 1, n) \in Seq(Tasks)
              /\ SubSeq(queue[v], n + 1, Len(queue[v])) \in Seq(Tasks)
          BY <4>1, <5>2, CutLemma
        <5>4. queue' = MoveEntries(v, m, n)
          BY <2>5, <4>3, <5>1 DEF Steal
        <5>5. v # m
          BY <2>5 DEF LocalTypes, Steal
        <5>6. PICK r, u : r = SubSeq(queue[v], n + 1, Len(queue[v])) /\ u = queue[m] \o SubSeq(queue[v], 1, n)
          OBVIOUS
        <5>7. r \in Seq(Tasks) /\ u \in Seq(Tasks)
          BY <4>1, <5>3, <5>6
        <5>8. queue' = [queue EXCEPT ![v] = r, ![m] = u]
          BY <5>4, <5>5, <5>6 DEF MoveEntries
        <5> HIDE DEF v, m
        <5> QED
          BY <4>1, <5>7, <5>8 DEF SharedTypes
      <4> QED
        BY <4>2, <4>3
    <3>2. owner' \in [Queues -> Threads \cup {NONE}]
      BY <2>5 DEF Steal, SharedTypes
    <3> QED
      BY <2>5, <3>1, <3>2 DEF Steal, SharedTypes
  <2> QED
    BY <1>5, <2>1, <2>2, <2>3, <2>4, <2>5 DEF PoolStep
<1>6. CASE Finished \/ UNCHANGED vars
  BY <1>2, <1>6 DEF Finished, vars, shared
<1> QED
  BY <1>4, <1>5, <1>6 DEF Next

(* A thief looks at the queues after its own, and locks another one.          *)
LEMMA VictimStep ==
    ASSUME SharedTypes, LocalTypes, [Next]_vars
    PROVE  /\ victim' \in [Threads -> Queues]
           /\ \A t \in Threads : pc'[t] \in {"lock", "move"} => victim'[t] # myQ(t)
<1> USE ThreadsLemma
<1>0. DOMAIN pc = Threads /\ victim \in [Threads -> Queues]
      /\ \A t \in Threads : pc[t] \in {"lock", "move"} => victim[t] # myQ(t)
  BY DEF LocalTypes
<1>1. ASSUME UNCHANGED victim, NEW t \in Threads, NEW l, Goto(t, l),
             l \in {"lock", "move"} => victim[t] # myQ(t)
      PROVE  \A u \in Threads : pc'[u] \in {"lock", "move"} => victim'[u] # myQ(u)
  BY <1>0, <1>1, GotoLemma
<1>2. ASSUME UNCHANGED victim, NEW t \in Threads, NEW l, NEW L, Broadcast(t, l, L), l \notin {"lock", "move"}
      PROVE  \A u \in Threads : pc'[u] \in {"lock", "move"} => victim'[u] # myQ(u)
  BY <1>0, <1>2, BroadcastLemma
<1>3. ASSUME NEW t \in Threads, NEW q \in Queues, victim' = [victim EXCEPT ![t] = q],
             (UNCHANGED pc /\ pc[t] = "steal") \/ Goto(t, "steal")
      PROVE  /\ victim' \in [Threads -> Queues]
             /\ \A u \in Threads : pc'[u] \in {"lock", "move"} => victim'[u] # myQ(u)
  BY <1>0, <1>3, GotoLemma
<1>4. \A t \in Threads : (victim[t] + 1) % numTaskQs \in Queues /\ (myQ(t) + 1) % numTaskQs \in Queues
  BY <1>0, QueuesLemma
<1>5. CASE MainStep
  <2>1. UNCHANGED victim
    BY <1>5 DEF MainStep, WaitForEnd, EndWait, AddTask, AddTaskGrid, BeginWait, TaskQEnd, local
  <2>2. \/ UNCHANGED pc
        \/ \E l : Goto(0, l) /\ l \notin {"lock", "move"}
    BY <1>5 DEF MainStep, WaitForEnd, EndWait, AddTask, AddTaskGrid, BeginWait, TaskQEnd
  <2> QED
    BY <1>0, <1>1, <2>1, <2>2
<1>6. ASSUME NEW t \in Threads, PoolStep(t)
      PROVE  /\ victim' \in [Threads -> Queues]
             /\ \A u \in Threads : pc'[u] \in {"lock", "move"} => victim'[u] # myQ(u)
  <2>1. CASE WaitForTasks(t) \/ SignalTasks(t)
    <3>1. UNCHANGED victim
      BY <2>1 DEF WaitForTasks, SignalTasks, local
    <3>2. \/ Goto(t, "taskAvail")
          \/ \E l, L : Broadcast(t, l, L) /\ l \notin {"lock", "move"}
      BY <2>1 DEF WaitForTasks, SignalTasks, AfterSignal
    <3> QED
      BY <1>0, <1>1, <1>2, <3>1, <3>2
  <2>2. CASE Resume(t) \/ SignalTasksTest(t) \/ GetTask(t) \/ AddChild(t) \/ EndTask(t) \/ StealNothing(t)
    <3>1. UNCHANGED victim
      BY <2>2 DEF Resume, SignalTasksTest, GetTask, AddChild, EndTask, StealNothing, local
    <3>2. \E l : Goto(t, l) /\ l \notin {"lock", "move"}
      BY <2>2 DEF Resume, SignalTasksTest, GetTask, AddChild, EndTask, StealNothing, AfterSignal
    <3> QED
      BY <1>0, <1>1, <3>1, <3>2
  <2>3. CASE OwnEmpty(t)
    <3>1. \/ Goto(t, "waitForEnd") /\ UNCHANGED victim
          \/ Goto(t, "steal") /\ victim' = [victim EXCEPT ![t] = (myQ(t) + 1) % numTaskQs]
      BY <2>3 DEF OwnEmpty
    <3> QED
      BY <1>0, <1>1, <1>3, <1>4, <3>1
  <2>4. CASE QuickCheck(t)
    <3>1. /\ pc[t] = "steal" /\ victim[t] # myQ(t)
          /\ \/ NextVictim(t) /\ UNCHANGED pc
             \/ Goto(t, "lock") /\ UNCHANGED victim
      BY <2>4 DEF QuickCheck
    <3>2. NextVictim(t) => victim' = [victim EXCEPT ![t] = (victim[t] + 1) % numTaskQs]
      BY DEF NextVictim
    <3> QED
      BY <1>0, <1>1, <1>3, <1>4, <3>1, <3>2
  <2>5. CASE LockFirst(t)
    <3>1. pc[t] = "lock" /\ Goto(t, "move") /\ UNCHANGED victim
      BY <2>5 DEF LockFirst, local
    <3> QED
      BY <1>0, <1>1, <3>1
  <2>6. CASE Steal(t)
    <3>1. \/ NextVictim(t) /\ Goto(t, "steal")
          \/ Goto(t, "own") /\ UNCHANGED victim
      BY <2>6 DEF Steal
    <3>2. NextVictim(t) => victim' = [victim EXCEPT ![t] = (victim[t] + 1) % numTaskQs]
      BY DEF NextVictim
    <3> QED
      BY <1>0, <1>1, <1>3, <1>4, <3>1, <3>2
  <2> QED
    BY <1>6, <2>1, <2>2, <2>3, <2>4, <2>5, <2>6 DEF PoolStep
<1>7. CASE Finished \/ UNCHANGED vars
  BY <1>0, <1>7 DEF Finished, vars
<1> QED
  BY <1>5, <1>6, <1>7 DEF Next

(* Every step keeps the types of what the threads have for themselves.        *)
LEMMA LocalStep ==
    ASSUME SharedTypes, LocalTypes, TaskInv, [Next]_vars
    PROVE  LocalTypes'
<1> USE ThreadsLemma
<1>1. DOMAIN pc' = Threads /\ \A t \in Threads : pc'[t] \in Labels(t)
  BY PlacesStep DEF LocalTypes, Places
<1>2. /\ victim' \in [Threads -> Queues]
      /\ \A t \in Threads : pc'[t] \in {"lock", "move"} => victim'[t] # myQ(t)
  BY VictimStep
<1> DEFINE Rest == /\ stole \in BOOLEAN
                   /\ task \in [Threads -> Tasks \cup {NONE}]
                   /\ todo \in [Threads -> SUBSET Tasks]
                   /\ ran \in [Tasks -> Nat]
<1>3. Rest
  BY DEF LocalTypes
<1>4. UNCHANGED <<stole, task, todo, ran>> => Rest'
  BY <1>3
<1>5. CASE MainStep
  <2>1. UNCHANGED <<task, todo, ran>> /\ stole' \in BOOLEAN
    BY <1>3, <1>5 DEF MainStep, WaitForEnd, EndWait, AddTask, AddTaskGrid, BeginWait, TaskQEnd, local
  <2> QED
    BY <1>1, <1>2, <1>3, <2>1 DEF LocalTypes
<1>6. ASSUME NEW t \in Threads, PoolStep(t) PROVE Rest'
  <2>1. CASE WaitForTasks(t) \/ Resume(t) \/ SignalTasksTest(t) \/ SignalTasks(t)
             \/ StealNothing(t) \/ QuickCheck(t) \/ LockFirst(t) \/ Steal(t)
    BY <1>4, <2>1 DEF WaitForTasks, Resume, SignalTasksTest, SignalTasks, StealNothing, QuickCheck,
                      LockFirst, Steal, local
  <2>2. CASE GetTask(t)
    <3>1. PICK k : k = Last(queue[myQ(t)])
      OBVIOUS
    <3>2. k \in Tasks
      <4>1. queue[myQ(t)] \in Seq(Tasks) /\ queue[myQ(t)] # <<>>
        BY <2>2 DEF GetTask, SharedTypes
      <4> QED
        BY <3>1, <4>1, EmptySeq DEF Last
    <3>3. /\ task' = [task EXCEPT ![t] = k] /\ todo' = [todo EXCEPT ![t] = Children[k]]
          /\ UNCHANGED <<stole, ran>>
      BY <2>2, <3>1 DEF GetTask
    <3>4. Children[k] \in SUBSET Tasks
      BY <3>2, TaskQAssumption
    <3> QED
      BY <1>3, <3>2, <3>3, <3>4
  <2>3. CASE OwnEmpty(t)
    <3>1. UNCHANGED <<task, todo, ran>> /\ stole' \in BOOLEAN
      BY <1>3, <2>3 DEF OwnEmpty
    <3> QED
      BY <1>3, <3>1
  <2>4. CASE AddChild(t)
    <3>1. UNCHANGED <<task, stole, ran>> /\ \E k : todo' = [todo EXCEPT ![t] = todo[t] \ {k}]
      BY <2>4 DEF AddChild
    <3> QED
      BY <1>3, <3>1
  <2>5. CASE EndTask(t)
    <3>1. task[t] \in Tasks
      BY <1>3, <2>5 DEF EndTask, TaskInv
    <3>2. /\ ran' = [ran EXCEPT ![task[t]] = ran[task[t]] + 1]
          /\ task' = [task EXCEPT ![t] = NONE] /\ UNCHANGED <<stole, todo>>
      BY <2>5 DEF EndTask
    <3> QED
      BY <1>3, <3>1, <3>2
  <2> QED
    BY <1>6, <2>1, <2>2, <2>3, <2>4, <2>5 DEF PoolStep
<1>7. CASE Finished \/ UNCHANGED vars
  BY <1>4, <1>7, <1>1, <1>2 DEF Finished, vars, LocalTypes
<1> QED
  BY <1>1, <1>2, <1>5, <1>6, <1>7 DEF Next, LocalTypes

(* Every step keeps the tasks with those that have one to run.                *)
LEMMA TaskStep ==
    ASSUME SharedTypes, LocalTypes, TaskInv, [Next]_vars
    PROVE  TaskInv'
<1> USE ThreadsLemma
<1> DEFINE Own(t, p, k, d) ==
             /\ p = "run" => k # NONE
             /\ p \in {"signalTasks", "reset"} => k # NONE \/ t = 0
             /\ p \notin {"run", "signalTasks", "reset"} => k = NONE
             /\ k = NONE => d = {}
             /\ k # NONE => d \subseteq Children[k]
<1>0. DOMAIN pc = Threads /\ DOMAIN task = Threads /\ DOMAIN todo = Threads
      /\ \A t \in Threads : Own(t, pc[t], task[t], todo[t])
  BY DEF LocalTypes, TaskInv
<1>1. (\A t \in Threads : Own(t, pc'[t], task'[t], todo'[t])) => TaskInv'
  BY DEF TaskInv
<1>2. ASSUME NEW t \in Threads, NEW l, Goto(t, l), Own(t, l, task'[t], todo'[t]),
             \A u \in Threads : u # t => task'[u] = task[u] /\ todo'[u] = todo[u]
      PROVE  TaskInv'
  <2>1. \A u \in Threads : Own(u, pc'[u], task'[u], todo'[u])
    BY <1>0, <1>2, GotoLemma
  <2> QED
    BY <1>1, <2>1
<1>3. ASSUME NEW t \in Threads, NEW l, NEW L, Broadcast(t, l, L), Own(t, l, task[t], todo[t]),
             L \subseteq {"taskAvail", "tasksDone"}, UNCHANGED <<task, todo>>
      PROVE  TaskInv'
  <2>1. ASSUME NEW u \in Threads PROVE Own(u, pc'[u], task'[u], todo'[u])
    <3>1. CASE u = t
      BY <1>0, <1>3, <3>1, BroadcastLemma
    <3>2. CASE u # t /\ pc[u] \in L
      <4>1. pc'[u] \in {"ended", "awake"} /\ pc[u] \in {"taskAvail", "tasksDone"}
        BY <1>0, <1>3, <3>2, BroadcastLemma
      <4> QED
        BY <1>0, <1>3, <4>1
    <3>3. CASE u # t /\ pc[u] \notin L
      <4>1. pc'[u] = pc[u]
        BY <1>0, <1>3, <3>3, BroadcastLemma
      <4> QED
        BY <1>0, <1>3, <4>1
    <3> QED
      BY <3>1, <3>2, <3>3
  <2> QED
    BY <1>1, <2>1
<1>4. CASE MainStep
  <2>1. UNCHANGED <<task, todo>>
    BY <1>4 DEF MainStep, WaitForEnd, EndWait, AddTask, AddTaskGrid, BeginWait, TaskQEnd, local
  <2>2. CASE AddTask \/ AddTaskGrid
    BY <1>0, <1>1, <2>1, <2>2 DEF AddTask, AddTaskGrid
  <2>3. CASE ~(AddTask \/ AddTaskGrid)
    <3>1. PICK l : /\ Goto(0, l) /\ l \notin {"run", "reset"}
                   /\ pc[0] \in {"waitForEnd", "ended", "enqueue", "taskQEnd"}
      BY <1>4, <2>3 DEF MainStep, WaitForEnd, EndWait, BeginWait, TaskQEnd
    <3>2. task[0] = NONE /\ todo[0] = {}
      BY <1>0, <3>1
    <3> QED
      BY <1>2, <2>1, <3>1, <3>2
  <2> QED
    BY <2>2, <2>3
<1>5. ASSUME NEW t \in Threads, PoolStep(t) PROVE TaskInv'
  <2>1. CASE WaitForTasks(t)
    <3>1. task[t] = NONE /\ todo[t] = {} /\ UNCHANGED <<task, todo>>
      BY <1>0, <2>1 DEF WaitForTasks, local
    <3>2. Goto(t, "taskAvail") \/ Broadcast(t, "taskAvail", {"tasksDone"})
      BY <2>1 DEF WaitForTasks
    <3> QED
      BY <1>2, <1>3, <3>1, <3>2
  <2>2. CASE SignalTasks(t)
    <3>1. Broadcast(t, AfterSignal(t), {"taskAvail", "tasksDone"}) /\ UNCHANGED <<task, todo>>
      BY <2>2 DEF SignalTasks, local
    <3>2. Own(t, AfterSignal(t), task[t], todo[t])
      BY <1>0 DEF AfterSignal
    <3> QED
      BY <1>3, <3>1, <3>2
  <2>3. CASE SignalTasksTest(t)
    <3>1. (Goto(t, "reset") \/ Goto(t, AfterSignal(t))) /\ UNCHANGED <<task, todo>> /\ pc[t] = "signalTasks"
      BY <2>3 DEF SignalTasksTest, local
    <3>2. Own(t, AfterSignal(t), task[t], todo[t]) /\ Own(t, "reset", task[t], todo[t])
      BY <1>0, <3>1 DEF AfterSignal
    <3> QED
      BY <1>2, <3>1, <3>2
  <2>4. CASE Resume(t) \/ OwnEmpty(t) \/ StealNothing(t) \/ LockFirst(t) \/ Steal(t)
    <3>1. PICK l : Goto(t, l) /\ l \notin {"run", "signalTasks", "reset"}
      BY <2>4 DEF Resume, OwnEmpty, StealNothing, LockFirst, Steal
    <3>2. task[t] = NONE /\ todo[t] = {} /\ UNCHANGED <<task, todo>>
      BY <1>0, <2>4 DEF Resume, OwnEmpty, StealNothing, LockFirst, Steal, local
    <3> QED
      BY <1>2, <3>1, <3>2
  <2>5. CASE QuickCheck(t)
    <3>1. task[t] = NONE /\ todo[t] = {} /\ UNCHANGED <<task, todo>>
      BY <1>0, <2>5 DEF QuickCheck
    <3>2. UNCHANGED pc \/ Goto(t, "lock")
      BY <2>5 DEF QuickCheck
    <3> QED
      BY <1>0, <1>1, <1>2, <3>1, <3>2
  <2>6. CASE GetTask(t)
    <3>1. PICK k : k = Last(queue[myQ(t)])
      OBVIOUS
    <3>2. k \in Tasks
      <4>1. queue[myQ(t)] \in Seq(Tasks) /\ queue[myQ(t)] # <<>>
        BY <2>6 DEF GetTask, SharedTypes
      <4> QED
        BY <3>1, <4>1, EmptySeq DEF Last
    <3>3. /\ task' = [task EXCEPT ![t] = k] /\ todo' = [todo EXCEPT ![t] = Children[k]] /\ Goto(t, "run")
      BY <2>6, <3>1 DEF GetTask
    <3>4. k # NONE
      BY <3>2, TaskIdentity
    <3> QED
      BY <1>0, <1>2, <3>3, <3>4
  <2>7. CASE AddChild(t)
    <3>1. /\ pc[t] = "run" /\ UNCHANGED task /\ Goto(t, "signalTasks")
          /\ \E k : todo' = [todo EXCEPT ![t] = todo[t] \ {k}]
      BY <2>7 DEF AddChild
    <3> QED
      BY <1>0, <1>2, <3>1
  <2>8. CASE EndTask(t)
    <3>1. todo[t] = {} /\ task' = [task EXCEPT ![t] = NONE] /\ UNCHANGED todo /\ Goto(t, "own")
      BY <2>8 DEF EndTask
    <3> QED
      BY <1>0, <1>2, <3>1
  <2> QED
    BY <1>5, <2>1, <2>2, <2>3, <2>4, <2>5, <2>6, <2>7, <2>8 DEF PoolStep
<1>6. CASE Finished \/ UNCHANGED vars
  BY <1>0, <1>1, <1>6 DEF Finished, vars
<1> QED
  BY <1>4, <1>5, <1>6 DEF Next

-----------------------------------------------------------------------------
(* The phases of a region.                                                    *)

(* What a step of the pool does to the other threads, and to main's affairs.  *)
LEMMA PoolPc ==
    ASSUME Places, NEW t \in Threads, PoolStep(t)
    PROVE  /\ DOMAIN pc' = Threads
           /\ UNCHANGED <<parallelRegion, noMoreTasks, batch, pending>>
           /\ \A u \in Threads : u # t =>
                 \/ pc'[u] = pc[u]
                 \/ SignalTasks(t) /\ pc[u] = "taskAvail" /\ pc'[u] = "awake"
                 \/ (SignalTasks(t) \/ WaitForTasks(t)) /\ pc[u] = "tasksDone" /\ pc'[u] = "ended"
<1> USE ThreadsLemma DEF Places
<1>1. UNCHANGED <<parallelRegion, noMoreTasks, batch, pending>>
  BY DEF PoolStep, WaitForTasks, Resume, SignalTasksTest, SignalTasks, GetTask, OwnEmpty, AddChild,
         EndTask, StealNothing, QuickCheck, LockFirst, Steal, shared, main
<1>2. CASE WaitForTasks(t)
  <2>1. Goto(t, "taskAvail") \/ Broadcast(t, "taskAvail", {"tasksDone"})
    BY <1>2 DEF WaitForTasks
  <2> QED
    BY <1>1, <1>2, <2>1, GotoLemma, BroadcastLemma
<1>3. CASE SignalTasks(t)
  <2>1. Broadcast(t, AfterSignal(t), {"taskAvail", "tasksDone"})
    BY <1>3 DEF SignalTasks
  <2>2. DOMAIN pc' = Threads
    BY <2>1, BroadcastLemma
  <2>3. \A u \in Threads : u # t =>
          pc'[u] = IF pc[u] \in {"taskAvail", "tasksDone"}
                   THEN IF pc[u] = "tasksDone" THEN "ended" ELSE "awake" ELSE pc[u]
    BY <2>1, BroadcastLemma
  <2> QED
    BY <1>1, <1>3, <2>2, <2>3
<1>4. CASE ~(WaitForTasks(t) \/ SignalTasks(t))
  <2>1. UNCHANGED pc \/ \E l : Goto(t, l)
    BY <1>4 DEF PoolStep, Resume, SignalTasksTest, GetTask, OwnEmpty, AddChild,
         EndTask, StealNothing, QuickCheck, LockFirst, Steal
  <2> QED
    BY <1>1, <2>1, GotoLemma
<1> QED
  BY <1>2, <1>3, <1>4

(* Steps of a thread at work, inside the parallel region.                     *)
AtWork(t) ==
    \/ GetTask(t) \/ OwnEmpty(t) \/ AddChild(t) \/ EndTask(t)
    \/ StealNothing(t) \/ QuickCheck(t) \/ LockFirst(t) \/ Steal(t)

(* A thread is at work in the parallel region only, disturbs no other, and    *)
(* leaves the count and main's affairs alone.                                 *)
LEMMA AtWorkLemma ==
    ASSUME LocalTypes, SharedTypes, TaskInv, TaskInv', RegionInv, NEW t \in Threads, AtWork(t)
    PROVE  /\ parallelRegion /\ ~noMoreTasks /\ ~Filling
           /\ pc[t] \in {"own", "run", "steal", "lock", "move"}
           /\ pc'[t] \in {"own", "run", "steal", "lock", "move", "signalTasks"}
                         \cup (IF t = 0 THEN {"waitForEnd"} ELSE {"waitForTasks"})
           /\ ~Filling'
           /\ \A u \in Threads : u # t => pc'[u] = pc[u]
           /\ UNCHANGED <<parallelRegion, noMoreTasks, batch, pending, threadCount>>
<1> USE ThreadsLemma
<1>1. Places /\ PoolStep(t)
  BY DEF AtWork, PoolStep, Places, LocalTypes
<1>2. pc[t] \in {"own", "run", "steal", "lock", "move"}
  BY DEF AtWork, GetTask, OwnEmpty, AddChild, EndTask, StealNothing, QuickCheck, LockFirst, Steal
<1>3. parallelRegion /\ ~noMoreTasks
  BY <1>2 DEF RegionInv, Workers
<1>4. ~Filling
  BY <1>2 DEF RegionInv, Workers, Filling
<1>5. \/ UNCHANGED pc
      \/ \E l \in {"own", "run", "steal", "lock", "move", "signalTasks"} : Goto(t, l)
      \/ t = 0 /\ Goto(t, "waitForEnd")
      \/ t # 0 /\ Goto(t, "waitForTasks")
  <2>1. StealNothing(t) => Goto(t, IF t = 0 THEN "own" ELSE "waitForTasks")
    BY DEF StealNothing
  <2>2. OwnEmpty(t) => (t = 0 /\ Goto(t, "waitForEnd")) \/ Goto(t, "steal")
    BY DEF OwnEmpty
  <2> QED
    BY <2>1, <2>2 DEF AtWork, GetTask, AddChild, EndTask, QuickCheck, LockFirst, Steal
<1>6. \A u \in Threads : u # t => pc'[u] = pc[u]
  BY <1>1, <1>5, GotoLemma DEF Places
<1>7. pc'[t] \in {"own", "run", "steal", "lock", "move", "signalTasks"}
                 \cup (IF t = 0 THEN {"waitForEnd"} ELSE {"waitForTasks"})
  BY <1>1, <1>2, <1>5, GotoLemma DEF Places
<1>8. UNCHANGED <<parallelRegion, noMoreTasks, batch, pending, threadCount>>
  BY DEF AtWork, GetTask, OwnEmpty, AddChild, EndTask, StealNothing, QuickCheck, LockFirst, Steal,
         shared, main
<1>9. ~Filling'
  <2>1. CASE t # 0
    <3>1. pc'[0] = pc[0]
      BY <1>6, <2>1
    <3>2. task'[0] = task[0]
      BY <2>1 DEF AtWork, GetTask, OwnEmpty, AddChild, EndTask, StealNothing, QuickCheck, LockFirst,
                  Steal, local, LocalTypes
    <3> QED
      BY <1>4, <3>1, <3>2 DEF Filling
  <2>2. CASE t = 0
    <3>1. pc'[0] = "signalTasks" => task'[0] # NONE
      <4>1. SUFFICES ASSUME pc'[0] = "signalTasks" PROVE task'[0] # NONE
        OBVIOUS
      <4>2. AddChild(t)
        <5>1. \A l : Goto(t, l) => pc'[t] = l
          BY <1>1, GotoLemma DEF Places
        <5>2. CASE UNCHANGED pc
          BY <1>2, <2>2, <4>1, <5>2
        <5> QED
          BY <2>2, <4>1, <5>1, <5>2 DEF AtWork, GetTask, OwnEmpty, EndTask, StealNothing, QuickCheck,
                                   LockFirst, Steal
      <4> QED
        BY <2>2, <4>2 DEF AddChild, TaskInv
    <3> QED
      BY <1>7, <2>2, <3>1 DEF Filling
  <2> QED
    BY <2>1, <2>2
<1> QED
  BY <1>2, <1>3, <1>4, <1>6, <1>7, <1>8, <1>9

(* There is one worker less than there are threads.                           *)
LEMMA WorkersLemma ==
    /\ IsFiniteSet(Workers) /\ Cardinality(Workers) = numThreads - 1
    /\ \A S \in SUBSET Workers :
          /\ IsFiniteSet(S) /\ Cardinality(S) \in Nat /\ Cardinality(S) <= numThreads - 1
          /\ Cardinality(S) = numThreads - 1 => S = Workers
<1> USE ThreadsLemma
<1>1. IsFiniteSet(Threads) /\ Cardinality(Threads) = numThreads
  <2>1. 0 \in Int /\ numThreads - 1 \in Int /\ 0 <= numThreads - 1
    OBVIOUS
  <2> QED
    BY <2>1, FS_Interval DEF Threads
<1>2. IsFiniteSet(Workers) /\ Cardinality(Workers) = numThreads - 1
  BY <1>1, FS_RemoveElement DEF Workers
<1>3. ASSUME NEW S \in SUBSET Workers
      PROVE  /\ IsFiniteSet(S) /\ Cardinality(S) \in Nat /\ Cardinality(S) <= numThreads - 1
             /\ Cardinality(S) = numThreads - 1 => S = Workers
  BY <1>2, <1>3, FS_Subset, FS_CardinalityType
<1> QED
  BY <1>2, <1>3

(* When taskQWait returns, or taskQInit, everybody sleeps.                    *)
LEMMA EndWaitLemma ==
    ASSUME CountInv, EndWait, ~(parallelRegion /\ threadCount # numThreads)
    PROVE  threadCount = numThreads /\ Sleepers = Workers
<1>1. pc[0] = "ended"
  BY DEF EndWait
<1>2. Cardinality(Sleepers) # numThreads
  BY WorkersLemma, ThreadsLemma DEF Sleepers
<1> QED
  BY <1>1, <1>2 DEF CountInv

(* The phases of a region follow one another.                                 *)
LEMMA RegionStep ==
    ASSUME SharedTypes, LocalTypes, TaskInv, TaskInv', RegionInv, CountInv, [Next]_vars
    PROVE  RegionInv'
<1> USE ThreadsLemma
<1>0. Places /\ DOMAIN pc = Threads /\ \A w \in Workers : w \in Threads /\ w # 0
  BY DEF LocalTypes, Places, Workers
<1>1. CASE MainStep
  <2>1. CASE WaitForEnd
    <3>1. /\ pc[0] = "waitForEnd" /\ pc'[0] \in {"tasksDone", "ended"}
          /\ \A u \in Threads : u # 0 => pc'[u] = pc[u]
      BY <1>0, <2>1, GotoLemma DEF WaitForEnd
    <3>2. UNCHANGED <<parallelRegion, noMoreTasks, task>>
      BY <2>1 DEF WaitForEnd, shared, local
    <3> QED
      BY <1>0, <3>1, <3>2 DEF RegionInv, Filling
  <2>2. CASE EndWait
    <3>1. pc[0] = "ended" /\ UNCHANGED <<noMoreTasks, task>> /\ ~noMoreTasks
      BY <2>2 DEF EndWait, RegionInv
    <3>2. CASE parallelRegion /\ threadCount # numThreads
      <4>1. pc'[0] = "own" /\ (\A u \in Threads : u # 0 => pc'[u] = pc[u]) /\ UNCHANGED parallelRegion
        BY <1>0, <2>2, <3>2, GotoLemma DEF EndWait
      <4> QED
        BY <1>0, <3>1, <3>2, <4>1 DEF RegionInv, Filling
    <3>3. CASE ~(parallelRegion /\ threadCount # numThreads)
      <4>1. Goto(0, "enqueue") \/ Goto(0, "taskQEnd")
        BY <2>2, <3>3 DEF EndWait
      <4>2. pc'[0] \in {"enqueue", "taskQEnd"} /\ (\A u \in Threads : u # 0 => pc'[u] = pc[u])
        BY <1>0, <4>1, GotoLemma
      <4>3. parallelRegion' = FALSE
        BY <2>2, <3>3 DEF EndWait
      <4>4. \A w \in Workers : pc[w] = "taskAvail"
        BY <2>2, <3>3, EndWaitLemma DEF Sleepers
      <4>5. task[0] = NONE
        BY <3>1 DEF TaskInv
      <4>6. \A u \in Threads : pc[u] # "exited"
        BY <3>1 DEF RegionInv
      <4> QED
        BY <1>0, <3>1, <4>2, <4>3, <4>4, <4>5, <4>6 DEF RegionInv, Filling
    <3> QED
      BY <3>2, <3>3
  <2>3. CASE AddTask \/ AddTaskGrid
    BY <2>3 DEF AddTask, AddTaskGrid, local, RegionInv, Filling
  <2>4. CASE BeginWait
    <3>1. /\ pc[0] = "enqueue" /\ pc'[0] = "signalTasks"
          /\ \A u \in Threads : u # 0 => pc'[u] = pc[u]
      BY <1>0, <2>4, GotoLemma DEF BeginWait
    <3>2. parallelRegion' = TRUE /\ UNCHANGED <<noMoreTasks, task>> /\ ~noMoreTasks
      BY <2>4, <3>1 DEF BeginWait, RegionInv
    <3>3. Filling
      BY <3>1 DEF Filling
    <3> QED
      BY <1>0, <3>1, <3>2, <3>3 DEF RegionInv
  <2>5. CASE TaskQEnd
    <3>1. /\ pc[0] = "taskQEnd" /\ pc'[0] = "signalTasks"
          /\ \A u \in Threads : u # 0 => pc'[u] = pc[u]
      BY <1>0, <2>5, GotoLemma DEF TaskQEnd
    <3>2. noMoreTasks' = TRUE /\ UNCHANGED <<parallelRegion, task>> /\ ~parallelRegion
      BY <2>5, <3>1 DEF TaskQEnd, RegionInv, local
    <3>3. Filling
      BY <3>1 DEF Filling
    <3> QED
      BY <1>0, <3>1, <3>2, <3>3 DEF RegionInv
  <2> QED
    BY <1>1, <2>1, <2>2, <2>3, <2>4, <2>5 DEF MainStep
<1>2. ASSUME NEW t \in Threads, PoolStep(t) PROVE RegionInv'
  <2>0. /\ DOMAIN pc' = Threads
        /\ UNCHANGED <<parallelRegion, noMoreTasks>>
        /\ \A u \in Threads : u # t =>
              \/ pc'[u] = pc[u]
              \/ SignalTasks(t) /\ pc[u] = "taskAvail" /\ pc'[u] = "awake"
              \/ (SignalTasks(t) \/ WaitForTasks(t)) /\ pc[u] = "tasksDone" /\ pc'[u] = "ended"
    BY <1>0, <1>2, PoolPc
  <2>0a. \A u \in Threads : pc[u] = "tasksDone" => u = 0
    BY <1>0 DEF Places, Labels
  <2>0b. pc[0] \notin {"taskAvail", "awake"}
    BY <1>0 DEF Places, Labels
  <2>1. CASE WaitForTasks(t)
    <3>1. pc[t] = "waitForTasks" /\ pc'[t] = "taskAvail" /\ t # 0
      <4>1. Goto(t, "taskAvail") \/ Broadcast(t, "taskAvail", {"tasksDone"})
        BY <2>1 DEF WaitForTasks
      <4>2. pc'[t] = "taskAvail"
        BY <1>0, <4>1, GotoLemma, BroadcastLemma
      <4> QED
        BY <1>0, <2>1, <4>2 DEF WaitForTasks, Places, Labels
    <3>2. \A u \in Threads : u # t =>
              \/ pc'[u] = pc[u]
              \/ pc[u] = "tasksDone" /\ pc'[u] = "ended"
      <4>1. ~SignalTasks(t)
        BY <3>1 DEF SignalTasks
      <4> QED
        BY <2>0, <4>1
    <3>2a. pc'[0] = pc[0] \/ (pc[0] = "tasksDone" /\ pc'[0] = "ended")
      BY <3>1, <3>2
    <3>3. \A u \in Threads : u # 0 /\ u # t => pc'[u] = pc[u]
      BY <2>0a, <3>2
    <3>4. UNCHANGED task
      BY <2>1 DEF WaitForTasks, local
    <3>5. ~Filling
      BY <1>0, <3>1 DEF RegionInv, Workers
    <3> QED
      BY <1>0, <2>0, <3>1, <3>2a, <3>3, <3>4, <3>5 DEF RegionInv, Filling
  <2>2. CASE Resume(t)
    <3>1. /\ pc[t] = "awake" /\ pc'[t] = (IF noMoreTasks THEN "exited" ELSE "own") /\ t # 0
          /\ \A u \in Threads : u # t => pc'[u] = pc[u]
      BY <1>0, <2>0b, <2>2, GotoLemma DEF Resume
    <3>2. UNCHANGED task
      BY <2>2 DEF Resume, local
    <3>3. ~Filling /\ (~parallelRegion => noMoreTasks)
      BY <3>1 DEF RegionInv, Workers
    <3> QED
      BY <1>0, <2>0, <3>1, <3>2, <3>3 DEF RegionInv, Filling
  <2>3. CASE SignalTasksTest(t)
    <3>1. /\ pc[t] = "signalTasks"
          /\ pc'[t] = (IF threadCount # 0 THEN "reset" ELSE AfterSignal(t))
          /\ \A u \in Threads : u # t => pc'[u] = pc[u]
      BY <1>0, <2>3, GotoLemma DEF SignalTasksTest
    <3>2. UNCHANGED task
      BY <2>3 DEF SignalTasksTest, local
    <3>3. CASE t = 0 /\ task[0] = NONE
      <4>1. Filling /\ pc'[0] = "reset"
        BY <3>1, <3>3 DEF Filling, CountInv
      <4> QED
        BY <1>0, <2>0, <3>1, <3>2, <3>3, <4>1 DEF RegionInv, Filling
    <3>4. CASE ~(t = 0 /\ task[0] = NONE)
      <4>1. task[t] # NONE
        BY <3>1, <3>4 DEF TaskInv
      <4>2. parallelRegion /\ ~noMoreTasks
        BY <3>1, <4>1 DEF RegionInv, Workers
      <4>3. pc'[t] \in {"reset", "run"}
        BY <3>1, <4>1 DEF AfterSignal
      <4>4. ~Filling
        BY <3>1, <4>1 DEF RegionInv, Workers, Filling
      <4>5. ~Filling'
        BY <3>1, <3>2, <4>1, <4>3, <4>4 DEF Filling
      <4> QED
        BY <1>0, <2>0, <3>1, <4>2, <4>3, <4>4, <4>5 DEF RegionInv, Filling
    <3> QED
      BY <3>3, <3>4
  <2>4. CASE SignalTasks(t)
    <3>1. pc[t] = "reset" /\ pc'[t] = AfterSignal(t)
      BY <1>0, <2>4, BroadcastLemma DEF SignalTasks
    <3>2. UNCHANGED task
      BY <2>4 DEF SignalTasks, local
    <3>3. CASE t = 0 /\ task[0] = NONE
      <4>1. Filling
        BY <3>1, <3>3 DEF Filling
      <4>2. pc'[0] = IF noMoreTasks THEN "exited" ELSE "own"
        BY <3>1, <3>3 DEF AfterSignal
      <4>3. \A w \in Workers : pc'[w] = "awake"
        <5>1. Broadcast(t, AfterSignal(t), {"taskAvail", "tasksDone"})
          BY <2>4 DEF SignalTasks
        <5>2. \A w \in Workers : pc[w] = "taskAvail"
          BY <4>1 DEF RegionInv
        <5>3. \A u \in Threads : u # t =>
                 pc'[u] = IF pc[u] \in {"taskAvail", "tasksDone"}
                          THEN IF pc[u] = "tasksDone" THEN "ended" ELSE "awake" ELSE pc[u]
          BY <1>0, <5>1, BroadcastLemma
        <5> QED
          BY <1>0, <3>3, <5>2, <5>3
      <4> QED
        BY <1>0, <2>0, <3>1, <3>2, <3>3, <4>2, <4>3 DEF RegionInv, Filling, Workers
    <3>4. CASE ~(t = 0 /\ task[0] = NONE)
      <4>1. task[t] # NONE
        BY <3>1, <3>4 DEF TaskInv
      <4>2. parallelRegion /\ ~noMoreTasks
        BY <3>1, <4>1 DEF RegionInv, Workers
      <4>3. pc'[t] = "run"
        BY <3>1, <4>1 DEF AfterSignal
      <4>4. ~Filling
        BY <3>1, <4>1 DEF RegionInv, Workers, Filling
      <4>5. t # 0 => pc'[0] = pc[0] \/ pc'[0] = "ended"
        BY <2>0, <2>0b
      <4>6. ~Filling'
        BY <3>2, <4>3, <4>4, <4>5 DEF Filling
      <4>7. \A u \in Threads : pc'[u] # "exited"
        BY <2>0, <4>2, <4>3 DEF RegionInv
      <4> QED
        BY <1>0, <2>0, <4>2, <4>3, <4>5, <4>6, <4>7 DEF RegionInv, Filling
    <3> QED
      BY <3>3, <3>4
  <2>5. CASE AtWork(t)
    <3>1. /\ parallelRegion /\ ~noMoreTasks /\ ~Filling /\ ~Filling'
          /\ pc'[t] \in {"own", "run", "steal", "lock", "move", "signalTasks"}
                         \cup (IF t = 0 THEN {"waitForEnd"} ELSE {"waitForTasks"})
          /\ \A u \in Threads : u # t => pc'[u] = pc[u]
      BY <2>5, AtWorkLemma
    <3>2. \A u \in Threads : pc'[u] # "exited"
      BY <3>1 DEF RegionInv
    <3>3. pc'[0] \notin {"enqueue", "taskQEnd"}
      BY <3>1 DEF Filling
    <3> QED
      BY <2>0, <3>1, <3>2, <3>3 DEF RegionInv
  <2> QED
    BY <1>2, <2>1, <2>2, <2>3, <2>4, <2>5 DEF PoolStep, AtWork
<1>3. CASE Finished \/ UNCHANGED vars
  BY <1>3 DEF Finished, vars, RegionInv, Filling
<1> QED
  BY <1>1, <1>2, <1>3 DEF Next

(* Each batch is a sequence of tasks.                                         *)
LEMMA BatchesLemma ==
    /\ Len(Batches) \in Nat /\ DOMAIN Batches = 1 .. Len(Batches)
    /\ \A b \in DOMAIN Batches : /\ Batches[b].tasks \in Seq(Tasks)
                                 /\ Len(Batches[b].tasks) \in Nat
                                 /\ DOMAIN Batches[b].tasks = 1 .. Len(Batches[b].tasks)
<1>1. Batches \in Seq([grid : BOOLEAN, tasks : Seq(Tasks)])
  BY TaskQAssumption
<1>2. Len(Batches) \in Nat /\ DOMAIN Batches = 1 .. Len(Batches)
  BY <1>1
<1>3. ASSUME NEW b \in DOMAIN Batches
      PROVE  /\ Batches[b].tasks \in Seq(Tasks)
             /\ Len(Batches[b].tasks) \in Nat
             /\ DOMAIN Batches[b].tasks = 1 .. Len(Batches[b].tasks)
  <2>1. Batches[b] \in [grid : BOOLEAN, tasks : Seq(Tasks)]
    <3>1. \A S : Batches \in Seq(S) => \A c \in 1 .. Len(Batches) : Batches[c] \in S
      OBVIOUS
    <3> QED
      BY <1>1, <1>2, <3>1
  <2>2. Batches[b].tasks \in Seq(Tasks)
    BY <2>1
  <2> QED
    BY <2>2
<1> QED
  BY <1>2, <1>3

(* Main's batches follow one another, and it hands out each in order.         *)
LEMMA BatchStep ==
    ASSUME SharedTypes, LocalTypes, TaskInv, TaskInv', RegionInv, CountInv, BatchInv, [Next]_vars
    PROVE  BatchInv'
<1> USE ThreadsLemma
<1>0. Places /\ DOMAIN pc = Threads
  BY DEF LocalTypes, Places
<1>1. CASE MainStep
  <2>1. CASE WaitForEnd
    <3>1. pc[0] = "waitForEnd" /\ pc'[0] \in {"tasksDone", "ended"}
      BY <1>0, <2>1, GotoLemma DEF WaitForEnd
    <3>2. UNCHANGED <<noMoreTasks, batch, pending>>
      BY <2>1 DEF WaitForEnd, shared, main
    <3> QED
      BY <3>1, <3>2 DEF BatchInv
  <2>2. CASE EndWait
    <3>1. pc[0] = "ended" /\ UNCHANGED noMoreTasks /\ ~noMoreTasks /\ pending = <<>>
      BY <2>2 DEF EndWait, RegionInv, BatchInv
    <3>2. Len(Batches) \in Nat /\ DOMAIN Batches = 1 .. Len(Batches)
      BY BatchesLemma
    <3>3. batch \in 0 .. Len(Batches)
      BY <3>1, <3>2 DEF BatchInv
    <3>4. CASE parallelRegion /\ threadCount # numThreads
      <4>1. pc'[0] = "own" /\ UNCHANGED <<batch, pending>>
        BY <1>0, <2>2, <3>4, GotoLemma DEF EndWait
      <4> QED
        BY <3>1, <4>1 DEF BatchInv
    <3>5. CASE ~(parallelRegion /\ threadCount # numThreads) /\ batch < Len(Batches)
      <4>1. pc'[0] = "enqueue" /\ batch' = batch + 1 /\ pending' = Batches[batch + 1].tasks
        BY <1>0, <2>2, <3>5, GotoLemma DEF EndWait
      <4>2. batch' \in DOMAIN Batches
        <5>1. batch' = batch + 1
          BY <4>1
        <5> QED
          BY <3>2, <3>3, <3>5, <5>1
      <4>3. Batches[batch'].tasks \in Seq(Tasks)
        BY <4>2, BatchesLemma
      <4>4. pending' = Batches[batch'].tasks /\ Len(pending') \in Nat
        BY <4>1, <4>3
      <4>5. \A i \in 1 .. Len(pending') :
               pending'[i] = Batches[batch'].tasks[Len(Batches[batch'].tasks) - Len(pending') + i]
        BY <4>4
      <4> QED
        BY <3>1, <3>2, <3>3, <3>5, <4>1, <4>2, <4>3, <4>4, <4>5 DEF BatchInv
    <3>6. CASE ~(parallelRegion /\ threadCount # numThreads) /\ ~(batch < Len(Batches))
      <4>1. pc'[0] = "taskQEnd" /\ batch' = batch + 1 /\ pending' = pending
        BY <1>0, <2>2, <3>6, GotoLemma DEF EndWait
      <4> QED
        BY <3>1, <3>2, <3>3, <3>6, <4>1 DEF BatchInv
    <3> QED
      BY <3>4, <3>5, <3>6
  <2>3. CASE AddTask
    <3>1. /\ pc[0] = "enqueue" /\ pending # <<>> /\ pending' = Tail(pending)
          /\ UNCHANGED <<pc, batch, noMoreTasks>>
      BY <2>3 DEF AddTask
    <3>2. pending \in Seq(Tasks) /\ batch \in DOMAIN Batches
      BY <3>1 DEF BatchInv
    <3>3. Batches[batch].tasks \in Seq(Tasks)
      BY <3>2, BatchesLemma
    <3>4. /\ Len(pending) \in Nat /\ Len(pending) > 0 /\ Tail(pending) \in Seq(Tasks)
          /\ Len(Tail(pending)) = Len(pending) - 1
          /\ \A i \in 1 .. Len(pending) - 1 : Tail(pending)[i] = pending[i + 1]
      BY <3>1, <3>2, EmptySeq
    <3>5. Len(Batches[batch].tasks) \in Nat
      BY <3>3
    <3>6. \A i \in 1 .. Len(Tail(pending)) :
             Tail(pending)[i] = Batches[batch].tasks[Len(Batches[batch].tasks) - Len(Tail(pending)) + i]
      <4>1. ASSUME NEW i \in 1 .. Len(Tail(pending))
            PROVE  Tail(pending)[i] = Batches[batch].tasks[Len(Batches[batch].tasks) - Len(Tail(pending)) + i]
        <5>1. i + 1 \in 1 .. Len(pending) /\ Tail(pending)[i] = pending[i + 1]
          BY <3>4
        <5>2. pending[i + 1] = Batches[batch].tasks[Len(Batches[batch].tasks) - Len(pending) + (i + 1)]
          BY <3>1, <5>1 DEF BatchInv
        <5>3. Len(Batches[batch].tasks) - Len(pending) + (i + 1)
                = Len(Batches[batch].tasks) - Len(Tail(pending)) + i
          <6> DEFINE m == Len(Batches[batch].tasks)  n == Len(pending)  l == Len(Tail(pending))
          <6>1. i \in Nat /\ m \in Nat /\ n \in Nat /\ l = n - 1
            BY <3>4, <3>5
          <6> HIDE DEF m, n, l
          <6>2. m - n + (i + 1) = m - l + i
            BY <6>1
          <6> QED
            BY <6>2 DEF m, n, l
        <5> QED
          BY <5>1, <5>2, <5>3
      <4> QED
        BY <4>1
    <3>7. Len(Tail(pending)) <= Len(Batches[batch].tasks)
      BY <3>1, <3>4, <3>5 DEF BatchInv
    <3> QED
      BY <3>1, <3>2, <3>4, <3>6, <3>7 DEF BatchInv
  <2>4. CASE AddTaskGrid
    <3>1. /\ pc[0] = "enqueue" /\ pending' = <<>> /\ UNCHANGED <<pc, batch, noMoreTasks>>
      BY <2>4 DEF AddTaskGrid
    <3>2. batch \in DOMAIN Batches /\ Len(Batches[batch].tasks) \in Nat
      BY <3>1, BatchesLemma DEF BatchInv
    <3>3. <<>> \in Seq(Tasks) /\ Len(<<>>) = 0
      BY EmptySeq
    <3> QED
      BY <3>1, <3>2, <3>3 DEF BatchInv
  <2>5. CASE BeginWait
    <3>1. pc[0] = "enqueue" /\ pending = <<>> /\ pc'[0] = "signalTasks"
      BY <1>0, <2>5, GotoLemma DEF BeginWait
    <3>2. UNCHANGED <<noMoreTasks, batch, pending>>
      BY <2>5 DEF BeginWait, main
    <3> QED
      BY <3>1, <3>2 DEF BatchInv
  <2>6. CASE TaskQEnd
    <3>1. pc[0] = "taskQEnd" /\ pc'[0] = "signalTasks" /\ noMoreTasks' = TRUE
      BY <1>0, <2>6, GotoLemma DEF TaskQEnd
    <3>2. UNCHANGED <<batch, pending>>
      BY <2>6 DEF TaskQEnd, main
    <3> QED
      BY <3>1, <3>2 DEF BatchInv
  <2> QED
    BY <1>1, <2>1, <2>2, <2>3, <2>4, <2>5, <2>6 DEF MainStep
<1>2. ASSUME NEW t \in Threads, PoolStep(t) PROVE BatchInv'
  <2>1. UNCHANGED <<noMoreTasks, batch, pending>>
    BY <1>0, <1>2, PoolPc
  <2>2. pc[0] \notin {"enqueue", "taskQEnd"}
    <3>1. SUFFICES ASSUME pc[0] \in {"enqueue", "taskQEnd"} PROVE FALSE
      OBVIOUS
    <3>2. pc[t] \in {"enqueue", "taskQEnd", "taskAvail"}
      BY <3>1 DEF RegionInv, Filling, Workers
    <3> QED
      BY <1>2, <3>2 DEF PoolStep, WaitForTasks, Resume, SignalTasksTest, SignalTasks, GetTask, OwnEmpty,
                        AddChild, EndTask, StealNothing, QuickCheck, LockFirst, Steal
  <2>3. pc'[0] \notin {"enqueue", "taskQEnd"}
    <3>1. CASE t # 0
      BY <1>0, <1>2, <2>2, <3>1, PoolPc
    <3>2. CASE t = 0 /\ AtWork(t)
      BY <3>2, AtWorkLemma
    <3>3. CASE t = 0 /\ ~AtWork(t)
      <4>1. CASE SignalTasksTest(t)
        BY <1>0, <3>3, <4>1, GotoLemma DEF SignalTasksTest, AfterSignal
      <4>2. CASE SignalTasks(t)
        <5>1. Broadcast(t, AfterSignal(t), {"taskAvail", "tasksDone"})
          BY <4>2 DEF SignalTasks
        <5>2. pc'[0] = AfterSignal(t)
          BY <1>0, <3>3, <5>1, BroadcastLemma
        <5> QED
          BY <5>2 DEF AfterSignal
      <4>3. CASE WaitForTasks(t) \/ Resume(t)
        BY <1>0, <3>3, <4>3 DEF WaitForTasks, Resume, Places, Labels
      <4> QED
        BY <1>2, <3>3, <4>1, <4>2, <4>3 DEF PoolStep, AtWork
    <3> QED
      BY <3>1, <3>2, <3>3
  <2> QED
    BY <2>1, <2>2, <2>3 DEF BatchInv
<1>3. CASE Finished \/ UNCHANGED vars
  <2>1. UNCHANGED <<pc, noMoreTasks, batch, pending>>
    BY <1>3 DEF Finished, vars
  <2> QED
    BY <2>1 DEF BatchInv
<1> QED
  BY <1>1, <1>2, <1>3 DEF Next

(* Nobody is miscounted: threadCount is the number of those asleep, and when  *)
(* it reaches numThreads everybody is.                                        *)
LEMMA CountStep ==
    ASSUME SharedTypes, LocalTypes, TaskInv, TaskInv', RegionInv, CountInv, [Next]_vars
    PROVE  CountInv'
<1> USE ThreadsLemma
<1>0. /\ Places /\ DOMAIN pc = Threads /\ (\A w \in Workers : w \in Threads /\ w # 0)
      /\ \A t \in Threads : t # 0 => t \in Workers
  BY DEF LocalTypes, Places, Workers
<1>s. (\A w \in Workers : pc'[w] = "taskAvail" <=> pc[w] = "taskAvail") => Sleepers' = Sleepers
  BY DEF Sleepers
<1>c. Sleepers \in SUBSET Workers /\ Cardinality(Sleepers) \in Nat /\ Cardinality(Sleepers) <= numThreads - 1
      /\ (Cardinality(Sleepers) = numThreads - 1 => Sleepers = Workers)
  BY WorkersLemma DEF Sleepers
<1>1. CASE MainStep
  <2>1. CASE WaitForEnd
    <3>1. /\ pc[0] = "waitForEnd" /\ threadCount' = threadCount + 1
          /\ pc'[0] = IF threadCount' # numThreads THEN "tasksDone" ELSE "ended"
          /\ \A u \in Threads : u # 0 => pc'[u] = pc[u]
      BY <1>0, <2>1, GotoLemma DEF WaitForEnd
    <3>2. Sleepers' = Sleepers
      BY <1>0, <1>s, <3>1
    <3>3. threadCount = Cardinality(Sleepers)
      BY <3>1 DEF CountInv, Filling
    <3>4. ~Filling' /\ pc'[0] \in {"tasksDone", "ended"}
      BY <3>1 DEF Filling
    <3>5. pc'[0] = "tasksDone" => threadCount' = Cardinality(Sleepers') + 1
      BY <3>1, <3>2, <3>3
    <3>6. pc'[0] = "ended" => threadCount' = numThreads /\ Sleepers' = Workers
      BY <1>c, <3>1, <3>2, <3>3
    <3> QED
      BY <3>4, <3>5, <3>6 DEF CountInv
  <2>2. CASE EndWait
    <3>1. pc[0] = "ended" /\ UNCHANGED <<task, threadCount>>
      BY <2>2 DEF EndWait
    <3>2. CASE parallelRegion /\ threadCount # numThreads
      <4>1. pc'[0] = "own" /\ (\A u \in Threads : u # 0 => pc'[u] = pc[u])
        BY <1>0, <2>2, <3>2, GotoLemma DEF EndWait
      <4>2. Sleepers' = Sleepers
        BY <1>0, <1>s, <4>1
      <4>3. threadCount = Cardinality(Sleepers)
        BY <3>1, <3>2 DEF CountInv
      <4> QED
        BY <3>1, <4>1, <4>2, <4>3 DEF CountInv, Filling
    <3>3. CASE ~(parallelRegion /\ threadCount # numThreads)
      <4>1. Goto(0, "enqueue") \/ Goto(0, "taskQEnd")
        BY <2>2, <3>3 DEF EndWait
      <4>2. pc'[0] \in {"enqueue", "taskQEnd"}
        BY <1>0, <4>1, GotoLemma
      <4>3. threadCount' = numThreads
        BY <2>2, <3>1, <3>3, EndWaitLemma
      <4> QED
        BY <4>2, <4>3 DEF CountInv, Filling
    <3> QED
      BY <3>2, <3>3
  <2>3. CASE AddTask \/ AddTaskGrid
    <3>1. UNCHANGED <<pc, threadCount, parallelRegion, task>>
      BY <2>3 DEF AddTask, AddTaskGrid, local
    <3> QED
      BY <1>s, <3>1 DEF CountInv, Filling
  <2>4. CASE BeginWait \/ TaskQEnd
    <3>1. pc[0] \in {"enqueue", "taskQEnd"} /\ pc'[0] = "signalTasks" /\ UNCHANGED <<threadCount, task>>
      BY <1>0, <2>4, GotoLemma DEF BeginWait, TaskQEnd, local
    <3>2. task[0] = NONE /\ Filling /\ Filling'
      BY <3>1 DEF TaskInv, Filling
    <3> QED
      BY <3>1, <3>2 DEF CountInv
  <2> QED
    BY <1>1, <2>1, <2>2, <2>3, <2>4 DEF MainStep
<1>2. ASSUME NEW t \in Threads, PoolStep(t) PROVE CountInv'
  <2>0. /\ UNCHANGED parallelRegion
        /\ \A u \in Threads : u # t =>
              \/ pc'[u] = pc[u]
              \/ SignalTasks(t) /\ pc[u] = "taskAvail" /\ pc'[u] = "awake"
              \/ (SignalTasks(t) \/ WaitForTasks(t)) /\ pc[u] = "tasksDone" /\ pc'[u] = "ended"
    BY <1>0, <1>2, PoolPc
  <2>0a. \A u \in Threads : pc[u] = "tasksDone" => u = 0
    BY <1>0 DEF Places, Labels
  <2>0b. pc[0] \notin {"taskAvail", "awake"}
    BY <1>0 DEF Places, Labels
  <2>1. CASE WaitForTasks(t)
    <3>1. /\ pc[t] = "waitForTasks" /\ t # 0 /\ threadCount' = threadCount + 1
          /\ pc'[t] = "taskAvail"
          /\ \A u \in Threads : u # t =>
                pc'[u] = IF threadCount' = numThreads /\ pc[u] = "tasksDone" THEN "ended" ELSE pc[u]
      <4>1. pc[t] = "waitForTasks" /\ t # 0 /\ threadCount' = threadCount + 1
        BY <1>0, <2>1 DEF WaitForTasks, Places, Labels
      <4>2. CASE threadCount' = numThreads
        <5>1. Broadcast(t, "taskAvail", {"tasksDone"})
          BY <2>1, <4>2 DEF WaitForTasks
        <5>2. /\ pc'[t] = "taskAvail"
              /\ \A u \in Threads : u # t =>
                   pc'[u] = IF pc[u] \in {"tasksDone"}
                            THEN IF pc[u] = "tasksDone" THEN "ended" ELSE "awake" ELSE pc[u]
          BY <1>0, <5>1, BroadcastLemma
        <5> QED
          BY <4>1, <4>2, <5>2
      <4>3. CASE threadCount' # numThreads
        <5>1. Goto(t, "taskAvail")
          BY <2>1, <4>3 DEF WaitForTasks
        <5> QED
          BY <1>0, <4>1, <4>3, <5>1, GotoLemma
      <4> QED
        BY <4>2, <4>3
    <3>2. Sleepers' = Sleepers \cup {t} /\ t \notin Sleepers
      <4>1. \A w \in Workers : w # t => (pc'[w] = "taskAvail" <=> pc[w] = "taskAvail")
        BY <1>0, <3>1
      <4>2. t \in Workers
        BY <1>0, <3>1
      <4> QED
        BY <3>1, <4>1, <4>2 DEF Sleepers
    <3>3. Cardinality(Sleepers') = Cardinality(Sleepers) + 1
      BY <1>c, <3>2, WorkersLemma, FS_AddElement
    <3>4. Cardinality(Sleepers') = numThreads - 1 => Sleepers' = Workers
      BY <1>0, <1>c, <3>1, <3>2, WorkersLemma
    <3>5. UNCHANGED <<task, parallelRegion>>
      BY <2>0, <2>1 DEF WaitForTasks, local
    <3>6. ~Filling
      BY <1>0, <3>1 DEF RegionInv
    <3>7. ~Filling'
      BY <3>1, <3>5, <3>6 DEF Filling
    <3>8. pc'[0] = IF threadCount' = numThreads /\ pc[0] = "tasksDone" THEN "ended" ELSE pc[0]
      BY <3>1
    <3>9. CASE pc[0] \notin {"tasksDone", "ended"}
      <4>1. threadCount' = Cardinality(Sleepers') /\ pc'[0] \notin {"tasksDone", "ended"}
        BY <3>1, <3>3, <3>6, <3>8, <3>9 DEF CountInv
      <4> QED
        BY <3>7, <4>1 DEF CountInv
    <3>10. CASE pc[0] = "tasksDone"
      <4>1. threadCount' = Cardinality(Sleepers') + 1
        BY <1>c, <3>1, <3>3, <3>10 DEF CountInv
      <4>2. pc'[0] = IF threadCount' = numThreads THEN "ended" ELSE "tasksDone"
        BY <3>8, <3>10
      <4>3. threadCount' = numThreads => Cardinality(Sleepers') = numThreads - 1
        BY <1>c, <3>3, <4>1
      <4> QED
        BY <3>4, <3>7, <4>1, <4>2, <4>3 DEF CountInv
    <3>11. CASE pc[0] = "ended"
      <4>1. threadCount = Cardinality(Sleepers) /\ parallelRegion
        BY <1>0, <3>1, <3>2, <3>11 DEF CountInv
      <4>2. threadCount' = Cardinality(Sleepers') /\ parallelRegion' /\ pc'[0] = "ended"
        BY <3>1, <3>3, <3>5, <3>8, <3>11, <4>1
      <4> QED
        BY <3>7, <4>2 DEF CountInv
    <3> QED
      BY <3>9, <3>10, <3>11
  <2>2. CASE Resume(t)
    <3>1. /\ pc[t] = "awake" /\ pc'[t] \in {"exited", "own"} /\ t # 0
          /\ \A u \in Threads : u # t => pc'[u] = pc[u]
      BY <1>0, <2>0b, <2>2, GotoLemma DEF Resume
    <3>2. UNCHANGED <<task, threadCount>>
      BY <2>2 DEF Resume, local
    <3>3. Sleepers' = Sleepers
      BY <1>0, <1>s, <3>1
    <3> QED
      BY <2>0, <3>1, <3>2, <3>3 DEF CountInv, Filling
  <2>3. CASE SignalTasksTest(t)
    <3>1. /\ pc[t] = "signalTasks"
          /\ pc'[t] = (IF threadCount # 0 THEN "reset" ELSE AfterSignal(t))
          /\ \A u \in Threads : u # t => pc'[u] = pc[u]
      BY <1>0, <2>3, GotoLemma DEF SignalTasksTest
    <3>2. UNCHANGED <<task, threadCount>>
      BY <2>3 DEF SignalTasksTest, local
    <3>3. pc'[t] \in {"reset", "run", "exited", "own"}
      BY <3>1 DEF AfterSignal
    <3>4. Sleepers' = Sleepers
      BY <1>0, <1>s, <3>1, <3>3
    <3>5. CASE t # 0
      <4>1. pc'[0] = pc[0]
        BY <3>1, <3>5
      <4> QED
        BY <2>0, <3>2, <3>4, <4>1 DEF CountInv, Filling
    <3>6. CASE t = 0 /\ task[0] = NONE
      <4>1. Filling
        BY <3>1, <3>6 DEF Filling
      <4>2. threadCount = numThreads /\ pc'[0] = "reset"
        BY <3>1, <3>6, <4>1 DEF CountInv
      <4> QED
        BY <3>2, <3>6, <4>2 DEF CountInv, Filling
    <3>7. CASE t = 0 /\ task[0] # NONE
      <4>1. ~Filling /\ threadCount = Cardinality(Sleepers)
        BY <3>1, <3>7 DEF Filling, CountInv
      <4>2. pc'[0] \in {"reset", "run"}
        BY <3>1, <3>7 DEF AfterSignal
      <4> QED
        BY <3>2, <3>4, <3>7, <4>1, <4>2 DEF CountInv, Filling
    <3> QED
      BY <3>5, <3>6, <3>7
  <2>4. CASE SignalTasks(t)
    <3>1. Broadcast(t, AfterSignal(t), {"taskAvail", "tasksDone"})
      BY <2>4 DEF SignalTasks
    <3>2. /\ pc'[t] = AfterSignal(t)
          /\ \A u \in Threads : u # t =>
               pc'[u] = IF pc[u] \in {"taskAvail", "tasksDone"}
                        THEN IF pc[u] = "tasksDone" THEN "ended" ELSE "awake" ELSE pc[u]
      BY <1>0, <3>1, BroadcastLemma
    <3>3. AfterSignal(t) \in {"run", "exited", "own"}
      BY DEF AfterSignal
    <3>4. \A u \in Threads : pc'[u] \notin {"taskAvail", "tasksDone"}
      BY <3>2, <3>3
    <3>5. Sleepers' = {} /\ Cardinality(Sleepers') = 0
      BY <1>0, <3>4, FS_EmptySet DEF Sleepers
    <3>6. threadCount' = 0 /\ UNCHANGED task /\ pc[t] = "reset"
      BY <2>4 DEF SignalTasks, local
    <3>7. ~Filling'
      <4>1. CASE t = 0
        BY <3>2, <3>3, <4>1 DEF Filling
      <4>2. CASE t # 0
        <5>1. ~Filling
          BY <1>0, <3>6, <4>2 DEF RegionInv
        <5>2. pc'[0] = pc[0] \/ pc'[0] = "ended"
          BY <2>0b, <3>2, <4>2
        <5> QED
          BY <3>6, <5>1, <5>2 DEF Filling
      <4> QED
        BY <4>1, <4>2
    <3>8. pc'[0] = "ended" => parallelRegion'
      <4>1. SUFFICES ASSUME pc'[0] = "ended" PROVE parallelRegion
        BY <2>0
      <4>2. t # 0
        BY <3>2, <3>3, <4>1
      <4> QED
        BY <1>0, <3>6, <4>2 DEF RegionInv
    <3> QED
      BY <3>4, <3>5, <3>6, <3>7, <3>8 DEF CountInv
  <2>5. CASE AtWork(t)
    <3>1. /\ parallelRegion /\ ~Filling /\ ~Filling'
          /\ pc[t] \in {"own", "run", "steal", "lock", "move"}
          /\ pc'[t] \in {"own", "run", "steal", "lock", "move", "signalTasks"}
                         \cup (IF t = 0 THEN {"waitForEnd"} ELSE {"waitForTasks"})
          /\ \A u \in Threads : u # t => pc'[u] = pc[u]
          /\ UNCHANGED <<parallelRegion, threadCount>>
      BY <2>5, AtWorkLemma
    <3>2. \A u \in Threads : \A l \in {"taskAvail", "tasksDone", "ended"} : pc'[u] = l <=> pc[u] = l
      BY <3>1
    <3>3. Sleepers' = Sleepers
      BY <1>0, <1>s, <3>2
    <3> QED
      BY <3>1, <3>2, <3>3 DEF CountInv
  <2> QED
    BY <1>2, <2>1, <2>2, <2>3, <2>4, <2>5 DEF PoolStep, AtWork
<1>3. CASE Finished \/ UNCHANGED vars
  <2>1. UNCHANGED <<pc, threadCount, parallelRegion, task>>
    BY <1>3 DEF Finished, vars
  <2> QED
    BY <1>s, <2>1 DEF CountInv, Filling
<1> QED
  BY <1>1, <1>2, <1>3 DEF Next

-----------------------------------------------------------------------------
(* Where the tasks are.                                                       *)

(* What main still has to enqueue of its batch, each task once, has not been  *)
(* enqueued, neither by main nor by a task.                                   *)
LEMMA PendingLemma ==
    ASSUME LocalTypes, TaskInv, BatchInv, pc[0] = "enqueue"
    PROVE  /\ pending \in Seq(Tasks)
           /\ \A i \in 1 .. Len(pending) : pending[i] \notin FromMain \cup FromTasks
           /\ \A i, j \in 1 .. Len(pending) : pending[i] = pending[j] => i = j
<1> DEFINE n == Len(Batches[batch].tasks)  m == Len(pending)
<1>1. /\ pending \in Seq(Tasks) /\ batch \in DOMAIN Batches /\ m <= n
      /\ \A i \in 1 .. m : pending[i] = Batches[batch].tasks[n - m + i]
  BY DEF BatchInv
<1>2. n \in Nat /\ m \in Nat /\ DOMAIN Batches[batch].tasks = 1 .. n
  BY <1>1, BatchesLemma
<1> HIDE DEF n, m
<1>3. \A i \in 1 .. m : n - m + i \in DOMAIN Batches[batch].tasks
  BY <1>1, <1>2
<1>4. ASSUME NEW i \in 1 .. m, pending[i] \in FromMain PROVE FALSE
  <2>1. PICK b \in DOMAIN Batches :
           \E l \in DOMAIN Batches[b].tasks : pending[i] = Batches[b].tasks[l] /\ HandedOut(b, l)
    BY <1>4 DEF FromMain
  <2>2. PICK l \in DOMAIN Batches[b].tasks : pending[i] = Batches[b].tasks[l] /\ HandedOut(b, l)
    BY <2>1
  <2>3. b = batch /\ l = n - m + i
    BY <1>1, <1>3, <2>2, TaskIdentity
  <2>4. b \in Nat
    BY BatchesLemma
  <2> QED
    BY <1>2, <2>2, <2>3, <2>4 DEF HandedOut, n, m
<1>5. ASSUME NEW i \in 1 .. m, pending[i] \in FromTasks PROVE FALSE
  <2>1. PICK p \in Running \cup Ran : pending[i] \in Children[p]
    BY <1>5 DEF FromTasks
  <2>2. p \in Tasks
    BY <2>1 DEF Running, Ran, LocalTypes
  <2> QED
    BY <1>1, <1>3, <2>1, <2>2, TaskIdentity
<1>6. ASSUME NEW i \in 1 .. m, NEW j \in 1 .. m, pending[i] = pending[j] PROVE i = j
  <2>1. n - m + i = n - m + j
    BY <1>1, <1>3, <1>6, TaskIdentity
  <2> QED
    BY <1>2, <2>1
<1> QED
  BY <1>1, <1>4, <1>5, <1>6 DEF m

(* When main has enqueued the first d of them, those have come from main.     *)
LEMMA HandOutLemma ==
    ASSUME BatchInv, pc[0] = "enqueue", NEW d \in Nat, d <= Len(pending),
           UNCHANGED batch, Len(pending') = Len(pending) - d
    PROVE  FromMain' = FromMain \cup {pending[i] : i \in 1 .. d}
<1> DEFINE n == Len(Batches[batch].tasks)  m == Len(pending)
<1>1. /\ pending \in Seq(Tasks) /\ batch \in DOMAIN Batches /\ m <= n
      /\ \A i \in 1 .. m : pending[i] = Batches[batch].tasks[n - m + i]
  BY DEF BatchInv
<1>2. n \in Nat /\ m \in Nat /\ DOMAIN Batches[batch].tasks = 1 .. n /\ batch \in Nat
      /\ Batches[batch].tasks \in Seq(Tasks)
  BY <1>1, BatchesLemma
<1>3. d <= m
  OBVIOUS
<1> HIDE DEF n, m
<1>4. ASSUME NEW b \in DOMAIN Batches, NEW i \in DOMAIN Batches[b].tasks
      PROVE  HandedOut(b, i)' <=> HandedOut(b, i) \/ (b = batch /\ i \in n - m + 1 .. n - m + d)
  <2>1. HandedOut(b, i) <=> b < batch \/ (b = batch /\ i <= n - m)
    BY DEF HandedOut, n, m
  <2>2. HandedOut(b, i)' <=> b < batch \/ (b = batch /\ i <= n - (m - d))
    BY DEF HandedOut, n, m
  <2>3. b = batch => i \in 1 .. n
    BY <1>2
  <2>4. b = batch => (i <= n - (m - d) <=> i <= n - m \/ i \in n - m + 1 .. n - m + d)
    BY <1>2, <2>3
  <2> QED
    BY <2>1, <2>2, <2>4
<1>5. ASSUME NEW k \in FromMain' PROVE k \in FromMain \cup {pending[i] : i \in 1 .. d}
  <2>1. PICK b \in DOMAIN Batches :
           \E i \in DOMAIN Batches[b].tasks : k = Batches[b].tasks[i] /\ HandedOut(b, i)'
    BY <1>5 DEF FromMain
  <2>2. PICK i \in DOMAIN Batches[b].tasks : k = Batches[b].tasks[i] /\ HandedOut(b, i)'
    BY <2>1
  <2>3. CASE HandedOut(b, i)
    BY <1>5, <2>2, <2>3 DEF FromMain
  <2>4. CASE b = batch /\ i \in n - m + 1 .. n - m + d
    <3>1. i - (n - m) \in 1 .. d /\ i - (n - m) \in 1 .. m /\ n - m + (i - (n - m)) = i
      BY <1>1, <1>2, <1>3, <2>4
    <3>2. pending[i - (n - m)] = k
      BY <1>1, <2>2, <2>4, <3>1
    <3> QED
      BY <3>1, <3>2
  <2> QED
    BY <1>4, <2>2, <2>3, <2>4
<1>6. ASSUME NEW k \in FromMain PROVE k \in FromMain'
  BY <1>4, <1>6 DEF FromMain
<1>7. ASSUME NEW i \in 1 .. d PROVE pending[i] \in FromMain'
  <2>1. i \in 1 .. m /\ n - m + i \in 1 .. n /\ n - m + i \in n - m + 1 .. n - m + d
    BY <1>1, <1>2, <1>3
  <2>2. pending[i] = Batches[batch].tasks[n - m + i] /\ pending[i] \in Tasks
    BY <1>1, <2>1 DEF m
  <2>3. PICK b \in DOMAIN Batches, l \in Nat : b = batch /\ l = n - m + i
    BY <1>1, <2>1
  <2>4. l \in DOMAIN Batches[b].tasks /\ HandedOut(b, l)'
    BY <1>2, <1>4, <2>1, <2>3
  <2>5. pending[i] = Batches[b].tasks[l]
    BY <2>2, <2>3
  <2> QED
    BY <2>2, <2>4, <2>5 DEF FromMain
<1> QED
  BY <1>5, <1>6, <1>7

(* New tasks get into the queues, and nothing else changes.                   *)
LEMMA EnqueuedLemma ==
    ASSUME PlaceInv, NEW X, X \cap (FromMain \cup FromTasks) = {},
           UNCHANGED <<task, ran>>, OnceIn(Queues, queue'), Queued' = Queued \cup X,
           FromMain' \cup FromTasks' = FromMain \cup FromTasks \cup X
    PROVE  PlaceInv'
<1>1. Running' = Running /\ Ran' = Ran
  BY DEF Running, Ran
<1>2. X \cap Running = {} /\ X \cap Ran = {}
  BY DEF PlaceInv
<1>3. /\ Queued' \cap Running' = {} /\ Queued' \cap Ran' = {} /\ Running' \cap Ran' = {}
      /\ Queued' \cup Running' \cup Ran' = FromMain' \cup FromTasks'
  <2>1. /\ Queued \cap Running = {} /\ Queued \cap Ran = {} /\ Running \cap Ran = {}
        /\ Queued \cup Running \cup Ran = FromMain \cup FromTasks
    BY DEF PlaceInv
  <2> QED
    BY <1>1, <1>2, <2>1
<1>4. /\ \A t, u \in Threads : task'[t] = task'[u] /\ task'[t] # NONE => t = u
      /\ \A k \in Tasks : ran'[k] <= 1
  BY DEF PlaceInv
<1> QED
  BY <1>3, <1>4 DEF PlaceInv

(* A task that is put at the end of a queue.                                  *)
LEMMA PutLemma ==
    ASSUME SharedTypes, OnceIn(Queues, queue), NEW q \in Queues, NEW k \in Tasks, k \notin Queued,
           Put(q, <<k>>)
    PROVE  OnceIn(Queues, queue') /\ Queued' = Queued \cup {k}
<1>1. queue \in Lines(Queues, Tasks) /\ queue[q] \in Seq(Tasks)
  BY DEF SharedTypes, Lines
<1>2. queue[q] \o <<k>> = Append(queue[q], k)
  BY <1>1
<1>3. queue' = Entered(queue, q, k)
  BY <1>2 DEF Put, Entered
<1>4. k \notin Among(queue, Queues)
  BY DEF Queued
<1>5. Queues \in SUBSET Queues
  OBVIOUS
<1>6. OnceIn(Queues, queue') /\ Among(queue', Queues) = Among(queue, Queues) \cup {k}
  BY <1>1, <1>3, <1>4, <1>5, Entering
<1> QED
  BY <1>6 DEF Queued

(* Main enqueues one task, the next of its batch.                             *)
LEMMA PlaceAddTask ==
    ASSUME SharedTypes, LocalTypes, TaskInv, BatchInv, PlaceInv, AddTask
    PROVE  PlaceInv'
<1>1. /\ pc[0] = "enqueue" /\ pending # <<>> /\ pending' = Tail(pending) /\ UNCHANGED batch
      /\ Put(PickQueue(0), <<Head(pending)>>) /\ UNCHANGED <<task, todo, ran>>
  BY DEF AddTask, local
<1>2. pending \in Seq(Tasks) /\ Len(pending) \in Nat /\ 1 \in 1 .. Len(pending)
      /\ Head(pending) = pending[1] /\ Len(pending') = Len(pending) - 1
  <2>1. pending \in Seq(Tasks)
    BY <1>1, PendingLemma
  <2> QED
    BY <1>1, <2>1, EmptySeq
<1>3. PICK k : k = pending[1]
  OBVIOUS
<1>4. k \in Tasks /\ k \notin FromMain \cup FromTasks
  BY <1>1, <1>2, <1>3, PendingLemma
<1>5. k \notin Queued
  BY <1>4 DEF PlaceInv
<1>6. OnceIn(Queues, queue') /\ Queued' = Queued \cup {k}
  BY <1>1, <1>2, <1>3, <1>4, <1>5, PutLemma, QueuesLemma, ThreadsLemma DEF SharedTypes, PlaceInv
<1>7. FromMain' = FromMain \cup {k}
  <2>1. 1 \in Nat /\ 1 <= Len(pending)
    BY <1>2
  <2>2. FromMain' = FromMain \cup {pending[i] : i \in 1 .. 1}
    BY <1>1, <1>2, <2>1, HandOutLemma
  <2> QED
    BY <1>3, <2>2
<1>8. FromTasks' = FromTasks
  BY <1>1 DEF FromTasks, Running, Ran
<1>9. {k} \cap (FromMain \cup FromTasks) = {}
  BY <1>4
<1>10. FromMain' \cup FromTasks' = FromMain \cup FromTasks \cup {k}
  BY <1>7, <1>8
<1> QED
  BY <1>1, <1>6, <1>9, <1>10, EnqueuedLemma

(* Main enqueues a grid.                                                      *)
LEMMA PlaceAddTaskGrid ==
    ASSUME SharedTypes, LocalTypes, TaskInv, BatchInv, PlaceInv, AddTaskGrid
    PROVE  PlaceInv'
<1> DEFINE m == Len(pending)  X == In(pending)
<1>1. /\ pc[0] = "enqueue" /\ pending' = <<>> /\ UNCHANGED batch
      /\ queue' = [q \in Queues |-> queue[q] \o AssignTasks(q)] /\ UNCHANGED <<task, todo, ran>>
  BY DEF AddTaskGrid, local
<1>2. /\ pending \in Seq(Tasks) /\ m \in Nat
      /\ \A i \in 1 .. m : pending[i] \notin FromMain \cup FromTasks
      /\ \A i, j \in 1 .. m : pending[i] = pending[j] => i = j
  BY <1>1, PendingLemma
<1>3. PICK off \in [Queues -> Nat] :
        /\ \A q \in Queues : AssignTasks(q) \in Seq(Tasks)
        /\ \A q \in Queues : \A j \in 1 .. Len(AssignTasks(q)) :
              off[q] + j \in 1 .. m /\ AssignTasks(q)[j] = pending[off[q] + j]
        /\ \A q, r \in Queues :
              \A j \in 1 .. Len(AssignTasks(q)), l \in 1 .. Len(AssignTasks(r)) :
                 off[q] + j = off[r] + l => q = r /\ j = l
        /\ \A i \in 1 .. m : \E q \in Queues : \E j \in 1 .. Len(AssignTasks(q)) : off[q] + j = i
  BY <1>2, AssignLemma
<1>4. ASSUME NEW q \in Queues
      PROVE  /\ queue[q] \in Seq(Tasks) /\ Len(queue[q]) \in Nat /\ Len(AssignTasks(q)) \in Nat
             /\ Len(queue'[q]) = Len(queue[q]) + Len(AssignTasks(q))
             /\ \A i \in 1 .. Len(queue[q]) + Len(AssignTasks(q)) :
                   queue'[q][i] = IF i <= Len(queue[q]) THEN queue[q][i]
                                  ELSE AssignTasks(q)[i - Len(queue[q])]
  <2>1. queue[q] \in Seq(Tasks) /\ AssignTasks(q) \in Seq(Tasks)
    BY <1>3 DEF SharedTypes
  <2>2. queue'[q] = queue[q] \o AssignTasks(q)
    BY <1>1
  <2> QED
    BY <2>1, <2>2, JoinLemma, LenProperties
<1>5. \A i \in 1 .. m : pending[i] \in Tasks /\ pending[i] \notin Queued
  BY <1>2 DEF PlaceInv
<1> HIDE DEF m
<1> DEFINE old(q, i) == i \in 1 .. Len(queue[q]) /\ queue'[q][i] = queue[q][i]
           new(q, i) == /\ i - Len(queue[q]) \in 1 .. Len(AssignTasks(q))
                        /\ off[q] + (i - Len(queue[q])) \in 1 .. m
                        /\ queue'[q][i] = pending[off[q] + (i - Len(queue[q]))]
<1>6. ASSUME NEW q \in Queues, NEW i \in 1 .. Len(queue'[q]) PROVE i \in Nat /\ (old(q, i) \/ new(q, i))
  <2>0. i \in 1 .. Len(queue[q]) + Len(AssignTasks(q)) /\ i \in Nat
    BY <1>4
  <2>1. CASE i <= Len(queue[q])
    BY <1>4, <2>0, <2>1
  <2>2. CASE ~(i <= Len(queue[q]))
    <3>1. i - Len(queue[q]) \in 1 .. Len(AssignTasks(q))
      BY <1>4, <2>0, <2>2
    <3>2. queue'[q][i] = AssignTasks(q)[i - Len(queue[q])]
      BY <1>4, <2>0, <2>2
    <3>3. PICK j : j = i - Len(queue[q])
      OBVIOUS
    <3>4. off[q] + j \in 1 .. m /\ AssignTasks(q)[j] = pending[off[q] + j]
      BY <1>3, <3>1, <3>3
    <3> QED
      BY <2>0, <3>1, <3>2, <3>3, <3>4, Zenon
  <2> QED
    BY <2>1, <2>2
<1>7. OnceIn(Queues, queue')
  <2>1. ASSUME NEW q \in Queues, NEW r \in Queues, NEW i \in 1 .. Len(queue'[q]), NEW j \in 1 .. Len(queue'[r]),
               queue'[q][i] = queue'[r][j]
        PROVE  q = r /\ i = j
    <3>0. /\ i \in Nat /\ j \in Nat /\ (old(q, i) \/ new(q, i)) /\ (old(r, j) \/ new(r, j))
          /\ Len(queue[q]) \in Nat /\ Len(queue[r]) \in Nat
      BY <1>4, <1>6
    <3>1. old(q, i) => queue'[q][i] \in Queued
      BY DEF Queued, Among, In
    <3>2. new(q, i) => queue'[q][i] \notin Queued
      BY <1>5
    <3>3. old(r, j) => queue'[r][j] \in Queued
      BY DEF Queued, Among, In
    <3>4. new(r, j) => queue'[r][j] \notin Queued
      BY <1>5
    <3>5. CASE old(q, i) /\ old(r, j)
      <4>1. OnceIn(Queues, queue)
        BY DEF PlaceInv
      <4>2. queue[q][i] = queue[r][j] /\ i \in 1 .. Len(queue[q]) /\ j \in 1 .. Len(queue[r])
        BY <2>1, <3>5
      <4> QED
        BY <4>1, <4>2 DEF OnceIn
    <3>6. CASE new(q, i) /\ new(r, j)
      <4>1. PICK a, b : a = i - Len(queue[q]) /\ b = j - Len(queue[r])
        OBVIOUS
      <4>2. /\ a \in 1 .. Len(AssignTasks(q)) /\ off[q] + a \in 1 .. m
            /\ b \in 1 .. Len(AssignTasks(r)) /\ off[r] + b \in 1 .. m
            /\ pending[off[q] + a] = pending[off[r] + b]
        BY <2>1, <3>6, <4>1, Zenon
      <4>3. off[q] + a = off[r] + b
        BY <1>2, <4>2 DEF m
      <4>4. q = r /\ a = b
        BY <1>3, <4>2, <4>3
      <4> QED
        BY <3>0, <4>1, <4>4
    <3> QED
      BY <2>1, <3>0, <3>1, <3>2, <3>3, <3>4, <3>5, <3>6
  <2> QED
    BY <2>1 DEF OnceIn
<1>8. Queued' = Queued \cup X
  <2>1. ASSUME NEW k \in Queued' PROVE k \in Queued \cup X
    <3>1. PICK q \in Queues : \E i \in 1 .. Len(queue'[q]) : k = queue'[q][i]
      BY <2>1 DEF Queued, Among, In
    <3>2. PICK i \in 1 .. Len(queue'[q]) : k = queue'[q][i]
      BY <3>1
    <3>3. old(q, i) => k \in Queued
      BY <3>2 DEF Queued, Among, In
    <3>4. new(q, i) => k \in X
      BY <3>2 DEF In, m
    <3> QED
      BY <1>6, <3>3, <3>4
  <2>2. ASSUME NEW k \in Queued PROVE k \in Queued'
    <3>1. PICK q \in Queues : \E i \in 1 .. Len(queue[q]) : k = queue[q][i]
      BY <2>2 DEF Queued, Among, In
    <3>2. PICK i \in 1 .. Len(queue[q]) : k = queue[q][i]
      BY <3>1
    <3>3. i \in 1 .. Len(queue'[q]) /\ i \in 1 .. Len(queue[q]) + Len(AssignTasks(q)) /\ i <= Len(queue[q])
      BY <1>4
    <3>4. queue'[q][i] = k
      BY <1>4, <3>2, <3>3
    <3> QED
      BY <3>3, <3>4 DEF Queued, Among, In
  <2>3. ASSUME NEW k \in X PROVE k \in Queued'
    <3>1. PICK i \in 1 .. m : k = pending[i]
      BY <2>3 DEF In, m
    <3>2. PICK q \in Queues : \E j \in 1 .. Len(AssignTasks(q)) : off[q] + j = i
      BY <1>3
    <3>3. PICK j \in 1 .. Len(AssignTasks(q)) : off[q] + j = i
      BY <3>2
    <3>4. PICK l : l = Len(queue[q]) + j
      OBVIOUS
    <3>5. l \in 1 .. Len(queue'[q]) /\ l \in 1 .. Len(queue[q]) + Len(AssignTasks(q))
          /\ ~(l <= Len(queue[q])) /\ l - Len(queue[q]) = j
      BY <1>4, <3>4
    <3>6. queue'[q][l] = AssignTasks(q)[j]
      BY <1>4, <3>5
    <3>7. queue'[q][l] = k
      BY <1>3, <3>1, <3>3, <3>6
    <3> QED
      BY <3>5, <3>7 DEF Queued, Among, In
  <2> QED
    BY <2>1, <2>2, <2>3
<1>9. FromMain' = FromMain \cup X
  <2>1. Len(pending') = Len(pending) - m /\ m <= Len(pending) /\ m \in Nat
    BY <1>1, <1>2, EmptySeq DEF m
  <2>2. FromMain' = FromMain \cup {pending[i] : i \in 1 .. m}
    BY <1>1, <2>1, HandOutLemma
  <2> QED
    BY <2>2 DEF In, m
<1>10. FromTasks' = FromTasks
  BY <1>1 DEF FromTasks, Running, Ran
<1>11. X \cap (FromMain \cup FromTasks) = {}
  BY <1>2 DEF In, m
<1>12. FromMain' \cup FromTasks' = FromMain \cup FromTasks \cup X
  BY <1>9, <1>10
<1> HIDE DEF X
<1> QED
  BY <1>1, <1>7, <1>8, <1>11, <1>12, EnqueuedLemma

(* A thread takes a task out of its queue.                                    *)
LEMMA PlaceGetTask ==
    ASSUME SharedTypes, LocalTypes, TaskInv, PlaceInv, NEW t \in Threads, GetTask(t)
    PROVE  PlaceInv'
<1> USE ThreadsLemma
<1> DEFINE q == myQ(t)
<1>1. PICK k : k = queue[q][Len(queue[q])]
  OBVIOUS
<1>2. /\ pc[t] = "own" /\ queue[q] # <<>>
      /\ queue' = LastLeft(queue, q)
      /\ task' = [task EXCEPT ![t] = k] /\ todo' = [todo EXCEPT ![t] = Children[k]]
      /\ UNCHANGED <<batch, pending, ran>>
  BY <1>1 DEF GetTask, LastLeft, Last, main
<1>3. task[t] = NONE
  BY <1>2 DEF TaskInv
<1>4. queue \in Lines(Queues, Tasks) /\ q \in Queues
  BY DEF SharedTypes, Lines
<1> HIDE DEF q
<1>5. OnceIn(Queues, queue') /\ k \in Tasks /\ k \in Queued /\ Queued' = Queued \ {k}
  <2>1. OnceIn(Queues, queue)
    BY DEF PlaceInv
  <2> QED
    BY <1>1, <1>2, <1>4, <2>1, LeavingLast DEF Queued
<1>6. k \notin Running /\ k \notin Ran /\ k # NONE
  BY <1>5, TaskIdentity DEF PlaceInv
<1>7. \A u \in Threads : task'[u] = IF u = t THEN k ELSE task[u]
  BY <1>2 DEF LocalTypes
<1>8. \A u \in Threads : todo'[u] = IF u = t THEN Children[k] ELSE todo[u]
  BY <1>2 DEF LocalTypes
<1>9. Running' = Running \cup {k}
  <2>1. ASSUME NEW x \in Running' PROVE x \in Running \cup {k}
    BY <1>7, <2>1 DEF Running
  <2>2. ASSUME NEW x \in Running PROVE x \in Running'
    BY <1>3, <1>7, <2>2 DEF Running
  <2>3. k \in Running'
    BY <1>6, <1>7 DEF Running
  <2> QED
    BY <2>1, <2>2, <2>3
<1>10. Ran' = Ran
  BY <1>2 DEF Ran
<1>11. FromMain' = FromMain
  BY <1>2 DEF FromMain, HandedOut
<1>12. FromTasks' = FromTasks
  <2>1. ASSUME NEW c \in FromTasks' PROVE c \in FromTasks
    <3>1. PICK p \in Running' \cup Ran' :
             c \in Children[p] /\ \A u \in Threads : task'[u] = p => c \notin todo'[u]
      BY <2>1 DEF FromTasks
    <3>2. p # k
      BY <1>7, <1>8, <3>1
    <3>3. p \in Running \cup Ran
      BY <1>9, <1>10, <3>1, <3>2
    <3>4. p # NONE
      BY <3>3, TaskIdentity DEF Running, Ran
    <3>5. \A u \in Threads : task[u] = p => c \notin todo[u]
      BY <1>3, <1>7, <1>8, <3>1, <3>4
    <3> QED
      BY <2>1, <3>1, <3>3, <3>5 DEF FromTasks
  <2>2. ASSUME NEW c \in FromTasks PROVE c \in FromTasks'
    <3>1. PICK p \in Running \cup Ran :
             c \in Children[p] /\ \A u \in Threads : task[u] = p => c \notin todo[u]
      BY <2>2 DEF FromTasks
    <3>2. p # k /\ p \in Running' \cup Ran'
      BY <1>6, <1>9, <1>10, <3>1
    <3>3. \A u \in Threads : task'[u] = p => c \notin todo'[u]
      BY <1>7, <1>8, <3>1, <3>2
    <3> QED
      BY <2>2, <3>1, <3>2, <3>3 DEF FromTasks
  <2> QED
    BY <2>1, <2>2
<1>13. \A u, v \in Threads : task'[u] = task'[v] /\ task'[u] # NONE => u = v
  <2>1. \A u \in Threads : task[u] # k
    BY <1>6 DEF Running
  <2> QED
    BY <1>7, <2>1 DEF PlaceInv
<1>14. /\ Queued' \cap Running' = {} /\ Queued' \cap Ran' = {} /\ Running' \cap Ran' = {}
       /\ Queued' \cup Running' \cup Ran' = FromMain' \cup FromTasks'
  BY <1>5, <1>6, <1>9, <1>10, <1>11, <1>12 DEF PlaceInv
<1>15. \A x \in Tasks : ran'[x] <= 1
  BY <1>2 DEF PlaceInv
<1> QED
  BY <1>5, <1>13, <1>14, <1>15 DEF PlaceInv

(* A task enqueues another.                                                   *)
LEMMA PlaceAddChild ==
    ASSUME SharedTypes, LocalTypes, TaskInv, PlaceInv, NEW t \in Threads, AddChild(t)
    PROVE  PlaceInv'
<1> USE ThreadsLemma
<1>1. PICK k \in todo[t], id \in {0, t} :
         Put(PickQueue(id), <<k>>) /\ todo' = [todo EXCEPT ![t] = @ \ {k}]
  BY DEF AddChild
<1>2. pc[t] = "run" /\ UNCHANGED <<task, batch, pending, ran>>
  BY DEF AddChild, main
<1>3. PICK p : p = task[t]
  OBVIOUS
<1>4. p # NONE /\ p \in Tasks /\ k \in Children[p] /\ k \in Tasks
  BY <1>1, <1>2, <1>3 DEF TaskInv, LocalTypes
<1>5. p \in Running
  BY <1>3, <1>4 DEF Running
<1>6. k \notin FromMain
  BY <1>4, TaskIdentity DEF FromMain
<1>7. k \notin FromTasks
  <2>1. SUFFICES ASSUME k \in FromTasks PROVE FALSE
    OBVIOUS
  <2>2. PICK r \in Running \cup Ran :
           k \in Children[r] /\ \A u \in Threads : task[u] = r => k \notin todo[u]
    BY <2>1 DEF FromTasks
  <2>3. r \in Tasks
    BY <2>2 DEF Running, Ran, LocalTypes
  <2>4. r = p
    BY <1>4, <2>2, <2>3, TaskIdentity
  <2> QED
    BY <1>1, <1>3, <2>2, <2>4
<1>8. k \notin Queued
  BY <1>6, <1>7 DEF PlaceInv
<1>9. OnceIn(Queues, queue') /\ Queued' = Queued \cup {k}
  BY <1>1, <1>4, <1>8, PutLemma, QueuesLemma DEF SharedTypes, PlaceInv
<1>10. \A u \in Threads : todo'[u] = IF u = t THEN todo[t] \ {k} ELSE todo[u]
  BY <1>1 DEF LocalTypes
<1>11. FromMain' = FromMain
  BY <1>2 DEF FromMain, HandedOut
<1>12. Running' = Running /\ Ran' = Ran
  BY <1>2 DEF Running, Ran
<1>13. FromTasks' = FromTasks \cup {k}
  <2>1. ASSUME NEW c \in FromTasks', c # k PROVE c \in FromTasks
    <3>1. PICK r \in Running' \cup Ran' :
             c \in Children[r] /\ \A u \in Threads : task'[u] = r => c \notin todo'[u]
      BY <2>1 DEF FromTasks
    <3>2. \A u \in Threads : task[u] = r => c \notin todo[u]
      BY <1>2, <1>10, <2>1, <3>1
    <3> QED
      BY <1>12, <2>1, <3>1, <3>2 DEF FromTasks
  <2>2. ASSUME NEW c \in FromTasks PROVE c \in FromTasks'
    <3>1. PICK r \in Running \cup Ran :
             c \in Children[r] /\ \A u \in Threads : task[u] = r => c \notin todo[u]
      BY <2>2 DEF FromTasks
    <3>2. \A u \in Threads : task'[u] = r => c \notin todo'[u]
      BY <1>2, <1>10, <3>1
    <3> QED
      BY <1>12, <2>2, <3>1, <3>2 DEF FromTasks
  <2>3. k \in FromTasks'
    <3>1. \A u \in Threads : task'[u] = p => k \notin todo'[u]
      BY <1>2, <1>3, <1>4, <1>10 DEF PlaceInv
    <3> QED
      BY <1>4, <1>5, <1>12, <3>1 DEF FromTasks
  <2> QED
    BY <2>1, <2>2, <2>3
<1>14. {k} \cap (FromMain \cup FromTasks) = {}
  BY <1>6, <1>7
<1>15. FromMain' \cup FromTasks' = FromMain \cup FromTasks \cup {k}
  BY <1>11, <1>13
<1> QED
  BY <1>2, <1>9, <1>14, <1>15, EnqueuedLemma

(* A task ends.                                                               *)
LEMMA PlaceEndTask ==
    ASSUME SharedTypes, LocalTypes, TaskInv, PlaceInv, NEW t \in Threads, EndTask(t)
    PROVE  PlaceInv'
<1> USE ThreadsLemma
<1>1. PICK p : p = task[t]
  OBVIOUS
<1>2. /\ pc[t] = "run" /\ todo[t] = {} /\ ran' = [ran EXCEPT ![p] = @ + 1]
      /\ task' = [task EXCEPT ![t] = NONE] /\ UNCHANGED <<queue, todo, batch, pending>>
  BY <1>1 DEF EndTask, shared, main
<1>3. p # NONE /\ p \in Tasks /\ p \in Running
  BY <1>1, <1>2 DEF TaskInv, LocalTypes, Running
<1>4. ran[p] = 0
  <2>1. p \notin Ran
    BY <1>3 DEF PlaceInv
  <2>2. ran[p] \in Nat
    BY <1>3 DEF LocalTypes
  <2> QED
    BY <1>3, <2>1, <2>2 DEF Ran
<1>5. \A x \in Tasks : ran'[x] = IF x = p THEN 1 ELSE ran[x]
  BY <1>2, <1>4 DEF LocalTypes
<1>6. \A u \in Threads : task'[u] = IF u = t THEN NONE ELSE task[u]
  BY <1>2 DEF LocalTypes
<1>7. \A u \in Threads : task[u] = p <=> u = t
  BY <1>1, <1>3 DEF PlaceInv
<1>8. Running' = Running \ {p}
  <2>1. ASSUME NEW x \in Running' PROVE x \in Running \ {p}
    BY <1>6, <1>7, <2>1 DEF Running
  <2>2. ASSUME NEW x \in Running, x # p PROVE x \in Running'
    BY <1>1, <1>6, <2>2 DEF Running
  <2> QED
    BY <2>1, <2>2
<1>9. Ran' = Ran \cup {p}
  BY <1>3, <1>5 DEF Ran
<1>10. FromMain' = FromMain
  BY <1>2 DEF FromMain, HandedOut
<1>11. Queued' = Queued
  BY <1>2 DEF Queued
<1>12. FromTasks' = FromTasks
  <2>1. Running' \cup Ran' = Running \cup Ran
    BY <1>3, <1>8, <1>9
  <2>2. ASSUME NEW r \in Running \cup Ran, NEW c
        PROVE  (\A u \in Threads : task'[u] = r => c \notin todo'[u])
               <=> (\A u \in Threads : task[u] = r => c \notin todo[u])
    <3>1. r # NONE
      BY TaskIdentity DEF Running, Ran
    <3>2. CASE r = p
      BY <1>2, <1>6, <1>7, <3>1, <3>2
    <3>3. CASE r # p
      BY <1>1, <1>2, <1>6, <3>1, <3>3
    <3> QED
      BY <3>2, <3>3
  <2> QED
    BY <2>1, <2>2 DEF FromTasks
<1>13. \A u, v \in Threads : task'[u] = task'[v] /\ task'[u] # NONE => u = v
  BY <1>6 DEF PlaceInv
<1>14. /\ Queued' \cap Running' = {} /\ Queued' \cap Ran' = {} /\ Running' \cap Ran' = {}
       /\ Queued' \cup Running' \cup Ran' = FromMain' \cup FromTasks'
  BY <1>3, <1>8, <1>9, <1>10, <1>11, <1>12 DEF PlaceInv
<1>15. (\A x \in Tasks : ran'[x] <= 1) /\ OnceIn(Queues, queue')
  BY <1>2, <1>5 DEF PlaceInv
<1> QED
  BY <1>13, <1>14, <1>15 DEF PlaceInv

(* A thief moves tasks from one queue to another.                             *)
LEMMA PlaceSteal ==
    ASSUME SharedTypes, LocalTypes, TaskInv, PlaceInv, NEW t \in Threads, Steal(t)
    PROVE  PlaceInv'
<1> USE ThreadsLemma
<1> DEFINE v == victim[t]  m == myQ(t)
<1>1. v \in Queues /\ m \in Queues /\ v # m /\ queue \in Lines(Queues, Tasks) /\ queue[v] \in Seq(Tasks)
      /\ OnceIn(Queues, queue)
  BY DEF Steal, SharedTypes, LocalTypes, Lines, PlaceInv
<1>2. UNCHANGED <<task, todo, batch, pending, ran>>
  BY DEF Steal, main
<1>3. OnceIn(Queues, queue') /\ Queued' = Queued
  <2>1. CASE queue[v] = <<>>
    BY <1>1, <2>1 DEF Steal, Queued
  <2>2. CASE queue[v] # <<>>
    <3>1. PICK n : n = NumSteal(Len(queue[v]))
      OBVIOUS
    <3>2. n \in 0 .. Len(queue[v])
      BY <1>1, <2>2, <3>1, StealLemma
    <3>3. queue' = HandedOn(queue, v, m, n)
      BY <2>2, <3>1 DEF Steal, MoveEntries, HandedOn
    <3>4. Queues \in SUBSET Queues /\ (v \in Queues <=> m \in Queues)
      BY <1>1
    <3> HIDE DEF v, m
    <3>5. OnceIn(Queues, queue')
      BY <1>1, <3>2, <3>3, HandOn
    <3>6. Among(queue', Queues) = Among(queue, Queues)
      BY <1>1, <3>2, <3>3, <3>4, HandOnAmong
    <3> QED
      BY <3>5, <3>6 DEF Queued
  <2> QED
    BY <2>1, <2>2
<1>4. FromMain' = FromMain /\ FromTasks' = FromTasks
  BY <1>2 DEF FromMain, HandedOut, FromTasks, Running, Ran
<1>5. {} \cap (FromMain \cup FromTasks) = {} /\ Queued' = Queued \cup {}
      /\ FromMain' \cup FromTasks' = FromMain \cup FromTasks \cup {}
  BY <1>3, <1>4
<1> QED
  BY <1>2, <1>3, <1>5, EnqueuedLemma

(* Main begins another batch.                                                 *)
LEMMA PlaceEndWait ==
    ASSUME SharedTypes, LocalTypes, TaskInv, BatchInv, PlaceInv, EndWait
    PROVE  PlaceInv'
<1>1. pc[0] = "ended" /\ pending = <<>> /\ UNCHANGED <<queue, task, todo, ran>>
  BY DEF EndWait, BatchInv
<1>2. CASE UNCHANGED <<batch, pending>>
  BY <1>1, <1>2 DEF PlaceInv, Queued, Running, Ran, FromMain, FromTasks, HandedOut
<1>3. CASE batch' = batch + 1 /\ (batch < Len(Batches) => pending' = Batches[batch + 1].tasks)
  <2>1. batch \in Nat /\ Len(Batches) \in Nat /\ DOMAIN Batches = 1 .. Len(Batches)
    BY BatchesLemma DEF BatchInv
  <2>2. ASSUME NEW b \in DOMAIN Batches, NEW i \in DOMAIN Batches[b].tasks
        PROVE  HandedOut(b, i)' <=> HandedOut(b, i)
    <3>1. b \in Nat /\ b <= Len(Batches) /\ Len(Batches[b].tasks) \in Nat /\ i \in 1 .. Len(Batches[b].tasks)
      BY <2>1, BatchesLemma
    <3>2. HandedOut(b, i) <=> b <= batch
      <4>1. HandedOut(b, i) <=> b < batch \/ (b = batch /\ i <= Len(Batches[b].tasks) - 0)
        BY <1>1, EmptySeq DEF HandedOut
      <4> QED
        BY <2>1, <3>1, <4>1
    <3>3. HandedOut(b, i)' <=> b <= batch
      <4>1. HandedOut(b, i)'
            <=> b < batch + 1 \/ (b = batch + 1 /\ i <= Len(Batches[b].tasks) - Len(pending'))
        BY <1>3 DEF HandedOut
      <4>2. b = batch + 1 => Len(pending') = Len(Batches[b].tasks)
        BY <1>3, <2>1, <3>1
      <4> QED
        BY <2>1, <3>1, <4>1, <4>2
    <3> QED
      BY <3>2, <3>3
  <2>3. FromMain' = FromMain
    BY <2>2 DEF FromMain
  <2>4. Queued' = Queued /\ Running' = Running /\ Ran' = Ran /\ FromTasks' = FromTasks
    BY <1>1 DEF Queued, Running, Ran, FromTasks
  <2>5. /\ OnceIn(Queues, queue') /\ (\A k \in Tasks : ran'[k] <= 1)
        /\ \A t, u \in Threads : task'[t] = task'[u] /\ task'[t] # NONE => t = u
    BY <1>1 DEF PlaceInv
  <2> QED
    BY <2>3, <2>4, <2>5 DEF PlaceInv
<1> QED
  BY <1>2, <1>3 DEF EndWait

(* Whatever the threads do, a task stays in one place, and those that have    *)
(* been enqueued are in a queue, running, or have been run.                   *)
LEMMA PlaceStep ==
    ASSUME SharedTypes, LocalTypes, TaskInv, BatchInv, PlaceInv, [Next]_vars
    PROVE  PlaceInv'
<1>1. ASSUME UNCHANGED <<queue, task, todo, ran, batch, pending>> PROVE PlaceInv'
  <2>1. /\ Queued' = Queued /\ Running' = Running /\ Ran' = Ran /\ FromMain' = FromMain
        /\ FromTasks' = FromTasks
    BY <1>1 DEF Queued, Running, Ran, FromMain, FromTasks, HandedOut
  <2>2. /\ OnceIn(Queues, queue') /\ (\A k \in Tasks : ran'[k] <= 1)
        /\ \A t, u \in Threads : task'[t] = task'[u] /\ task'[t] # NONE => t = u
    BY <1>1 DEF PlaceInv
  <2> QED
    BY <2>1, <2>2 DEF PlaceInv
<1>2. CASE MainStep
  <2>1. WaitForEnd \/ BeginWait \/ TaskQEnd => UNCHANGED <<queue, task, todo, ran, batch, pending>>
    BY DEF WaitForEnd, BeginWait, TaskQEnd, shared, main, local
  <2> QED
    BY <1>1, <1>2, <2>1, PlaceAddTask, PlaceAddTaskGrid, PlaceEndWait DEF MainStep
<1>3. ASSUME NEW t \in Threads, PoolStep(t) PROVE PlaceInv'
  <2>1. WaitForTasks(t) \/ Resume(t) \/ SignalTasksTest(t) \/ SignalTasks(t) \/ OwnEmpty(t)
        \/ StealNothing(t) \/ QuickCheck(t) \/ LockFirst(t)
           => UNCHANGED <<queue, task, todo, ran, batch, pending>>
    BY DEF WaitForTasks, Resume, SignalTasksTest, SignalTasks, OwnEmpty, StealNothing, QuickCheck,
           LockFirst, shared, main, local
  <2> QED
    BY <1>1, <1>3, <2>1, PlaceGetTask, PlaceAddChild, PlaceEndTask, PlaceSteal DEF PoolStep
<1>4. CASE Finished \/ UNCHANGED vars
  BY <1>1, <1>4 DEF Finished, vars
<1> QED
  BY <1>2, <1>3, <1>4 DEF Next

-----------------------------------------------------------------------------
(* Who looks for the tasks.                                                   *)

(* A thief begins with the queue after its own, and comes round to each of    *)
(* the others: after it has looked at one, the rest are ahead of it.          *)
LEMMA RoundLemma ==
    ASSUME LocalTypes, LocalTypes', NEW t \in Threads, NEW q \in Queues
    PROVE  /\ victim'[t] = (myQ(t) + 1) % numTaskQs /\ q # myQ(t) => q \in Ahead(t)'
           /\ victim[t] # myQ(t) /\ victim'[t] = (victim[t] + 1) % numTaskQs /\ q \in Ahead(t)
                /\ q # victim[t] => q \in Ahead(t)'
           /\ victim'[t] = victim[t] => (q \in Ahead(t)' <=> q \in Ahead(t))
           /\ victim[t] = myQ(t) => q \notin Ahead(t)
<1> DEFINE m == myQ(t)  v == victim[t]  w == victim'[t]  n == numTaskQs
           Round(a, b) == \/ a <= b /\ (b < m \/ m < a)
                          \/ b < m /\ m < a
<1>1. m \in Queues /\ v \in Queues /\ w \in Queues /\ n \in Nat /\ n > 0 /\ Queues = 0 .. n - 1
  BY ThreadsLemma DEF LocalTypes, Queues
<1>2. (q \in Ahead(t) <=> Round(v, q)) /\ (q \in Ahead(t)' <=> Round(w, q))
  BY DEF Ahead, myQ
<1>3. /\ (m + 1) % n = (IF m + 1 = n THEN 0 ELSE m + 1)
      /\ (v + 1) % n = (IF v + 1 = n THEN 0 ELSE v + 1)
  BY <1>1, QueuesLemma
<1> HIDE DEF m, v, w, n
<1>4. w = (m + 1) % n /\ q # m => Round(w, q)
  BY <1>1, <1>3
<1>5. v # m /\ w = (v + 1) % n /\ Round(v, q) /\ q # v => Round(w, q)
  BY <1>1, <1>3
<1>6. w = v => (Round(w, q) <=> Round(v, q))
  OBVIOUS
<1>7. v = m => ~Round(v, q)
  BY <1>1
<1> HIDE DEF Round
<1> QED
  BY <1>2, <1>4, <1>5, <1>6, <1>7 DEF m, v, w, n

(* It is enough to find somebody for each task that was there before and      *)
(* whose watcher has changed, and for the new ones.                           *)
LEMMA WatchFrame ==
    ASSUME WatchInv, parallelRegion, ~Filling,
           \A q \in Queues : queue'[q] # <<>> =>
              \/ \E u \in Threads : Looks(u, q)'
              \/ queue[q] # <<>> /\ \A u \in Threads : Looks(u, q) => Looks(u, q)'
    PROVE  WatchInv'
<1>1. \A q \in Queues : queue[q] # <<>> => \E u \in Threads : Looks(u, q)
  BY DEF WatchInv
<1>2. \A q \in Queues : queue'[q] # <<>> => \E u \in Threads : Looks(u, q)'
  BY <1>1
<1> QED
  BY <1>2 DEF WatchInv

(* A worker at work looks at everything; main looks at its own queue.         *)
LEMMA LooksLemma ==
    ASSUME NEW t \in Threads, NEW q \in Queues
    PROVE  /\ t # 0 /\ pc'[t] \in {"awake", "own", "run", "signalTasks", "reset"} => Looks(t, q)'
           /\ pc'[0] \in {"own", "run", "signalTasks", "reset", "steal", "lock", "move"} => Looks(0, 0)'
           /\ t # 0 /\ pc'[t] \in {"steal", "lock", "move"} /\ q \in Ahead(t)' => Looks(t, q)'
           /\ Looks(0, q) => q = 0 /\ pc[0] \in {"own", "run", "signalTasks", "reset", "steal", "lock", "move"}
           /\ pc'[t] = pc[t] /\ victim'[t] = victim[t] /\ Looks(t, q) => Looks(t, q)'
BY DEF Looks, Ahead, myQ

(* The steps in the parallel region, main's return to it included.            *)
LEMMA WatchSignals ==
    ASSUME SharedTypes, LocalTypes, LocalTypes', TaskInv, RegionInv, CountInv, WatchInv,
           parallelRegion, NEW t \in Threads,
           WaitForTasks(t) \/ Resume(t) \/ SignalTasksTest(t) \/ SignalTasks(t)
    PROVE  WatchInv'
<1> USE ThreadsLemma
<1>0. /\ Places /\ DOMAIN pc = Threads /\ (\A w \in Workers : w \in Threads /\ w # 0)
      /\ \A u \in Threads : u # 0 => u \in Workers
  BY DEF LocalTypes, Places, Workers
<1>1. ~noMoreTasks
  BY DEF RegionInv
<1>2. UNCHANGED <<queue, victim, task>>
  BY DEF WaitForTasks, Resume, SignalTasksTest, SignalTasks, shared, local
<1>3. PoolStep(t)
  BY DEF PoolStep
<1>4. \A u \in Threads : u # t =>
         \/ pc'[u] = pc[u]
         \/ pc[u] = "taskAvail" /\ pc'[u] = "awake"
         \/ pc[u] = "tasksDone" /\ pc'[u] = "ended"
  BY <1>0, <1>3, PoolPc
<1>5. ASSUME NEW u \in Threads, u # t, NEW q \in Queues, Looks(u, q) PROVE Looks(u, q)'
  <2>1. pc[u] \notin {"taskAvail", "tasksDone"}
    BY <1>5 DEF Looks
  <2> QED
    BY <1>2, <1>4, <1>5, <2>1, LooksLemma
<1>6. CASE WaitForTasks(t)
  <2>1. pc[t] = "waitForTasks" /\ t # 0
    BY <1>0, <1>6 DEF WaitForTasks, Places, Labels
  <2>2. ~Filling
    BY <1>0, <2>1 DEF RegionInv
  <2>3. \A q \in Queues : ~Looks(t, q)
    BY <2>1 DEF Looks
  <2> QED
    BY <1>2, <1>5, <2>2, <2>3, WatchFrame
<1>7. CASE Resume(t)
  <2>1. pc[t] = "awake" /\ pc'[t] = "own" /\ t # 0
    BY <1>0, <1>1, <1>7, GotoLemma DEF Resume, Places, Labels
  <2>2. ~Filling
    BY <1>0, <2>1 DEF RegionInv
  <2>3. \A q \in Queues : Looks(t, q)'
    BY <2>1, LooksLemma
  <2> QED
    BY <2>2, <2>3, WatchFrame
<1>8. CASE SignalTasksTest(t)
  <2>1. pc[t] = "signalTasks" /\ pc'[t] = (IF threadCount # 0 THEN "reset" ELSE AfterSignal(t))
    BY <1>0, <1>8, GotoLemma DEF SignalTasksTest
  <2>2. CASE t = 0 /\ task[0] = NONE
    <3>1. Filling
      BY <2>1, <2>2 DEF Filling
    <3>2. pc'[0] = "reset"
      BY <2>1, <2>2, <3>1 DEF CountInv
    <3> QED
      BY <1>2, <2>2, <3>2 DEF WatchInv, Filling
  <2>3. CASE t = 0 /\ task[0] # NONE
    <3>1. ~Filling /\ pc'[0] \in {"reset", "run"}
      BY <2>1, <2>3 DEF Filling, AfterSignal
    <3>2. Looks(0, 0)'
      BY <3>1, LooksLemma
    <3>3. \A q \in Queues : Looks(0, q) => q = 0
      BY LooksLemma
    <3>4. \A q \in Queues : \A u \in Threads : Looks(u, q) => Looks(u, q)'
      BY <1>5, <2>3, <3>2, <3>3
    <3> QED
      BY <1>2, <3>1, <3>4, WatchFrame
  <2>4. CASE t # 0
    <3>1. task[t] # NONE
      BY <2>1, <2>4 DEF TaskInv
    <3>2. pc'[t] \in {"reset", "run"}
      BY <2>1, <3>1 DEF AfterSignal
    <3>3. ~Filling
      BY <1>0, <2>1, <2>4 DEF RegionInv
    <3>4. \A q \in Queues : Looks(t, q)'
      BY <2>4, <3>2, LooksLemma
    <3> QED
      BY <3>3, <3>4, WatchFrame
  <2> QED
    BY <2>2, <2>3, <2>4
<1>9. CASE SignalTasks(t)
  <2>1. pc[t] = "reset" /\ Broadcast(t, AfterSignal(t), {"taskAvail", "tasksDone"})
    BY <1>9 DEF SignalTasks
  <2>2. /\ pc'[t] = AfterSignal(t)
        /\ \A u \in Threads : u # t =>
             pc'[u] = IF pc[u] \in {"taskAvail", "tasksDone"}
                      THEN IF pc[u] = "tasksDone" THEN "ended" ELSE "awake" ELSE pc[u]
    BY <1>0, <2>1, BroadcastLemma
  <2>3. CASE t = 0 /\ task[0] = NONE
    <3>1. Filling /\ pc'[0] = "own"
      BY <1>1, <2>1, <2>2, <2>3 DEF Filling, AfterSignal
    <3>2. \A w \in Workers : pc'[w] = "awake"
      <4>1. \A w \in Workers : pc[w] = "taskAvail"
        BY <3>1 DEF RegionInv
      <4> QED
        BY <1>0, <2>2, <2>3, <4>1
    <3>3. ASSUME NEW q \in Queues PROVE \E u \in Threads : Looks(u, q)'
      <4>1. CASE q = 0
        BY <3>1, <4>1, LooksLemma
      <4>2. CASE q # 0
        <5>1. PICK w : w \in Workers
          BY <4>2
        <5> QED
          BY <1>0, <3>2, <5>1, LooksLemma
      <4> QED
        BY <4>1, <4>2
    <3> QED
      BY <3>3 DEF WatchInv
  <2>4. CASE t = 0 /\ task[0] # NONE
    <3>1. ~Filling /\ pc'[0] = "run"
      BY <2>1, <2>2, <2>4 DEF Filling, AfterSignal
    <3>2. Looks(0, 0)'
      BY <3>1, LooksLemma
    <3>3. \A q \in Queues : Looks(0, q) => q = 0
      BY LooksLemma
    <3>4. \A q \in Queues : \A u \in Threads : Looks(u, q) => Looks(u, q)'
      BY <1>5, <2>4, <3>2, <3>3
    <3> QED
      BY <1>2, <3>1, <3>4, WatchFrame
  <2>5. CASE t # 0
    <3>1. task[t] # NONE
      BY <2>1, <2>5 DEF TaskInv
    <3>2. pc'[t] = "run"
      BY <2>2, <3>1 DEF AfterSignal
    <3>3. ~Filling
      BY <1>0, <2>1, <2>5 DEF RegionInv
    <3>4. \A q \in Queues : Looks(t, q)'
      BY <2>5, <3>2, LooksLemma
    <3> QED
      BY <3>3, <3>4, WatchFrame
  <2> QED
    BY <2>3, <2>4, <2>5
<1> QED
  BY <1>6, <1>7, <1>8, <1>9

(* A thread at work.                                                          *)
LEMMA WatchWork ==
    ASSUME SharedTypes, LocalTypes, LocalTypes', TaskInv, TaskInv', RegionInv, WatchInv,
           NEW t \in Threads, AtWork(t)
    PROVE  WatchInv'
<1> USE ThreadsLemma
<1>0. /\ DOMAIN pc = Threads /\ DOMAIN pc' = Threads /\ victim \in [Threads -> Queues]
      /\ queue \in [Queues -> Seq(Tasks)] /\ myQ(t) \in Queues /\ victim[t] \in Queues
  BY DEF LocalTypes, SharedTypes
<1>1. /\ parallelRegion /\ ~Filling
      /\ pc[t] \in {"own", "run", "steal", "lock", "move"}
      /\ \A u \in Threads : u # t => pc'[u] = pc[u]
  BY AtWorkLemma
<1>2. \A u \in Threads : u # t => victim'[u] = victim[u]
  BY <1>0 DEF AtWork, GetTask, OwnEmpty, AddChild, EndTask, StealNothing, QuickCheck, LockFirst, Steal,
              NextVictim, local
<1>3. \A u \in Threads : \A q \in Queues : u # t /\ Looks(u, q) => Looks(u, q)'
  BY <1>1, <1>2, LooksLemma
<1>4. ASSUME t # 0, pc'[t] \in {"own", "run", "signalTasks"} PROVE WatchInv'
  <2>1. \A q \in Queues : Looks(t, q)'
    BY <1>4, LooksLemma
  <2> QED
    BY <1>1, <2>1, WatchFrame
<1>5. ASSUME t = 0, pc'[0] \in {"own", "run", "signalTasks", "steal", "lock", "move"},
             \A q \in Queues : q # 0 /\ queue'[q] # <<>> => queue[q] # <<>>
      PROVE  WatchInv'
  <2>1. Looks(0, 0)'
    BY <1>5, LooksLemma
  <2>2. \A q \in Queues : Looks(0, q) => q = 0
    BY LooksLemma
  <2>3. \A q \in Queues : q # 0 => \A u \in Threads : Looks(u, q) => Looks(u, q)'
    BY <1>3, <1>5, <2>2
  <2> QED
    BY <1>1, <1>5, <2>1, <2>3, WatchFrame
<1>6. ASSUME UNCHANGED queue, NEW e \in Queues, queue[e] = <<>>,
             \A q \in Queues : q # e /\ Looks(t, q) => Looks(t, q)'
      PROVE  WatchInv'
  BY <1>1, <1>3, <1>6, WatchFrame
<1>7. \A l : Goto(t, l) => pc'[t] = l
  BY <1>0, GotoLemma
<1>8. CASE GetTask(t)
  <2>1. pc'[t] = "run"
    BY <1>7, <1>8 DEF GetTask
  <2>2. t = 0 => \A q \in Queues : q # 0 => queue'[q] = queue[q]
    BY <1>0, <1>8 DEF GetTask
  <2> QED
    BY <1>4, <1>5, <2>1, <2>2
<1>9. CASE AddChild(t)
  <2>1. pc'[t] = "signalTasks"
    BY <1>7, <1>9 DEF AddChild
  <2>2. t = 0 => \A q \in Queues : q # 0 => queue'[q] = queue[q]
    BY <1>0, <1>1, <1>9 DEF AddChild, Put, PickQueue
  <2> QED
    BY <1>4, <1>5, <2>1, <2>2
<1>10. CASE EndTask(t)
  <2>1. pc'[t] = "own" /\ UNCHANGED queue
    BY <1>7, <1>10 DEF EndTask, shared
  <2> QED
    BY <1>4, <1>5, <2>1
<1>11. CASE OwnEmpty(t)
  <2>1. UNCHANGED queue /\ queue[myQ(t)] = <<>>
    BY <1>11 DEF OwnEmpty, shared
  <2>2. CASE t = 0
    <3>1. \A q \in Queues : Looks(t, q) => q = myQ(t)
      BY <2>2, LooksLemma
    <3> QED
      BY <1>0, <1>6, <2>1, <3>1
  <2>3. CASE t # 0
    <3>1. pc'[t] = "steal" /\ victim'[t] = (myQ(t) + 1) % numTaskQs
      BY <1>0, <1>7, <1>11, <2>3 DEF OwnEmpty
    <3>2. \A q \in Queues : q # myQ(t) => Looks(t, q)'
      BY <2>3, <3>1, RoundLemma, LooksLemma
    <3> QED
      BY <1>0, <1>6, <2>1, <3>2
  <2> QED
    BY <2>2, <2>3
<1>12. CASE StealNothing(t)
  <2>1. UNCHANGED queue /\ pc[t] = "steal" /\ victim[t] = myQ(t)
    BY <1>12 DEF StealNothing, shared
  <2>2. CASE t = 0
    <3>1. pc'[0] = "own"
      BY <1>7, <1>12, <2>2 DEF StealNothing
    <3> QED
      BY <1>5, <2>1, <2>2, <3>1
  <2>3. CASE t # 0
    <3>1. \A q \in Queues : ~Looks(t, q)
      BY <2>1, <2>3, RoundLemma DEF Looks
    <3> QED
      BY <1>1, <1>3, <2>1, <3>1, WatchFrame
  <2> QED
    BY <2>2, <2>3
<1>13. ASSUME UNCHANGED queue, queue[victim[t]] = <<>>, pc[t] \in {"steal", "move"}, pc'[t] = "steal",
              victim[t] # myQ(t), NextVictim(t)
       PROVE  WatchInv'
  <2>1. CASE t = 0
    BY <1>5, <1>13, <2>1
  <2>2. CASE t # 0
    <3>1. victim'[t] = (victim[t] + 1) % numTaskQs
      BY <1>0, <1>13 DEF NextVictim
    <3>2. \A q \in Queues : Looks(t, q) => q \in Ahead(t)
      BY <1>13, <2>2 DEF Looks
    <3>3. \A q \in Queues : q # victim[t] /\ Looks(t, q) => Looks(t, q)'
      BY <1>13, <2>2, <3>1, <3>2, RoundLemma, LooksLemma
    <3> QED
      BY <1>0, <1>6, <1>13, <3>3
  <2> QED
    BY <2>1, <2>2
<1>14. ASSUME UNCHANGED queue, UNCHANGED victim, pc[t] \in {"steal", "lock"}, pc'[t] \in {"lock", "move"}
       PROVE  WatchInv'
  <2>1. CASE t = 0
    BY <1>5, <1>14, <2>1
  <2>2. CASE t # 0
    <3>1. \A q \in Queues : Looks(t, q) => Looks(t, q)'
      BY <1>14, <2>2, RoundLemma, LooksLemma DEF Looks
    <3> QED
      BY <1>1, <1>3, <1>14, <3>1, WatchFrame
  <2> QED
    BY <2>1, <2>2
<1>15. CASE QuickCheck(t)
  <2>1. UNCHANGED queue /\ pc[t] = "steal" /\ victim[t] # myQ(t)
    BY <1>15 DEF QuickCheck, shared
  <2>2. CASE queue[victim[t]] = <<>>
    <3>1. NextVictim(t) /\ pc'[t] = "steal"
      BY <1>15, <2>1, <2>2 DEF QuickCheck
    <3> QED
      BY <1>13, <2>1, <2>2, <3>1
  <2>3. CASE queue[victim[t]] # <<>>
    <3>1. UNCHANGED victim /\ pc'[t] = "lock"
      BY <1>7, <1>15, <2>3 DEF QuickCheck
    <3> QED
      BY <1>14, <2>1, <3>1
  <2> QED
    BY <2>2, <2>3
<1>16. CASE LockFirst(t)
  <2>1. UNCHANGED queue /\ UNCHANGED victim /\ pc[t] = "lock" /\ pc'[t] = "move"
    BY <1>7, <1>16 DEF LockFirst, local
  <2> QED
    BY <1>14, <2>1
<1>17. CASE Steal(t)
  <2>1. pc[t] = "move" /\ victim[t] # myQ(t)
    BY <1>17 DEF Steal, LocalTypes
  <2>2. CASE queue[victim[t]] = <<>>
    <3>1. NextVictim(t) /\ UNCHANGED queue /\ pc'[t] = "steal"
      BY <1>7, <1>17, <2>2 DEF Steal
    <3> QED
      BY <1>13, <2>1, <2>2, <3>1
  <2>3. CASE queue[victim[t]] # <<>>
    <3>1. pc'[t] = "own"
      BY <1>7, <1>17, <2>3 DEF Steal
    <3>2. \A q \in Queues : q # victim[t] /\ q # myQ(t) => queue'[q] = queue[q]
      BY <1>0, <1>17, <2>3 DEF Steal, MoveEntries
    <3>3. t = 0 => \A q \in Queues : q # 0 /\ queue'[q] # <<>> => queue[q] # <<>>
      BY <2>3, <3>2
    <3> QED
      BY <1>4, <1>5, <3>1, <3>3
  <2> QED
    BY <2>2, <2>3
<1> QED
  BY <1>8, <1>9, <1>10, <1>11, <1>12, <1>15, <1>16, <1>17 DEF AtWork

(* Nobody leaves a task behind that no other is to find.                      *)
LEMMA WatchStep ==
    ASSUME SharedTypes, LocalTypes, LocalTypes', TaskInv, TaskInv', RegionInv, CountInv, WatchInv,
           [Next]_vars
    PROVE  WatchInv'
<1> USE ThreadsLemma
<1>0. Places /\ DOMAIN pc = Threads
  BY DEF LocalTypes, Places
<1>1. CASE MainStep
  <2>1. CASE WaitForEnd \/ EndWait
    <3>1. /\ pc[0] \in {"waitForEnd", "ended"} /\ UNCHANGED <<queue, victim>>
      BY <2>1 DEF WaitForEnd, EndWait, shared, local
    <3>2. \E l : Goto(0, l)
      BY <2>1 DEF WaitForEnd, EndWait
    <3>3. \A u \in Threads : u # 0 => pc'[u] = pc[u]
      BY <1>0, <3>2, GotoLemma
    <3>4. parallelRegion' => parallelRegion
      BY <2>1 DEF WaitForEnd, EndWait, shared
    <3>5. ~Filling
      BY <3>1 DEF Filling
    <3>6. \A u \in Threads : \A q \in Queues : Looks(u, q) => Looks(u, q)'
      BY <3>1, <3>3, LooksLemma
    <3>7. CASE parallelRegion
      BY <3>1, <3>5, <3>6, <3>7, WatchFrame
    <3>8. CASE ~parallelRegion
      BY <3>4, <3>8 DEF WatchInv
    <3> QED
      BY <3>7, <3>8
  <2>2. CASE AddTask \/ AddTaskGrid
    <3>1. ~parallelRegion'
      BY <2>2 DEF AddTask, AddTaskGrid, RegionInv
    <3> QED
      BY <3>1 DEF WatchInv
  <2>3. CASE BeginWait \/ TaskQEnd
    <3>1. pc[0] \in {"enqueue", "taskQEnd"} /\ pc'[0] = "signalTasks" /\ UNCHANGED task
      BY <1>0, <2>3, GotoLemma DEF BeginWait, TaskQEnd, local
    <3>2. Filling'
      BY <3>1 DEF Filling, TaskInv
    <3> QED
      BY <3>2 DEF WatchInv
  <2> QED
    BY <1>1, <2>1, <2>2, <2>3 DEF MainStep
<1>2. ASSUME NEW t \in Threads, PoolStep(t) PROVE WatchInv'
  <2>1. CASE AtWork(t)
    BY <2>1, WatchWork
  <2>2. CASE ~AtWork(t) /\ parallelRegion
    BY <1>2, <2>2, WatchSignals DEF PoolStep, AtWork
  <2>3. CASE ~parallelRegion
    <3>1. ~parallelRegion'
      BY <1>0, <1>2, <2>3, PoolPc
    <3> QED
      BY <3>1 DEF WatchInv
  <2> QED
    BY <2>1, <2>2, <2>3
<1>3. CASE Finished \/ UNCHANGED vars
  <2>1. UNCHANGED <<queue, pc, victim, task, parallelRegion>>
    BY <1>3 DEF Finished, vars
  <2>2. CASE parallelRegion /\ ~Filling
    <3>1. \A u \in Threads : \A q \in Queues : Looks(u, q) => Looks(u, q)'
      BY <2>1, LooksLemma
    <3> QED
      BY <2>1, <2>2, <3>1, WatchFrame
  <2>3. CASE ~(parallelRegion /\ ~Filling)
    BY <2>1, <2>3 DEF WatchInv, Filling
  <2> QED
    BY <2>2, <2>3
<1> QED
  BY <1>1, <1>2, <1>3 DEF Next

-----------------------------------------------------------------------------
(* The parts of the invariant together.                                       *)

(* Before the threads have begun, nothing has been enqueued or counted.       *)
LEMMA Initially == Init => IInv
<1> SUFFICES ASSUME Init PROVE IInv
  OBVIOUS
<1> USE ThreadsLemma DEF Init
<1>1. SharedTypes
  <2>1. <<>> \in Seq(Tasks)
    OBVIOUS
  <2> QED
    BY <2>1 DEF SharedTypes
<1>2. LocalTypes
  BY DEF LocalTypes, Labels
<1>3. TaskInv
  BY DEF TaskInv
<1>4. RegionInv
  BY DEF RegionInv, Workers, Filling
<1>5. BatchInv
  BY BatchesLemma DEF BatchInv
<1>6. CountInv
  <2>1. Sleepers = {}
    BY DEF Sleepers, Workers
  <2>2. Cardinality(Sleepers) = 0
    BY <2>1, FS_EmptySet
  <2> QED
    BY <2>2 DEF CountInv, Filling
<1>7. PlaceInv
  <2>1. \A q \in Queues : Len(queue[q]) = 0
    BY EmptySeq
  <2>2. Queued = {} /\ OnceIn(Queues, queue)
    BY <2>1 DEF Queued, Among, In, OnceIn
  <2>3. Running = {} /\ Ran = {}
    BY DEF Running, Ran
  <2>4. FromMain = {}
    BY BatchesLemma DEF FromMain, HandedOut
  <2>5. FromTasks = {}
    BY <2>3 DEF FromTasks
  <2> QED
    BY <2>2, <2>3, <2>4, <2>5 DEF PlaceInv
<1>8. WatchInv
  BY DEF WatchInv
<1> QED
  BY <1>1, <1>2, <1>3, <1>4, <1>5, <1>6, <1>7, <1>8 DEF IInv

(* Every step of every thread keeps all the parts.                            *)
LEMMA Inductive == IInv /\ [Next]_vars => IInv'
<1> SUFFICES ASSUME IInv, [Next]_vars PROVE IInv'
  OBVIOUS
<1>0. /\ SharedTypes /\ LocalTypes /\ TaskInv /\ RegionInv /\ BatchInv /\ CountInv /\ PlaceInv
      /\ WatchInv
  BY DEF IInv
<1>1. SharedTypes'
  BY <1>0, SharedStep
<1>2. LocalTypes'
  BY <1>0, LocalStep
<1>3. TaskInv'
  BY <1>0, TaskStep
<1>4. RegionInv'
  BY <1>0, <1>3, RegionStep
<1>5. BatchInv'
  BY <1>0, <1>3, BatchStep
<1>6. CountInv'
  BY <1>0, <1>3, CountStep
<1>7. PlaceInv'
  BY <1>0, PlaceStep
<1>8. WatchInv'
  BY <1>0, <1>2, <1>3, WatchStep
<1> QED
  BY <1>1, <1>2, <1>3, <1>4, <1>5, <1>6, <1>7, <1>8 DEF IInv

(* The inductive invariant holds in every behaviour.                          *)
THEOREM Invariance == Spec => []IInv
BY Initially, Inductive, PTL DEF Spec

-----------------------------------------------------------------------------
(* Every variable keeps its type; above all, sync.threadCount never exceeds   *)
(* the number of threads, however often it is reset between two of them.      *)
THEOREM TypeCorrect == Spec => []TypeOK
<1>1. IInv => TypeOK
  <2> SUFFICES ASSUME IInv PROVE TypeOK
    OBVIOUS
  <2> USE ThreadsLemma
  <2>1. SharedTypes /\ LocalTypes /\ BatchInv /\ CountInv
    BY DEF IInv
  <2>2. threadCount \in 0 .. numThreads
    <3>1. Cardinality(Sleepers) \in Nat /\ Cardinality(Sleepers) <= numThreads - 1
      BY WorkersLemma DEF Sleepers
    <3> QED
      BY <2>1, <3>1 DEF CountInv
  <2>3. \A t \in Threads :
          pc[t] \in {"own", "run", "signalTasks", "reset", "steal", "lock", "move", "exited"}
                    \cup IF t = 0 THEN {"waitForEnd", "tasksDone", "ended", "enqueue", "taskQEnd"}
                                  ELSE {"waitForTasks", "taskAvail", "awake"}
    BY <2>1 DEF LocalTypes, Labels
  <2> QED
    BY <2>1, <2>2, <2>3 DEF TypeOK, SharedTypes, LocalTypes, BatchInv
<1> QED
  BY <1>1, Invariance, PTL

(* However often it is stolen, and whoever enqueues it, a task is in one slot *)
(* of one queue, or with one thread, or has been run, once.                   *)
THEOREM OneTaskInOnePlace == Spec => []OneTaskOnePlace
<1>1. IInv => OneTaskOnePlace
  <2> SUFFICES ASSUME IInv, NEW k \in Tasks
               PROVE  Cardinality({t \in Threads : task[t] = k}) + ran[k]
                      + Cardinality(UNION {{q} \X InQueue(k, q) : q \in Queues}) <= 1
    BY DEF OneTaskOnePlace
  <2> DEFINE A == {t \in Threads : task[t] = k}
             B == UNION {{q} \X InQueue(k, q) : q \in Queues}
  <2>1. k # NONE /\ ran[k] \in Nat /\ ran[k] <= 1 /\ PlaceInv /\ SharedTypes
    BY TaskIdentity DEF IInv, LocalTypes, PlaceInv
  <2>2. \/ A = {} /\ Cardinality(A) = 0
        \/ Cardinality(A) = 1 /\ k \in Running
    <3>1. CASE A = {}
      BY <3>1, FS_EmptySet
    <3>2. CASE A # {}
      <4>1. PICK t \in Threads : task[t] = k
        BY <3>2
      <4>2. A = {t}
        BY <2>1, <4>1 DEF PlaceInv
      <4>3. k \in Running
        BY <2>1, <4>1 DEF Running
      <4> QED
        BY <4>2, <4>3, FS_Singleton
    <3> QED
      BY <3>1, <3>2
  <2>3. \/ B = {} /\ Cardinality(B) = 0
        \/ Cardinality(B) = 1 /\ k \in Queued
    <3>1. CASE B = {}
      BY <3>1, FS_EmptySet
    <3>2. CASE B # {}
      <4>0. ASSUME NEW e \in B
            PROVE  \E q \in Queues : \E i \in 1 .. Len(queue[q]) : e = <<q, i>> /\ queue[q][i] = k
        <5>1. PICK q \in Queues : e \in {q} \X InQueue(k, q)
          BY <4>0
        <5>2. PICK i \in InQueue(k, q) : e = <<q, i>>
          BY <5>1
        <5>3. i \in DOMAIN queue[q] /\ queue[q][i] = k
          BY DEF InQueue
        <5>4. DOMAIN queue[q] = 1 .. Len(queue[q])
          BY <2>1, LenProperties DEF SharedTypes
        <5> QED
          BY <5>2, <5>3, <5>4
      <4>1. PICK e : e \in B
        BY <3>2
      <4> HIDE DEF B
      <4>2. PICK q \in Queues : \E i \in 1 .. Len(queue[q]) : e = <<q, i>> /\ queue[q][i] = k
        BY <4>0, <4>1
      <4>3. PICK i \in 1 .. Len(queue[q]) : e = <<q, i>> /\ queue[q][i] = k
        BY <4>2
      <4>4. ASSUME NEW f \in B PROVE f = e
        <5>1. PICK r \in Queues : \E j \in 1 .. Len(queue[r]) : f = <<r, j>> /\ queue[r][j] = k
          BY <4>0, <4>4
        <5>2. PICK j \in 1 .. Len(queue[r]) : f = <<r, j>> /\ queue[r][j] = k
          BY <5>1
        <5>3. q = r /\ i = j
          BY <2>1, <4>3, <5>2 DEF PlaceInv, OnceIn
        <5> QED
          BY <4>3, <5>2, <5>3
      <4>5. B = {e}
        BY <4>1, <4>4
      <4>6. k \in Queued
        BY <4>3 DEF Queued, Among, In
      <4> QED
        BY <4>5, <4>6, FS_Singleton
    <3> QED
      BY <3>1, <3>2
  <2>4. ran[k] = 0 \/ (ran[k] = 1 /\ k \in Ran)
    BY <2>1 DEF Ran
  <2>5. /\ ~(k \in Running /\ k \in Queued) /\ ~(k \in Running /\ k \in Ran)
        /\ ~(k \in Queued /\ k \in Ran)
    BY <2>1 DEF PlaceInv
  <2> HIDE DEF A, B
  <2>6. Cardinality(A) + ran[k] + Cardinality(B) <= 1
    BY <2>2, <2>3, <2>4, <2>5
  <2> QED
    BY <2>6 DEF A, B
<1> QED
  BY <1>1, Invariance, PTL

(* taskQWait returns only when everything that has been enqueued, by main or  *)
(* by a task, has been run to its end, and the queues are empty.              *)
THEOREM WaitIsForAll == Spec => WaitCompletes
<1>1. IInv /\ [Next]_vars => [parallelRegion /\ ~parallelRegion' => Complete]_vars
  <2> SUFFICES ASSUME IInv, Next, parallelRegion, ~parallelRegion' PROVE Complete
    BY DEF vars
  <2> USE ThreadsLemma
  <2>0. /\ LocalTypes /\ SharedTypes /\ TaskInv /\ RegionInv /\ BatchInv /\ CountInv /\ PlaceInv
        /\ WatchInv
    BY DEF IInv
  <2>1. EndWait /\ ~(parallelRegion /\ threadCount # numThreads)
    <3>1. \A t \in Threads : ~PoolStep(t)
      <4>1. Places
        BY <2>0 DEF LocalTypes, Places
      <4>2. \A t \in Threads : PoolStep(t) => UNCHANGED parallelRegion
        BY <4>1, PoolPc
      <4> QED
        BY <4>2
    <3>2. ~Finished
      BY DEF Finished, vars
    <3>3. MainStep
      BY <3>1, <3>2 DEF Next
    <3> QED
      BY <3>3 DEF MainStep, WaitForEnd, EndWait, AddTask, AddTaskGrid, BeginWait, TaskQEnd, shared
  <2>2. pc[0] = "ended" /\ pending = <<>> /\ \A w \in Threads : w # 0 => pc[w] = "taskAvail"
    <3>1. Sleepers = Workers
      BY <2>0, <2>1, EndWaitLemma
    <3>2. \A w \in Threads : w # 0 => pc[w] = "taskAvail"
      BY <3>1 DEF Sleepers, Workers
    <3> QED
      BY <2>0, <2>1, <3>2 DEF EndWait, BatchInv
  <2>3. \A q \in Queues : queue[q] = <<>>
    <3>1. \A t \in Threads, q \in Queues : ~Looks(t, q)
      BY <2>2 DEF Looks
    <3>2. ~Filling
      BY <2>2 DEF Filling
    <3> QED
      BY <2>0, <3>1, <3>2 DEF WatchInv
  <2>4. \A t \in Threads : task[t] = NONE
    BY <2>0, <2>2 DEF TaskInv
  <2>5. Queued = {} /\ Running = {}
    <3>1. \A q \in Queues : Len(queue[q]) = 0
      BY <2>3, EmptySeq
    <3> QED
      BY <2>4, <3>1 DEF Queued, Among, In, Running
  <2>6. \A k \in FromMain \cup FromTasks : ran[k] = 1
    <3>1. \A k \in FromMain \cup FromTasks : k \in Ran
      BY <2>0, <2>5 DEF PlaceInv
    <3> QED
      BY <2>0, <3>1 DEF Ran, PlaceInv, LocalTypes
  <2>7. ASSUME NEW b \in 1 .. batch, NEW i \in DOMAIN Batches[b].tasks
        PROVE  ran[Batches[b].tasks[i]] = 1
    <3>1. batch \in 0 .. Len(Batches) /\ Len(Batches) \in Nat
      <4>1. ~noMoreTasks
        BY <2>0 DEF RegionInv
      <4>2. batch # Len(Batches) + 1
        BY <2>0, <2>2, <4>1 DEF BatchInv
      <4> QED
        BY <2>0, <4>2, BatchesLemma DEF BatchInv
    <3>2. b \in DOMAIN Batches
      BY <3>1, BatchesLemma
    <3>3. /\ Batches[b].tasks \in Seq(Tasks) /\ Len(Batches[b].tasks) \in Nat
          /\ i \in 1 .. Len(Batches[b].tasks)
      BY <3>2, BatchesLemma
    <3>4. Batches[b].tasks[i] \in Tasks
      BY <3>3
    <3>5. HandedOut(b, i)
      <4>1. Len(pending) = 0
        BY <2>2, EmptySeq
      <4> QED
        BY <3>1, <3>3, <4>1 DEF HandedOut
    <3>6. Batches[b].tasks[i] \in FromMain
      BY <3>2, <3>4, <3>5 DEF FromMain
    <3> QED
      BY <2>6, <3>6
  <2>8. ASSUME NEW k \in Tasks, ran[k] > 0, NEW c \in Children[k] PROVE ran[c] = 1
    <3>1. k \in Ran /\ k # NONE
      BY <2>8, TaskIdentity DEF Ran
    <3>2. c \in Tasks
      BY TaskQAssumption
    <3>3. c \in FromTasks
      BY <2>4, <3>1, <3>2 DEF FromTasks
    <3> QED
      BY <2>6, <3>3
  <2> QED
    BY <2>3, <2>4, <2>7, <2>8 DEF Complete
<1> QED
  BY <1>1, Invariance, PTL DEF Spec, WaitCompletes
=============================================================================
