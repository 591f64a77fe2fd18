------------------------ MODULE DedupPipelineProofs ------------------------
(* Theorems about the parallel encoder, for every input, every number of      *)
(* threads, groups, queue and batch sizes.                                    *)
EXTENDS DedupPipeline, LineTheorems, FiniteSetTheorems, TLAPS

-----------------------------------------------------------------------------
(* The chunks of the input and their order.                                   *)
End == <<Len(Input), 0>>

(* The coarse chunks are numbered from 0 and none is empty.                   *)
LEMMA AnchorsLemma ==
    /\ Len(Input) \in Nat
    /\ Anchors \subseteq Nat
    /\ \A a \in Anchors : NPieces(a) \in Nat /\ NPieces(a) > 0
    /\ \A a \in Nat : a \in Anchors <=> a < Len(Input)
    /\ Anchors = {} <=> Input = << >>
<1> DEFINE X == UNION {{Input[a][b] : b \in DOMAIN Input[a]} : a \in DOMAIN Input}
<1>1. Input \in Seq(Seq(X)) /\ \A a \in DOMAIN Input : Input[a] # << >>
  BY InputAssumption
<1> HIDE DEF X
<1>2. Len(Input) \in Nat /\ DOMAIN Input = 1 .. Len(Input)
  BY <1>1
<1>3. Anchors \subseteq Nat /\ \A a \in Nat : a \in Anchors <=> a < Len(Input)
  BY <1>2 DEF Anchors
<1>4. ASSUME NEW a \in Anchors PROVE NPieces(a) \in Nat /\ NPieces(a) > 0
  <2>1. a + 1 \in DOMAIN Input
    BY <1>2 DEF Anchors
  <2>2. Input[a + 1] \in Seq(X) /\ Input[a + 1] # << >>
    BY <1>1, <1>2, <2>1
  <2>3. Len(Input[a + 1]) \in Nat \ {0}
    BY <2>2, EmptySeq, Zenon
  <2> QED
    BY <2>3 DEF NPieces
<1>5. Anchors = {} <=> Input = << >>
  <2>1. Input = << >> <=> Len(Input) = 0
    <3>1. Input # << >> => Len(Input) \in Nat \ {0}
      BY <1>1, EmptySeq, Zenon
    <3>2. Len(<< >>) = 0
      BY EmptySeq
    <3> QED
      BY <3>1, <3>2
  <2>2. Anchors = {} <=> Len(Input) = 0
    <3>1. Len(Input) # 0 => 0 \in Anchors
      BY <1>2 DEF Anchors
    <3>2. Len(Input) = 0 => Anchors = {}
      BY <1>3
    <3> QED
      BY <3>1, <3>2
  <2> QED
    BY <2>1, <2>2
<1> QED
  BY <1>2, <1>3, <1>4, <1>5

(* What a fine chunk is; there are finitely many, and the sequence number     *)
(* after the last is none.                                                    *)
LEMMA ChunksLemma ==
    /\ \A c \in Chunks : /\ c = <<c[1], c[2]>> /\ c[1] \in Anchors /\ c[1] \in Nat /\ c[2] \in Nat
                         /\ c[2] < NPieces(c[1]) /\ c[1] < Len(Input)
    /\ \A a \in Anchors, b \in Nat : b < NPieces(a) => <<a, b>> \in Chunks
    /\ IsFiniteSet(Chunks)
    /\ End \notin Chunks /\ NoChunk \notin Chunks
<1> USE AnchorsLemma
<1>1. ASSUME NEW c \in Chunks
      PROVE  /\ c = <<c[1], c[2]>> /\ c[1] \in Anchors /\ c[1] \in Nat /\ c[2] \in Nat
             /\ c[2] < NPieces(c[1]) /\ c[1] < Len(Input)
  <2>1. PICK a \in Anchors : c \in {a} \X (0 .. NPieces(a) - 1)
    BY DEF Chunks
  <2>2. c = <<c[1], c[2]>> /\ c[1] = a /\ c[2] \in 0 .. NPieces(a) - 1
    BY <2>1
  <2> QED
    BY <2>2
<1>2. ASSUME NEW a \in Anchors, NEW b \in Nat, b < NPieces(a) PROVE <<a, b>> \in Chunks
  <2>1. <<a, b>> \in {a} \X (0 .. NPieces(a) - 1)
    BY <1>2
  <2> QED
    BY <2>1 DEF Chunks
<1>3. IsFiniteSet(Chunks)
  <2> DEFINE piece(a) == {a} \X (0 .. NPieces(a) - 1)
             U == {piece(a) : a \in Anchors}
             f == [a \in Anchors |-> piece(a)]
  <2>1. \A V \in U : IsFiniteSet(V)
    <3>1. ASSUME NEW a \in Anchors PROVE IsFiniteSet(piece(a))
      <4>0. 0 \in Int /\ NPieces(a) - 1 \in Int
        OBVIOUS
      <4>1. IsFiniteSet({a}) /\ IsFiniteSet(0 .. NPieces(a) - 1)
        BY <4>0, FS_Singleton, FS_Interval, Zenon
      <4> QED
        BY <4>1, FS_Product
    <3> QED
      BY <3>1
  <2>2. IsFiniteSet(Anchors)
    BY FS_Interval DEF Anchors
  <2>3. f \in Surjection(Anchors, U)
    BY DEF Surjection
  <2>4. IsFiniteSet(U)
    BY <2>2, <2>3, FS_Surjection
  <2>5. Chunks = UNION U
    BY DEF Chunks
  <2> HIDE DEF U
  <2> QED
    BY <2>1, <2>4, <2>5, FS_UNION
<1>4. End \notin Chunks
  <2>1. End[1] = Len(Input)
    BY DEF End
  <2> QED
    BY <1>1, <2>1
<1> QED
  BY <1>1, <1>2, <1>3, <1>4, PipelineAssumption

(* The contents of a chunk are among the hash table's keys.                   *)
LEMMA ContentsLemma == \A c \in Chunks : ContentOf(c) \in Contents
BY DEF Contents

(* sequence_lt orders the chunks, and what a chunk is followed by.            *)
Pairs == Nat \X Nat

(* sequence_lt is a strict total order.                                       *)
LEMMA OrderLemma ==
    /\ Chunks \subseteq Pairs /\ End \in Pairs
    /\ \A c \in Pairs : ~Before(c, c)
    /\ \A c, d \in Pairs : c = d \/ Before(c, d) \/ Before(d, c)
    /\ \A c, d \in Pairs : ~(Before(c, d) /\ Before(d, c))
    /\ \A c, d, e \in Pairs : Before(c, d) /\ Before(d, e) => Before(c, e)
    /\ \A c \in Chunks : Before(c, End)
<1> USE AnchorsLemma, ChunksLemma
<1>1. Chunks \subseteq Pairs
  BY DEF Pairs
<1>2. End \in Pairs /\ \A c \in Chunks : Before(c, End)
  BY DEF Pairs, Before, End
<1>3. ASSUME NEW c \in Pairs, NEW d \in Pairs
      PROVE  c = <<c[1], c[2]>> /\ d = <<d[1], d[2]>> /\ c[1] \in Nat /\ c[2] \in Nat
             /\ d[1] \in Nat /\ d[2] \in Nat
  BY DEF Pairs
<1>4. \A c \in Pairs : ~Before(c, c)
  BY <1>3 DEF Before
<1>5. \A c, d \in Pairs : c = d \/ Before(c, d) \/ Before(d, c)
  BY <1>3 DEF Before
<1>6. \A c, d \in Pairs : ~(Before(c, d) /\ Before(d, c))
  BY <1>3 DEF Before
<1>7. \A c, d, e \in Pairs : Before(c, d) /\ Before(d, e) => Before(c, e)
  BY <1>3 DEF Before
<1> QED
  BY <1>1, <1>2, <1>4, <1>5, <1>6, <1>7

(* The successor of a chunk is a chunk or the end, and nothing is between the *)
(* two.                                                                       *)
LEMMA SuccessorLemma ==
    ASSUME NEW c \in Chunks
    PROVE  /\ Successor(c) \in Chunks \cup {End}
           /\ \A d \in Chunks : Before(d, Successor(c)) <=> d = c \/ Before(d, c)
           /\ Successor(c) # c
<1>1. /\ c = <<c[1], c[2]>> /\ c[1] \in Anchors /\ c[1] \in Nat /\ c[2] \in Nat
      /\ c[2] < NPieces(c[1]) /\ c[1] < Len(Input)
  BY ChunksLemma
<1>2. CASE c[2] + 1 < NPieces(c[1])
  <2>1. Successor(c) = <<c[1], c[2] + 1>>
    BY <1>2 DEF Successor
  <2>2. Successor(c) \in Chunks
    BY <1>1, <1>2, <2>1, ChunksLemma
  <2>3. ASSUME NEW d \in Chunks PROVE Before(d, Successor(c)) <=> d = c \/ Before(d, c)
    <3>1. d = <<d[1], d[2]>> /\ d[1] \in Nat /\ d[2] \in Nat
      BY ChunksLemma
    <3> QED
      BY <1>1, <2>1, <3>1 DEF Before
  <2>4. Successor(c) # c
    BY <1>1, <2>1
  <2> QED
    BY <2>2, <2>3, <2>4
<1>3. CASE ~(c[2] + 1 < NPieces(c[1]))
  <2>1. Successor(c) = <<c[1] + 1, 0>>
    BY <1>3 DEF Successor
  <2>2. Successor(c) \in Chunks \cup {End}
    <3>1. CASE c[1] + 1 \in Anchors
      BY <2>1, <3>1, AnchorsLemma, ChunksLemma
    <3>2. CASE c[1] + 1 \notin Anchors
      <4>1. c[1] + 1 = Len(Input)
        BY <1>1, <3>2, AnchorsLemma
      <4> QED
        BY <2>1, <4>1 DEF End
    <3> QED
      BY <3>1, <3>2
  <2>3. ASSUME NEW d \in Chunks PROVE Before(d, Successor(c)) <=> d = c \/ Before(d, c)
    <3>1. /\ d = <<d[1], d[2]>> /\ d[1] \in Anchors /\ d[1] \in Nat /\ d[2] \in Nat
          /\ d[2] < NPieces(d[1])
      BY ChunksLemma
    <3>2. Before(d, Successor(c)) <=> d[1] < c[1] + 1
      BY <1>1, <2>1, <3>1 DEF Before
    <3>3. d[1] = c[1] => d[2] <= c[2]
      <4>1. ASSUME d[1] = c[1] PROVE d[2] < NPieces(c[1])
        BY <3>1, <4>1
      <4>2. NPieces(c[1]) \in Nat
        BY <1>1, AnchorsLemma
      <4> QED
        BY <1>1, <1>3, <3>1, <4>1, <4>2
    <3>4. d[1] < c[1] \/ d[1] = c[1] <=> d = c \/ Before(d, c)
      BY <1>1, <3>1, <3>3 DEF Before
    <3> QED
      BY <1>1, <3>1, <3>2, <3>4
  <2>4. Successor(c) # c
    BY <1>1, <2>1
  <2> QED
    BY <2>2, <2>3, <2>4
<1> QED
  BY <1>2, <1>3

(* Reorder starts with the first chunk.                                       *)
LEMMA FirstLemma ==
    /\ First \in Chunks \cup {End}
    /\ \A c \in Chunks : ~Before(c, First)
<1>1. First \in Chunks \cup {End}
  <2>1. CASE Len(Input) = 0
    BY <2>1 DEF First, End
  <2>2. CASE Len(Input) # 0
    <3>1. 0 \in Anchors
      BY <2>2, AnchorsLemma
    <3> QED
      BY <3>1, AnchorsLemma, ChunksLemma DEF First
  <2> QED
    BY <2>1, <2>2
<1>2. \A c \in Chunks : ~Before(c, First)
  <2>1. \A c \in Chunks : c[1] \in Nat /\ c[2] \in Nat
    BY ChunksLemma
  <2> QED
    BY <2>1 DEF Before, First
<1> QED
  BY <1>1, <1>2

(* A set of chunks has a first one, which FindMin finds.                      *)
LEMMA FindMinLemma ==
    ASSUME NEW S \in SUBSET Chunks, S # {}
    PROVE  /\ FindMin(S) \in S
           /\ \A d \in S : FindMin(S) = d \/ Before(FindMin(S), d)
<1> DEFINE R == {ss \in Nat \X Nat : ss[1] < ss[2]}
           W == LexPairOrdering(R, R, Nat, Nat)
<1>1. IsWellFoundedOn(R, Nat)
  BY NatLessThanWellFounded, Zenon DEF OpToRel
<1>2. IsWellFoundedOn(W, Nat \X Nat)
  <2> HIDE DEF R
  <2> QED
    BY <1>1, WFLexPairOrdering
<1>3. S \subseteq Nat \X Nat
  BY OrderLemma DEF Pairs
<1>4. PICK c \in S : \A d \in S : <<d, c>> \notin W
  <2> HIDE DEF W
  <2> QED
    BY <1>2, <1>3, WFMin
<1>5. ASSUME NEW d \in S PROVE c = d \/ Before(c, d)
  <2>1. ASSUME Before(d, c) PROVE <<d, c>> \in W
    <3>1. d[1] \in Nat /\ d[2] \in Nat /\ c[1] \in Nat /\ c[2] \in Nat
      BY <1>3
    <3>2. <<d, c>>[1] = d /\ <<d, c>>[2] = c /\ <<d, c>> \in (Nat \X Nat) \X (Nat \X Nat)
      BY <1>3
    <3>3. d[1] < c[1] => <<d[1], c[1]>> \in R
      BY <3>1
    <3>4. d[2] < c[2] => <<d[2], c[2]>> \in R
      BY <3>1
    <3> HIDE DEF R
    <3> QED
      BY <2>1, <3>2, <3>3, <3>4 DEF LexPairOrdering, Before
  <2>2. ~Before(d, c)
    BY <1>4, <2>1
  <2> QED
    BY <1>3, <2>2, OrderLemma DEF Pairs
<1>6. \E e \in S : \A d \in S : e = d \/ Before(e, d)
  BY <1>5
<1> QED
  BY <1>6 DEF FindMin

-----------------------------------------------------------------------------
(* The groups of threads.                                                     *)
LEMMA DivLemma ==
    ASSUME NEW n \in Nat, NEW k \in Nat, k > 0
    PROVE  /\ n \div k \in Nat /\ n % k \in Nat /\ n % k < k
           /\ n % k = n - k * (n \div k)
           /\ \A q \in Nat : n \div k = q <=> q * k <= n /\ n < q * k + k
<1>1. n \div k \in Nat
  OBVIOUS
<1>2. n % k \in Nat /\ n % k < k
  OBVIOUS
<1>3. n % k = n - k * (n \div k)
  OBVIOUS
<1>4. ASSUME NEW q \in Nat PROVE n \div k = q <=> q * k <= n /\ n < q * k + k
  OBVIOUS
<1> QED
  BY <1>1, <1>2, <1>3, <1>4, Zenon

(* Products of the group size are monotone.                                   *)
LEMMA TimesLemma ==
    ASSUME NEW k \in Nat, NEW a \in Nat, NEW b \in Nat
    PROVE  /\ a * k \in Nat
           /\ a < b => a * k + k <= b * k
<1>1. a * k \in Nat /\ b * k \in Nat
  OBVIOUS
<1>2. ASSUME a < b PROVE a * k + k <= b * k
  <2>1. b - a - 1 \in Nat /\ b = a + 1 + (b - a - 1)
    BY <1>2
  <2>2. PICK d \in Nat : b = a + 1 + d
    BY <2>1
  <2>3. (a + 1 + d) * k = a * k + k + d * k /\ d * k \in Nat
    OBVIOUS
  <2> QED
    BY <1>1, <2>2, <2>3
<1> QED
  BY <1>1, <1>2

(* Round-robin stays among the groups.                                        *)
LEMMA NextIndexLemma ==
    ASSUME NEW n \in Nat, NEW i \in Nat, i < n
    PROVE  (i + 1) % n = IF i + 1 = n THEN 0 ELSE i + 1
OBVIOUS

Members(g) == {t \in Tids : t \div ThreadsPerQueue = g}

(* Every thread is in a group, every group has members, and GroupSize counts  *)
(* them.                                                                      *)
LEMMA GroupsLemma ==
    /\ nqueues \in Nat /\ nqueues > 0
    /\ \A t \in Tids : t \in Nat /\ t \div ThreadsPerQueue \in Groups
    /\ \A g \in Groups : /\ IsFiniteSet(Members(g)) /\ Members(g) # {}
                         /\ Cardinality(Members(g)) = GroupSize(g) /\ GroupSize(g) \in Nat
<1> DEFINE N == NThreads  K == ThreadsPerQueue  q == N \div K  r == N % K
<1>1. N \in Nat /\ N > 0 /\ K \in Nat /\ K > 0
  BY PipelineAssumption
<1>2. q \in Nat /\ r \in Nat /\ r < K /\ r = N - K * q
  BY <1>1, DivLemma, Zenon
<1>3. nqueues = q + (IF r # 0 THEN 1 ELSE 0)
  BY DEF nqueues
<1>4. Tids = 0 .. N - 1
  BY DEF Tids
<1> HIDE DEF q, r
<1>5. K * q = q * K /\ q * K \in Nat
  BY <1>1, <1>2
<1>6. N = q * K + r
  <2>1. r = N - q * K
    BY <1>2, <1>5, Zenon
  <2> HIDE DEF N, K
  <2> QED
    BY <1>1, <1>2, <1>5, <2>1
<1>7. nqueues \in Nat /\ nqueues > 0
  <2>1. CASE r # 0
    BY <1>2, <1>3, <2>1
  <2>2. CASE r = 0
    <3>1. q # 0
      <4>1. ASSUME q = 0 PROVE FALSE
        <5>1. q * K = 0
          BY <1>1, <4>1
        <5> QED
          BY <1>1, <1>6, <2>2, <5>1
      <4> QED
        BY <4>1
    <3> QED
      BY <1>2, <1>3, <2>2, <3>1
  <2> QED
    BY <2>1, <2>2
<1>8. ASSUME NEW t \in Tids, NEW g \in Nat
      PROVE  t \in Nat /\ (t \div K = g <=> g * K <= t /\ t < g * K + K)
  <2>1. t \in Nat
    BY <1>1, <1>4
  <2> QED
    BY <1>1, <2>1, DivLemma, Zenon
<1>9. ASSUME NEW t \in Tids PROVE t \in Nat /\ t \div K \in Groups
  <2>1. t \in Nat /\ t < N
    BY <1>1, <1>4
  <2>2. t \div K \in Nat
    BY <1>1, <2>1, DivLemma, Zenon
  <2>3. PICK g \in Nat : g = t \div K
    BY <2>2
  <2>4. g * K <= t
    BY <1>8, <2>3, Zenon
  <2>5. g < nqueues
    <3>1. CASE r # 0
      <4>1. ASSUME q < g PROVE FALSE
        <5>1. q * K + K <= g * K /\ g * K \in Nat
          BY <1>1, <1>2, <4>1, TimesLemma
        <5> HIDE DEF N, K
        <5> QED
          BY <1>1, <1>2, <1>5, <1>6, <2>1, <2>4, <5>1
      <4> QED
        BY <1>2, <1>3, <3>1, <4>1
    <3>2. CASE r = 0
      <4>1. ASSUME q <= g PROVE FALSE
        <5>1. q * K <= g * K /\ g * K \in Nat
          <6>1. CASE q = g
            BY <1>5, <6>1
          <6>2. CASE q < g
            <7>1. q * K + K <= g * K /\ g * K \in Nat
              BY <1>1, <1>2, <6>2, TimesLemma
            <7> HIDE DEF N, K
            <7> QED
              BY <1>1, <1>5, <7>1
          <6> QED
            BY <1>2, <4>1, <6>1, <6>2
        <5> HIDE DEF N, K
        <5> QED
          BY <1>1, <1>5, <1>6, <2>1, <2>4, <3>2, <5>1
      <4> QED
        BY <1>2, <1>3, <3>2, <4>1
    <3> QED
      BY <3>1, <3>2
  <2> QED
    BY <1>7, <2>1, <2>3, <2>5 DEF Groups
<1>10. ASSUME NEW g \in Groups
       PROVE  /\ IsFiniteSet(Members(g)) /\ Members(g) # {}
              /\ Cardinality(Members(g)) = GroupSize(g) /\ GroupSize(g) \in Nat
  <2>1. g \in Nat /\ g < nqueues
    BY <1>7 DEF Groups
  <2>2. PICK lo \in Nat : lo = g * K
    BY <1>1, <2>1
  <2>3. Members(g) = {t \in Tids : lo <= t /\ t < lo + K}
    BY <1>8, <2>1, <2>2, Zenon DEF Members
  <2>4. GroupSize(g) = IF g < nqueues - 1 \/ r = 0 THEN K ELSE r
    BY DEF GroupSize, r
  <2>5. CASE g < q
    <3>1. lo + K <= q * K
      BY <1>1, <1>2, <2>1, <2>2, <2>5, TimesLemma
    <3>2. lo + K <= N
      <4> HIDE DEF N, K
      <4> QED
        BY <1>1, <1>2, <1>5, <1>6, <2>2, <3>1
    <3>3. Members(g) = lo .. lo + K - 1
      <4> HIDE DEF N, K
      <4> QED
        BY <1>1, <1>4, <2>2, <2>3, <3>2
    <3>4. GroupSize(g) = K
      BY <1>2, <1>3, <2>1, <2>4, <2>5
    <3>5. lo \in Int /\ lo + K - 1 \in Int /\ ~(lo > lo + K - 1) /\ (lo + K - 1) - lo + 1 = K
      BY <1>1, <2>2
    <3>6. IsFiniteSet(Members(g)) /\ Cardinality(Members(g)) = K
      <4>1. /\ IsFiniteSet(lo .. lo + K - 1)
            /\ Cardinality(lo .. lo + K - 1)
                 = IF lo > lo + K - 1 THEN 0 ELSE (lo + K - 1) - lo + 1
        BY <3>5, FS_Interval, Zenon
      <4> QED
        BY <3>3, <3>5, <4>1, Zenon
    <3>7. lo \in Members(g)
      BY <3>3, <3>5
    <3> QED
      BY <1>1, <3>4, <3>6, <3>7
  <2>6. CASE ~(g < q)
    <3>1. r # 0 /\ g = q /\ ~(g < nqueues - 1)
      BY <1>2, <1>3, <2>1, <2>6
    <3>2. N = lo + r
      BY <1>6, <2>2, <3>1
    <3>3. Members(g) = lo .. lo + r - 1
      <4>1. lo \in Nat /\ r \in Nat /\ r < K /\ K \in Nat
        BY <1>1, <1>2
      <4>2. Tids = 0 .. lo + r - 1
        <5>1. N - 1 = lo + r - 1
          BY <1>1, <3>2, <4>1
        <5> QED
          BY <1>4, <5>1, Zenon
      <4> HIDE DEF N, K
      <4>3. {t \in 0 .. lo + r - 1 : lo <= t /\ t < lo + K} = lo .. lo + r - 1
        BY <4>1
      <4> QED
        BY <2>3, <4>2, <4>3
    <3>4. GroupSize(g) = r
      BY <2>4, <3>1
    <3>5. lo \in Int /\ lo + r - 1 \in Int /\ ~(lo > lo + r - 1) /\ (lo + r - 1) - lo + 1 = r
      BY <1>2, <2>2, <3>1
    <3>6. IsFiniteSet(Members(g)) /\ Cardinality(Members(g)) = r
      <4>1. /\ IsFiniteSet(lo .. lo + r - 1)
            /\ Cardinality(lo .. lo + r - 1)
                 = IF lo > lo + r - 1 THEN 0 ELSE (lo + r - 1) - lo + 1
        BY <3>5, FS_Interval, Zenon
      <4> QED
        BY <3>3, <3>5, <4>1, Zenon
    <3>7. lo \in Members(g)
      BY <3>3, <3>5
    <3> QED
      BY <1>2, <3>4, <3>6, <3>7
  <2> QED
    BY <2>5, <2>6
<1> QED
  BY <1>7, <1>9, <1>10

-----------------------------------------------------------------------------
(* The threads and the queues.                                                *)
LEMMA MinLemma ==
    /\ \A a, b \in Nat : Min({a, b}) \in Nat /\ Min({a, b}) <= a /\ Min({a, b}) <= b
                         /\ Min({a, b}) \in {a, b}
    /\ \A a, b, c \in Nat : Min({a, b, c}) \in Nat /\ Min({a, b, c}) <= a /\ Min({a, b, c}) <= b
                            /\ Min({a, b, c}) <= c
<1>1. ASSUME NEW a \in Nat, NEW b \in Nat
      PROVE  Min({a, b}) \in Nat /\ Min({a, b}) <= a /\ Min({a, b}) <= b /\ Min({a, b}) \in {a, b}
  <2>1. \E x \in {a, b} : \A y \in {a, b} : x =< y
    OBVIOUS
  <2>2. Min({a, b}) \in {a, b} /\ \A y \in {a, b} : Min({a, b}) =< y
    BY <2>1 DEF Min
  <2> QED
    BY <2>2
<1>2. ASSUME NEW a \in Nat, NEW b \in Nat, NEW c \in Nat
      PROVE  /\ Min({a, b, c}) \in Nat /\ Min({a, b, c}) <= a /\ Min({a, b, c}) <= b
             /\ Min({a, b, c}) <= c
  <2>1. \E x \in {a, b, c} : \A y \in {a, b, c} : x =< y
    OBVIOUS
  <2>2. Min({a, b, c}) \in {a, b, c} /\ \A y \in {a, b, c} : Min({a, b, c}) =< y
    BY <2>1 DEF Min
  <2> QED
    BY <2>2
<1> QED
  BY <1>1, <1>2

Carries(s) == IF s = "refine" THEN Anchors ELSE Chunks

(* A worker is its stage and its number; its queues exist.                    *)
LEMMA WorkersLemma ==
    /\ \A w \in Workers : /\ w = <<Stage(w), w[2]>> /\ Stage(w) \in Pools /\ w[2] \in Tids
                          /\ qid(w) \in Groups /\ InQueue(w) \in Queues
                          /\ \A d \in Stages : <<d, qid(w)>> \in Queues
    /\ \A s \in Pools, t \in Tids : <<s, t>> \in Workers /\ Stage(<<s, t>>) = s
                                    /\ <<s, t>>[2] = t /\ qid(<<s, t>>) = t \div ThreadsPerQueue
    /\ 0 \in Tids /\ 0 \in Groups
<1>1. ASSUME NEW w \in Workers
      PROVE  /\ w = <<Stage(w), w[2]>> /\ Stage(w) \in Pools /\ w[2] \in Tids
             /\ qid(w) \in Groups /\ InQueue(w) \in Queues
             /\ \A d \in Stages : <<d, qid(w)>> \in Queues
  <2>1. w = <<Stage(w), w[2]>> /\ Stage(w) \in Pools /\ w[2] \in Tids
    BY DEF Workers, Stage
  <2>2. qid(w) \in Groups
    BY <2>1, GroupsLemma DEF qid
  <2>3. Stage(w) \in Stages
    BY <2>1 DEF Stages
  <2> QED
    BY <2>1, <2>2, <2>3 DEF InQueue, Queues
<1>2. 0 \in Tids
  BY PipelineAssumption DEF Tids
<1>3. 0 \in Groups
  BY GroupsLemma DEF Groups
<1> QED
  BY <1>1, <1>2, <1>3 DEF Workers, Stage, qid

QueueTypes ==
    /\ DOMAIN que = Queues /\ DOMAIN nTerminated = Queues
    /\ \A q \in Queues : /\ que[q] \in Seq(Carries(q[1])) /\ Len(que[q]) <= QueueSize
                         /\ nTerminated[q] \in Nat
FragmentTypes ==
    /\ fragPc \in {"read", "terminate", "done"}
    /\ anchorcount \in 0 .. Len(Input)
    /\ fragQid \in 0 .. nqueues
WorkTypes ==
    /\ pc \in [Workers -> {"work", "drain", "done"}]
    /\ DOMAIN recv = Workers
    /\ \A w \in Workers : recv[w] \in Seq(Carries(Stage(w)))
    /\ send \in [Workers -> [Stages -> Seq(Chunks)]]
    /\ chcount \in [Tids -> Nat]
ChunkTypes ==
    /\ cache \in [Contents -> Chunks \cup {NoChunk}]
    /\ original \in [Chunks -> Chunks \cup {NoChunk}]
    /\ state \in [Chunks -> {"UNCOMPRESSED", "COMPRESSED", "FLUSHED"}]
ReorderTypes ==
    /\ rpc \in {"fetch", "take", "write", "flush", "flushWrite", "mismatch", "done"}
    /\ rqid \in Groups /\ tried \in Groups
    /\ rrecv \in Seq(Chunks)
    /\ inHand \in Chunks \cup {NoChunk}
    /\ chunks_per_anchor \in [Anchors -> Nat]
    /\ chunks_per_anchor_max \in Nat
    /\ T \subseteq Chunks
TypeInv == QueueTypes /\ FragmentTypes /\ WorkTypes /\ ChunkTypes /\ ReorderTypes

(* The parts of the invariant that types depend on: Fragment's counters, and  *)
(* what the reader of a queue has left when it asks for more.                 *)
FragmentInv ==
    /\ fragPc \in {"read", "terminate"} => fragQid \in Groups
    /\ fragPc = "done" => fragQid = nqueues
    /\ fragPc # "read" => anchorcount = Len(Input)
    /\ \A g \in Groups :
         nTerminated[<<"refine", g>>] = IF fragPc # "read" /\ g < fragQid THEN 1 ELSE 0

(* The Reorder thread between two steps.                                      *)
ReorderPc ==
    /\ rpc \notin {"flushWrite", "mismatch"}
    /\ rpc = "take" => rrecv # << >>
    /\ rpc \in {"fetch", "flush", "done"} => rrecv = << >>
    /\ inHand = IF rpc = "write" THEN next ELSE NoChunk
    /\ next \in Chunks \cup {End}
    /\ rpc = "write" => next \in Chunks

(* A queue or a buffer, cut and appended to.                                  *)
LEMMA BatchLemma ==
    ASSUME NEW S, NEW s \in Seq(S), NEW t \in Seq(S), NEW n \in 0 .. Len(s)
    PROVE  /\ SubSeq(s, 1, n) \in Seq(S) /\ SubSeq(s, n + 1, Len(s)) \in Seq(S)
           /\ Len(SubSeq(s, n + 1, Len(s))) = Len(s) - n
           /\ t \o SubSeq(s, 1, n) \in Seq(S) /\ Len(t \o SubSeq(s, 1, n)) = Len(t) + n
           /\ Len(s) \in Nat /\ Len(t) \in Nat
<1>1. PICK u \in Seq(S) : u = SubSeq(s, 1, n)
  BY CutLemma, Zenon
<1>2. Len(u) = n
  BY <1>1, CutLemma, Zenon
<1>3. t \o u \in Seq(S) /\ Len(t \o u) = Len(t) + n
  BY <1>2, JoinLemma
<1> QED
  BY <1>1, <1>3, CutLemma, LenProperties, Zenon

-----------------------------------------------------------------------------
(* Types.                                                                     *)
LEMMA InitTypes == Init => TypeInv
<1> SUFFICES ASSUME Init PROVE TypeInv
  OBVIOUS
<1> USE DEF Init
<1>1. QueueTypes
  <2>1. \A X : << >> \in Seq(X) /\ Len(<< >>) = 0
    BY EmptySeq
  <2> QED
    BY <2>1, PipelineAssumption DEF QueueTypes
<1>2. FragmentTypes
  BY AnchorsLemma, GroupsLemma DEF FragmentTypes
<1>3. WorkTypes
  BY EmptySeq DEF WorkTypes
<1>4. ChunkTypes
  BY DEF ChunkTypes
<1>5. ReorderTypes
  BY WorkersLemma, EmptySeq, PipelineAssumption DEF ReorderTypes
<1> QED
  BY <1>1, <1>2, <1>3, <1>4, <1>5 DEF TypeInv

(* Fragment keeps the types.                                                  *)
LEMMA FragmentTypeStep ==
    ASSUME TypeInv, FragmentInv, FragmentStep
    PROVE  TypeInv'
<1> USE DEF TypeInv
<1>1. CASE FragmentSend
  <2> DEFINE q == <<"refine", fragQid>>
  <2>1. /\ anchorcount \in Anchors /\ fragQid \in Groups /\ q \in Queues /\ q[1] = "refine"
        /\ ~IsFull(q) /\ que' = [que EXCEPT ![q] = Append(@, anchorcount)]
    BY <1>1 DEF FragmentSend, FragmentInv, Queues, Stages, Pools
  <2>2. QueueTypes'
    <3>1. que[q] \in Seq(Anchors) /\ Len(que[q]) <= QueueSize /\ Len(que[q]) # QueueSize
      BY <2>1 DEF QueueTypes, Carries, IsFull
    <3>2. /\ Append(que[q], anchorcount) \in Seq(Anchors)
          /\ Len(Append(que[q], anchorcount)) <= QueueSize
      BY <2>1, <3>1, PipelineAssumption
    <3>3. UNCHANGED nTerminated
      BY <1>1 DEF FragmentSend
    <3> QED
      BY <2>1, <3>2, <3>3 DEF QueueTypes, Carries
  <2>3. FragmentTypes'
    <3>1. anchorcount + 1 \in 0 .. Len(Input)
      BY <2>1, AnchorsLemma
    <3>2. (fragQid + 1) % nqueues \in 0 .. nqueues
      BY <2>1, GroupsLemma, NextIndexLemma DEF Groups
    <3> QED
      BY <1>1, <3>1, <3>2 DEF FragmentSend, FragmentTypes
  <2> QED
    BY <1>1, <2>2, <2>3 DEF FragmentSend, workVars, reorderVars, WorkTypes, ChunkTypes, ReorderTypes
<1>2. CASE FragmentEnd
  <2>1. FragmentTypes'
    BY <1>2, GroupsLemma DEF FragmentEnd, FragmentTypes
  <2> QED
    BY <1>2, <2>1 DEF FragmentEnd, workVars, reorderVars, QueueTypes, WorkTypes, ChunkTypes, ReorderTypes
<1>3. CASE FragmentTerminate
  <2>1. fragQid \in Groups
    BY <1>3 DEF FragmentTerminate, FragmentInv
  <2>2. FragmentTypes'
    BY <1>3, <2>1, GroupsLemma DEF FragmentTerminate, FragmentTypes, Groups
  <2>3. QueueTypes'
    <3>1. /\ nTerminated' = [nTerminated EXCEPT ![<<"refine", fragQid>>] = @ + 1] /\ que' = que
          /\ DOMAIN nTerminated = Queues /\ \A r \in Queues : nTerminated[r] \in Nat
      BY <1>3 DEF FragmentTerminate, QueueTypes
    <3>2. \A r \in Queues : nTerminated'[r] \in Nat
      BY <3>1
    <3> QED
      BY <3>1, <3>2 DEF QueueTypes
  <2> QED
    BY <1>3, <2>2, <2>3
       DEF FragmentTerminate, workVars, chunkVars, reorderVars, WorkTypes, ChunkTypes, ReorderTypes
<1> QED
  BY <1>1, <1>2, <1>3 DEF FragmentStep

(* How many chunks a call of queue_enqueue or queue_dequeue moves.            *)
EnqueueSize(w, d) == Min({Batch, Len(send[w][d]), QueueSize - Len(que[<<d, qid(w)>>])})
DequeueSize(q) == Min({Batch, Len(que[q])})

(* A batch is not empty and fits into the queue.                              *)
LEMMA EnqueueSizeLemma ==
    ASSUME TypeInv, NEW w \in Workers, NEW d \in Stages
    PROVE  /\ EnqueueSize(w, d) \in 0 .. Len(send[w][d])
           /\ EnqueueSize(w, d) <= QueueSize - Len(que[<<d, qid(w)>>])
<1>1. Batch \in Nat /\ QueueSize \in Nat
  BY PipelineAssumption
<1>2. send[w][d] \in Seq(Chunks) /\ Len(send[w][d]) \in Nat
  BY DEF TypeInv, WorkTypes
<1>3. QueueSize - Len(que[<<d, qid(w)>>]) \in Nat
  <2>1. <<d, qid(w)>> \in Queues
    BY WorkersLemma
  <2>2. Len(que[<<d, qid(w)>>]) <= QueueSize /\ Len(que[<<d, qid(w)>>]) \in Nat
    BY <2>1, LenProperties DEF TypeInv, QueueTypes
  <2> QED
    BY <1>1, <2>2
<1>4. /\ EnqueueSize(w, d) \in Nat /\ EnqueueSize(w, d) <= Len(send[w][d])
      /\ EnqueueSize(w, d) <= QueueSize - Len(que[<<d, qid(w)>>])
  BY <1>1, <1>2, <1>3, MinLemma, Zenon DEF EnqueueSize
<1> QED
  BY <1>2, <1>4

(* A batch is not empty and is in the queue.                                  *)
LEMMA DequeueSizeLemma ==
    ASSUME TypeInv, NEW q \in Queues
    PROVE  /\ DequeueSize(q) \in 0 .. Len(que[q])
           /\ que[q] # << >> => DequeueSize(q) > 0
<1>1. Batch \in Nat /\ Batch > 0
  BY PipelineAssumption
<1>2. que[q] \in Seq(Carries(q[1])) /\ Len(que[q]) \in Nat
  BY LenProperties DEF TypeInv, QueueTypes
<1>3. /\ DequeueSize(q) \in Nat /\ DequeueSize(q) <= Len(que[q])
      /\ DequeueSize(q) \in {Batch, Len(que[q])}
  BY <1>1, <1>2, MinLemma, Zenon DEF DequeueSize
<1>4. que[q] # << >> => Len(que[q]) # 0
  BY <1>2, EmptySeq
<1> QED
  BY <1>1, <1>2, <1>3, <1>4

(* The queues keep their types when one of them gets another line.            *)
LEMMA QueueTypesAfter ==
    ASSUME QueueTypes, NEW q \in Queues, NEW s \in Seq(Carries(q[1])), Len(s) <= QueueSize,
           que' = [que EXCEPT ![q] = s], UNCHANGED nTerminated
    PROVE  QueueTypes'
BY DEF QueueTypes

(* Chunks leave a stage only for the stages after it.                         *)
Aims(s) == CASE s = "refine" -> {"dedup"}
             [] s = "dedup" -> {"compress", "reorder"}
             [] s = "compress" -> {"reorder"}
SendInv == \A w \in Workers, d \in Stages : send[w][d] # << >> => d \in Aims(Stage(w))

(* No stage sends to a refine queue.                                          *)
LEMMA AimsLemma ==
    ASSUME NEW s \in Pools
    PROVE  Aims(s) \subseteq Stages \ {"refine"}
BY DEF Aims, Pools, Stages

(* What queue_enqueue changes.                                                *)
LEMMA EnqueueLemma ==
    ASSUME TypeInv, SendInv, NEW w \in Workers, NEW d \in Stages, Enqueue(w, d)
    PROVE  /\ d \in Aims(Stage(w)) /\ d # "refine" /\ send[w][d] # << >>
           /\ send[w][d] \in Seq(Chunks) /\ <<d, qid(w)>> \in Queues
           /\ que[<<d, qid(w)>>] \in Seq(Chunks)
           /\ que' = [que EXCEPT ![<<d, qid(w)>>] =
                        @ \o SubSeq(send[w][d], 1, EnqueueSize(w, d))]
           /\ send' = [send EXCEPT ![w][d] = SubSeq(@, EnqueueSize(w, d) + 1, Len(@))]
           /\ UNCHANGED <<nTerminated, fragVars, pc, recv, chcount, chunkVars, reorderVars, out, next>>
<1>1. send[w][d] \in Seq(Chunks) /\ Stage(w) \in Pools
  BY WorkersLemma DEF TypeInv, WorkTypes
<1>2. send[w][d] # << >>
  <2>1. FullBuffer(w, d) => Len(send[w][d]) = Batch /\ Batch # 0
    BY PipelineAssumption DEF FullBuffer
  <2>2. Len(<< >>) = 0
    BY EmptySeq
  <2> QED
    BY <2>1, <2>2 DEF Enqueue, MustEnqueue
<1>3. d \in Aims(Stage(w)) /\ d # "refine"
  BY <1>1, <1>2, AimsLemma DEF SendInv
<1>4. <<d, qid(w)>> \in Queues /\ que[<<d, qid(w)>>] \in Seq(Chunks)
  BY <1>3, WorkersLemma DEF TypeInv, QueueTypes, Carries
<1>5. /\ que' = [que EXCEPT ![<<d, qid(w)>>] = @ \o SubSeq(send[w][d], 1, EnqueueSize(w, d))]
      /\ send' = [send EXCEPT ![w][d] = SubSeq(@, EnqueueSize(w, d) + 1, Len(@))]
      /\ UNCHANGED <<nTerminated, fragVars, pc, recv, chcount, chunkVars, reorderVars, out, next>>
  BY DEF Enqueue, EnqueueSize
<1> QED
  BY <1>1, <1>2, <1>3, <1>4, <1>5

(* What queue_dequeue changes.                                                *)
LEMMA DequeueLemma ==
    ASSUME TypeInv, NEW w \in Workers, Dequeue(w)
    PROVE  LET q == InQueue(w) IN
           /\ q \in Queues /\ recv[w] = << >> /\ pc[w] = "work"
           /\ que[q] \in Seq(Carries(Stage(w))) /\ Carries(q[1]) = Carries(Stage(w))
           /\ \/ /\ que[q] # << >>
                 /\ recv' = [recv EXCEPT ![w] = SubSeq(que[q], 1, DequeueSize(q))]
                 /\ que' = [que EXCEPT ![q] = SubSeq(@, DequeueSize(q) + 1, Len(@))]
                 /\ UNCHANGED pc
              \/ /\ que[q] = << >> /\ isTerminated(q)
                 /\ pc' = [pc EXCEPT ![w] = "drain"]
                 /\ UNCHANGED <<recv, que>>
           /\ UNCHANGED <<nTerminated, fragVars, send, chcount, chunkVars, reorderVars, out, next>>
<1>1. InQueue(w) \in Queues /\ InQueue(w)[1] = Stage(w)
  BY WorkersLemma DEF InQueue
<1> QED
  BY <1>1 DEF Dequeue, Ready, DequeueSize, TypeInv, QueueTypes

(* Enqueue, Dequeue and Shutdown keep the types.                              *)
LEMMA TransferTypeStep ==
    ASSUME TypeInv, SendInv, NEW w \in Workers,
           (\E d \in Stages : Enqueue(w, d)) \/ Dequeue(w) \/ Shutdown(w)
    PROVE  TypeInv'
<1>1. ASSUME NEW d \in Stages, Enqueue(w, d) PROVE TypeInv'
  <2> DEFINE q == <<d, qid(w)>>
             n == EnqueueSize(w, d)
  <2>1. /\ d # "refine" /\ send[w][d] \in Seq(Chunks) /\ q \in Queues /\ que[q] \in Seq(Chunks)
        /\ que' = [que EXCEPT ![q] = @ \o SubSeq(send[w][d], 1, n)]
        /\ send' = [send EXCEPT ![w][d] = SubSeq(@, n + 1, Len(@))]
        /\ UNCHANGED <<nTerminated, fragVars, pc, recv, chcount, chunkVars, reorderVars, out, next>>
    BY <1>1, EnqueueLemma
  <2>2. n \in 0 .. Len(send[w][d]) /\ n <= QueueSize - Len(que[q])
    BY EnqueueSizeLemma
  <2>3. PICK s \in Seq(Chunks) : s = que[q] \o SubSeq(send[w][d], 1, n)
    BY <2>1, <2>2, BatchLemma, Zenon
  <2>4. Len(s) = Len(que[q]) + n /\ Len(que[q]) \in Nat
    BY <2>1, <2>2, <2>3, BatchLemma
  <2>5. PICK u \in Seq(Chunks) : u = SubSeq(send[w][d], n + 1, Len(send[w][d]))
    BY <2>1, <2>2, BatchLemma, Zenon
  <2>6. QueueTypes'
    <3>1. que' = [que EXCEPT ![q] = s] /\ UNCHANGED nTerminated
      BY <2>1, <2>3
    <3>2. Len(s) <= QueueSize
      BY <2>2, <2>4, PipelineAssumption
    <3>3. Carries(q[1]) = Chunks
      BY <2>1 DEF Carries
    <3> QED
      BY <2>1, <3>1, <3>2, <3>3, QueueTypesAfter DEF TypeInv
  <2>7. WorkTypes'
    <3>1. send' = [send EXCEPT ![w][d] = u]
      BY <2>1, <2>5
    <3>2. UNCHANGED <<pc, recv, chcount>>
      BY <2>1
    <3> QED
      BY <3>1, <3>2 DEF TypeInv, WorkTypes
  <2> QED
    BY <2>1, <2>6, <2>7
       DEF TypeInv, fragVars, chunkVars, reorderVars, FragmentTypes, ChunkTypes, ReorderTypes
<1>2. ASSUME Dequeue(w) PROVE TypeInv'
  <2> DEFINE q == InQueue(w)
             n == DequeueSize(q)
  <2>1. /\ q \in Queues /\ recv[w] = << >>
        /\ que[q] \in Seq(Carries(Stage(w))) /\ Carries(q[1]) = Carries(Stage(w))
        /\ \/ /\ que[q] # << >>
              /\ recv' = [recv EXCEPT ![w] = SubSeq(que[q], 1, n)]
              /\ que' = [que EXCEPT ![q] = SubSeq(@, n + 1, Len(@))]
              /\ UNCHANGED pc
           \/ /\ que[q] = << >> /\ isTerminated(q)
              /\ pc' = [pc EXCEPT ![w] = "drain"]
              /\ UNCHANGED <<recv, que>>
        /\ UNCHANGED <<nTerminated, fragVars, send, chcount, chunkVars, reorderVars, out, next>>
    BY <1>2, DequeueLemma
  <2>2. QueueTypes' /\ WorkTypes'
    <3>1. CASE que[q] # << >>
      <4>1. n \in 0 .. Len(que[q])
        BY <2>1, DequeueSizeLemma
      <4>2. PICK s \in Seq(Carries(Stage(w))) : s = SubSeq(que[q], n + 1, Len(que[q]))
        BY <2>1, <4>1, BatchLemma, Zenon
      <4>3. Len(s) = Len(que[q]) - n /\ Len(que[q]) \in Nat
        BY <2>1, <4>1, <4>2, BatchLemma
      <4>4. PICK u \in Seq(Carries(Stage(w))) : u = SubSeq(que[q], 1, n)
        BY <2>1, <4>1, BatchLemma, Zenon
      <4>5. /\ que' = [que EXCEPT ![q] = s] /\ recv' = [recv EXCEPT ![w] = u]
            /\ UNCHANGED <<nTerminated, pc, send, chcount>>
        BY <2>1, <3>1, <4>2, <4>4
      <4>6. Len(s) <= QueueSize
        <5>1. Len(que[q]) <= QueueSize
          BY <2>1 DEF TypeInv, QueueTypes
        <5> QED
          BY <4>1, <4>3, <5>1, PipelineAssumption
      <4>7. QueueTypes'
        BY <2>1, <4>5, <4>6, QueueTypesAfter DEF TypeInv
      <4>8. WorkTypes'
        BY <4>5 DEF TypeInv, WorkTypes
      <4> QED
        BY <4>7, <4>8
    <3>2. CASE que[q] = << >>
      BY <2>1, <3>2 DEF TypeInv, QueueTypes, WorkTypes
    <3> QED
      BY <3>1, <3>2
  <2> QED
    BY <2>1, <2>2
       DEF TypeInv, fragVars, chunkVars, reorderVars, FragmentTypes, ChunkTypes, ReorderTypes
<1>3. ASSUME Shutdown(w) PROVE TypeInv'
  <2> DEFINE q == <<Terminates(Stage(w)), qid(w)>>
  <2>1. QueueTypes'
    <3>1. /\ nTerminated' = [nTerminated EXCEPT ![q] = @ + 1] /\ que' = que
          /\ DOMAIN nTerminated = Queues /\ \A r \in Queues : nTerminated[r] \in Nat
      BY <1>3 DEF Shutdown, TypeInv, QueueTypes
    <3>2. \A r \in Queues : nTerminated'[r] \in Nat
      BY <3>1
    <3> QED
      BY <3>1, <3>2 DEF TypeInv, QueueTypes
  <2>2. WorkTypes'
    BY <1>3 DEF Shutdown, TypeInv, WorkTypes
  <2> QED
    BY <1>3, <2>1, <2>2
       DEF TypeInv, Shutdown, fragVars, chunkVars, reorderVars, FragmentTypes, ChunkTypes, ReorderTypes
<1> QED
  BY <1>1, <1>2, <1>3

(* How far a refine thread has come with its coarse chunk.                    *)
HeadInv ==
    \A t \in Tids : IF recv[<<"refine", t>>] = << >> THEN chcount[t] = 0
                    ELSE chcount[t] < NPieces(Head(recv[<<"refine", t>>]))

(* The head and the tail of a line.                                           *)
LEMMA HeadLemma ==
    ASSUME NEW S, NEW s \in Seq(S), s # << >>
    PROVE  Head(s) \in S /\ Tail(s) \in Seq(S)
BY EmptySeq

(* What FragmentRefine does with the coarse chunk at hand.                    *)
LEMMA RefineLemma ==
    ASSUME TypeInv, HeadInv, NEW t \in Tids, Refine(t)
    PROVE  LET w == <<"refine", t>>
               a == Head(recv[w])
               isLast == chcount[t] = NPieces(a) - 1
           IN /\ w \in Workers /\ recv[w] \in Seq(Anchors) /\ recv[w] # << >>
              /\ a \in Anchors /\ Tail(recv[w]) \in Seq(Anchors)
              /\ chcount[t] \in Nat /\ chcount[t] < NPieces(a) /\ <<a, chcount[t]>> \in Chunks
              /\ pc[w] = "work"
              /\ send' = [send EXCEPT ![w]["dedup"] = Append(@, <<a, chcount[t]>>)]
              /\ chcount' = [chcount EXCEPT ![t] = IF isLast THEN 0 ELSE @ + 1]
              /\ recv' = IF isLast THEN [recv EXCEPT ![w] = Tail(@)] ELSE recv
              /\ refs' = IF isLast THEN refs ELSE refs + 1
              /\ UNCHANGED <<que, nTerminated, fragVars, pc, cache, original, state, reorderVars,
                             out, next>>
<1> DEFINE w == <<"refine", t>>
           a == Head(recv[w])
<1>1. w \in Workers /\ Stage(w) = "refine"
  BY WorkersLemma DEF Pools
<1>2. recv[w] \in Seq(Anchors) /\ recv[w] # << >> /\ chcount[t] \in Nat /\ pc[w] = "work"
  BY <1>1 DEF TypeInv, WorkTypes, Carries, Refine, Ready
<1>3. a \in Anchors /\ Tail(recv[w]) \in Seq(Anchors)
  BY <1>2, HeadLemma
<1>4. chcount[t] < NPieces(a)
  BY <1>2 DEF HeadInv
<1>5. <<a, chcount[t]>> \in Chunks
  BY <1>2, <1>3, <1>4, ChunksLemma
<1>6. /\ send' = [send EXCEPT ![w]["dedup"] = Append(@, <<a, chcount[t]>>)]
      /\ chcount' = [chcount EXCEPT ![t] = IF chcount[t] = NPieces(a) - 1 THEN 0 ELSE @ + 1]
      /\ recv' = IF chcount[t] = NPieces(a) - 1 THEN [recv EXCEPT ![w] = Tail(@)] ELSE recv
      /\ refs' = IF chcount[t] = NPieces(a) - 1 THEN refs ELSE refs + 1
      /\ UNCHANGED <<que, nTerminated, fragVars, pc, cache, original, state, reorderVars, out, next>>
  BY DEF Refine, mbuffer_split
<1> QED
  BY <1>1, <1>2, <1>3, <1>4, <1>5, <1>6

(* A chunk's way through Deduplicate, and through Compress.                   *)
DedupDest(c) == IF cache[ContentOf(c)] = NoChunk THEN "compress" ELSE "reorder"

(* What sub_Deduplicate does with the chunk at hand.                          *)
LEMMA DeduplicateLemma ==
    ASSUME TypeInv, NEW t \in Tids, Deduplicate(t)
    PROVE  LET w == <<"dedup", t>>
               c == Head(recv[w])
               x == ContentOf(c)
           IN /\ w \in Workers /\ recv[w] \in Seq(Chunks) /\ recv[w] # << >>
              /\ c \in Chunks /\ Tail(recv[w]) \in Seq(Chunks) /\ x \in Contents /\ pc[w] = "work"
              /\ cache' = IF cache[x] = NoChunk THEN [cache EXCEPT ![x] = c] ELSE cache
              /\ original' = [original EXCEPT ![c] = cache'[x]]
              /\ cache'[x] = (IF cache[x] = NoChunk THEN c ELSE cache[x]) /\ cache'[x] \in Chunks
              /\ send' = [send EXCEPT ![w][DedupDest(c)] = Append(@, c)]
              /\ recv' = [recv EXCEPT ![w] = Tail(@)]
              /\ refs' = IF cache[x] = NoChunk THEN refs ELSE refs - 1
              /\ UNCHANGED <<que, nTerminated, fragVars, pc, chcount, state, reorderVars, out, next>>
<1> DEFINE w == <<"dedup", t>>
           c == Head(recv[w])
           x == ContentOf(c)
<1>1. w \in Workers /\ Stage(w) = "dedup"
  BY WorkersLemma DEF Pools
<1>2. recv[w] \in Seq(Chunks) /\ recv[w] # << >> /\ pc[w] = "work"
  BY <1>1 DEF TypeInv, WorkTypes, Carries, Deduplicate, Ready
<1>3. c \in Chunks /\ Tail(recv[w]) \in Seq(Chunks)
  BY <1>2, HeadLemma
<1>4. x \in Contents
  BY <1>3, ContentsLemma
<1>5. /\ cache' = IF cache[x] = NoChunk THEN [cache EXCEPT ![x] = c] ELSE cache
      /\ original' = [original EXCEPT ![c] = cache'[x]]
      /\ send' = [send EXCEPT ![w][DedupDest(c)] = Append(@, c)]
      /\ recv' = [recv EXCEPT ![w] = Tail(@)]
      /\ refs' = IF cache[x] = NoChunk THEN refs ELSE refs - 1
      /\ UNCHANGED <<que, nTerminated, fragVars, pc, chcount, state, reorderVars, out, next>>
  BY DEF Deduplicate, DedupDest, mbuffer_free
<1>6. cache \in [Contents -> Chunks \cup {NoChunk}]
  BY DEF TypeInv, ChunkTypes
<1>7. cache'[x] = (IF cache[x] = NoChunk THEN c ELSE cache[x]) /\ cache'[x] \in Chunks
  BY <1>3, <1>4, <1>5, <1>6
<1> QED
  BY <1>1, <1>2, <1>3, <1>4, <1>5, <1>7

(* What sub_Compress does with the chunk at hand.                             *)
LEMMA CompressLemma ==
    ASSUME TypeInv, NEW t \in Tids, Compress(t)
    PROVE  LET w == <<"compress", t>>
               c == Head(recv[w])
           IN /\ w \in Workers /\ recv[w] \in Seq(Chunks) /\ recv[w] # << >>
              /\ c \in Chunks /\ Tail(recv[w]) \in Seq(Chunks) /\ pc[w] = "work"
              /\ state' = [state EXCEPT ![c] = "COMPRESSED"]
              /\ send' = [send EXCEPT ![w]["reorder"] = Append(@, c)]
              /\ recv' = [recv EXCEPT ![w] = Tail(@)]
              /\ refs' = refs - 1
              /\ UNCHANGED <<que, nTerminated, fragVars, pc, chcount, cache, original, reorderVars,
                             out, next>>
<1> DEFINE w == <<"compress", t>>
           c == Head(recv[w])
<1>1. w \in Workers /\ Stage(w) = "compress"
  BY WorkersLemma DEF Pools
<1>2. recv[w] \in Seq(Chunks) /\ recv[w] # << >> /\ pc[w] = "work"
  BY <1>1 DEF TypeInv, WorkTypes, Carries, Compress, Ready
<1>3. c \in Chunks /\ Tail(recv[w]) \in Seq(Chunks)
  BY <1>2, HeadLemma
<1>4. /\ state' = [state EXCEPT ![c] = "COMPRESSED"]
      /\ send' = [send EXCEPT ![w]["reorder"] = Append(@, c)]
      /\ recv' = [recv EXCEPT ![w] = Tail(@)]
      /\ refs' = refs - 1
      /\ UNCHANGED <<que, nTerminated, fragVars, pc, chcount, cache, original, reorderVars, out, next>>
  BY DEF Compress, mbuffer_free
<1> QED
  BY <1>1, <1>2, <1>3, <1>4

(* The buffers keep their types when one worker's change.                     *)
LEMMA WorkTypesAfter ==
    ASSUME TypeInv, NEW w \in Workers, NEW d \in Stages, NEW c \in Chunks,
           send' = [send EXCEPT ![w][d] = Append(@, c)], UNCHANGED pc,
           NEW s \in Seq(Carries(Stage(w))), recv' = recv \/ recv' = [recv EXCEPT ![w] = s],
           chcount' \in [Tids -> Nat]
    PROVE  WorkTypes'
<1>1. PICK u \in Seq(Chunks) : u = Append(send[w][d], c)
  <2>1. send[w][d] \in Seq(Chunks)
    BY DEF TypeInv, WorkTypes
  <2>2. Append(send[w][d], c) \in Seq(Chunks)
    BY <2>1
  <2> QED
    BY <2>2, Zenon
<1>2. send' = [send EXCEPT ![w][d] = u]
  BY <1>1
<1>3. send' \in [Workers -> [Stages -> Seq(Chunks)]]
  BY <1>2 DEF TypeInv, WorkTypes
<1>4. DOMAIN recv' = Workers /\ \A v \in Workers : recv'[v] \in Seq(Carries(Stage(v)))
  BY DEF TypeInv, WorkTypes
<1> QED
  BY <1>3, <1>4 DEF TypeInv, WorkTypes

(* The kernels keep the types.                                                *)
LEMMA KernelTypeStep ==
    ASSUME TypeInv, HeadInv, NEW w \in Workers, Kernel(w)
    PROVE  TypeInv'
<1>1. w[2] \in Tids
  BY WorkersLemma
<1>2. ASSUME NEW t \in Tids, Refine(t) PROVE TypeInv'
  <2> DEFINE v == <<"refine", t>>
             a == Head(recv[v])
             isLast == chcount[t] = NPieces(a) - 1
  <2>1. /\ v \in Workers /\ Tail(recv[v]) \in Seq(Anchors)
        /\ chcount[t] \in Nat /\ <<a, chcount[t]>> \in Chunks
        /\ send' = [send EXCEPT ![v]["dedup"] = Append(@, <<a, chcount[t]>>)]
        /\ chcount' = [chcount EXCEPT ![t] = IF isLast THEN 0 ELSE @ + 1]
        /\ recv' = IF isLast THEN [recv EXCEPT ![v] = Tail(@)] ELSE recv
        /\ UNCHANGED <<que, nTerminated, fragVars, pc, cache, original, state, reorderVars, out, next>>
    BY <1>2, RefineLemma
  <2>2. chcount' \in [Tids -> Nat]
    BY <2>1 DEF TypeInv, WorkTypes
  <2>3. Tail(recv[v]) \in Seq(Carries(Stage(v))) /\ "dedup" \in Stages
    BY <2>1 DEF Stage, Carries, Stages, Pools
  <2>4. recv' = recv \/ recv' = [recv EXCEPT ![v] = Tail(recv[v])]
    BY <2>1
  <2> HIDE DEF v, a, isLast
  <2>5. WorkTypes'
    BY <2>1, <2>2, <2>3, <2>4, WorkTypesAfter
  <2> QED
    BY <2>1, <2>5
       DEF TypeInv, fragVars, reorderVars, QueueTypes, FragmentTypes, ChunkTypes, ReorderTypes
<1>3. ASSUME NEW t \in Tids, Deduplicate(t) PROVE TypeInv'
  <2> DEFINE v == <<"dedup", t>>
             c == Head(recv[v])
             x == ContentOf(c)
  <2>1. /\ v \in Workers /\ c \in Chunks /\ Tail(recv[v]) \in Seq(Chunks) /\ x \in Contents
        /\ cache' = IF cache[x] = NoChunk THEN [cache EXCEPT ![x] = c] ELSE cache
        /\ original' = [original EXCEPT ![c] = cache'[x]] /\ cache'[x] \in Chunks
        /\ send' = [send EXCEPT ![v][DedupDest(c)] = Append(@, c)]
        /\ recv' = [recv EXCEPT ![v] = Tail(@)]
        /\ UNCHANGED <<que, nTerminated, fragVars, pc, chcount, state, reorderVars, out, next>>
    BY <1>3, DeduplicateLemma
  <2>2. chcount' \in [Tids -> Nat]
    BY <2>1 DEF TypeInv, WorkTypes
  <2>3. Tail(recv[v]) \in Seq(Carries(Stage(v))) /\ DedupDest(c) \in Stages
    BY <2>1 DEF Stage, Carries, Stages, Pools, DedupDest
  <2>4. recv' = recv \/ recv' = [recv EXCEPT ![v] = Tail(recv[v])]
    BY <2>1
  <2> HIDE DEF v, c, x
  <2>5. WorkTypes'
    BY <2>1, <2>2, <2>3, <2>4, WorkTypesAfter
  <2>6. ChunkTypes'
    BY <2>1 DEF TypeInv, ChunkTypes
  <2> QED
    BY <2>1, <2>5, <2>6 DEF TypeInv, fragVars, reorderVars, QueueTypes, FragmentTypes, ReorderTypes
<1>4. ASSUME NEW t \in Tids, Compress(t) PROVE TypeInv'
  <2> DEFINE v == <<"compress", t>>
             c == Head(recv[v])
  <2>1. /\ v \in Workers /\ c \in Chunks /\ Tail(recv[v]) \in Seq(Chunks)
        /\ state' = [state EXCEPT ![c] = "COMPRESSED"]
        /\ send' = [send EXCEPT ![v]["reorder"] = Append(@, c)]
        /\ recv' = [recv EXCEPT ![v] = Tail(@)]
        /\ UNCHANGED <<que, nTerminated, fragVars, pc, chcount, cache, original, reorderVars, out, next>>
    BY <1>4, CompressLemma
  <2>2. chcount' \in [Tids -> Nat]
    BY <2>1 DEF TypeInv, WorkTypes
  <2>3. Tail(recv[v]) \in Seq(Carries(Stage(v))) /\ "reorder" \in Stages
    BY <2>1 DEF Stage, Carries, Stages, Pools
  <2>4. recv' = recv \/ recv' = [recv EXCEPT ![v] = Tail(recv[v])]
    BY <2>1
  <2> HIDE DEF v, c
  <2>5. WorkTypes'
    BY <2>1, <2>2, <2>3, <2>4, WorkTypesAfter
  <2>6. ChunkTypes'
    BY <2>1 DEF TypeInv, ChunkTypes
  <2> QED
    BY <2>1, <2>5, <2>6 DEF TypeInv, fragVars, reorderVars, QueueTypes, FragmentTypes, ReorderTypes
<1> QED
  BY <1>1, <1>2, <1>3, <1>4 DEF Kernel

(* What a turn of Reorder's round-robin loop changes.                         *)
LEMMA ReorderDequeueLemma ==
    ASSUME TypeInv, ReorderDequeue
    PROVE  LET q == <<"reorder", rqid>>
               n == DequeueSize(q)
           IN /\ q \in Queues /\ rqid \in Groups /\ tried \in Groups /\ rpc = "fetch"
              /\ que[q] \in Seq(Chunks) /\ n \in 0 .. Len(que[q])
              /\ rqid' = (IF rqid + 1 = nqueues THEN 0 ELSE rqid + 1) /\ rqid' \in Groups
              /\ \/ /\ que[q] # << >> /\ n > 0
                    /\ rrecv' = SubSeq(que[q], 1, n)
                    /\ que' = [que EXCEPT ![q] = SubSeq(@, n + 1, Len(@))]
                    /\ tried' = 0 /\ rpc' = "take"
                 \/ /\ que[q] = << >> /\ isTerminated(q)
                    /\ tried' = (IF tried + 1 = nqueues THEN 0 ELSE tried + 1)
                    /\ rpc' = IF tried + 1 = nqueues THEN "flush" ELSE "fetch"
                    /\ UNCHANGED <<que, rrecv>>
              /\ tried' \in Groups
              /\ UNCHANGED <<nTerminated, fragVars, workVars, chunkVars, inHand,
                             chunks_per_anchor, chunks_per_anchor_max, T, out, next>>
<1> DEFINE q == <<"reorder", rqid>>
<1>1. rqid \in Groups /\ tried \in Groups /\ nqueues \in Nat /\ rpc = "fetch"
  BY GroupsLemma DEF TypeInv, ReorderTypes, ReorderDequeue
<1>2. q \in Queues /\ que[q] \in Seq(Chunks)
  BY <1>1 DEF Queues, Stages, TypeInv, QueueTypes, Carries
<1>3. DequeueSize(q) \in 0 .. Len(que[q]) /\ (que[q] # << >> => DequeueSize(q) > 0)
  BY <1>2, DequeueSizeLemma
<1>4. \A i \in Groups : /\ (i + 1) % nqueues = IF i + 1 = nqueues THEN 0 ELSE i + 1
                        /\ (i + 1) % nqueues \in Groups
  <2>1. ASSUME NEW i \in Groups
        PROVE  /\ (i + 1) % nqueues = IF i + 1 = nqueues THEN 0 ELSE i + 1
               /\ (i + 1) % nqueues \in Groups
    <3>1. i \in Nat /\ i < nqueues
      BY <1>1 DEF Groups
    <3>2. (i + 1) % nqueues = IF i + 1 = nqueues THEN 0 ELSE i + 1
      BY <1>1, <3>1, NextIndexLemma
    <3> QED
      BY <1>1, <3>1, <3>2 DEF Groups
  <2> QED
    BY <2>1
<1>5. /\ rqid' = (rqid + 1) % nqueues
      /\ \/ /\ que[q] # << >>
            /\ rrecv' = SubSeq(que[q], 1, DequeueSize(q))
            /\ que' = [que EXCEPT ![q] = SubSeq(@, DequeueSize(q) + 1, Len(@))]
            /\ tried' = 0 /\ rpc' = "take"
         \/ /\ que[q] = << >> /\ isTerminated(q)
            /\ tried' = (tried + 1) % nqueues
            /\ rpc' = IF tried + 1 = nqueues THEN "flush" ELSE "fetch"
            /\ UNCHANGED <<que, rrecv>>
      /\ UNCHANGED <<nTerminated, fragVars, workVars, chunkVars, inHand,
                     chunks_per_anchor, chunks_per_anchor_max, T, out, next>>
  BY DEF ReorderDequeue, DequeueSize
<1>6. 0 \in Groups
  BY WorkersLemma
<1> HIDE DEF q
<1>7. CASE que[q] # << >>
  BY <1>1, <1>2, <1>3, <1>4, <1>5, <1>6, <1>7 DEF q
<1>8. CASE que[q] = << >>
  BY <1>1, <1>2, <1>3, <1>4, <1>5, <1>8 DEF q
<1> QED
  BY <1>7, <1>8

(* Reorder keeps the types.                                                   *)
LEMMA ReorderTypeStep ==
    ASSUME TypeInv, ReorderPc, ReorderStep
    PROVE  TypeInv'
<1>1. CASE ReorderDequeue
  <2> DEFINE q == <<"reorder", rqid>>
             n == DequeueSize(q)
  <2>1. /\ q \in Queues /\ que[q] \in Seq(Chunks) /\ n \in 0 .. Len(que[q])
        /\ \/ /\ rrecv' = SubSeq(que[q], 1, n)
              /\ que' = [que EXCEPT ![q] = SubSeq(@, n + 1, Len(@))]
           \/ UNCHANGED <<que, rrecv>>
        /\ rqid' \in Groups /\ tried' \in Groups /\ rpc' \in {"take", "flush", "fetch"}
        /\ UNCHANGED <<nTerminated, fragVars, workVars, chunkVars, inHand,
                       chunks_per_anchor, chunks_per_anchor_max, T, out, next>>
    BY <1>1, ReorderDequeueLemma
  <2>2. rrecv' \in Seq(Chunks) /\ QueueTypes'
    <3>1. CASE UNCHANGED <<que, rrecv>>
      BY <2>1, <3>1 DEF TypeInv, QueueTypes, ReorderTypes
    <3>2. CASE rrecv' = SubSeq(que[q], 1, n) /\ que' = [que EXCEPT ![q] = SubSeq(@, n + 1, Len(@))]
      <4>1. rrecv' \in Seq(Chunks)
        BY <2>1, <3>2, BatchLemma
      <4>2. PICK s \in Seq(Chunks) : s = SubSeq(que[q], n + 1, Len(que[q]))
        BY <2>1, BatchLemma, Zenon
      <4>3. Len(s) = Len(que[q]) - n /\ Len(que[q]) \in Nat
        BY <2>1, <4>2, BatchLemma
      <4>4. Len(s) <= QueueSize
        <5>1. Len(que[q]) <= QueueSize
          BY <2>1 DEF TypeInv, QueueTypes
        <5> QED
          BY <2>1, <4>3, <5>1, PipelineAssumption
      <4>5. que' = [que EXCEPT ![q] = s] /\ UNCHANGED nTerminated /\ s \in Seq(Carries(q[1]))
        BY <2>1, <3>2, <4>2 DEF Carries
      <4> QED
        BY <2>1, <4>1, <4>4, <4>5, QueueTypesAfter DEF TypeInv
    <3> QED
      BY <2>1, <3>1, <3>2
  <2> QED
    BY <2>1, <2>2
       DEF TypeInv, fragVars, workVars, chunkVars, FragmentTypes, WorkTypes, ChunkTypes, ReorderTypes
<1>2. CASE ReorderTake
  <2>1. rrecv \in Seq(Chunks) /\ rrecv # << >>
    BY <1>2 DEF ReorderTake, ReorderPc, TypeInv, ReorderTypes
  <2>2. PICK c \in Chunks : c = Head(rrecv)
    BY <2>1, HeadLemma
  <2>3. Tail(rrecv) \in Seq(Chunks)
    BY <2>1, HeadLemma
  <2>4. /\ chunks_per_anchor_max' = Slots(c)
        /\ chunks_per_anchor' = IF isLastL2Chunk(c)
                                THEN [chunks_per_anchor EXCEPT ![c[1]] = c[2] + 1]
                                ELSE chunks_per_anchor
        /\ \/ T' = T \cup {c} /\ rpc' = Continue(Tail(rrecv)) /\ UNCHANGED inHand
           \/ inHand' = c /\ rpc' = "write" /\ UNCHANGED T
        /\ rrecv' = Tail(rrecv)
        /\ UNCHANGED <<que, nTerminated, fragVars, workVars, chunkVars, rqid, tried, out, next>>
    BY <1>2, <2>2 DEF ReorderTake
  <2>5. chunks_per_anchor_max' \in Nat
    BY <2>4 DEF Slots, TypeInv, ReorderTypes
  <2>6. chunks_per_anchor' \in [Anchors -> Nat]
    <3>1. c[2] + 1 \in Nat
      BY ChunksLemma
    <3> QED
      BY <2>4, <3>1 DEF TypeInv, ReorderTypes
  <2>7. T' \subseteq Chunks /\ inHand' \in Chunks \cup {NoChunk}
        /\ rpc' \in {"fetch", "take", "write"}
    BY <2>4 DEF Continue, TypeInv, ReorderTypes
  <2>8. ReorderTypes'
    BY <2>3, <2>4, <2>5, <2>6, <2>7 DEF TypeInv, ReorderTypes
  <2> QED
    BY <2>4, <2>8
       DEF TypeInv, fragVars, workVars, chunkVars, QueueTypes, FragmentTypes, WorkTypes, ChunkTypes
<1>3. CASE ReorderWrite
  <2>1. ReorderTypes'
    <3>1. CASE rpc = "write" /\ T # {} /\ FindMin(T) = next'
      <4>1. next' \in Chunks
        BY <3>1, FindMinLemma DEF TypeInv, ReorderTypes
      <4>2. /\ inHand' = next' /\ T' = T \ {next'}
            /\ UNCHANGED <<rpc, rqid, tried, rrecv, chunks_per_anchor, chunks_per_anchor_max>>
        BY <1>3, <3>1 DEF ReorderWrite
      <4> QED
        BY <4>1, <4>2 DEF TypeInv, ReorderTypes
    <3>2. CASE ~(rpc = "write" /\ T # {} /\ FindMin(T) = next')
      <4>1. /\ inHand' = NoChunk /\ rpc' = (IF rpc = "write" THEN Continue(rrecv) ELSE "flush")
            /\ UNCHANGED <<T, rqid, tried, rrecv, chunks_per_anchor, chunks_per_anchor_max>>
        BY <1>3, <3>2 DEF ReorderWrite
      <4>2. rpc' \in {"fetch", "take", "flush"}
        BY <4>1 DEF Continue
      <4> QED
        BY <4>1, <4>2 DEF TypeInv, ReorderTypes
    <3> QED
      BY <3>1, <3>2
  <2>2. ChunkTypes'
    <3>1. UNCHANGED <<cache, original>> /\ state' = [state EXCEPT ![original[inHand]] = "FLUSHED"]
      BY <1>3 DEF ReorderWrite, WriteChunk
    <3> QED
      BY <3>1 DEF TypeInv, ChunkTypes
  <2> QED
    BY <1>3, <2>1, <2>2
       DEF TypeInv, ReorderWrite, fragVars, workVars, QueueTypes, FragmentTypes, WorkTypes
<1>4. CASE ReorderFlush
  <2>1. /\ rpc' \in {"done", "flushWrite", "mismatch"}
        /\ inHand' = IF rpc' = "flushWrite" THEN next ELSE NoChunk
        /\ T' = T \ {inHand'}
        /\ UNCHANGED <<que, nTerminated, fragVars, workVars, chunkVars, rqid, tried, rrecv,
                       chunks_per_anchor, chunks_per_anchor_max, out, next>>
    BY <1>4 DEF ReorderFlush
  <2>2. inHand' \in Chunks \cup {NoChunk}
    <3>1. CASE rpc' = "flushWrite"
      <4>1. T # {} /\ FindMin(T) = next /\ T \subseteq Chunks
        BY <1>4, <3>1 DEF ReorderFlush, TypeInv, ReorderTypes
      <4> QED
        BY <2>1, <3>1, <4>1, FindMinLemma
    <3>2. CASE rpc' # "flushWrite"
      BY <2>1, <3>2
    <3> QED
      BY <3>1, <3>2
  <2>3. ReorderTypes'
    BY <2>1, <2>2 DEF TypeInv, ReorderTypes
  <2> QED
    BY <2>1, <2>3
       DEF TypeInv, fragVars, workVars, chunkVars, QueueTypes, FragmentTypes, WorkTypes, ChunkTypes
<1> QED
  BY <1>1, <1>2, <1>3, <1>4 DEF ReorderStep

(* Every step keeps the types.                                                *)
LEMMA TypeStep ==
    ASSUME TypeInv, FragmentInv, SendInv, HeadInv, ReorderPc, [Next]_pipeVars
    PROVE  TypeInv'
<1>1. CASE Step
  <2>1. ASSUME NEW w \in Workers, WorkerStep(w) PROVE TypeInv'
    BY <2>1, TransferTypeStep, KernelTypeStep DEF WorkerStep
  <2> QED
    BY <1>1, <2>1, FragmentTypeStep, ReorderTypeStep DEF Step
<1>2. CASE UNCHANGED pipeVars
  BY <1>2 DEF pipeVars, fragVars, workVars, chunkVars, reorderVars, TypeInv, QueueTypes,
              FragmentTypes, WorkTypes, ChunkTypes, ReorderTypes
<1> QED
  BY <1>1, <1>2 DEF Next, Finished, Standstill

-----------------------------------------------------------------------------
(* The places a chunk can be in between two stages: the queues, the buffers   *)
(* of the readers and the send buffers; and those of an anchor.               *)
ChunkStages == {"dedup", "compress", "reorder"}
Readers == {"dedup", "compress"} \X Tids
QuePlaces == {"que"} \X (ChunkStages \X Groups)
RecvPlaces == {"recv"} \X Readers
SendPlaces == {"send"} \X (Workers \X ChunkStages)
ReorderBuffer == <<"rrecv", <<"reorder", 0>>>>
ChunkPlaces == QuePlaces \cup RecvPlaces \cup SendPlaces \cup {ReorderBuffer}
AnchorPlaces == ({"que"} \X ({"refine"} \X Groups)) \cup ({"recv"} \X ({"refine"} \X Tids))

Queued(q) == <<"que", q>>
Received(w) == <<"recv", w>>
Outgoing(w, d) == <<"send", <<w, d>>>>

(* The line of every place, given the queues and the buffers.                 *)
ChunkLinesOf(Q, R, B, S) ==
    [p \in ChunkPlaces |-> IF p[1] = "que" THEN Q[p[2]]
                           ELSE IF p[1] = "recv" THEN R[p[2]]
                           ELSE IF p[1] = "send" THEN S[p[2][1]][p[2][2]]
                           ELSE B]
AnchorLinesOf(Q, R) == [p \in AnchorPlaces |-> IF p[1] = "que" THEN Q[p[2]] ELSE R[p[2]]]

ChunkLines == ChunkLinesOf(que, recv, rrecv, send)
AnchorLines == AnchorLinesOf(que, recv)

(* The stage that the chunks in a place are on their way to, or in.           *)
Aim(p) == IF p[1] = "send" THEN p[2][2] ELSE p[2][1]
BoundFor(s) == {p \in ChunkPlaces : Aim(p) = s}

(* The queues among the places.                                               *)
LEMMA QueuedPlace ==
    /\ \A s \in ChunkStages, g \in Groups : /\ <<s, g>> \in Queues /\ s \in Stages
                                            /\ Queued(<<s, g>>) \in ChunkPlaces
                                            /\ Aim(Queued(<<s, g>>)) = s
    /\ \A q1, q2 : Queued(q1) = Queued(q2) => q1 = q2
<1>1. ASSUME NEW s \in ChunkStages, NEW g \in Groups
      PROVE  <<s, g>> \in Queues /\ s \in Stages /\ Queued(<<s, g>>) \in ChunkPlaces
             /\ Aim(Queued(<<s, g>>)) = s
  BY DEF Queues, Stages, Pools, ChunkStages, ChunkPlaces, QuePlaces, Aim, Queued
<1>2. \A q1, q2 : Queued(q1) = Queued(q2) => q1 = q2
  BY DEF Queued
<1> QED
  BY <1>1, <1>2

(* The receive buffers among the places.                                      *)
LEMMA ReceivedPlace ==
    /\ \A s \in {"dedup", "compress"}, t \in Tids :
         /\ <<s, t>> \in Workers /\ Stage(<<s, t>>) = s
         /\ Received(<<s, t>>) \in ChunkPlaces /\ Aim(Received(<<s, t>>)) = s
    /\ \A w1, w2 : Received(w1) = Received(w2) => w1 = w2
<1>1. ASSUME NEW s \in {"dedup", "compress"}, NEW t \in Tids
      PROVE  <<s, t>> \in Workers /\ Stage(<<s, t>>) = s
             /\ Received(<<s, t>>) \in ChunkPlaces /\ Aim(Received(<<s, t>>)) = s
  BY DEF Workers, Stage, Pools, ChunkPlaces, RecvPlaces, Readers, Aim, Received
<1>2. \A w1, w2 : Received(w1) = Received(w2) => w1 = w2
  BY DEF Received
<1> QED
  BY <1>1, <1>2

(* The send buffers among the places.                                         *)
LEMMA OutgoingPlace ==
    /\ \A w \in Workers, d \in ChunkStages : Outgoing(w, d) \in ChunkPlaces /\ Aim(Outgoing(w, d)) = d
    /\ \A w1, d1, w2, d2 : Outgoing(w1, d1) = Outgoing(w2, d2) => w1 = w2 /\ d1 = d2
<1>1. ASSUME NEW w \in Workers, NEW d \in ChunkStages
      PROVE  Outgoing(w, d) \in ChunkPlaces /\ Aim(Outgoing(w, d)) = d
  BY DEF ChunkPlaces, SendPlaces, Aim, Outgoing
<1>2. \A w1, d1, w2, d2 : Outgoing(w1, d1) = Outgoing(w2, d2) => w1 = w2 /\ d1 = d2
  BY DEF Outgoing
<1> QED
  BY <1>1, <1>2

(* Reorder's buffer among the places.                                         *)
LEMMA BufferPlace == ReorderBuffer \in ChunkPlaces /\ Aim(ReorderBuffer) = "reorder"
BY DEF ChunkPlaces, ReorderBuffer, Aim

(* Places of different kinds differ.                                          *)
LEMMA PlacesDiffer ==
    \A q, w, v, d : /\ Queued(q) # Received(w) /\ Queued(q) # Outgoing(v, d)
                    /\ Received(w) # Outgoing(v, d) /\ Queued(q) # ReorderBuffer
                    /\ Received(w) # ReorderBuffer /\ Outgoing(v, d) # ReorderBuffer
BY DEF ReorderBuffer, Queued, Received, Outgoing

(* There are no other places than these.                                      *)
LEMMA PlacesAre ==
    \A p \in ChunkPlaces : \/ \E s \in ChunkStages, g \in Groups : p = Queued(<<s, g>>)
                           \/ \E s \in {"dedup", "compress"}, t \in Tids : p = Received(<<s, t>>)
                           \/ \E w \in Workers, d \in ChunkStages : p = Outgoing(w, d)
                           \/ p = ReorderBuffer
<1> SUFFICES ASSUME NEW p \in ChunkPlaces
             PROVE  \/ \E s \in ChunkStages, g \in Groups : p = Queued(<<s, g>>)
                    \/ \E s \in {"dedup", "compress"}, t \in Tids : p = Received(<<s, t>>)
                    \/ \E w \in Workers, d \in ChunkStages : p = Outgoing(w, d)
                    \/ p = ReorderBuffer
  OBVIOUS
<1>1. CASE p \in QuePlaces
  BY <1>1 DEF QuePlaces, Queued
<1>2. CASE p \in RecvPlaces
  BY <1>2 DEF RecvPlaces, Readers, Received
<1>3. CASE p \in SendPlaces
  BY <1>3 DEF SendPlaces, Outgoing
<1> QED
  BY <1>1, <1>2, <1>3 DEF ChunkPlaces

(* The line of each place, for any queues and buffers.                        *)
LEMMA ChunkLinesLemma ==
    ASSUME NEW Q, NEW R, NEW B, NEW S
    PROVE  /\ DOMAIN ChunkLinesOf(Q, R, B, S) = ChunkPlaces
           /\ \A s \in ChunkStages, g \in Groups : ChunkLinesOf(Q, R, B, S)[Queued(<<s, g>>)] = Q[<<s, g>>]
           /\ \A s \in {"dedup", "compress"}, t \in Tids :
                ChunkLinesOf(Q, R, B, S)[Received(<<s, t>>)] = R[<<s, t>>]
           /\ \A w \in Workers, d \in ChunkStages : ChunkLinesOf(Q, R, B, S)[Outgoing(w, d)] = S[w][d]
           /\ ChunkLinesOf(Q, R, B, S)[ReorderBuffer] = B
<1> DEFINE L == ChunkLinesOf(Q, R, B, S)
<1>1. DOMAIN L = ChunkPlaces
      /\ \A p \in ChunkPlaces : L[p] = IF p[1] = "que" THEN Q[p[2]]
                                       ELSE IF p[1] = "recv" THEN R[p[2]]
                                       ELSE IF p[1] = "send" THEN S[p[2][1]][p[2][2]]
                                       ELSE B
  BY DEF ChunkLinesOf
<1> HIDE DEF L
<1>2. ASSUME NEW s \in ChunkStages, NEW g \in Groups PROVE L[Queued(<<s, g>>)] = Q[<<s, g>>]
  <2>1. Queued(<<s, g>>) \in ChunkPlaces
    BY QueuedPlace
  <2> QED
    BY <1>1, <2>1 DEF Queued
<1>3. ASSUME NEW s \in {"dedup", "compress"}, NEW t \in Tids
      PROVE  L[Received(<<s, t>>)] = R[<<s, t>>]
  <2>1. Received(<<s, t>>) \in ChunkPlaces
    BY ReceivedPlace
  <2> QED
    BY <1>1, <2>1 DEF Received
<1>4. ASSUME NEW w \in Workers, NEW d \in ChunkStages PROVE L[Outgoing(w, d)] = S[w][d]
  <2>1. Outgoing(w, d) \in ChunkPlaces
    BY OutgoingPlace
  <2> QED
    BY <1>1, <2>1 DEF Outgoing
<1>5. L[ReorderBuffer] = B
  BY <1>1, BufferPlace DEF ReorderBuffer
<1> QED
  BY <1>1, <1>2, <1>3, <1>4, <1>5 DEF L

(* The lines after a step, given one by one.                                  *)
LEMMA NextLines ==
    ASSUME NEW M \in [ChunkPlaces -> Seq(Chunks)],
           \A s \in ChunkStages, g \in Groups : M[Queued(<<s, g>>)] = que'[<<s, g>>],
           \A s \in {"dedup", "compress"}, t \in Tids : M[Received(<<s, t>>)] = recv'[<<s, t>>],
           \A w \in Workers, d \in ChunkStages : M[Outgoing(w, d)] = send'[w][d],
           M[ReorderBuffer] = rrecv'
    PROVE  ChunkLines' = M
<1> DEFINE L == ChunkLinesOf(que', recv', rrecv', send')
<1>1. L = [p \in ChunkPlaces |-> L[p]] /\ ChunkLines' = L
  BY DEF ChunkLines, ChunkLinesOf
<1>2. /\ \A s \in ChunkStages, g \in Groups : L[Queued(<<s, g>>)] = que'[<<s, g>>]
      /\ \A s \in {"dedup", "compress"}, t \in Tids : L[Received(<<s, t>>)] = recv'[<<s, t>>]
      /\ \A w \in Workers, d \in ChunkStages : L[Outgoing(w, d)] = send'[w][d]
      /\ L[ReorderBuffer] = rrecv'
  BY ChunkLinesLemma
<1> HIDE DEF L
<1>3. ASSUME NEW p \in ChunkPlaces PROVE L[p] = M[p]
  <2>1. CASE \E s \in ChunkStages, g \in Groups : p = Queued(<<s, g>>)
    BY <1>2, <2>1
  <2>2. CASE \E s \in {"dedup", "compress"}, t \in Tids : p = Received(<<s, t>>)
    BY <1>2, <2>2
  <2>3. CASE \E w \in Workers, d \in ChunkStages : p = Outgoing(w, d)
    BY <1>2, <2>3
  <2>4. CASE p = ReorderBuffer
    BY <1>2, <2>4
  <2> QED
    BY <2>1, <2>2, <2>3, <2>4, PlacesAre
<1> QED
  BY <1>1, <1>3

(* The line of each place.                                                    *)
LEMMA LineOf ==
    /\ \A s \in ChunkStages, g \in Groups : ChunkLines[Queued(<<s, g>>)] = que[<<s, g>>]
    /\ \A s \in {"dedup", "compress"}, t \in Tids : ChunkLines[Received(<<s, t>>)] = recv[<<s, t>>]
    /\ \A w \in Workers, d \in ChunkStages : ChunkLines[Outgoing(w, d)] = send[w][d]
    /\ ChunkLines[ReorderBuffer] = rrecv
BY ChunkLinesLemma DEF ChunkLines

(* All lines are sequences of chunks.                                         *)
LEMMA ChunkLinesType == TypeInv => ChunkLines \in [ChunkPlaces -> Seq(Chunks)]
<1> SUFFICES ASSUME TypeInv PROVE ChunkLines \in [ChunkPlaces -> Seq(Chunks)]
  OBVIOUS
<1>1. DOMAIN ChunkLines = ChunkPlaces /\ ChunkLines = [p \in ChunkPlaces |-> ChunkLines[p]]
  BY DEF ChunkLines, ChunkLinesOf
<1>2. ASSUME NEW p \in ChunkPlaces PROVE ChunkLines[p] \in Seq(Chunks)
  <2>1. ASSUME NEW s \in ChunkStages, NEW g \in Groups, p = Queued(<<s, g>>)
        PROVE  ChunkLines[p] \in Seq(Chunks)
    <3>1. <<s, g>> \in Queues /\ ChunkLines[p] = que[<<s, g>>] /\ s # "refine"
      BY <2>1, QueuedPlace, LineOf DEF ChunkStages
    <3> QED
      BY <3>1 DEF TypeInv, QueueTypes, Carries
  <2>2. ASSUME NEW s \in {"dedup", "compress"}, NEW t \in Tids, p = Received(<<s, t>>)
        PROVE  ChunkLines[p] \in Seq(Chunks)
    <3>1. <<s, t>> \in Workers /\ ChunkLines[p] = recv[<<s, t>>] /\ Stage(<<s, t>>) # "refine"
      BY <2>2, ReceivedPlace, LineOf
    <3> QED
      BY <3>1 DEF TypeInv, WorkTypes, Carries
  <2>3. ASSUME NEW w \in Workers, NEW d \in ChunkStages, p = Outgoing(w, d)
        PROVE  ChunkLines[p] \in Seq(Chunks)
    <3>1. ChunkLines[p] = send[w][d]
      BY <2>3, ChunkLinesLemma DEF ChunkLines
    <3>2. d \in Stages
      BY DEF ChunkStages, Stages, Pools
    <3> QED
      BY <3>1, <3>2 DEF TypeInv, WorkTypes
  <2>4. CASE p = ReorderBuffer
    <3>1. ChunkLines[p] = rrecv
      BY <2>4, ChunkLinesLemma DEF ChunkLines
    <3> QED
      BY <3>1 DEF TypeInv, ReorderTypes
  <2> QED
    BY <2>1, <2>2, <2>3, <2>4, PlacesAre
<1> QED
  BY <1>1, <1>2

(* queue_enqueue, queue_dequeue and the kernels, on the lines.                *)
LEMMA EnqueueLines ==
    ASSUME TypeInv, SendInv, OnceIn(ChunkPlaces, ChunkLines),
           NEW w \in Workers, NEW d \in Stages, Enqueue(w, d)
    PROVE  /\ OnceIn(ChunkPlaces, ChunkLines')
           /\ \A s \in ChunkStages : Among(ChunkLines', BoundFor(s)) = Among(ChunkLines, BoundFor(s))
<1> DEFINE n == EnqueueSize(w, d)
           p == Outgoing(w, d)
           q == Queued(<<d, qid(w)>>)
           M == HandedOn(ChunkLines, p, q, n)
<1>1. /\ d \in ChunkStages /\ qid(w) \in Groups /\ send[w][d] \in Seq(Chunks)
      /\ que[<<d, qid(w)>>] \in Seq(Chunks)
      /\ que' = [que EXCEPT ![<<d, qid(w)>>] = @ \o SubSeq(send[w][d], 1, n)]
      /\ send' = [send EXCEPT ![w][d] = SubSeq(@, n + 1, Len(@))]
      /\ UNCHANGED <<recv, reorderVars>>
  BY EnqueueLemma, WorkersLemma DEF ChunkStages, Stages, Pools
<1>2. n \in 0 .. Len(send[w][d])
  BY EnqueueSizeLemma
<1>3. /\ p \in ChunkPlaces /\ q \in ChunkPlaces /\ p # q /\ Aim(p) = d /\ Aim(q) = d
      /\ ChunkLines[p] = send[w][d] /\ ChunkLines[q] = que[<<d, qid(w)>>]
      /\ ChunkLines \in [ChunkPlaces -> Seq(Chunks)]
  <2>1. p \in ChunkPlaces /\ Aim(p) = d
    BY <1>1, OutgoingPlace
  <2>2. q \in ChunkPlaces /\ Aim(q) = d
    BY <1>1, QueuedPlace
  <2>3. p # q
    BY PlacesDiffer
  <2>4. ChunkLines[p] = send[w][d] /\ ChunkLines[q] = que[<<d, qid(w)>>]
    BY <1>1, LineOf, Zenon
  <2> QED
    BY <2>1, <2>2, <2>3, <2>4, ChunkLinesType
<1>4. M \in [ChunkPlaces -> Seq(Chunks)] /\ OnceIn(ChunkPlaces, M)
  <2> HIDE DEF n, p, q
  <2>1. ChunkLines \in Lines(ChunkPlaces, Chunks)
    BY <1>3 DEF Lines
  <2>2. M \in Lines(ChunkPlaces, Chunks) /\ OnceIn(ChunkPlaces, M)
    BY <1>2, <1>3, <2>1, HandOn
  <2> QED
    BY <2>2 DEF Lines
<1>5. \A s \in ChunkStages : Among(M, BoundFor(s)) = Among(ChunkLines, BoundFor(s))
  <2>1. ASSUME NEW s \in ChunkStages
        PROVE  BoundFor(s) \in SUBSET ChunkPlaces /\ (p \in BoundFor(s) <=> q \in BoundFor(s))
    BY <1>3 DEF BoundFor
  <2> HIDE DEF n, p, q
  <2>2. ChunkLines \in Lines(ChunkPlaces, Chunks)
    BY <1>3 DEF Lines
  <2> QED
    BY <1>2, <1>3, <2>1, <2>2, HandOnAmong
<1>6. ChunkLines' = M
  <2>1. /\ M[p] = SubSeq(send[w][d], n + 1, Len(send[w][d]))
        /\ M[q] = que[<<d, qid(w)>>] \o SubSeq(send[w][d], 1, n)
        /\ \A r \in ChunkPlaces : r # p /\ r # q => M[r] = ChunkLines[r]
    <3> HIDE DEF n, p, q
    <3> QED
      BY <1>3 DEF HandedOn
  <2> HIDE DEF M, n
  <2>2. \A s \in ChunkStages, g \in Groups : M[Queued(<<s, g>>)] = que'[<<s, g>>]
    <3>1. ASSUME NEW s \in ChunkStages, NEW g \in Groups PROVE M[Queued(<<s, g>>)] = que'[<<s, g>>]
      <4>1. /\ Queued(<<s, g>>) \in ChunkPlaces /\ Queued(<<s, g>>) # p /\ <<s, g>> \in Queues
            /\ Queued(<<s, g>>) = q <=> <<s, g>> = <<d, qid(w)>>
            /\ ChunkLines[Queued(<<s, g>>)] = que[<<s, g>>] /\ DOMAIN que = Queues
        <5>1. /\ Queued(<<s, g>>) \in ChunkPlaces /\ Queued(<<s, g>>) # p /\ <<s, g>> \in Queues
              /\ Queued(<<s, g>>) = q <=> <<s, g>> = <<d, qid(w)>>
          BY QueuedPlace, PlacesDiffer
        <5> QED
          BY <5>1, LineOf DEF TypeInv, QueueTypes
      <4> HIDE DEF p, q
      <4> QED
        BY <1>1, <2>1, <4>1
    <3> QED
      BY <3>1
  <2>3. \A s \in {"dedup", "compress"}, t \in Tids : M[Received(<<s, t>>)] = recv'[<<s, t>>]
    <3>1. ASSUME NEW s \in {"dedup", "compress"}, NEW t \in Tids
          PROVE  M[Received(<<s, t>>)] = recv'[<<s, t>>]
      <4>1. /\ Received(<<s, t>>) \in ChunkPlaces /\ Received(<<s, t>>) # p /\ Received(<<s, t>>) # q
            /\ ChunkLines[Received(<<s, t>>)] = recv[<<s, t>>]
        BY ReceivedPlace, PlacesDiffer, LineOf
      <4> QED
        BY <1>1, <2>1, <4>1
    <3> QED
      BY <3>1
  <2>4. \A v \in Workers, e \in ChunkStages : M[Outgoing(v, e)] = send'[v][e]
    <3>1. ASSUME NEW v \in Workers, NEW e \in ChunkStages PROVE M[Outgoing(v, e)] = send'[v][e]
      <4>1. /\ Outgoing(v, e) \in ChunkPlaces /\ Outgoing(v, e) # q
            /\ Outgoing(v, e) = p <=> v = w /\ e = d
            /\ ChunkLines[Outgoing(v, e)] = send[v][e]
            /\ send \in [Workers -> [Stages -> Seq(Chunks)]] /\ e \in Stages
        <5>1. /\ Outgoing(v, e) \in ChunkPlaces /\ Outgoing(v, e) # q
              /\ Outgoing(v, e) = p <=> v = w /\ e = d
          BY OutgoingPlace, PlacesDiffer
        <5>2. e \in Stages
          BY DEF ChunkStages, Stages, Pools
        <5> QED
          BY <5>1, <5>2, LineOf DEF TypeInv, WorkTypes
      <4> HIDE DEF p, q
      <4> QED
        BY <1>1, <2>1, <4>1
    <3> QED
      BY <3>1
  <2>5. M[ReorderBuffer] = rrecv'
    <3>1. /\ ReorderBuffer \in ChunkPlaces /\ ReorderBuffer # p /\ ReorderBuffer # q
          /\ ChunkLines[ReorderBuffer] = rrecv
      BY BufferPlace, PlacesDiffer, LineOf
    <3> QED
      BY <1>1, <2>1, <3>1 DEF reorderVars
  <2> QED
    BY <1>4, <2>2, <2>3, <2>4, <2>5, NextLines
<1> QED
  BY <1>4, <1>5, <1>6

(* A dequeued batch moves from the queue to the receive buffer.               *)
LEMMA DequeueLines ==
    ASSUME TypeInv, OnceIn(ChunkPlaces, ChunkLines),
           NEW s \in {"dedup", "compress"}, NEW t \in Tids, Dequeue(<<s, t>>)
    PROVE  /\ OnceIn(ChunkPlaces, ChunkLines')
           /\ \A r \in ChunkStages : Among(ChunkLines', BoundFor(r)) = Among(ChunkLines, BoundFor(r))
<1> DEFINE w == <<s, t>>
           iq == InQueue(w)
           n == DequeueSize(iq)
           p == Queued(iq)
           q == Received(w)
           M == HandedOn(ChunkLines, p, q, n)
<1>1. w \in Workers /\ Stage(w) = s /\ iq = <<s, qid(w)>> /\ s \in ChunkStages /\ qid(w) \in Groups
      /\ s # "refine"
  <2>1. w \in Workers /\ Stage(w) = s
    BY ReceivedPlace
  <2>2. s \in ChunkStages /\ s # "refine"
    BY DEF ChunkStages
  <2> QED
    BY <2>1, <2>2, WorkersLemma DEF InQueue
<1>2. /\ iq \in Queues /\ recv[w] = << >> /\ que[iq] \in Seq(Chunks)
      /\ \/ /\ que[iq] # << >>
            /\ recv' = [recv EXCEPT ![w] = SubSeq(que[iq], 1, n)]
            /\ que' = [que EXCEPT ![iq] = SubSeq(@, n + 1, Len(@))]
         \/ UNCHANGED <<recv, que>>
      /\ UNCHANGED <<send, reorderVars>>
  BY <1>1, DequeueLemma DEF Carries
<1>3. CASE UNCHANGED <<recv, que>>
  <2>1. ChunkLines' = ChunkLines
    BY <1>2, <1>3 DEF ChunkLines, ChunkLinesOf, reorderVars
  <2> QED
    BY <2>1
<1>4. CASE /\ recv' = [recv EXCEPT ![w] = SubSeq(que[iq], 1, n)]
           /\ que' = [que EXCEPT ![iq] = SubSeq(@, n + 1, Len(@))]
  <2>1. n \in 0 .. Len(que[iq])
    BY <1>2, DequeueSizeLemma
  <2>2. p \in ChunkPlaces /\ Aim(p) = s /\ ChunkLines[p] = que[iq]
    BY <1>1, QueuedPlace, LineOf
  <2>3. q \in ChunkPlaces /\ Aim(q) = s /\ ChunkLines[q] = << >>
    BY <1>2, ReceivedPlace, LineOf
  <2>4. p # q
    BY PlacesDiffer
  <2>5. ChunkLines \in [ChunkPlaces -> Seq(Chunks)]
    BY ChunkLinesType
  <2>6. M \in [ChunkPlaces -> Seq(Chunks)] /\ OnceIn(ChunkPlaces, M)
    <3> HIDE DEF n, p, q, iq
    <3>1. ChunkLines \in Lines(ChunkPlaces, Chunks)
      BY <2>5 DEF Lines
    <3>2. M \in Lines(ChunkPlaces, Chunks) /\ OnceIn(ChunkPlaces, M)
      BY <1>2, <2>1, <2>2, <2>3, <2>4, <2>5, <3>1, HandOn
    <3> QED
      BY <3>2 DEF Lines
  <2>7. \A r \in ChunkStages : Among(M, BoundFor(r)) = Among(ChunkLines, BoundFor(r))
    <3>1. ASSUME NEW r \in ChunkStages
          PROVE  BoundFor(r) \in SUBSET ChunkPlaces /\ (p \in BoundFor(r) <=> q \in BoundFor(r))
      BY <2>2, <2>3 DEF BoundFor
    <3> HIDE DEF n, p, q, iq
    <3>2. ChunkLines \in Lines(ChunkPlaces, Chunks)
      BY <2>5 DEF Lines
    <3> QED
      BY <1>2, <2>1, <2>2, <2>3, <2>4, <2>5, <3>1, <3>2, HandOnAmong
  <2>8. /\ M[p] = SubSeq(que[iq], n + 1, Len(que[iq]))
        /\ M[q] = SubSeq(que[iq], 1, n)
        /\ \A r \in ChunkPlaces : r # p /\ r # q => M[r] = ChunkLines[r]
    <3>1. PICK u \in Seq(Chunks) : u = SubSeq(que[iq], 1, n)
      BY <1>2, <2>1, CutLemma, Zenon
    <3>2. << >> \o u = u
      BY <3>1, ConcatEmptySeq
    <3> HIDE DEF n, p, q, iq
    <3> QED
      BY <2>2, <2>3, <2>4, <2>5, <3>1, <3>2 DEF HandedOn
  <2> HIDE DEF M, n
  <2>9. \A r \in ChunkStages, g \in Groups : M[Queued(<<r, g>>)] = que'[<<r, g>>]
    <3>1. ASSUME NEW r \in ChunkStages, NEW g \in Groups PROVE M[Queued(<<r, g>>)] = que'[<<r, g>>]
      <4>1. /\ Queued(<<r, g>>) \in ChunkPlaces /\ Queued(<<r, g>>) # q /\ <<r, g>> \in Queues
            /\ Queued(<<r, g>>) = p <=> <<r, g>> = iq
        BY QueuedPlace, PlacesDiffer
      <4>2. ChunkLines[Queued(<<r, g>>)] = que[<<r, g>>] /\ DOMAIN que = Queues
        BY LineOf DEF TypeInv, QueueTypes
      <4> HIDE DEF p, q, iq
      <4> QED
        BY <1>4, <2>8, <4>1, <4>2
    <3> QED
      BY <3>1
  <2>10. \A r \in {"dedup", "compress"}, v \in Tids : M[Received(<<r, v>>)] = recv'[<<r, v>>]
    <3>1. ASSUME NEW r \in {"dedup", "compress"}, NEW v \in Tids
          PROVE  M[Received(<<r, v>>)] = recv'[<<r, v>>]
      <4>1. /\ Received(<<r, v>>) \in ChunkPlaces /\ Received(<<r, v>>) # p /\ <<r, v>> \in Workers
            /\ Received(<<r, v>>) = q <=> <<r, v>> = w
        BY ReceivedPlace, PlacesDiffer
      <4>2. ChunkLines[Received(<<r, v>>)] = recv[<<r, v>>] /\ DOMAIN recv = Workers
        BY LineOf DEF TypeInv, WorkTypes
      <4> HIDE DEF p, q, iq, w
      <4> QED
        BY <1>4, <2>8, <4>1, <4>2
    <3> QED
      BY <3>1
  <2>11. \A v \in Workers, e \in ChunkStages : M[Outgoing(v, e)] = send'[v][e]
    <3>1. ASSUME NEW v \in Workers, NEW e \in ChunkStages PROVE M[Outgoing(v, e)] = send'[v][e]
      <4>1. Outgoing(v, e) \in ChunkPlaces /\ Outgoing(v, e) # p /\ Outgoing(v, e) # q
        BY OutgoingPlace, PlacesDiffer
      <4>2. ChunkLines[Outgoing(v, e)] = send'[v][e]
        BY <1>2, LineOf
      <4> QED
        BY <2>8, <4>1, <4>2
    <3> QED
      BY <3>1
  <2>12. M[ReorderBuffer] = rrecv'
    <3>1. /\ ReorderBuffer \in ChunkPlaces /\ ReorderBuffer # p /\ ReorderBuffer # q
          /\ ChunkLines[ReorderBuffer] = rrecv
      BY BufferPlace, PlacesDiffer, LineOf
    <3> QED
      BY <1>2, <2>8, <3>1 DEF reorderVars
  <2>13. ChunkLines' = M
    BY <2>6, <2>9, <2>10, <2>11, <2>12, NextLines
  <2> QED
    BY <2>6, <2>7, <2>13
<1> QED
  BY <1>2, <1>3, <1>4

(* A batch dequeued by Reorder moves from the queue to its buffer.            *)
LEMMA ReorderDequeueLines ==
    ASSUME TypeInv, ReorderPc, OnceIn(ChunkPlaces, ChunkLines), ReorderDequeue
    PROVE  /\ OnceIn(ChunkPlaces, ChunkLines')
           /\ \A r \in ChunkStages : Among(ChunkLines', BoundFor(r)) = Among(ChunkLines, BoundFor(r))
<1> DEFINE iq == <<"reorder", rqid>>
           n == DequeueSize(iq)
           p == Queued(iq)
           q == ReorderBuffer
           M == HandedOn(ChunkLines, p, q, n)
<1>1. /\ iq \in Queues /\ rrecv = << >> /\ que[iq] \in Seq(Chunks) /\ rqid \in Groups
      /\ n \in 0 .. Len(que[iq])
      /\ \/ /\ rrecv' = SubSeq(que[iq], 1, n)
            /\ que' = [que EXCEPT ![iq] = SubSeq(@, n + 1, Len(@))]
         \/ UNCHANGED <<rrecv, que>>
      /\ UNCHANGED workVars
  BY ReorderDequeueLemma DEF ReorderPc
<1>2. "reorder" \in ChunkStages
  BY DEF ChunkStages
<1>3. CASE UNCHANGED <<rrecv, que>>
  <2>1. ChunkLines' = ChunkLines
    BY <1>1, <1>3 DEF ChunkLines, ChunkLinesOf, workVars
  <2> QED
    BY <2>1
<1>4. CASE rrecv' = SubSeq(que[iq], 1, n) /\ que' = [que EXCEPT ![iq] = SubSeq(@, n + 1, Len(@))]
  <2>2. p \in ChunkPlaces /\ Aim(p) = "reorder" /\ ChunkLines[p] = que[iq]
    BY <1>1, <1>2, QueuedPlace, LineOf
  <2>3. q \in ChunkPlaces /\ Aim(q) = "reorder" /\ ChunkLines[q] = << >>
    BY <1>1, BufferPlace, LineOf
  <2>4. p # q
    BY PlacesDiffer
  <2>5. ChunkLines \in [ChunkPlaces -> Seq(Chunks)]
    BY ChunkLinesType
  <2>6. M \in [ChunkPlaces -> Seq(Chunks)] /\ OnceIn(ChunkPlaces, M)
    <3> HIDE DEF n, p, q, iq
    <3>1. ChunkLines \in Lines(ChunkPlaces, Chunks)
      BY <2>5 DEF Lines
    <3>2. M \in Lines(ChunkPlaces, Chunks) /\ OnceIn(ChunkPlaces, M)
      BY <1>1, <2>2, <2>3, <2>4, <2>5, <3>1, HandOn
    <3> QED
      BY <3>2 DEF Lines
  <2>7. \A r \in ChunkStages : Among(M, BoundFor(r)) = Among(ChunkLines, BoundFor(r))
    <3>1. ASSUME NEW r \in ChunkStages
          PROVE  BoundFor(r) \in SUBSET ChunkPlaces /\ (p \in BoundFor(r) <=> q \in BoundFor(r))
      BY <2>2, <2>3 DEF BoundFor
    <3> HIDE DEF n, p, q, iq
    <3>2. ChunkLines \in Lines(ChunkPlaces, Chunks)
      BY <2>5 DEF Lines
    <3> QED
      BY <1>1, <2>2, <2>3, <2>4, <2>5, <3>1, <3>2, HandOnAmong
  <2>8. /\ M[p] = SubSeq(que[iq], n + 1, Len(que[iq]))
        /\ M[q] = SubSeq(que[iq], 1, n)
        /\ \A r \in ChunkPlaces : r # p /\ r # q => M[r] = ChunkLines[r]
    <3>1. PICK u \in Seq(Chunks) : u = SubSeq(que[iq], 1, n)
      BY <1>1, CutLemma, Zenon
    <3>2. << >> \o u = u
      BY <3>1, ConcatEmptySeq
    <3> HIDE DEF n, p, q, iq
    <3> QED
      BY <2>2, <2>3, <2>4, <2>5, <3>1, <3>2 DEF HandedOn
  <2> HIDE DEF M, n
  <2>9. \A r \in ChunkStages, g \in Groups : M[Queued(<<r, g>>)] = que'[<<r, g>>]
    <3>1. ASSUME NEW r \in ChunkStages, NEW g \in Groups PROVE M[Queued(<<r, g>>)] = que'[<<r, g>>]
      <4>1. /\ Queued(<<r, g>>) \in ChunkPlaces /\ Queued(<<r, g>>) # q /\ <<r, g>> \in Queues
            /\ Queued(<<r, g>>) = p <=> <<r, g>> = iq
        BY QueuedPlace, PlacesDiffer
      <4>2. ChunkLines[Queued(<<r, g>>)] = que[<<r, g>>] /\ DOMAIN que = Queues
        BY LineOf DEF TypeInv, QueueTypes
      <4> HIDE DEF p, q, iq
      <4> QED
        BY <1>4, <2>8, <4>1, <4>2
    <3> QED
      BY <3>1
  <2>10. \A r \in {"dedup", "compress"}, v \in Tids : M[Received(<<r, v>>)] = recv'[<<r, v>>]
    <3>1. ASSUME NEW r \in {"dedup", "compress"}, NEW v \in Tids
          PROVE  M[Received(<<r, v>>)] = recv'[<<r, v>>]
      <4>1. Received(<<r, v>>) \in ChunkPlaces /\ Received(<<r, v>>) # p /\ Received(<<r, v>>) # q
        BY ReceivedPlace, PlacesDiffer
      <4>2. ChunkLines[Received(<<r, v>>)] = recv'[<<r, v>>]
        BY <1>1, LineOf DEF workVars
      <4> QED
        BY <2>8, <4>1, <4>2
    <3> QED
      BY <3>1
  <2>11. \A v \in Workers, e \in ChunkStages : M[Outgoing(v, e)] = send'[v][e]
    <3>1. ASSUME NEW v \in Workers, NEW e \in ChunkStages PROVE M[Outgoing(v, e)] = send'[v][e]
      <4>1. Outgoing(v, e) \in ChunkPlaces /\ Outgoing(v, e) # p /\ Outgoing(v, e) # q
        BY OutgoingPlace, PlacesDiffer
      <4>2. ChunkLines[Outgoing(v, e)] = send'[v][e]
        BY <1>1, LineOf DEF workVars
      <4> QED
        BY <2>8, <4>1, <4>2
    <3> QED
      BY <3>1
  <2>12. M[ReorderBuffer] = rrecv'
    BY <1>4, <2>8
  <2>13. ChunkLines' = M
    BY <2>6, <2>9, <2>10, <2>11, <2>12, NextLines
  <2> QED
    BY <2>6, <2>7, <2>13
<1> QED
  BY <1>1, <1>3, <1>4

(* A chunk passes through the Deduplicate or the Compress stage.              *)
LEMMA PassedPlaces ==
    ASSUME NEW L \in Lines(ChunkPlaces, Chunks), OnceIn(ChunkPlaces, L),
           NEW p \in ChunkPlaces, NEW q \in ChunkPlaces, Aim(p) # Aim(q),
           L[p] # << >>, NEW c \in Chunks, c = Head(L[p]), NEW M, M = Passed(L, p, q)
    PROVE  /\ Among(M, BoundFor(Aim(p))) = Among(L, BoundFor(Aim(p))) \ {c}
           /\ c \in Among(L, BoundFor(Aim(p)))
           /\ Among(M, BoundFor(Aim(q))) = Among(L, BoundFor(Aim(q))) \cup {c}
           /\ \A r : r # Aim(p) =>
                /\ c \notin Among(L, BoundFor(r))
                /\ r # Aim(q) => Among(M, BoundFor(r)) = Among(L, BoundFor(r))
<1>1. p # q
  OBVIOUS
<1>2. ASSUME NEW Q \in SUBSET ChunkPlaces
      PROVE  /\ p \in Q /\ q \notin Q => Among(M, Q) = Among(L, Q) \ {c} /\ c \in Among(L, Q)
             /\ p \notin Q /\ q \in Q => Among(M, Q) = Among(L, Q) \cup {c}
             /\ p \notin Q /\ q \notin Q => Among(M, Q) = Among(L, Q)
             /\ p \notin Q => c \notin Among(L, Q)
  BY <1>1, PassingAmong
<1>3. \A r : /\ BoundFor(r) \in SUBSET ChunkPlaces
             /\ p \in BoundFor(r) <=> r = Aim(p)
             /\ q \in BoundFor(r) <=> r = Aim(q)
  BY DEF BoundFor
<1>4. /\ Among(M, BoundFor(Aim(p))) = Among(L, BoundFor(Aim(p))) \ {c}
      /\ c \in Among(L, BoundFor(Aim(p)))
  <2>1. PICK Q \in SUBSET ChunkPlaces : Q = BoundFor(Aim(p)) /\ p \in Q /\ q \notin Q
    BY <1>3
  <2>2. Among(M, Q) = Among(L, Q) \ {c} /\ c \in Among(L, Q)
    BY <1>2, <2>1
  <2> QED
    BY <2>1, <2>2
<1>5. Among(M, BoundFor(Aim(q))) = Among(L, BoundFor(Aim(q))) \cup {c}
  <2>1. PICK Q \in SUBSET ChunkPlaces : Q = BoundFor(Aim(q)) /\ p \notin Q /\ q \in Q
    BY <1>3
  <2>2. Among(M, Q) = Among(L, Q) \cup {c}
    BY <1>2, <2>1
  <2> QED
    BY <2>1, <2>2
<1>6. ASSUME NEW r, r # Aim(p)
      PROVE  /\ c \notin Among(L, BoundFor(r))
             /\ r # Aim(q) => Among(M, BoundFor(r)) = Among(L, BoundFor(r))
  <2>1. PICK Q \in SUBSET ChunkPlaces :
          Q = BoundFor(r) /\ p \notin Q /\ (r # Aim(q) => q \notin Q)
    BY <1>3, <1>6
  <2>2. c \notin Among(L, Q) /\ (r # Aim(q) => Among(M, Q) = Among(L, Q))
    BY <1>2, <2>1
  <2> QED
    BY <2>1, <2>2
<1> QED
  BY <1>4, <1>5, <1>6

(* The places that PassesOn moves a chunk between.                            *)
LEMMA PassingChunks ==
    ASSUME NEW L \in Lines(ChunkPlaces, Chunks), OnceIn(ChunkPlaces, L),
           NEW p \in ChunkPlaces, NEW q \in ChunkPlaces, p # q,
           L[p] # << >>, NEW c \in Chunks, c = Head(L[p]), NEW M, M = Passed(L, p, q)
    PROVE  /\ M \in Lines(ChunkPlaces, Chunks) /\ OnceIn(ChunkPlaces, M)
           /\ M[p] = Tail(L[p]) /\ M[q] = Append(L[q], c)
           /\ \A r \in ChunkPlaces : r # p /\ r # q => M[r] = L[r]
BY Passing

(* The lines after a kernel has passed its chunk on.                          *)
LEMMA PassedLines ==
    ASSUME TypeInv, OnceIn(ChunkPlaces, ChunkLines),
           NEW s \in {"dedup", "compress"}, NEW d \in ChunkStages, d # s,
           NEW w \in Workers, Stage(w) = s, recv[w] # << >>, NEW c \in Chunks, c = Head(recv[w]),
           NEW M, M = Passed(ChunkLines, Received(w), Outgoing(w, d))
    PROVE  /\ M \in [ChunkPlaces -> Seq(Chunks)] /\ OnceIn(ChunkPlaces, M)
           /\ M[Received(w)] = Tail(recv[w]) /\ M[Outgoing(w, d)] = Append(send[w][d], c)
           /\ \A r \in ChunkPlaces : r # Received(w) /\ r # Outgoing(w, d) => M[r] = ChunkLines[r]
           /\ c \in Among(ChunkLines, BoundFor(s))
           /\ Among(M, BoundFor(s)) = Among(ChunkLines, BoundFor(s)) \ {c}
           /\ Among(M, BoundFor(d)) = Among(ChunkLines, BoundFor(d)) \cup {c}
           /\ \A r \in ChunkStages : r # s =>
                /\ c \notin Among(ChunkLines, BoundFor(r))
                /\ r # d => Among(M, BoundFor(r)) = Among(ChunkLines, BoundFor(r))
<1>1. /\ ChunkLines \in [ChunkPlaces -> Seq(Chunks)]
      /\ Received(w) \in ChunkPlaces /\ Aim(Received(w)) = s /\ ChunkLines[Received(w)] = recv[w]
  BY WorkersLemma, ReceivedPlace, LineOf, ChunkLinesType
<1>2. /\ Outgoing(w, d) \in ChunkPlaces /\ Aim(Outgoing(w, d)) = d
      /\ ChunkLines[Outgoing(w, d)] = send[w][d]
  BY OutgoingPlace, LineOf
<1>3. Received(w) # Outgoing(w, d)
  BY PlacesDiffer, Zenon
<1>4. PICK L \in Lines(ChunkPlaces, Chunks) : L = ChunkLines
  BY <1>1 DEF Lines
<1>5. PICK p \in ChunkPlaces : p = Received(w)
  BY <1>1
<1>6. PICK q \in ChunkPlaces : q = Outgoing(w, d)
  BY <1>2
<1>7. OnceIn(ChunkPlaces, L)
  BY <1>4
<1>8. L[p] # << >> /\ c = Head(L[p]) /\ p # q /\ Aim(p) # Aim(q)
  BY <1>1, <1>2, <1>3, <1>4, <1>5, <1>6
<1>9. M = Passed(L, p, q)
  BY <1>4, <1>5, <1>6
<1>10. /\ M \in Lines(ChunkPlaces, Chunks) /\ OnceIn(ChunkPlaces, M)
       /\ M[p] = Tail(L[p]) /\ M[q] = Append(L[q], c)
       /\ \A r \in ChunkPlaces : r # p /\ r # q => M[r] = L[r]
  BY <1>7, <1>8, <1>9, PassingChunks
<1>11. /\ Among(M, BoundFor(Aim(p))) = Among(L, BoundFor(Aim(p))) \ {c}
       /\ c \in Among(L, BoundFor(Aim(p)))
       /\ Among(M, BoundFor(Aim(q))) = Among(L, BoundFor(Aim(q))) \cup {c}
       /\ \A r : r # Aim(p) =>
            /\ c \notin Among(L, BoundFor(r))
            /\ r # Aim(q) => Among(M, BoundFor(r)) = Among(L, BoundFor(r))
  BY <1>7, <1>8, <1>9, PassedPlaces
<1>12. /\ p = Received(w) /\ q = Outgoing(w, d) /\ L = ChunkLines
       /\ Aim(p) = s /\ Aim(q) = d /\ L[p] = recv[w] /\ L[q] = send[w][d]
  BY <1>1, <1>2, <1>4, <1>5, <1>6
<1> QED
  BY <1>10, <1>11, <1>12 DEF Lines

(* A kernel of stage s takes chunk c and passes it on to stage d.             *)
PassesOn(s, d, w, c) ==
    /\ Stage(w) = s /\ recv[w] # << >> /\ c = Head(recv[w])
    /\ recv' = [recv EXCEPT ![w] = Tail(recv[w])]
    /\ send' = [send EXCEPT ![w][d] = Append(send[w][d], c)]
    /\ UNCHANGED <<que, rrecv>>

(* A kernel moves its chunk from those bound for its stage to those bound for *)
(* the next.                                                                  *)
LEMMA PassLines ==
    ASSUME TypeInv, OnceIn(ChunkPlaces, ChunkLines),
           NEW s \in {"dedup", "compress"}, NEW d \in ChunkStages, d # s,
           NEW w \in Workers, NEW c \in Chunks, PassesOn(s, d, w, c)
    PROVE  /\ OnceIn(ChunkPlaces, ChunkLines')
           /\ c \in Among(ChunkLines, BoundFor(s))
           /\ Among(ChunkLines', BoundFor(s)) = Among(ChunkLines, BoundFor(s)) \ {c}
           /\ Among(ChunkLines', BoundFor(d)) = Among(ChunkLines, BoundFor(d)) \cup {c}
           /\ \A r \in ChunkStages : r # s =>
                /\ c \notin Among(ChunkLines, BoundFor(r))
                /\ r # d => Among(ChunkLines', BoundFor(r)) = Among(ChunkLines, BoundFor(r))
<1>1. PICK M : M = Passed(ChunkLines, Received(w), Outgoing(w, d))
  OBVIOUS
<1>10. PICK rest, longer : rest = Tail(recv[w]) /\ longer = Append(send[w][d], c)
  OBVIOUS
<1>9. /\ recv' = [recv EXCEPT ![w] = rest] /\ send' = [send EXCEPT ![w][d] = longer]
      /\ UNCHANGED <<que, rrecv>> /\ Stage(w) = s /\ recv[w] # << >> /\ c = Head(recv[w])
  BY <1>10 DEF PassesOn
<1>2. /\ M \in [ChunkPlaces -> Seq(Chunks)] /\ OnceIn(ChunkPlaces, M)
      /\ M[Received(w)] = Tail(recv[w]) /\ M[Outgoing(w, d)] = Append(send[w][d], c)
      /\ \A r \in ChunkPlaces : r # Received(w) /\ r # Outgoing(w, d) => M[r] = ChunkLines[r]
      /\ c \in Among(ChunkLines, BoundFor(s))
      /\ Among(M, BoundFor(s)) = Among(ChunkLines, BoundFor(s)) \ {c}
      /\ Among(M, BoundFor(d)) = Among(ChunkLines, BoundFor(d)) \cup {c}
      /\ \A r \in ChunkStages : r # s =>
           /\ c \notin Among(ChunkLines, BoundFor(r))
           /\ r # d => Among(M, BoundFor(r)) = Among(ChunkLines, BoundFor(r))
  BY <1>1, <1>9, PassedLines
<1>8. M[Received(w)] = rest /\ M[Outgoing(w, d)] = longer
  BY <1>2, <1>10
<1>3. \A r \in ChunkStages, g \in Groups : M[Queued(<<r, g>>)] = que'[<<r, g>>]
  <2>1. ASSUME NEW r \in ChunkStages, NEW g \in Groups PROVE M[Queued(<<r, g>>)] = que'[<<r, g>>]
    <3>1. /\ Queued(<<r, g>>) \in ChunkPlaces /\ Queued(<<r, g>>) # Received(w)
          /\ Queued(<<r, g>>) # Outgoing(w, d)
      BY QueuedPlace, PlacesDiffer
    <3> QED
      BY <1>2, <1>9, <3>1, LineOf
  <2> QED
    BY <2>1
<1>4. \A r \in {"dedup", "compress"}, v \in Tids : M[Received(<<r, v>>)] = recv'[<<r, v>>]
  <2>1. ASSUME NEW r \in {"dedup", "compress"}, NEW v \in Tids
        PROVE  M[Received(<<r, v>>)] = recv'[<<r, v>>]
    <3>1. /\ Received(<<r, v>>) \in ChunkPlaces /\ Received(<<r, v>>) # Outgoing(w, d)
          /\ <<r, v>> \in Workers
          /\ Received(<<r, v>>) = Received(w) => <<r, v>> = w
      <4>1. Received(<<r, v>>) \in ChunkPlaces /\ <<r, v>> \in Workers
        BY ReceivedPlace
      <4>2. Received(<<r, v>>) # Outgoing(w, d)
        BY PlacesDiffer, Zenon
      <4>3. Received(<<r, v>>) = Received(w) => <<r, v>> = w
        BY ReceivedPlace, Zenon
      <4> QED
        BY <4>1, <4>2, <4>3
    <3>2. ChunkLines[Received(<<r, v>>)] = recv[<<r, v>>] /\ DOMAIN recv = Workers
      BY LineOf DEF TypeInv, WorkTypes
    <3>3. CASE <<r, v>> = w
      BY <1>8, <1>9, <3>2, <3>3
    <3>4. CASE <<r, v>> # w
      BY <1>2, <1>9, <3>1, <3>2, <3>4
    <3> QED
      BY <3>3, <3>4
  <2> QED
    BY <2>1
<1>5. \A v \in Workers, e \in ChunkStages : M[Outgoing(v, e)] = send'[v][e]
  <2>1. ASSUME NEW v \in Workers, NEW e \in ChunkStages PROVE M[Outgoing(v, e)] = send'[v][e]
    <3>1. /\ Outgoing(v, e) \in ChunkPlaces /\ Outgoing(v, e) # Received(w)
          /\ Outgoing(v, e) = Outgoing(w, d) => v = w /\ e = d
      BY OutgoingPlace, PlacesDiffer
    <3>2. /\ ChunkLines[Outgoing(v, e)] = send[v][e]
          /\ send \in [Workers -> [Stages -> Seq(Chunks)]] /\ d \in Stages /\ e \in Stages
      BY LineOf DEF TypeInv, WorkTypes, ChunkStages, Stages, Pools
    <3>3. CASE v = w /\ e = d
      BY <1>8, <1>9, <3>2, <3>3
    <3>4. CASE ~(v = w /\ e = d)
      <4>1. send'[v][e] = send[v][e]
        BY <1>9, <3>2, <3>4
      <4> QED
        BY <1>2, <3>1, <3>2, <3>4, <4>1
    <3> QED
      BY <3>3, <3>4
  <2> QED
    BY <2>1
<1>6. M[ReorderBuffer] = rrecv'
  <2>1. /\ ReorderBuffer \in ChunkPlaces /\ ReorderBuffer # Received(w)
        /\ ReorderBuffer # Outgoing(w, d)
    BY BufferPlace, PlacesDiffer, Zenon
  <2> QED
    BY <1>2, <1>9, <2>1, LineOf
<1>7. ChunkLines' = M
  BY <1>2, <1>3, <1>4, <1>5, <1>6, NextLines
<1> QED
  BY <1>2, <1>7

(* Reorder takes a chunk out of its buffer.                                   *)
LEMMA TakeLines ==
    ASSUME TypeInv, OnceIn(ChunkPlaces, ChunkLines), rrecv # << >>,
           NEW c \in Chunks, c = Head(rrecv), rrecv' = Tail(rrecv), UNCHANGED <<que, recv, send>>
    PROVE  /\ OnceIn(ChunkPlaces, ChunkLines')
           /\ c \in Among(ChunkLines, BoundFor("reorder"))
           /\ Among(ChunkLines', BoundFor("reorder")) = Among(ChunkLines, BoundFor("reorder")) \ {c}
           /\ \A r \in ChunkStages : r # "reorder" =>
                /\ c \notin Among(ChunkLines, BoundFor(r))
                /\ Among(ChunkLines', BoundFor(r)) = Among(ChunkLines, BoundFor(r))
<1> DEFINE p == ReorderBuffer
           M == Left(ChunkLines, p)
<1>1. ChunkLines \in [ChunkPlaces -> Seq(Chunks)]
  BY ChunkLinesType
<1>2. p \in ChunkPlaces /\ Aim(p) = "reorder" /\ ChunkLines[p] = rrecv
  BY BufferPlace, LineOf
<1>5. \A r : BoundFor(r) \in SUBSET ChunkPlaces
  BY DEF BoundFor
<1>6. /\ M \in [ChunkPlaces -> Seq(Chunks)] /\ OnceIn(ChunkPlaces, M)
      /\ c \in In(ChunkLines[p])
      /\ \A Q \in SUBSET ChunkPlaces :
           /\ p \in Q => Among(M, Q) = Among(ChunkLines, Q) \ {c}
           /\ p \notin Q => Among(M, Q) = Among(ChunkLines, Q) /\ c \notin Among(ChunkLines, Q)
  <2> HIDE DEF p
  <2>1. ChunkLines \in Lines(ChunkPlaces, Chunks)
    BY <1>1 DEF Lines
  <2>2. /\ M \in Lines(ChunkPlaces, Chunks) /\ OnceIn(ChunkPlaces, M)
        /\ c \in In(ChunkLines[p])
        /\ \A Q \in SUBSET ChunkPlaces :
             /\ p \in Q => Among(M, Q) = Among(ChunkLines, Q) \ {c}
             /\ p \notin Q => Among(M, Q) = Among(ChunkLines, Q) /\ c \notin Among(ChunkLines, Q)
    BY <1>2, <2>1, Leaving
  <2> QED
    BY <2>2 DEF Lines
<1>9. ChunkLines' = M
  <2>1. M[p] = Tail(rrecv) /\ \A r \in ChunkPlaces : r # p => M[r] = ChunkLines[r]
    <3> HIDE DEF p
    <3> QED
      BY <1>1, <1>2 DEF Left
  <2> HIDE DEF M
  <2>2. \A r \in ChunkStages, g \in Groups : M[Queued(<<r, g>>)] = que'[<<r, g>>]
    BY <2>1, QueuedPlace, PlacesDiffer, LineOf
  <2>3. \A r \in {"dedup", "compress"}, v \in Tids : M[Received(<<r, v>>)] = recv'[<<r, v>>]
    BY <2>1, ReceivedPlace, PlacesDiffer, LineOf
  <2>4. \A v \in Workers, e \in ChunkStages : M[Outgoing(v, e)] = send'[v][e]
    BY <2>1, OutgoingPlace, PlacesDiffer, LineOf
  <2> QED
    BY <1>6, <2>1, <2>2, <2>3, <2>4, NextLines
<1>10. p \in BoundFor("reorder") /\ \A r : p \in BoundFor(r) => r = "reorder"
  BY <1>2 DEF BoundFor
<1>11. c \in Among(ChunkLines, BoundFor("reorder"))
  BY <1>6, <1>10, Zenon DEF Among
<1> HIDE DEF p, M
<1> QED
  BY <1>5, <1>6, <1>9, <1>10, <1>11

(* A refine thread puts a new chunk into its send buffer.                     *)
LEMMA RefineLines ==
    ASSUME TypeInv, OnceIn(ChunkPlaces, ChunkLines), NEW w \in Workers, Stage(w) = "refine",
           NEW c \in Chunks, c \notin Among(ChunkLines, ChunkPlaces),
           send' = [send EXCEPT ![w]["dedup"] = Append(@, c)], UNCHANGED <<que, rrecv>>,
           \A v \in Workers : Stage(v) # "refine" => recv'[v] = recv[v]
    PROVE  /\ OnceIn(ChunkPlaces, ChunkLines')
           /\ Among(ChunkLines', BoundFor("dedup")) = Among(ChunkLines, BoundFor("dedup")) \cup {c}
           /\ \A r \in ChunkStages : r # "dedup" =>
                Among(ChunkLines', BoundFor(r)) = Among(ChunkLines, BoundFor(r))
<1> DEFINE q == Outgoing(w, "dedup")
           M == Entered(ChunkLines, q, c)
<1>1. ChunkLines \in [ChunkPlaces -> Seq(Chunks)]
  BY ChunkLinesType
<1>2. "dedup" \in ChunkStages
  BY DEF ChunkStages
<1>3. q \in ChunkPlaces /\ Aim(q) = "dedup" /\ ChunkLines[q] = send[w]["dedup"]
  BY <1>2, OutgoingPlace, LineOf
<1>5. \A r : BoundFor(r) \in SUBSET ChunkPlaces
  BY DEF BoundFor
<1>8. /\ M \in [ChunkPlaces -> Seq(Chunks)] /\ OnceIn(ChunkPlaces, M)
      /\ \A Q \in SUBSET ChunkPlaces :
           /\ q \in Q => Among(M, Q) = Among(ChunkLines, Q) \cup {c}
           /\ q \notin Q => Among(M, Q) = Among(ChunkLines, Q)
  <2>1. M = Entered(ChunkLines, q, c)
    OBVIOUS
  <2> HIDE DEF q, M
  <2>2. ChunkLines \in Lines(ChunkPlaces, Chunks)
    BY <1>1 DEF Lines
  <2>3. /\ M \in Lines(ChunkPlaces, Chunks) /\ OnceIn(ChunkPlaces, M)
        /\ \A Q \in SUBSET ChunkPlaces :
             /\ q \in Q => Among(M, Q) = Among(ChunkLines, Q) \cup {c}
             /\ q \notin Q => Among(M, Q) = Among(ChunkLines, Q)
    BY <1>3, <2>1, <2>2, Entering
  <2> QED
    BY <2>3 DEF Lines
<1>9. ChunkLines' = M
  <2>1. /\ M[q] = Append(send[w]["dedup"], c)
        /\ \A r \in ChunkPlaces : r # q => M[r] = ChunkLines[r]
    <3> HIDE DEF q
    <3> QED
      BY <1>1, <1>3 DEF Entered
  <2> HIDE DEF M
  <2>2. \A r \in ChunkStages, g \in Groups : M[Queued(<<r, g>>)] = que'[<<r, g>>]
    <3>1. ASSUME NEW r \in ChunkStages, NEW g \in Groups PROVE M[Queued(<<r, g>>)] = que'[<<r, g>>]
      <4>1. Queued(<<r, g>>) \in ChunkPlaces /\ Queued(<<r, g>>) # q
        BY QueuedPlace, PlacesDiffer
      <4> QED
        BY <2>1, <4>1, LineOf
    <3> QED
      BY <3>1
  <2>3. \A r \in {"dedup", "compress"}, v \in Tids : M[Received(<<r, v>>)] = recv'[<<r, v>>]
    <3>1. ASSUME NEW r \in {"dedup", "compress"}, NEW v \in Tids
          PROVE  M[Received(<<r, v>>)] = recv'[<<r, v>>]
      <4>1. Received(<<r, v>>) \in ChunkPlaces /\ Received(<<r, v>>) # q
        BY ReceivedPlace, PlacesDiffer
      <4>2. <<r, v>> \in Workers /\ Stage(<<r, v>>) # "refine"
        BY ReceivedPlace
      <4> QED
        BY <2>1, <4>1, <4>2, LineOf
    <3> QED
      BY <3>1
  <2>4. \A v \in Workers, e \in ChunkStages : M[Outgoing(v, e)] = send'[v][e]
    <3>1. ASSUME NEW v \in Workers, NEW e \in ChunkStages PROVE M[Outgoing(v, e)] = send'[v][e]
      <4>1. /\ Outgoing(v, e) \in ChunkPlaces
            /\ Outgoing(v, e) = q <=> v = w /\ e = "dedup"
        BY OutgoingPlace
      <4>2. ChunkLines[Outgoing(v, e)] = send[v][e]
        BY LineOf
      <4>3. send \in [Workers -> [Stages -> Seq(Chunks)]] /\ "dedup" \in Stages /\ e \in Stages
        BY DEF TypeInv, WorkTypes, ChunkStages, Stages, Pools
      <4> HIDE DEF q
      <4>4. CASE v = w /\ e = "dedup"
        <5>2. send'[w]["dedup"] = Append(send[w]["dedup"], c)
          BY <4>3
        <5> QED
          BY <2>1, <4>1, <4>4, <5>2
      <4>5. CASE ~(v = w /\ e = "dedup")
        <5>2. send'[v][e] = send[v][e]
          BY <4>3, <4>5
        <5> QED
          BY <2>1, <4>1, <4>2, <4>5, <5>2
      <4> QED
        BY <4>4, <4>5
    <3> QED
      BY <3>1
  <2>5. M[ReorderBuffer] = rrecv'
    BY <2>1, BufferPlace, PlacesDiffer, LineOf
  <2> QED
    BY <1>8, <2>2, <2>3, <2>4, <2>5, NextLines
<1>10. q \in BoundFor("dedup") /\ \A r : q \in BoundFor(r) => r = "dedup"
  BY <1>3 DEF BoundFor
<1> HIDE DEF q, M
<1> QED
  BY <1>5, <1>8, <1>9, <1>10

(* The lines of anchors.                                                      *)
LEMMA AnchorPlacesLemma ==
    /\ \A g \in Groups : /\ <<"refine", g>> \in Queues /\ Queued(<<"refine", g>>) \in AnchorPlaces
                         /\ AnchorLines[Queued(<<"refine", g>>)] = que[<<"refine", g>>]
    /\ \A t \in Tids : /\ <<"refine", t>> \in Workers /\ Received(<<"refine", t>>) \in AnchorPlaces
                       /\ AnchorLines[Received(<<"refine", t>>)] = recv[<<"refine", t>>]
    /\ \A p \in AnchorPlaces : \/ \E g \in Groups : p = Queued(<<"refine", g>>)
                               \/ \E t \in Tids : p = Received(<<"refine", t>>)
<1>1. \A g \in Groups : <<"refine", g>> \in Queues /\ Queued(<<"refine", g>>) \in AnchorPlaces
  BY DEF AnchorPlaces, Queued, Queues, Stages, Pools
<1>2. \A t \in Tids : <<"refine", t>> \in Workers /\ Received(<<"refine", t>>) \in AnchorPlaces
  BY DEF AnchorPlaces, Received, Workers, Pools
<1>3. ASSUME NEW p \in AnchorPlaces
      PROVE  \/ \E g \in Groups : p = Queued(<<"refine", g>>)
             \/ \E t \in Tids : p = Received(<<"refine", t>>)
  BY DEF AnchorPlaces, Queued, Received
<1>4. \A p \in AnchorPlaces : AnchorLines[p] = IF p[1] = "que" THEN que[p[2]] ELSE recv[p[2]]
  BY DEF AnchorLines, AnchorLinesOf
<1>5. \A g \in Groups : AnchorLines[Queued(<<"refine", g>>)] = que[<<"refine", g>>]
  BY <1>1, <1>4 DEF Queued
<1>6. \A t \in Tids : AnchorLines[Received(<<"refine", t>>)] = recv[<<"refine", t>>]
  BY <1>2, <1>4 DEF Received
<1> QED
  BY <1>1, <1>2, <1>3, <1>5, <1>6

(* The lines of coarse chunks after a step, given one by one.                 *)
LEMMA NextAnchorLines ==
    ASSUME NEW M \in [AnchorPlaces -> Seq(Anchors)],
           \A g \in Groups : M[Queued(<<"refine", g>>)] = que'[<<"refine", g>>],
           \A t \in Tids : M[Received(<<"refine", t>>)] = recv'[<<"refine", t>>]
    PROVE  AnchorLines' = M
<1> DEFINE L == AnchorLinesOf(que', recv')
<1>1. AnchorLines' = L /\ L = [p \in AnchorPlaces |-> L[p]]
  BY DEF AnchorLines, AnchorLinesOf
<1>2. \A p \in AnchorPlaces : L[p] = IF p[1] = "que" THEN que'[p[2]] ELSE recv'[p[2]]
  BY DEF AnchorLinesOf
<1> HIDE DEF L
<1>3. ASSUME NEW p \in AnchorPlaces PROVE L[p] = M[p]
  <2>1. ASSUME NEW g \in Groups, p = Queued(<<"refine", g>>) PROVE L[p] = M[p]
    BY <1>2, <2>1 DEF Queued
  <2>2. ASSUME NEW t \in Tids, p = Received(<<"refine", t>>) PROVE L[p] = M[p]
    BY <1>2, <2>2 DEF Received
  <2> QED
    BY <2>1, <2>2, AnchorPlacesLemma
<1> QED
  BY <1>1, <1>3

(* All these lines are sequences of coarse chunks.                            *)
LEMMA AnchorLinesType == TypeInv => AnchorLines \in [AnchorPlaces -> Seq(Anchors)]
<1> SUFFICES ASSUME TypeInv PROVE AnchorLines \in [AnchorPlaces -> Seq(Anchors)]
  OBVIOUS
<1>1. DOMAIN AnchorLines = AnchorPlaces /\ AnchorLines = [p \in AnchorPlaces |-> AnchorLines[p]]
  BY DEF AnchorLines, AnchorLinesOf
<1>2. ASSUME NEW p \in AnchorPlaces PROVE AnchorLines[p] \in Seq(Anchors)
  <2>1. ASSUME NEW g \in Groups, p = Queued(<<"refine", g>>) PROVE AnchorLines[p] \in Seq(Anchors)
    <3>1. <<"refine", g>> \in Queues /\ AnchorLines[p] = que[<<"refine", g>>]
      BY <2>1, AnchorPlacesLemma
    <3> QED
      BY <3>1 DEF TypeInv, QueueTypes, Carries
  <2>2. ASSUME NEW t \in Tids, p = Received(<<"refine", t>>) PROVE AnchorLines[p] \in Seq(Anchors)
    <3>1. <<"refine", t>> \in Workers /\ AnchorLines[p] = recv[<<"refine", t>>]
      BY <2>2, AnchorPlacesLemma
    <3>2. Carries(Stage(<<"refine", t>>)) = Anchors
      BY DEF Carries, Stage
    <3> QED
      BY <3>1, <3>2 DEF TypeInv, WorkTypes
  <2> QED
    BY <2>1, <2>2, AnchorPlacesLemma
<1> QED
  BY <1>1, <1>2

QueuedAnchors == Among(AnchorLines, AnchorPlaces)

(* A coarse chunk that Fragment sends is in one place.                        *)
LEMMA EnteringAnchors ==
    ASSUME NEW L \in [AnchorPlaces -> Seq(Anchors)], OnceIn(AnchorPlaces, L),
           NEW p \in AnchorPlaces, NEW a \in Anchors, a \notin Among(L, AnchorPlaces),
           NEW M, M = Entered(L, p, a)
    PROVE  /\ M \in [AnchorPlaces -> Seq(Anchors)] /\ OnceIn(AnchorPlaces, M)
           /\ Among(M, AnchorPlaces) = Among(L, AnchorPlaces) \cup {a}
<1>1. L \in Lines(AnchorPlaces, Anchors)
  BY DEF Lines
<1>2. /\ M \in Lines(AnchorPlaces, Anchors) /\ OnceIn(AnchorPlaces, M)
      /\ \A Q \in SUBSET AnchorPlaces : p \in Q => Among(M, Q) = Among(L, Q) \cup {a}
  BY <1>1, Entering
<1>3. Among(M, AnchorPlaces) = Among(L, AnchorPlaces) \cup {a}
  BY <1>2
<1> QED
  BY <1>2, <1>3 DEF Lines

(* A coarse chunk that is used up is in no place any more.                    *)
LEMMA LeavingAnchors ==
    ASSUME NEW L \in [AnchorPlaces -> Seq(Anchors)], OnceIn(AnchorPlaces, L),
           NEW p \in AnchorPlaces, L[p] # << >>, NEW a, a = Head(L[p]), NEW M, M = Left(L, p)
    PROVE  /\ M \in [AnchorPlaces -> Seq(Anchors)] /\ OnceIn(AnchorPlaces, M)
           /\ a \in Among(L, AnchorPlaces)
           /\ Among(M, AnchorPlaces) = Among(L, AnchorPlaces) \ {a}
<1>1. L \in Lines(AnchorPlaces, Anchors)
  BY DEF Lines
<1>2. /\ M \in Lines(AnchorPlaces, Anchors) /\ OnceIn(AnchorPlaces, M) /\ a \in In(L[p])
      /\ \A Q \in SUBSET AnchorPlaces : p \in Q => Among(M, Q) = Among(L, Q) \ {a}
  BY <1>1, Leaving
<1>3. Among(M, AnchorPlaces) = Among(L, AnchorPlaces) \ {a}
  BY <1>2
<1>4. a \in Among(L, AnchorPlaces)
  BY <1>2 DEF Among
<1> QED
  BY <1>2, <1>3, <1>4 DEF Lines

(* A batch of coarse chunks stays in one place each.                          *)
LEMMA HandingOnAnchors ==
    ASSUME NEW L \in [AnchorPlaces -> Seq(Anchors)], OnceIn(AnchorPlaces, L),
           NEW p \in AnchorPlaces, NEW q \in AnchorPlaces, p # q, NEW n \in 0 .. Len(L[p]),
           NEW M, M = HandedOn(L, p, q, n)
    PROVE  /\ M \in [AnchorPlaces -> Seq(Anchors)] /\ OnceIn(AnchorPlaces, M)
           /\ Among(M, AnchorPlaces) = Among(L, AnchorPlaces)
<1>1. L \in Lines(AnchorPlaces, Anchors)
  BY DEF Lines
<1>2. M \in Lines(AnchorPlaces, Anchors) /\ OnceIn(AnchorPlaces, M)
  BY <1>1, HandOn
<1>3. \A Q \in SUBSET AnchorPlaces : (p \in Q <=> q \in Q) => Among(M, Q) = Among(L, Q)
  BY <1>1, HandOnAmong
<1>4. Among(M, AnchorPlaces) = Among(L, AnchorPlaces)
  BY <1>3
<1> QED
  BY <1>2, <1>4 DEF Lines

(* Fragment puts a new anchor into a refine queue, a refine thread fetches    *)
(* some, and is through with one.                                             *)
LEMMA FragmentLines ==
    ASSUME TypeInv, OnceIn(AnchorPlaces, AnchorLines), NEW g \in Groups,
           NEW a \in Anchors, a \notin QueuedAnchors, UNCHANGED recv,
           NEW longer, longer = Append(que[<<"refine", g>>], a),
           que' = [que EXCEPT ![<<"refine", g>>] = longer]
    PROVE  OnceIn(AnchorPlaces, AnchorLines') /\ QueuedAnchors' = QueuedAnchors \cup {a}
<1>1. PICK M : M = Entered(AnchorLines, Queued(<<"refine", g>>), a)
  OBVIOUS
<1>2. AnchorLines \in [AnchorPlaces -> Seq(Anchors)]
  BY AnchorLinesType
<1>3. /\ Queued(<<"refine", g>>) \in AnchorPlaces /\ <<"refine", g>> \in Queues
      /\ AnchorLines[Queued(<<"refine", g>>)] = que[<<"refine", g>>]
  BY AnchorPlacesLemma
<1>4. /\ M \in [AnchorPlaces -> Seq(Anchors)] /\ OnceIn(AnchorPlaces, M)
      /\ Among(M, AnchorPlaces) = QueuedAnchors \cup {a}
  <2>1. PICK p \in AnchorPlaces : p = Queued(<<"refine", g>>)
    BY <1>3
  <2>2. PICK L \in [AnchorPlaces -> Seq(Anchors)] : L = AnchorLines
    BY <1>2
  <2>3. M = Entered(L, p, a) /\ OnceIn(AnchorPlaces, L) /\ a \notin Among(L, AnchorPlaces)
    BY <1>1, <2>1, <2>2 DEF QueuedAnchors
  <2>4. /\ M \in [AnchorPlaces -> Seq(Anchors)] /\ OnceIn(AnchorPlaces, M)
        /\ Among(M, AnchorPlaces) = Among(L, AnchorPlaces) \cup {a}
    BY <2>3, EnteringAnchors
  <2> QED
    BY <2>2, <2>4 DEF QueuedAnchors
<1>5. /\ M[Queued(<<"refine", g>>)] = longer
      /\ \A p \in AnchorPlaces : p # Queued(<<"refine", g>>) => M[p] = AnchorLines[p]
  BY <1>1, <1>2, <1>3 DEF Entered
<1>6. \A h \in Groups : M[Queued(<<"refine", h>>)] = que'[<<"refine", h>>]
  <2>1. ASSUME NEW h \in Groups PROVE M[Queued(<<"refine", h>>)] = que'[<<"refine", h>>]
    <3>1. /\ Queued(<<"refine", h>>) \in AnchorPlaces /\ <<"refine", h>> \in Queues
          /\ AnchorLines[Queued(<<"refine", h>>)] = que[<<"refine", h>>]
          /\ Queued(<<"refine", h>>) = Queued(<<"refine", g>>) => <<"refine", h>> = <<"refine", g>>
          /\ DOMAIN que = Queues
      BY AnchorPlacesLemma, QueuedPlace DEF TypeInv, QueueTypes
    <3>2. CASE h = g
      BY <1>3, <1>5, <3>1, <3>2
    <3>3. CASE h # g
      BY <1>3, <1>5, <3>1, <3>3
    <3> QED
      BY <3>2, <3>3
  <2> QED
    BY <2>1
<1>7. \A t \in Tids : M[Received(<<"refine", t>>)] = recv'[<<"refine", t>>]
  <2>1. ASSUME NEW t \in Tids PROVE M[Received(<<"refine", t>>)] = recv'[<<"refine", t>>]
    <3>1. /\ Received(<<"refine", t>>) \in AnchorPlaces
          /\ Received(<<"refine", t>>) # Queued(<<"refine", g>>)
          /\ AnchorLines[Received(<<"refine", t>>)] = recv[<<"refine", t>>]
      BY AnchorPlacesLemma, PlacesDiffer
    <3> QED
      BY <1>5, <3>1
  <2> QED
    BY <2>1
<1>8. AnchorLines' = M
  BY <1>4, <1>6, <1>7, NextAnchorLines
<1> QED
  BY <1>4, <1>8 DEF QueuedAnchors

(* FragmentRefine dequeues a batch of coarse chunks.                          *)
LEMMA RefineDequeueLines ==
    ASSUME TypeInv, OnceIn(AnchorPlaces, AnchorLines), NEW t \in Tids, Dequeue(<<"refine", t>>)
    PROVE  OnceIn(AnchorPlaces, AnchorLines') /\ QueuedAnchors' = QueuedAnchors
<1> DEFINE w == <<"refine", t>>
           iq == InQueue(w)
           n == DequeueSize(iq)
           p == Queued(iq)
           q == Received(w)
           M == HandedOn(AnchorLines, p, q, n)
<1>1. w \in Workers /\ Stage(w) = "refine" /\ iq = <<"refine", qid(w)>> /\ qid(w) \in Groups
  <2>1. w \in Workers /\ Stage(w) = "refine"
    BY AnchorPlacesLemma DEF Stage
  <2> QED
    BY <2>1, WorkersLemma DEF InQueue
<1>2. /\ iq \in Queues /\ recv[w] = << >> /\ que[iq] \in Seq(Anchors)
      /\ \/ /\ recv' = [recv EXCEPT ![w] = SubSeq(que[iq], 1, n)]
            /\ que' = [que EXCEPT ![iq] = SubSeq(@, n + 1, Len(@))]
         \/ UNCHANGED <<recv, que>>
  BY <1>1, DequeueLemma DEF Carries
<1>3. CASE UNCHANGED <<recv, que>>
  <2>1. AnchorLines' = AnchorLines
    BY <1>3 DEF AnchorLines, AnchorLinesOf
  <2> QED
    BY <2>1 DEF QueuedAnchors
<1>4. CASE /\ recv' = [recv EXCEPT ![w] = SubSeq(que[iq], 1, n)]
           /\ que' = [que EXCEPT ![iq] = SubSeq(@, n + 1, Len(@))]
  <2>1. n \in 0 .. Len(que[iq])
    BY <1>2, DequeueSizeLemma
  <2>2. p \in AnchorPlaces /\ AnchorLines[p] = que[iq]
    BY <1>1, AnchorPlacesLemma
  <2>3. q \in AnchorPlaces /\ AnchorLines[q] = << >>
    BY <1>2, AnchorPlacesLemma
  <2>4. p # q
    BY PlacesDiffer
  <2>5. AnchorLines \in [AnchorPlaces -> Seq(Anchors)]
    BY AnchorLinesType
  <2>6. /\ M \in [AnchorPlaces -> Seq(Anchors)] /\ OnceIn(AnchorPlaces, M)
        /\ Among(M, AnchorPlaces) = Among(AnchorLines, AnchorPlaces)
    <3> HIDE DEF n, p, q, iq
    <3> QED
      BY <1>2, <2>1, <2>2, <2>3, <2>4, <2>5, HandingOnAnchors
  <2>7. Among(M, AnchorPlaces) = QueuedAnchors
    BY <2>6 DEF QueuedAnchors
  <2>8. /\ M[p] = SubSeq(que[iq], n + 1, Len(que[iq]))
        /\ M[q] = SubSeq(que[iq], 1, n)
        /\ \A r \in AnchorPlaces : r # p /\ r # q => M[r] = AnchorLines[r]
    <3>1. PICK u \in Seq(Anchors) : u = SubSeq(que[iq], 1, n)
      BY <1>2, <2>1, CutLemma, Zenon
    <3>2. << >> \o u = u
      BY <3>1, ConcatEmptySeq
    <3> HIDE DEF n, p, q, iq
    <3> QED
      BY <2>2, <2>3, <2>4, <2>5, <3>1, <3>2 DEF HandedOn
  <2> HIDE DEF M, n
  <2>9. \A g \in Groups : M[Queued(<<"refine", g>>)] = que'[<<"refine", g>>]
    <3>1. ASSUME NEW g \in Groups PROVE M[Queued(<<"refine", g>>)] = que'[<<"refine", g>>]
      <4>1. /\ Queued(<<"refine", g>>) \in AnchorPlaces /\ Queued(<<"refine", g>>) # q
            /\ <<"refine", g>> \in Queues
            /\ Queued(<<"refine", g>>) = p <=> <<"refine", g>> = iq
        BY AnchorPlacesLemma, QueuedPlace, PlacesDiffer
      <4>2. AnchorLines[Queued(<<"refine", g>>)] = que[<<"refine", g>>] /\ DOMAIN que = Queues
        BY AnchorPlacesLemma DEF TypeInv, QueueTypes
      <4> HIDE DEF p, q, iq
      <4> QED
        BY <1>4, <2>8, <4>1, <4>2
    <3> QED
      BY <3>1
  <2>10. \A v \in Tids : M[Received(<<"refine", v>>)] = recv'[<<"refine", v>>]
    <3>1. ASSUME NEW v \in Tids PROVE M[Received(<<"refine", v>>)] = recv'[<<"refine", v>>]
      <4>1. /\ Received(<<"refine", v>>) \in AnchorPlaces /\ Received(<<"refine", v>>) # p
            /\ <<"refine", v>> \in Workers
            /\ Received(<<"refine", v>>) = q <=> <<"refine", v>> = w
        BY AnchorPlacesLemma, ReceivedPlace, PlacesDiffer
      <4>2. AnchorLines[Received(<<"refine", v>>)] = recv[<<"refine", v>>] /\ DOMAIN recv = Workers
        BY AnchorPlacesLemma DEF TypeInv, WorkTypes
      <4> HIDE DEF p, q, iq, w
      <4> QED
        BY <1>4, <2>8, <4>1, <4>2
    <3> QED
      BY <3>1
  <2>11. AnchorLines' = M
    BY <2>6, <2>9, <2>10, NextAnchorLines
  <2> QED
    BY <2>6, <2>7, <2>11 DEF QueuedAnchors
<1> QED
  BY <1>2, <1>3, <1>4

(* FragmentRefine drops the coarse chunk it has used up.                      *)
LEMMA UsedUpLines ==
    ASSUME TypeInv, OnceIn(AnchorPlaces, AnchorLines), NEW t \in Tids,
           recv[<<"refine", t>>] # << >>, NEW a, a = Head(recv[<<"refine", t>>]),
           NEW rest, rest = Tail(recv[<<"refine", t>>]),
           recv' = [recv EXCEPT ![<<"refine", t>>] = rest], UNCHANGED que
    PROVE  /\ OnceIn(AnchorPlaces, AnchorLines')
           /\ a \in QueuedAnchors /\ QueuedAnchors' = QueuedAnchors \ {a}
<1>1. PICK M : M = Left(AnchorLines, Received(<<"refine", t>>))
  OBVIOUS
<1>2. AnchorLines \in [AnchorPlaces -> Seq(Anchors)]
  BY AnchorLinesType
<1>3. /\ Received(<<"refine", t>>) \in AnchorPlaces /\ <<"refine", t>> \in Workers
      /\ AnchorLines[Received(<<"refine", t>>)] = recv[<<"refine", t>>]
  BY AnchorPlacesLemma
<1>4. /\ M \in [AnchorPlaces -> Seq(Anchors)] /\ OnceIn(AnchorPlaces, M)
      /\ a \in QueuedAnchors /\ Among(M, AnchorPlaces) = QueuedAnchors \ {a}
  <2>1. PICK p \in AnchorPlaces : p = Received(<<"refine", t>>)
    BY <1>3
  <2>2. AnchorLines[p] # << >> /\ a = Head(AnchorLines[p]) /\ M = Left(AnchorLines, p)
    BY <1>1, <1>3, <2>1
  <2>3. PICK L \in [AnchorPlaces -> Seq(Anchors)] : L = AnchorLines
    BY <1>2
  <2>4. OnceIn(AnchorPlaces, L) /\ L[p] # << >> /\ a = Head(L[p]) /\ M = Left(L, p)
    BY <2>2, <2>3
  <2>5. /\ M \in [AnchorPlaces -> Seq(Anchors)] /\ OnceIn(AnchorPlaces, M)
        /\ a \in Among(L, AnchorPlaces) /\ Among(M, AnchorPlaces) = Among(L, AnchorPlaces) \ {a}
    BY <2>4, LeavingAnchors
  <2> QED
    BY <2>3, <2>5 DEF QueuedAnchors
<1>5. /\ M[Received(<<"refine", t>>)] = rest
      /\ \A p \in AnchorPlaces : p # Received(<<"refine", t>>) => M[p] = AnchorLines[p]
  BY <1>1, <1>2, <1>3 DEF Left
<1>6. \A g \in Groups : M[Queued(<<"refine", g>>)] = que'[<<"refine", g>>]
  <2>1. ASSUME NEW g \in Groups PROVE M[Queued(<<"refine", g>>)] = que'[<<"refine", g>>]
    <3>1. /\ Queued(<<"refine", g>>) \in AnchorPlaces
          /\ Queued(<<"refine", g>>) # Received(<<"refine", t>>)
          /\ AnchorLines[Queued(<<"refine", g>>)] = que[<<"refine", g>>]
      BY AnchorPlacesLemma, PlacesDiffer
    <3> QED
      BY <1>5, <3>1
  <2> QED
    BY <2>1
<1>7. \A v \in Tids : M[Received(<<"refine", v>>)] = recv'[<<"refine", v>>]
  <2>1. ASSUME NEW v \in Tids PROVE M[Received(<<"refine", v>>)] = recv'[<<"refine", v>>]
    <3>1. /\ Received(<<"refine", v>>) \in AnchorPlaces /\ <<"refine", v>> \in Workers
          /\ AnchorLines[Received(<<"refine", v>>)] = recv[<<"refine", v>>]
          /\ Received(<<"refine", v>>) = Received(<<"refine", t>>)
                 => <<"refine", v>> = <<"refine", t>>
          /\ DOMAIN recv = Workers
      BY AnchorPlacesLemma, ReceivedPlace DEF TypeInv, WorkTypes
    <3>2. CASE v = t
      BY <1>3, <1>5, <3>1, <3>2
    <3>3. CASE v # t
      BY <1>3, <1>5, <3>1, <3>3
    <3> QED
      BY <3>2, <3>3
  <2> QED
    BY <2>1
<1>8. AnchorLines' = M
  BY <1>4, <1>6, <1>7, NextAnchorLines
<1> QED
  BY <1>4, <1>8 DEF QueuedAnchors

(* The head of a refine thread's buffer is at nobody else's head.             *)
LEMMA HeadsDiffer ==
    ASSUME TypeInv, OnceIn(AnchorPlaces, AnchorLines), NEW t \in Tids,
           recv[<<"refine", t>>] # << >>
    PROVE  /\ Head(recv[<<"refine", t>>]) \in QueuedAnchors
           /\ \A v \in Tids : /\ recv[<<"refine", v>>] # << >>
                              /\ Head(recv[<<"refine", v>>]) = Head(recv[<<"refine", t>>])
                              => v = t
<1>1. AnchorLines \in [AnchorPlaces -> Seq(Anchors)]
  BY AnchorLinesType
<1>2. ASSUME NEW v \in Tids, recv[<<"refine", v>>] # << >>
      PROVE  /\ Received(<<"refine", v>>) \in AnchorPlaces
             /\ AnchorLines[Received(<<"refine", v>>)] = recv[<<"refine", v>>]
             /\ 1 \in 1 .. Len(recv[<<"refine", v>>])
             /\ Head(recv[<<"refine", v>>]) = recv[<<"refine", v>>][1]
             /\ Head(recv[<<"refine", v>>]) \in In(recv[<<"refine", v>>])
  <2>1. /\ Received(<<"refine", v>>) \in AnchorPlaces
        /\ AnchorLines[Received(<<"refine", v>>)] = recv[<<"refine", v>>]
    BY AnchorPlacesLemma
  <2>2. PICK s \in Seq(Anchors) : s = recv[<<"refine", v>>]
    BY <1>1, <2>1
  <2>3. Len(s) \in Nat /\ Len(s) # 0
    BY <1>2, <2>2, EmptySeq
  <2>4. Head(s) = s[1] /\ Head(s) \in In(s)
    BY <1>2, <2>2, InLemma
  <2> QED
    BY <2>1, <2>2, <2>3, <2>4
<1>3. Head(recv[<<"refine", t>>]) \in QueuedAnchors
  BY <1>2, Zenon DEF QueuedAnchors, Among
<1>4. ASSUME NEW v \in Tids, recv[<<"refine", v>>] # << >>,
             Head(recv[<<"refine", v>>]) = Head(recv[<<"refine", t>>])
      PROVE  v = t
  <2>1. Received(<<"refine", v>>) = Received(<<"refine", t>>)
    BY <1>2, <1>4 DEF OnceIn
  <2>2. <<"refine", v>> = <<"refine", t>>
    BY <2>1, ReceivedPlace
  <2> QED
    BY <2>2
<1> QED
  BY <1>3, <1>4

-----------------------------------------------------------------------------
(* Where the chunks of the input are.  A chunk is uncut as long as Fragment   *)
(* has not reached its anchor, or the anchor is with the refine threads and   *)
(* they have not come to the chunk; then it waits for one stage after the     *)
(* other; and at last it has arrived at Reorder.                              *)
Unrefined(c) ==
    \/ c[1] >= anchorcount
    \/ /\ c[1] \in QueuedAnchors
       /\ \A t \in Tids : recv[<<"refine", t>>] # << >> /\ Head(recv[<<"refine", t>>]) = c[1]
                          => c[2] >= chcount[t]
Uncut == {c \in Chunks : Unrefined(c)}
ForDedup == Among(ChunkLines, BoundFor("dedup"))
ForCompress == Among(ChunkLines, BoundFor("compress"))
ForReorder == Among(ChunkLines, BoundFor("reorder"))
Arrived == {c \in Chunks : c \in T \/ c = inHand \/ Before(c, next)}

AnchorInv ==
    /\ OnceIn(AnchorPlaces, AnchorLines)
    /\ \A a \in QueuedAnchors : a < anchorcount
    /\ HeadInv

ChunkInv ==
    /\ OnceIn(ChunkPlaces, ChunkLines)
    /\ Chunks = Uncut \cup ForDedup \cup ForCompress \cup ForReorder \cup Arrived
    /\ Uncut \cap (ForDedup \cup ForCompress \cup ForReorder \cup Arrived) = {}
    /\ ForDedup \cap (ForCompress \cup ForReorder \cup Arrived) = {}
    /\ ForCompress \cap (ForReorder \cup Arrived) = {}
    /\ ForReorder \cap Arrived = {}

(* The chunks in all places are those bound for one of the three stages.      *)
LEMMA WaitingLemma ==
    Among(ChunkLines, ChunkPlaces) = ForDedup \cup ForCompress \cup ForReorder
<1>1. ChunkPlaces = BoundFor("dedup") \cup BoundFor("compress") \cup BoundFor("reorder")
  <2>1. ASSUME NEW p \in ChunkPlaces PROVE Aim(p) \in {"dedup", "compress", "reorder"}
    <3>1. CASE \E s \in ChunkStages, g \in Groups : p = Queued(<<s, g>>)
      <4>1. PICK s \in ChunkStages, g \in Groups : p = Queued(<<s, g>>)
        BY <3>1
      <4> QED
        BY <4>1, QueuedPlace DEF ChunkStages
    <3>2. CASE \E s \in {"dedup", "compress"}, t \in Tids : p = Received(<<s, t>>)
      <4>1. PICK s \in {"dedup", "compress"}, t \in Tids : p = Received(<<s, t>>)
        BY <3>2
      <4> QED
        BY <4>1, ReceivedPlace DEF ChunkStages
    <3>3. CASE \E w \in Workers, d \in ChunkStages : p = Outgoing(w, d)
      <4>1. PICK w \in Workers, d \in ChunkStages : p = Outgoing(w, d)
        BY <3>3
      <4> QED
        BY <4>1, OutgoingPlace DEF ChunkStages
    <3>4. CASE p = ReorderBuffer
      BY <3>4, BufferPlace DEF ChunkStages
    <3> QED
      BY <3>1, <3>2, <3>3, <3>4, PlacesAre
  <2> QED
    BY <2>1 DEF BoundFor
<1> QED
  BY <1>1 DEF Among, ForDedup, ForCompress, ForReorder

(* Who changes no queue and no buffer changes no line.                        *)
LEMMA SameChunkLines ==
    ASSUME UNCHANGED <<que, recv, send, rrecv>>
    PROVE  ChunkLines' = ChunkLines /\ AnchorLines' = AnchorLines
BY DEF ChunkLines, ChunkLinesOf, AnchorLines, AnchorLinesOf

(* The sets, given what becomes of the lines.                                 *)
LEMMA SameWaiting ==
    ASSUME \A s \in ChunkStages : Among(ChunkLines', BoundFor(s)) = Among(ChunkLines, BoundFor(s))
    PROVE  UNCHANGED <<ForDedup, ForCompress, ForReorder>>
<1>1. {"dedup", "compress", "reorder"} \subseteq ChunkStages
  BY DEF ChunkStages
<1> QED
  BY <1>1 DEF ForDedup, ForCompress, ForReorder

(* What Uncut depends on.                                                     *)
LEMMA SameUncut ==
    ASSUME UNCHANGED <<QueuedAnchors, anchorcount>>,
           \A t \in Tids : \/ UNCHANGED <<recv[<<"refine", t>>], chcount[t]>>
                           \/ recv[<<"refine", t>>] = << >> /\ chcount'[t] = 0
    PROVE  Uncut' = Uncut
<1>1. ASSUME NEW c \in Chunks PROVE Unrefined(c)' <=> Unrefined(c)
  <2>1. c[2] \in Nat
    BY ChunksLemma
  <2>2. ASSUME NEW t \in Tids
        PROVE  (recv[<<"refine", t>>] # << >> /\ Head(recv[<<"refine", t>>]) = c[1]
                    => c[2] >= chcount[t])'
               <=> (recv[<<"refine", t>>] # << >> /\ Head(recv[<<"refine", t>>]) = c[1]
                    => c[2] >= chcount[t])
    <3>1. CASE UNCHANGED <<recv[<<"refine", t>>], chcount[t]>>
      BY <3>1
    <3>2. CASE recv[<<"refine", t>>] = << >> /\ chcount'[t] = 0
      BY <2>1, <3>2
    <3> QED
      BY <3>1, <3>2
  <2> QED
    BY <2>2 DEF Unrefined
<1> QED
  BY <1>1 DEF Uncut

(* What Arrived depends on.                                                   *)
LEMMA SameArrived ==
    ASSUME UNCHANGED <<T, inHand, next>>
    PROVE  Arrived' = Arrived
BY DEF Arrived, Before

(* Fragment moves no chunk: those it sends stay uncut.                        *)
LEMMA FragmentFlow ==
    ASSUME TypeInv, FragmentInv, AnchorInv, ChunkInv, FragmentStep
    PROVE  /\ UNCHANGED <<Uncut, ForDedup, ForCompress, ForReorder, Arrived>>
           /\ OnceIn(ChunkPlaces, ChunkLines') /\ AnchorInv'
<1>1. CASE FragmentSend
  <2> DEFINE a == anchorcount
  <2>1. /\ a \in Anchors /\ a \in Nat /\ fragQid \in Groups /\ UNCHANGED <<recv, chcount, send, rrecv>>
        /\ UNCHANGED <<T, inHand, next>> /\ anchorcount' = a + 1
        /\ que' = [que EXCEPT ![<<"refine", fragQid>>] = Append(que[<<"refine", fragQid>>], a)]
    BY <1>1, AnchorsLemma DEF FragmentSend, FragmentInv, workVars, reorderVars
  <2>2. a \notin QueuedAnchors
    BY <2>1 DEF AnchorInv
  <2>3. OnceIn(AnchorPlaces, AnchorLines') /\ QueuedAnchors' = QueuedAnchors \cup {a}
    BY <2>1, <2>2, FragmentLines DEF AnchorInv
  <2>4. ChunkLines' = ChunkLines
    <3>1. \A s \in ChunkStages, g \in Groups : ChunkLines[Queued(<<s, g>>)] = que'[<<s, g>>]
      <4>1. ASSUME NEW s \in ChunkStages, NEW g \in Groups
            PROVE  ChunkLines[Queued(<<s, g>>)] = que'[<<s, g>>]
        <5>1. s # "refine" /\ <<s, g>> \in Queues /\ ChunkLines[Queued(<<s, g>>)] = que[<<s, g>>]
          BY QueuedPlace, LineOf DEF ChunkStages
        <5>2. que'[<<s, g>>] = que[<<s, g>>]
          BY <2>1, <5>1 DEF TypeInv, QueueTypes
        <5> QED
          BY <5>1, <5>2
      <4> QED
        BY <4>1
    <3>2. /\ \A s \in {"dedup", "compress"}, t \in Tids : ChunkLines[Received(<<s, t>>)] = recv'[<<s, t>>]
          /\ \A w \in Workers, d \in ChunkStages : ChunkLines[Outgoing(w, d)] = send'[w][d]
          /\ ChunkLines[ReorderBuffer] = rrecv'
      BY <2>1, LineOf
    <3>3. ChunkLines \in [ChunkPlaces -> Seq(Chunks)]
      BY ChunkLinesType
    <3> QED
      BY <3>1, <3>2, <3>3, NextLines
  <2>5. UNCHANGED <<ForDedup, ForCompress, ForReorder, Arrived>> /\ OnceIn(ChunkPlaces, ChunkLines')
    BY <2>1, <2>4, SameWaiting, SameArrived DEF ChunkInv
  <2>6. Uncut' = Uncut
    <3>1. ASSUME NEW c \in Chunks PROVE Unrefined(c)' <=> Unrefined(c)
      <4>1. c[1] \in Nat /\ c[2] \in Nat
        BY ChunksLemma
      <4>2. \A t \in Tids : recv[<<"refine", t>>] # << >> => Head(recv[<<"refine", t>>]) # a
        BY <2>2, HeadsDiffer DEF AnchorInv
      <4>3. CASE c[1] = a
        BY <2>1, <2>3, <4>2, <4>3 DEF Unrefined
      <4>4. CASE c[1] # a
        <5>1. c[1] >= anchorcount' <=> c[1] >= anchorcount
          BY <2>1, <4>1, <4>4
        <5>2. c[1] \in QueuedAnchors' <=> c[1] \in QueuedAnchors
          BY <2>3, <4>4
        <5> QED
          BY <2>1, <5>1, <5>2 DEF Unrefined
      <4> QED
        BY <4>3, <4>4
    <3> QED
      BY <3>1 DEF Uncut
  <2>7. AnchorInv'
    <3>1. \A b \in QueuedAnchors' : b < anchorcount'
      <4>1. \A b \in QueuedAnchors : b \in Nat /\ b < a
        <5>1. QueuedAnchors \subseteq Anchors
          <6>1. \A p \in AnchorPlaces : In(AnchorLines[p]) \subseteq Anchors
            BY AnchorLinesType, InLemma
          <6> QED
            BY <6>1 DEF QueuedAnchors, Among
        <5> QED
          BY <5>1, AnchorsLemma DEF AnchorInv
      <4> QED
        BY <2>1, <2>3, <4>1
    <3>2. HeadInv'
      BY <2>1 DEF AnchorInv, HeadInv
    <3> QED
      BY <2>3, <3>1, <3>2 DEF AnchorInv
  <2> QED
    BY <2>5, <2>6, <2>7
<1>2. CASE FragmentEnd \/ FragmentTerminate
  <2>1. UNCHANGED <<que, recv, send, rrecv, anchorcount, chcount, T, inHand, next>>
    BY <1>2 DEF FragmentEnd, FragmentTerminate, workVars, reorderVars
  <2>2. ChunkLines' = ChunkLines /\ AnchorLines' = AnchorLines /\ QueuedAnchors' = QueuedAnchors
    BY <2>1, SameChunkLines DEF QueuedAnchors
  <2>3. UNCHANGED <<Uncut, ForDedup, ForCompress, ForReorder, Arrived>>
    BY <2>1, <2>2, SameWaiting, SameArrived, SameUncut
  <2>4. AnchorInv'
    BY <2>1, <2>2 DEF AnchorInv, HeadInv
  <2> QED
    BY <2>2, <2>3, <2>4 DEF ChunkInv
<1> QED
  BY <1>1, <1>2 DEF FragmentStep

(* Queue operations move chunks towards a stage, never past it.               *)
LEMMA TransferFlow ==
    ASSUME TypeInv, SendInv, AnchorInv, ChunkInv, NEW w \in Workers,
           (\E d \in Stages : Enqueue(w, d)) \/ Dequeue(w) \/ Shutdown(w)
    PROVE  /\ UNCHANGED <<Uncut, ForDedup, ForCompress, ForReorder, Arrived>>
           /\ OnceIn(ChunkPlaces, ChunkLines') /\ AnchorInv'
<1>1. ASSUME NEW d \in Stages, Enqueue(w, d)
      PROVE  /\ UNCHANGED <<Uncut, ForDedup, ForCompress, ForReorder, Arrived>>
             /\ OnceIn(ChunkPlaces, ChunkLines') /\ AnchorInv'
  <2>1. OnceIn(ChunkPlaces, ChunkLines') /\ UNCHANGED <<ForDedup, ForCompress, ForReorder>>
    BY <1>1, EnqueueLines, SameWaiting DEF ChunkInv
  <2>2. /\ UNCHANGED <<recv, chcount, anchorcount, T, inHand, next>> /\ d # "refine"
        /\ que' = [que EXCEPT ![<<d, qid(w)>>] =
                     @ \o SubSeq(send[w][d], 1, EnqueueSize(w, d))]
    BY <1>1, EnqueueLemma DEF fragVars, reorderVars
  <2>3. AnchorLines' = AnchorLines
    <3>1. \A g \in Groups : AnchorLines[Queued(<<"refine", g>>)] = que'[<<"refine", g>>]
      <4>1. ASSUME NEW g \in Groups PROVE AnchorLines[Queued(<<"refine", g>>)] = que'[<<"refine", g>>]
        <5>1. /\ <<"refine", g>> \in Queues /\ <<"refine", g>> # <<d, qid(w)>> /\ DOMAIN que = Queues
              /\ AnchorLines[Queued(<<"refine", g>>)] = que[<<"refine", g>>]
          BY <2>2, AnchorPlacesLemma DEF TypeInv, QueueTypes
        <5>2. que'[<<"refine", g>>] = que[<<"refine", g>>]
          BY <2>2, <5>1
        <5> QED
          BY <5>1, <5>2
      <4> QED
        BY <4>1
    <3>2. \A t \in Tids : AnchorLines[Received(<<"refine", t>>)] = recv'[<<"refine", t>>]
      BY <2>2, AnchorPlacesLemma
    <3>3. AnchorLines \in [AnchorPlaces -> Seq(Anchors)]
      BY AnchorLinesType
    <3> QED
      BY <3>1, <3>2, <3>3, NextAnchorLines
  <2>4. Uncut' = Uncut /\ Arrived' = Arrived
    BY <2>2, <2>3, SameUncut, SameArrived DEF QueuedAnchors
  <2>5. AnchorInv'
    BY <2>2, <2>3 DEF AnchorInv, HeadInv, QueuedAnchors
  <2> QED
    BY <2>1, <2>4, <2>5
<1>2. ASSUME Dequeue(w)
      PROVE  /\ UNCHANGED <<Uncut, ForDedup, ForCompress, ForReorder, Arrived>>
             /\ OnceIn(ChunkPlaces, ChunkLines') /\ AnchorInv'
  <2> DEFINE q == InQueue(w)
  <2>1. /\ q \in Queues /\ q = <<Stage(w), qid(w)>> /\ recv[w] = << >>
        /\ \/ recv' = [recv EXCEPT ![w] = SubSeq(que[q], 1, DequeueSize(q))]
              /\ que' = [que EXCEPT ![q] = SubSeq(@, DequeueSize(q) + 1, Len(@))]
           \/ UNCHANGED <<recv, que>>
        /\ UNCHANGED <<send, rrecv, chcount, anchorcount, T, inHand, next>>
    BY <1>2, DequeueLemma DEF fragVars, reorderVars, InQueue
  <2>2. w = <<Stage(w), w[2]>> /\ w[2] \in Tids /\ Stage(w) \in Pools
    BY WorkersLemma
  <2>3. \A v \in Workers : v # w => recv'[v] = recv[v]
    BY <2>1 DEF TypeInv, WorkTypes
  <2>4. \A r \in Queues : r # q => que'[r] = que[r]
    BY <2>1 DEF TypeInv, QueueTypes
  <2>5. Arrived' = Arrived
    BY <2>1, SameArrived
  <2>6. CASE Stage(w) = "refine"
    <3>1. PICK t \in Tids : w = <<"refine", t>>
      BY <2>2, <2>6
    <3>2. OnceIn(AnchorPlaces, AnchorLines') /\ QueuedAnchors' = QueuedAnchors
      BY <1>2, <3>1, RefineDequeueLines DEF AnchorInv
    <3>3. chcount[t] = 0
      BY <2>1, <3>1 DEF AnchorInv, HeadInv
    <3>4. \A v \in Tids : v # t => recv'[<<"refine", v>>] = recv[<<"refine", v>>]
      BY <2>3, <3>1, AnchorPlacesLemma
    <3>5. Uncut' = Uncut
      <4>1. ASSUME NEW v \in Tids
            PROVE  \/ UNCHANGED <<recv[<<"refine", v>>], chcount[v]>>
                   \/ recv[<<"refine", v>>] = << >> /\ chcount'[v] = 0
        BY <2>1, <3>1, <3>3, <3>4
      <4> QED
        BY <2>1, <3>2, <4>1, SameUncut
    <3>6. ChunkLines' = ChunkLines
      <4>1. \A s \in ChunkStages, g \in Groups : ChunkLines[Queued(<<s, g>>)] = que'[<<s, g>>]
        <5>1. ASSUME NEW s \in ChunkStages, NEW g \in Groups
              PROVE  ChunkLines[Queued(<<s, g>>)] = que'[<<s, g>>]
          <6>1. /\ s # "refine" /\ <<s, g>> \in Queues
                /\ ChunkLines[Queued(<<s, g>>)] = que[<<s, g>>]
            BY QueuedPlace, LineOf DEF ChunkStages
          <6>2. <<s, g>> # q
            BY <2>1, <2>6, <6>1
          <6> QED
            BY <2>4, <6>1, <6>2
        <5> QED
          BY <5>1
      <4>2. \A s \in {"dedup", "compress"}, v \in Tids :
              ChunkLines[Received(<<s, v>>)] = recv'[<<s, v>>]
        BY <2>3, <3>1, ReceivedPlace, LineOf
      <4>3. /\ \A v \in Workers, d \in ChunkStages : ChunkLines[Outgoing(v, d)] = send'[v][d]
            /\ ChunkLines[ReorderBuffer] = rrecv'
        BY <2>1, LineOf
      <4> QED
        BY <4>1, <4>2, <4>3, ChunkLinesType, NextLines
    <3>7. AnchorInv'
      <4>1. HeadInv'
        <5>1. ASSUME NEW v \in Tids
              PROVE  IF recv'[<<"refine", v>>] = << >> THEN chcount'[v] = 0
                     ELSE chcount'[v] < NPieces(Head(recv'[<<"refine", v>>]))
          <6>1. CASE v # t
            BY <2>1, <3>4, <6>1 DEF AnchorInv, HeadInv
          <6>2. CASE v = t
            <7>1. chcount'[v] = 0
              BY <2>1, <3>3, <6>2
            <7>2. TypeInv'
              BY <1>2, TransferTypeStep
            <7>3. recv'[<<"refine", v>>] \in Seq(Anchors)
              BY <7>2, AnchorPlacesLemma DEF TypeInv, WorkTypes, Carries, Stage
            <7>4. recv'[<<"refine", v>>] # << >> => 0 < NPieces(Head(recv'[<<"refine", v>>]))
              BY <7>3, HeadLemma, AnchorsLemma
            <7> QED
              BY <7>1, <7>4
          <6> QED
            BY <6>1, <6>2
        <5> QED
          BY <5>1 DEF HeadInv
      <4> QED
        BY <2>1, <3>2, <4>1 DEF AnchorInv
    <3> QED
      BY <2>5, <3>5, <3>6, <3>7, SameWaiting DEF ChunkInv
  <2>7. CASE Stage(w) # "refine"
    <3>1. PICK s \in {"dedup", "compress"}, t \in Tids : w = <<s, t>>
      BY <2>2, <2>7 DEF Pools
    <3>2. OnceIn(ChunkPlaces, ChunkLines') /\ UNCHANGED <<ForDedup, ForCompress, ForReorder>>
      BY <1>2, <3>1, DequeueLines, SameWaiting DEF ChunkInv
    <3>3. \A v \in Tids : recv'[<<"refine", v>>] = recv[<<"refine", v>>]
      BY <2>3, <3>1, AnchorPlacesLemma
    <3>4. AnchorLines' = AnchorLines
      <4>1. \A g \in Groups : AnchorLines[Queued(<<"refine", g>>)] = que'[<<"refine", g>>]
        <5>1. ASSUME NEW g \in Groups
              PROVE  AnchorLines[Queued(<<"refine", g>>)] = que'[<<"refine", g>>]
          <6>1. /\ <<"refine", g>> \in Queues /\ AnchorLines[Queued(<<"refine", g>>)] = que[<<"refine", g>>]
                /\ DOMAIN que = Queues
            BY AnchorPlacesLemma DEF TypeInv, QueueTypes
          <6>2. <<"refine", g>> # q
            BY <2>1, <2>7
          <6>3. PICK l : que' = que \/ que' = [que EXCEPT ![q] = l]
            BY <2>1
          <6> HIDE DEF q
          <6> QED
            BY <6>1, <6>2, <6>3
        <5> QED
          BY <5>1
      <4>2. \A v \in Tids : AnchorLines[Received(<<"refine", v>>)] = recv'[<<"refine", v>>]
        BY <3>3, AnchorPlacesLemma
      <4> QED
        BY <4>1, <4>2, AnchorLinesType, NextAnchorLines
    <3>5. Uncut' = Uncut
      BY <2>1, <3>3, <3>4, SameUncut DEF QueuedAnchors
    <3>6. AnchorInv'
      BY <2>1, <3>3, <3>4 DEF AnchorInv, HeadInv, QueuedAnchors
    <3> QED
      BY <2>5, <3>2, <3>5, <3>6
  <2> QED
    BY <2>6, <2>7
<1>3. ASSUME Shutdown(w)
      PROVE  /\ UNCHANGED <<Uncut, ForDedup, ForCompress, ForReorder, Arrived>>
             /\ OnceIn(ChunkPlaces, ChunkLines') /\ AnchorInv'
  <2>1. UNCHANGED <<que, recv, send, rrecv, anchorcount, chcount, T, inHand, next>>
    BY <1>3 DEF Shutdown, fragVars, reorderVars
  <2>2. ChunkLines' = ChunkLines /\ AnchorLines' = AnchorLines /\ QueuedAnchors' = QueuedAnchors
    BY <2>1, SameChunkLines DEF QueuedAnchors
  <2>3. UNCHANGED <<Uncut, ForDedup, ForCompress, ForReorder, Arrived>>
    BY <2>1, <2>2, SameWaiting, SameArrived, SameUncut
  <2>4. AnchorInv'
    BY <2>1, <2>2 DEF AnchorInv, HeadInv
  <2> QED
    BY <2>2, <2>3, <2>4 DEF ChunkInv
<1> QED
  BY <1>1, <1>2, <1>3

(* The kernels move one chunk each.                                           *)
LEMMA RefineFlow ==
    ASSUME TypeInv, AnchorInv, ChunkInv, NEW t \in Tids, Refine(t),
           NEW c, c = <<Head(recv[<<"refine", t>>]), chcount[t]>>
    PROVE  /\ c \in Uncut /\ Uncut' = Uncut \ {c} /\ ForDedup' = ForDedup \cup {c}
           /\ UNCHANGED <<ForCompress, ForReorder, Arrived>>
           /\ OnceIn(ChunkPlaces, ChunkLines') /\ AnchorInv'
<1> DEFINE w == <<"refine", t>>
           a == Head(recv[w])
           isLast == chcount[t] = NPieces(a) - 1
<1>0. HeadInv
  BY DEF AnchorInv
<1>1. /\ w \in Workers /\ recv[w] \in Seq(Anchors) /\ recv[w] # << >>
      /\ a \in Anchors /\ Tail(recv[w]) \in Seq(Anchors)
      /\ chcount[t] \in Nat /\ chcount[t] < NPieces(a) /\ <<a, chcount[t]>> \in Chunks
      /\ send' = [send EXCEPT ![w]["dedup"] = Append(@, <<a, chcount[t]>>)]
      /\ chcount' = [chcount EXCEPT ![t] = IF isLast THEN 0 ELSE @ + 1]
      /\ recv' = IF isLast THEN [recv EXCEPT ![w] = Tail(@)] ELSE recv
      /\ UNCHANGED <<que, rrecv, anchorcount, T, inHand, next>>
  BY <1>0, RefineLemma DEF fragVars, reorderVars
<1>2. c \in Chunks /\ c[1] = a /\ c[2] = chcount[t] /\ Stage(w) = "refine"
  BY <1>1 DEF Stage
<1>3. /\ a \in QueuedAnchors
      /\ \A v \in Tids : recv[<<"refine", v>>] # << >> /\ Head(recv[<<"refine", v>>]) = a => v = t
  BY <1>1, HeadsDiffer DEF AnchorInv
<1>4. c \in Uncut
  <2>1. ASSUME NEW v \in Tids, recv[<<"refine", v>>] # << >>, Head(recv[<<"refine", v>>]) = c[1]
        PROVE  c[2] >= chcount[v]
    <3>1. v = t
      BY <1>2, <1>3, <2>1
    <3> QED
      BY <1>1, <1>2, <3>1
  <2> QED
    BY <1>2, <1>3, <2>1 DEF Uncut, Unrefined
<1>5. /\ \A v \in Tids : v # t => recv'[<<"refine", v>>] = recv[<<"refine", v>>]
      /\ \A v \in Workers : Stage(v) # "refine" => recv'[v] = recv[v]
      /\ \A v \in Tids : v # t => chcount'[v] = chcount[v]
      /\ chcount'[t] = IF isLast THEN 0 ELSE chcount[t] + 1
      /\ isLast => recv'[w] = Tail(recv[w])
  <2>1. DOMAIN recv = Workers /\ chcount \in [Tids -> Nat] /\ \A v \in Tids : <<"refine", v>> \in Workers
    BY AnchorPlacesLemma DEF TypeInv, WorkTypes
  <2> HIDE DEF a
  <2> QED
    BY <1>1, <1>2, <2>1
<1>6. /\ OnceIn(ChunkPlaces, ChunkLines') /\ ForDedup' = ForDedup \cup {c}
      /\ UNCHANGED <<ForCompress, ForReorder>>
  <2>1. c \notin Among(ChunkLines, ChunkPlaces)
    BY <1>4, WaitingLemma DEF ChunkInv
  <2>2. send' = [send EXCEPT ![w]["dedup"] = Append(@, c)]
    BY <1>1
  <2>3. /\ OnceIn(ChunkPlaces, ChunkLines')
        /\ Among(ChunkLines', BoundFor("dedup")) = Among(ChunkLines, BoundFor("dedup")) \cup {c}
        /\ \A r \in ChunkStages : r # "dedup" =>
             Among(ChunkLines', BoundFor(r)) = Among(ChunkLines, BoundFor(r))
    <3> HIDE DEF w, a
    <3> QED
      BY <1>1, <1>2, <1>5, <2>1, <2>2, RefineLines DEF ChunkInv
  <2>4. "compress" \in ChunkStages /\ "reorder" \in ChunkStages
    BY DEF ChunkStages
  <2> QED
    BY <2>3, <2>4 DEF ForDedup, ForCompress, ForReorder
<1>7. Arrived' = Arrived
  BY <1>1, SameArrived
<1>8. OnceIn(AnchorPlaces, AnchorLines')
      /\ QueuedAnchors' = IF isLast THEN QueuedAnchors \ {a} ELSE QueuedAnchors
  <2>1. CASE isLast
    BY <1>1, <2>1, UsedUpLines DEF AnchorInv
  <2>2. CASE ~isLast
    <3>1. AnchorLines' = AnchorLines
      BY <1>1, <2>2 DEF AnchorLines, AnchorLinesOf
    <3> QED
      BY <2>2, <3>1 DEF AnchorInv, QueuedAnchors
  <2> QED
    BY <2>1, <2>2
<1>9. Uncut' = Uncut \ {c}
  <2>1. ASSUME NEW d \in Chunks PROVE Unrefined(d)' <=> Unrefined(d) /\ d # c
    <3>1. d = <<d[1], d[2]>> /\ d[1] \in Nat /\ d[2] \in Nat /\ d[2] < NPieces(d[1])
      BY ChunksLemma
    <3>2. a < anchorcount /\ a \in Nat /\ anchorcount \in Nat
      BY <1>1, <1>3, AnchorsLemma DEF AnchorInv, TypeInv, FragmentTypes
    <3>3. CASE d[1] = a
      <4>1. ~(d[1] >= anchorcount) /\ ~(d[1] >= anchorcount')
        BY <1>1, <3>2, <3>3
      <4>2. Unrefined(d) <=> d[2] >= chcount[t]
        BY <1>1, <1>3, <3>3, <4>1 DEF Unrefined
      <4>3. CASE isLast
        <5>1. ~Unrefined(d)'
          BY <1>8, <3>3, <4>1, <4>3 DEF Unrefined
        <5>2. NPieces(a) \in Nat
          BY <1>1, AnchorsLemma
        <5>3. d[2] >= chcount[t] => d = c
          BY <1>1, <1>2, <3>1, <3>3, <4>3, <5>2
        <5> QED
          BY <4>2, <5>1, <5>3
      <4>4. CASE ~isLast
        <5>1. recv' = recv /\ chcount'[t] = chcount[t] + 1 /\ QueuedAnchors' = QueuedAnchors
          BY <1>1, <1>5, <1>8, <4>4
        <5>2. Unrefined(d)' <=> d[2] >= chcount[t] + 1
          BY <1>1, <1>3, <3>3, <4>1, <5>1 DEF Unrefined
        <5>3. d = c <=> d[2] = chcount[t]
          BY <1>2, <3>1, <3>3
        <5> QED
          BY <1>1, <3>1, <4>2, <5>2, <5>3
      <4> QED
        BY <4>3, <4>4
    <3>4. CASE d[1] # a
      <4>1. d # c /\ (d[1] \in QueuedAnchors' <=> d[1] \in QueuedAnchors)
            /\ anchorcount' = anchorcount
        BY <1>1, <1>2, <1>8, <3>4
      <4>2. ASSUME NEW v \in Tids
            PROVE  (recv[<<"refine", v>>] # << >> /\ Head(recv[<<"refine", v>>]) = d[1]
                        => d[2] >= chcount[v])'
                   <=> (recv[<<"refine", v>>] # << >> /\ Head(recv[<<"refine", v>>]) = d[1]
                        => d[2] >= chcount[v])
        <5>1. CASE v # t
          BY <1>5, <5>1
        <5>2. CASE v = t /\ ~isLast
          <6>1. recv' = recv
            BY <1>1, <5>2
          <6> QED
            BY <3>4, <5>2, <6>1
        <5>3. CASE v = t /\ isLast
          <6>1. chcount'[v] = 0
            BY <1>5, <5>3
          <6>2. d[2] >= chcount'[v]
            BY <3>1, <6>1
          <6> QED
            BY <3>4, <5>3, <6>2
        <5> QED
          BY <5>1, <5>2, <5>3
      <4> QED
        BY <4>1, <4>2 DEF Unrefined
    <3> QED
      BY <3>3, <3>4
  <2> QED
    BY <2>1 DEF Uncut
<1>10. AnchorInv'
  <2>1. \A b \in QueuedAnchors' : b < anchorcount'
    BY <1>1, <1>8 DEF AnchorInv
  <2>2. HeadInv'
    <3>1. ASSUME NEW v \in Tids
          PROVE  IF recv'[<<"refine", v>>] = << >> THEN chcount'[v] = 0
                 ELSE chcount'[v] < NPieces(Head(recv'[<<"refine", v>>]))
      <4>1. CASE v # t
        BY <1>0, <1>5, <4>1 DEF HeadInv
      <4>2. CASE v = t /\ isLast
        <5>1. chcount'[v] = 0 /\ recv'[<<"refine", v>>] \in Seq(Anchors)
          BY <1>1, <1>5, <4>2
        <5>2. recv'[<<"refine", v>>] # << >> => 0 < NPieces(Head(recv'[<<"refine", v>>]))
          BY <5>1, HeadLemma, AnchorsLemma
        <5> QED
          BY <5>1, <5>2
      <4>3. CASE v = t /\ ~isLast
        <5>1. recv' = recv /\ chcount'[t] = chcount[t] + 1
          BY <1>1, <1>5, <4>3
        <5>2. chcount[t] + 1 < NPieces(a)
          <6>1. PICK k, n : k = chcount[t] /\ n = NPieces(a)
            OBVIOUS
          <6>2. k \in Nat /\ n \in Nat /\ k < n /\ k # n - 1
            BY <1>1, <4>3, <6>1, AnchorsLemma
          <6>3. k + 1 < n
            BY <6>2
          <6> QED
            BY <6>1, <6>3
        <5> QED
          BY <1>1, <4>3, <5>1, <5>2
      <4> QED
        BY <4>1, <4>2, <4>3
    <3> QED
      BY <3>1 DEF HeadInv
  <2> QED
    BY <1>8, <2>1, <2>2 DEF AnchorInv
<1> QED
  BY <1>4, <1>6, <1>7, <1>9, <1>10

(* Deduplicate moves a chunk on to Compress or to Reorder.                    *)
LEMMA DeduplicateFlow ==
    ASSUME TypeInv, AnchorInv, ChunkInv, NEW t \in Tids, Deduplicate(t),
           NEW c \in Chunks, c = Head(recv[<<"dedup", t>>])
    PROVE  /\ c \in ForDedup /\ ForDedup' = ForDedup \ {c}
           /\ ForCompress' = IF cache[ContentOf(c)] = NoChunk THEN ForCompress \cup {c} ELSE ForCompress
           /\ ForReorder' = IF cache[ContentOf(c)] = NoChunk THEN ForReorder ELSE ForReorder \cup {c}
           /\ UNCHANGED <<Uncut, Arrived>>
           /\ OnceIn(ChunkPlaces, ChunkLines') /\ AnchorInv'
<1> DEFINE w == <<"dedup", t>>
           d == DedupDest(c)
<1>1. /\ w \in Workers /\ recv[w] # << >> /\ Stage(w) = "dedup"
      /\ send' = [send EXCEPT ![w][d] = Append(send[w][d], c)]
      /\ recv' = [recv EXCEPT ![w] = Tail(recv[w])]
      /\ UNCHANGED <<que, rrecv, anchorcount, chcount, T, inHand, next>>
  <2>1. send' = [send EXCEPT ![w][d] = Append(@, c)]
    BY DeduplicateLemma
  <2> QED
    BY <2>1, DeduplicateLemma DEF fragVars, reorderVars, Stage
<1>2. d \in ChunkStages /\ d # "dedup" /\ "dedup" \in ChunkStages
      /\ "compress" \in ChunkStages /\ "reorder" \in ChunkStages
  BY DEF DedupDest, ChunkStages
<1>3. /\ OnceIn(ChunkPlaces, ChunkLines')
      /\ c \in Among(ChunkLines, BoundFor("dedup"))
      /\ Among(ChunkLines', BoundFor("dedup")) = Among(ChunkLines, BoundFor("dedup")) \ {c}
      /\ Among(ChunkLines', BoundFor(d)) = Among(ChunkLines, BoundFor(d)) \cup {c}
      /\ \A r \in ChunkStages : r # "dedup" /\ r # d =>
           Among(ChunkLines', BoundFor(r)) = Among(ChunkLines, BoundFor(r))
  <2>1. PassesOn("dedup", d, w, c)
    BY <1>1 DEF PassesOn
  <2>2. "dedup" \in {"dedup", "compress"}
    OBVIOUS
  <2> HIDE DEF w, d
  <2> QED
    BY <1>1, <1>2, <2>1, <2>2, PassLines DEF ChunkInv
<1>4. /\ c \in ForDedup /\ ForDedup' = ForDedup \ {c}
      /\ ForCompress' = IF cache[ContentOf(c)] = NoChunk THEN ForCompress \cup {c} ELSE ForCompress
      /\ ForReorder' = IF cache[ContentOf(c)] = NoChunk THEN ForReorder ELSE ForReorder \cup {c}
  BY <1>2, <1>3 DEF DedupDest, ForDedup, ForCompress, ForReorder
<1>5. \A v \in Tids : recv'[<<"refine", v>>] = recv[<<"refine", v>>]
  BY <1>1, AnchorPlacesLemma DEF TypeInv, WorkTypes
<1>6. AnchorLines' = AnchorLines
  BY <1>1, <1>5, AnchorPlacesLemma, AnchorLinesType, NextAnchorLines
<1>7. Uncut' = Uncut /\ Arrived' = Arrived
  BY <1>1, <1>5, <1>6, SameUncut, SameArrived DEF QueuedAnchors
<1>8. AnchorInv'
  BY <1>1, <1>5, <1>6 DEF AnchorInv, HeadInv, QueuedAnchors
<1> QED
  BY <1>3, <1>4, <1>7, <1>8

(* Compress moves a chunk on to Reorder.                                      *)
LEMMA CompressFlow ==
    ASSUME TypeInv, AnchorInv, ChunkInv, NEW t \in Tids, Compress(t),
           NEW c \in Chunks, c = Head(recv[<<"compress", t>>])
    PROVE  /\ c \in ForCompress /\ ForCompress' = ForCompress \ {c}
           /\ ForReorder' = ForReorder \cup {c}
           /\ UNCHANGED <<Uncut, ForDedup, Arrived>>
           /\ OnceIn(ChunkPlaces, ChunkLines') /\ AnchorInv'
<1> DEFINE w == <<"compress", t>>
<1>1. /\ w \in Workers /\ recv[w] # << >> /\ Stage(w) = "compress"
      /\ send' = [send EXCEPT ![w]["reorder"] = Append(send[w]["reorder"], c)]
      /\ recv' = [recv EXCEPT ![w] = Tail(recv[w])]
      /\ UNCHANGED <<que, rrecv, anchorcount, chcount, T, inHand, next>>
  <2>1. send' = [send EXCEPT ![w]["reorder"] = Append(@, c)]
    BY CompressLemma
  <2> QED
    BY <2>1, CompressLemma DEF fragVars, reorderVars, Stage
<1>2. "dedup" \in ChunkStages /\ "compress" \in ChunkStages /\ "reorder" \in ChunkStages
  BY DEF ChunkStages
<1>3. /\ OnceIn(ChunkPlaces, ChunkLines')
      /\ c \in Among(ChunkLines, BoundFor("compress"))
      /\ Among(ChunkLines', BoundFor("compress")) = Among(ChunkLines, BoundFor("compress")) \ {c}
      /\ Among(ChunkLines', BoundFor("reorder")) = Among(ChunkLines, BoundFor("reorder")) \cup {c}
      /\ \A r \in ChunkStages : r # "compress" /\ r # "reorder" =>
           Among(ChunkLines', BoundFor(r)) = Among(ChunkLines, BoundFor(r))
  <2>1. PassesOn("compress", "reorder", w, c)
    BY <1>1 DEF PassesOn
  <2>2. "compress" \in {"dedup", "compress"} /\ "reorder" # "compress"
    OBVIOUS
  <2> HIDE DEF w
  <2> QED
    BY <1>1, <1>2, <2>1, <2>2, PassLines DEF ChunkInv
<1>4. /\ c \in ForCompress /\ ForCompress' = ForCompress \ {c}
      /\ ForReorder' = ForReorder \cup {c} /\ ForDedup' = ForDedup
  BY <1>2, <1>3 DEF ForDedup, ForCompress, ForReorder
<1>5. \A v \in Tids : recv'[<<"refine", v>>] = recv[<<"refine", v>>]
  BY <1>1, AnchorPlacesLemma DEF TypeInv, WorkTypes
<1>6. AnchorLines' = AnchorLines
  BY <1>1, <1>5, AnchorPlacesLemma, AnchorLinesType, NextAnchorLines
<1>7. Uncut' = Uncut /\ Arrived' = Arrived
  BY <1>1, <1>5, <1>6, SameUncut, SameArrived DEF QueuedAnchors
<1>8. AnchorInv'
  BY <1>1, <1>5, <1>6 DEF AnchorInv, HeadInv, QueuedAnchors
<1> QED
  BY <1>3, <1>4, <1>7, <1>8

(* Reorder: what it has cached is still to come, and the array says how many  *)
(* chunks an anchor has as soon as the last one of them has arrived.          *)
LastOf(a) == <<a, NPieces(a) - 1>>
SequenceInv ==
    /\ ReorderPc
    /\ next \notin T
    /\ \A c \in T : ~Before(c, next)
    /\ \A a \in Anchors : chunks_per_anchor[a] = IF LastOf(a) \in Arrived THEN NPieces(a) ELSE 0

(* The last chunk of a coarse chunk.                                          *)
LEMMA LastLemma ==
    /\ \A a \in Anchors : LastOf(a) \in Chunks /\ LastOf(a)[1] = a /\ isLastL2Chunk(LastOf(a))
    /\ \A c \in Chunks : isLastL2Chunk(c) <=> c = LastOf(c[1])
<1>1. ASSUME NEW a \in Anchors
      PROVE  LastOf(a) \in Chunks /\ LastOf(a)[1] = a /\ isLastL2Chunk(LastOf(a))
  <2>1. NPieces(a) - 1 \in Nat /\ NPieces(a) - 1 < NPieces(a)
    BY AnchorsLemma
  <2> QED
    BY <2>1, ChunksLemma DEF LastOf, isLastL2Chunk
<1>2. ASSUME NEW c \in Chunks PROVE isLastL2Chunk(c) <=> c = LastOf(c[1])
  <2>1. c = <<c[1], c[2]>>
    BY ChunksLemma
  <2> QED
    BY <2>1 DEF LastOf, isLastL2Chunk
<1> QED
  BY <1>1, <1>2

(* Where chunks_per_anchor is right, sequence_inc_l2 and sequence_inc_l1 give *)
(* the successor.                                                             *)
LEMMA AdvanceLemma ==
    ASSUME SequenceInv, rpc = "write"
    PROVE  next \in Chunks /\ inHand = next /\ next \in Arrived /\ Advance(next) = Successor(next)
<1>1. next \in Chunks /\ inHand = next /\ next \in Arrived
  BY DEF SequenceInv, ReorderPc, Arrived
<1>2. /\ next = <<next[1], next[2]>> /\ next[1] \in Anchors /\ next[2] \in Nat
      /\ next[2] < NPieces(next[1]) /\ NPieces(next[1]) \in Nat
  BY <1>1, ChunksLemma, AnchorsLemma
<1>3. chunks_per_anchor[next[1]] = IF LastOf(next[1]) \in Arrived THEN NPieces(next[1]) ELSE 0
  BY <1>2 DEF SequenceInv
<1>4. CASE next[2] + 1 = NPieces(next[1])
  <2>1. next = LastOf(next[1])
    <3>1. next[2] = NPieces(next[1]) - 1
      BY <1>2, <1>4
    <3> QED
      BY <1>2, <3>1 DEF LastOf
  <2>2. chunks_per_anchor[next[1]] = next[2] + 1
    BY <1>1, <1>3, <1>4, <2>1
  <2> QED
    BY <1>1, <1>2, <1>4, <2>2 DEF Advance, Successor
<1>5. CASE next[2] + 1 # NPieces(next[1])
  <2>1. next[2] + 1 < NPieces(next[1])
    BY <1>2, <1>5
  <2>2. ~(chunks_per_anchor[next[1]] # 0 /\ next[2] + 1 = chunks_per_anchor[next[1]])
    BY <1>3, <1>5
  <2> QED
    BY <1>1, <2>1, <2>2 DEF Advance, Successor
<1> QED
  BY <1>1, <1>4, <1>5

(* Reorder does not touch the coarse chunks.                                  *)
LEMMA ReorderLinesKept ==
    ASSUME UNCHANGED workVars, UNCHANGED <<anchorcount, AnchorLines>>, AnchorInv
    PROVE  Uncut' = Uncut /\ AnchorInv'
<1>1. UNCHANGED <<QueuedAnchors, recv, chcount>>
  BY DEF QueuedAnchors, workVars
<1> QED
  BY <1>1, SameUncut DEF AnchorInv, HeadInv

(* Reorder's dequeue moves no chunk past Reorder.                             *)
LEMMA ReorderDequeueFlow ==
    ASSUME TypeInv, AnchorInv, ChunkInv, SequenceInv, ReorderDequeue
    PROVE  /\ UNCHANGED <<Uncut, ForDedup, ForCompress, ForReorder, Arrived>>
           /\ OnceIn(ChunkPlaces, ChunkLines') /\ AnchorInv' /\ SequenceInv'
<1> DEFINE q == <<"reorder", rqid>>
<1>1. /\ q \in Queues /\ que[q] \in Seq(Chunks) /\ rpc = "fetch"
      /\ \/ /\ que[q] # << >> /\ DequeueSize(q) \in 0 .. Len(que[q]) /\ DequeueSize(q) > 0
            /\ rrecv' = SubSeq(que[q], 1, DequeueSize(q)) /\ rpc' = "take"
            /\ que' = [que EXCEPT ![q] = SubSeq(@, DequeueSize(q) + 1, Len(@))]
         \/ UNCHANGED <<que, rrecv>> /\ rpc' \in {"fetch", "flush"}
      /\ UNCHANGED <<workVars, anchorcount, T, inHand, next, chunks_per_anchor>>
  BY ReorderDequeueLemma DEF fragVars
<1>2. OnceIn(ChunkPlaces, ChunkLines') /\ UNCHANGED <<ForDedup, ForCompress, ForReorder>>
  BY ReorderDequeueLines, SameWaiting DEF ChunkInv, SequenceInv
<1>3. Arrived' = Arrived
  BY <1>1, SameArrived
<1>4. AnchorLines' = AnchorLines
  <2>1. \A r \in Queues : r # q => que'[r] = que[r]
    BY <1>1 DEF TypeInv, QueueTypes
  <2>2. \A g \in Groups : AnchorLines[Queued(<<"refine", g>>)] = que'[<<"refine", g>>]
    BY <2>1, AnchorPlacesLemma
  <2>3. \A v \in Tids : AnchorLines[Received(<<"refine", v>>)] = recv'[<<"refine", v>>]
    BY <1>1, AnchorPlacesLemma DEF workVars
  <2> QED
    BY <2>2, <2>3, AnchorLinesType, NextAnchorLines
<1>5. Uncut' = Uncut /\ AnchorInv'
  BY <1>1, <1>4, ReorderLinesKept
<1>6. ReorderPc'
  <2>1. rpc' = "take" => rrecv' # << >>
    <3>1. CASE rpc' = "take"
      <4>1. Len(rrecv') = DequeueSize(q) /\ DequeueSize(q) > 0
        BY <1>1, <3>1, CutLemma
      <4> QED
        BY <4>1, EmptySeq
    <3> QED
      BY <3>1
  <2>2. rpc' # "take" => UNCHANGED rrecv /\ rpc' \in {"fetch", "flush"}
    BY <1>1
  <2>3. rrecv = << >> /\ inHand = NoChunk /\ next \in Chunks \cup {End}
    BY <1>1 DEF SequenceInv, ReorderPc
  <2>4. rpc' \in {"take", "fetch", "flush"} /\ inHand' = NoChunk /\ next' = next
    BY <1>1, <2>3
  <2> QED
    BY <2>1, <2>2, <2>3, <2>4 DEF ReorderPc
<1>7. SequenceInv'
  BY <1>1, <1>3, <1>6 DEF SequenceInv, Before
<1> QED
  BY <1>2, <1>3, <1>5, <1>7

(* Reorder takes a chunk that has not arrived before.                         *)
LEMMA TakeFlow ==
    ASSUME TypeInv, AnchorInv, ChunkInv, SequenceInv, ReorderTake,
           NEW c, c = Head(rrecv)
    PROVE  /\ c \in ForReorder /\ ForReorder' = ForReorder \ {c}
           /\ c \in Chunks /\ c \notin Arrived /\ Arrived' = Arrived \cup {c}
           /\ UNCHANGED <<Uncut, ForDedup, ForCompress>>
           /\ OnceIn(ChunkPlaces, ChunkLines') /\ AnchorInv' /\ SequenceInv'
<1>1. /\ rpc = "take" /\ rrecv \in Seq(Chunks) /\ rrecv # << >> /\ inHand = NoChunk
      /\ c \in Chunks /\ Tail(rrecv) \in Seq(Chunks) /\ next \in Chunks \cup {End}
  <2>1. rpc = "take" /\ rrecv \in Seq(Chunks) /\ rrecv # << >> /\ inHand = NoChunk
        /\ next \in Chunks \cup {End}
    BY DEF ReorderTake, SequenceInv, ReorderPc, TypeInv, ReorderTypes
  <2> QED
    BY <2>1, HeadLemma
<1>2. /\ chunks_per_anchor' = IF isLastL2Chunk(c)
                              THEN [chunks_per_anchor EXCEPT ![c[1]] = c[2] + 1]
                              ELSE chunks_per_anchor
      /\ \/ c # next /\ T' = T \cup {c} /\ rpc' = Continue(Tail(rrecv)) /\ UNCHANGED inHand
         \/ c = next /\ inHand' = c /\ rpc' = "write" /\ UNCHANGED T
      /\ rrecv' = Tail(rrecv)
      /\ UNCHANGED <<que, recv, send, workVars, anchorcount, next>>
  BY DEF ReorderTake, InTurn, workVars, fragVars
<1>3. /\ OnceIn(ChunkPlaces, ChunkLines')
      /\ c \in ForReorder /\ ForReorder' = ForReorder \ {c}
      /\ UNCHANGED <<ForDedup, ForCompress>>
  <2>1. /\ OnceIn(ChunkPlaces, ChunkLines')
        /\ c \in Among(ChunkLines, BoundFor("reorder"))
        /\ Among(ChunkLines', BoundFor("reorder")) = Among(ChunkLines, BoundFor("reorder")) \ {c}
        /\ \A r \in ChunkStages : r # "reorder" =>
             Among(ChunkLines', BoundFor(r)) = Among(ChunkLines, BoundFor(r))
    BY <1>1, <1>2, TakeLines DEF ChunkInv
  <2>2. "dedup" \in ChunkStages /\ "compress" \in ChunkStages
    BY DEF ChunkStages
  <2> QED
    BY <2>1, <2>2 DEF ForDedup, ForCompress, ForReorder
<1>4. AnchorLines' = AnchorLines
  BY <1>2 DEF AnchorLines, AnchorLinesOf
<1>5. Uncut' = Uncut /\ AnchorInv'
  BY <1>2, <1>4, ReorderLinesKept
<1>6. c \notin Arrived
  BY <1>3 DEF ChunkInv
<1>7. Arrived' = Arrived \cup {c}
  <2>1. ASSUME NEW d \in Chunks
        PROVE  d \in T' \/ d = inHand' \/ Before(d, next') <=> d \in Arrived \/ d = c
    <3>1. d # NoChunk /\ next' = next
      BY <1>2, ChunksLemma
    <3>2. d \in Arrived <=> d \in T \/ Before(d, next)
      BY <1>1, <3>1 DEF Arrived
    <3>3. d \in T' \/ d = inHand' <=> d \in T \/ d = c
      BY <1>1, <1>2, <3>1
    <3> QED
      BY <3>1, <3>2, <3>3
  <2>2. Arrived' = {d \in Chunks : d \in T' \/ d = inHand' \/ Before(d, next')}
    BY DEF Arrived, Before
  <2>3. Arrived \subseteq Chunks
    BY DEF Arrived
  <2> QED
    BY <1>1, <2>1, <2>2, <2>3
<1>8. SequenceInv'
  <2>1. ReorderPc'
    <3>1. CASE c # next
      <4>1. rpc' = Continue(rrecv') /\ inHand' = NoChunk /\ next' = next
        BY <1>1, <1>2, <3>1
      <4> QED
        BY <1>1, <4>1 DEF Continue, ReorderPc
    <3>2. CASE c = next
      <4>1. rpc' = "write" /\ inHand' = next /\ next' = next /\ next \in Chunks
        BY <1>1, <1>2, <3>2
      <4> QED
        BY <4>1 DEF ReorderPc
    <3> QED
      BY <3>1, <3>2
  <2>2. next' \notin T' /\ \A d \in T' : ~Before(d, next)
    <3>1. ~Before(c, next)
      BY <1>1, <1>6 DEF Arrived
    <3> QED
      BY <1>2, <3>1 DEF SequenceInv
  <2>3. ASSUME NEW a \in Anchors
        PROVE  chunks_per_anchor'[a] = IF LastOf(a) \in Arrived' THEN NPieces(a) ELSE 0
    <3>1. /\ chunks_per_anchor[a] = IF LastOf(a) \in Arrived THEN NPieces(a) ELSE 0
          /\ chunks_per_anchor \in [Anchors -> Nat]
          /\ c[1] \in Anchors /\ c[2] \in Nat
      BY <1>1, ChunksLemma DEF SequenceInv, TypeInv, ReorderTypes
    <3>2. CASE c = LastOf(a)
      <4>1. isLastL2Chunk(c) /\ c[1] = a
        BY <3>2, LastLemma
      <4>2. c[2] + 1 = NPieces(a)
        BY <3>1, <4>1, AnchorsLemma DEF isLastL2Chunk
      <4>3. chunks_per_anchor'[a] = NPieces(a)
        BY <1>2, <3>1, <4>1, <4>2
      <4> QED
        BY <1>7, <3>2, <4>3
    <3>3. CASE c # LastOf(a)
      <4>1. chunks_per_anchor'[a] = chunks_per_anchor[a]
        <5>1. isLastL2Chunk(c) => c[1] # a
          BY <1>1, <3>3, LastLemma
        <5> QED
          BY <1>2, <3>1, <5>1
      <4> QED
        BY <1>7, <3>1, <3>3, <4>1
    <3> QED
      BY <3>2, <3>3
  <2> QED
    BY <1>2, <2>1, <2>2, <2>3 DEF SequenceInv, Before
<1> QED
  BY <1>1, <1>3, <1>5, <1>6, <1>7, <1>8

(* Reorder writes the chunk whose turn it is, and goes on to its successor.   *)
LEMMA WriteFlow ==
    ASSUME TypeInv, AnchorInv, ChunkInv, SequenceInv, ReorderWrite
    PROVE  /\ rpc = "write" /\ next \in Chunks /\ next \in Arrived /\ WriteChunk(next)
           /\ next' = Successor(next)
           /\ UNCHANGED <<Uncut, ForDedup, ForCompress, ForReorder, Arrived>>
           /\ OnceIn(ChunkPlaces, ChunkLines') /\ AnchorInv' /\ SequenceInv'
<1>1. rpc = "write"
  BY DEF ReorderWrite, SequenceInv, ReorderPc
<1>2. next \in Chunks /\ inHand = next /\ next \in Arrived /\ Advance(next) = Successor(next)
  BY <1>1, AdvanceLemma
<1>3. /\ WriteChunk(next) /\ next' = Successor(next)
      /\ \/ /\ T # {} /\ FindMin(T) = next' /\ inHand' = next' /\ T' = T \ {next'}
            /\ rpc' = "write"
         \/ /\ ~(T # {} /\ FindMin(T) = next') /\ inHand' = NoChunk /\ T' = T
            /\ rpc' = Continue(rrecv)
      /\ UNCHANGED <<que, recv, send, rrecv, workVars, anchorcount, chunks_per_anchor>>
  BY <1>1, <1>2 DEF ReorderWrite, WriteChunk, workVars, fragVars
<1>4. /\ T \subseteq Chunks /\ next' \in Chunks \cup {End} /\ next' # next
      /\ \A d \in Chunks : Before(d, next') <=> d = next \/ Before(d, next)
  BY <1>2, <1>3, SuccessorLemma DEF TypeInv, ReorderTypes
<1>5. ChunkLines' = ChunkLines /\ AnchorLines' = AnchorLines
  BY <1>3, SameChunkLines
<1>6. OnceIn(ChunkPlaces, ChunkLines') /\ UNCHANGED <<ForDedup, ForCompress, ForReorder>>
  BY <1>5, SameWaiting DEF ChunkInv
<1>7. Uncut' = Uncut /\ AnchorInv'
  BY <1>3, <1>5, ReorderLinesKept
<1>8. T # {} /\ FindMin(T) = next' => next' \in T
  BY <1>4, FindMinLemma
<1>9. Arrived' = Arrived
  <2>1. ASSUME NEW d \in Chunks
        PROVE  d \in T' \/ d = inHand' \/ Before(d, next')
               <=> d \in T \/ d = inHand \/ Before(d, next)
    <3>1. d # NoChunk
      BY ChunksLemma
    <3>2. d \in T' \/ d = inHand' <=> d \in T
      BY <1>3, <1>8, <3>1
    <3> QED
      BY <1>2, <1>4, <3>2
  <2>2. Arrived' = {d \in Chunks : d \in T' \/ d = inHand' \/ Before(d, next')}
    BY DEF Arrived, Before
  <2> QED
    BY <2>1, <2>2 DEF Arrived
<1>10. next' \notin T'
  <2>1. CASE T # {} /\ FindMin(T) = next'
    BY <1>3, <2>1
  <2>2. CASE ~(T # {} /\ FindMin(T) = next')
    <3>1. ASSUME next' \in T PROVE FALSE
      <4>1. FindMin(T) \in T /\ FindMin(T) # next' /\ Before(FindMin(T), next')
        BY <1>4, <2>2, <3>1, FindMinLemma
      <4>2. FindMin(T) = next \/ Before(FindMin(T), next)
        BY <1>4, <4>1
      <4> QED
        BY <4>1, <4>2 DEF SequenceInv
    <3> QED
      BY <1>3, <2>2, <3>1
  <2> QED
    BY <2>1, <2>2
<1>11. \A d \in T' : ~Before(d, next')
  <2>1. ASSUME NEW d \in T' PROVE ~Before(d, next')
    <3>1. d \in T /\ d \in Chunks
      BY <1>3, <1>4
    <3>2. d # next /\ ~Before(d, next)
      BY <3>1 DEF SequenceInv
    <3> QED
      BY <1>4, <3>1, <3>2
  <2> QED
    BY <2>1
<1>12. ReorderPc'
  <2>1. rrecv' = rrecv /\ (rpc' = "write" => next' \in Chunks)
    BY <1>3, <1>4, <1>8 DEF Continue
  <2>2. /\ rpc' \in {"write", "take", "fetch"}
        /\ rpc' = "take" => rrecv # << >>
        /\ rpc' = "fetch" => rrecv = << >>
        /\ inHand' = IF rpc' = "write" THEN next' ELSE NoChunk
    BY <1>3 DEF Continue
  <2> QED
    BY <1>4, <2>1, <2>2 DEF ReorderPc
<1>13. SequenceInv'
  BY <1>3, <1>9, <1>10, <1>11, <1>12 DEF SequenceInv, Before
<1> QED
  BY <1>1, <1>2, <1>3, <1>6, <1>7, <1>9, <1>13

EndInv == rpc \in {"flush", "done"} => T = {} /\ next \notin Chunks

(* Reorder's final loop finds nothing to do.                                  *)
LEMMA FlushFlow ==
    ASSUME AnchorInv, ChunkInv, SequenceInv, EndInv, ReorderFlush
    PROVE  /\ rpc' = "done" /\ UNCHANGED <<T, inHand, next, rrecv>>
           /\ UNCHANGED <<Uncut, ForDedup, ForCompress, ForReorder, Arrived>>
           /\ OnceIn(ChunkPlaces, ChunkLines') /\ AnchorInv' /\ SequenceInv'
<1>1. /\ T = {} /\ rpc = "flush" /\ inHand = NoChunk /\ rrecv = << >> /\ next \in Chunks \cup {End}
  BY DEF ReorderFlush, EndInv, SequenceInv, ReorderPc
<1>2. rpc' = "done" /\ inHand' = NoChunk /\ T' = {}
      /\ UNCHANGED <<que, recv, send, rrecv, workVars, anchorcount, chunks_per_anchor, next>>
  BY <1>1 DEF ReorderFlush, workVars, fragVars
<1>3. ChunkLines' = ChunkLines /\ AnchorLines' = AnchorLines
  BY <1>2, SameChunkLines
<1>4. Uncut' = Uncut /\ AnchorInv'
  BY <1>2, <1>3, ReorderLinesKept
<1>5. Arrived' = Arrived
  BY <1>1, <1>2, SameArrived
<1>6. SequenceInv'
  <2>1. ReorderPc'
    BY <1>1, <1>2 DEF ReorderPc
  <2> QED
    BY <1>1, <1>2, <1>5, <2>1 DEF SequenceInv, Before
<1> QED
  BY <1>1, <1>2, <1>3, <1>4, <1>5, <1>6, SameWaiting DEF ChunkInv

(* What SequenceInv depends on.                                               *)
LEMMA SequenceKept ==
    ASSUME SequenceInv, UNCHANGED <<reorderVars, next, Arrived>>
    PROVE  SequenceInv'
BY DEF SequenceInv, ReorderPc, reorderVars, Before

(* What ChunkInv depends on.                                                  *)
LEMMA ChunksKept ==
    ASSUME ChunkInv, OnceIn(ChunkPlaces, ChunkLines'),
           UNCHANGED <<Uncut, ForDedup, ForCompress, ForReorder, Arrived>>
    PROVE  ChunkInv'
BY DEF ChunkInv, OnceIn

(* Every chunk stays in one place, or moves on to the next.                   *)
LEMMA FlowStep ==
    ASSUME TypeInv, FragmentInv, SendInv, AnchorInv, ChunkInv, SequenceInv, EndInv, [Next]_pipeVars
    PROVE  AnchorInv' /\ ChunkInv' /\ SequenceInv'
<1>1. CASE FragmentStep
  <2>1. UNCHANGED <<reorderVars, next>>
    BY <1>1 DEF FragmentStep, FragmentSend, FragmentEnd, FragmentTerminate
  <2> QED
    BY <1>1, <2>1, FragmentFlow, ChunksKept, SequenceKept
<1>2. ASSUME NEW w \in Workers, (\E d \in Stages : Enqueue(w, d)) \/ Dequeue(w) \/ Shutdown(w)
      PROVE  AnchorInv' /\ ChunkInv' /\ SequenceInv'
  <2>1. UNCHANGED <<reorderVars, next>>
    BY <1>2 DEF Enqueue, Dequeue, Shutdown
  <2> QED
    BY <1>2, <2>1, TransferFlow, ChunksKept, SequenceKept
<1>3. ASSUME NEW t \in Tids, Refine(t) PROVE AnchorInv' /\ ChunkInv' /\ SequenceInv'
  <2>1. UNCHANGED <<reorderVars, next>>
    BY <1>3 DEF Refine
  <2>2. PICK c : c = <<Head(recv[<<"refine", t>>]), chcount[t]>>
    OBVIOUS
  <2>3. /\ c \in Uncut /\ Uncut' = Uncut \ {c} /\ ForDedup' = ForDedup \cup {c}
        /\ UNCHANGED <<ForCompress, ForReorder, Arrived>>
        /\ OnceIn(ChunkPlaces, ChunkLines') /\ AnchorInv'
    BY <1>3, <2>2, RefineFlow
  <2>4. ChunkInv'
    BY <2>3 DEF ChunkInv, OnceIn
  <2> QED
    BY <2>1, <2>3, <2>4, SequenceKept
<1>4. ASSUME NEW t \in Tids, Deduplicate(t) PROVE AnchorInv' /\ ChunkInv' /\ SequenceInv'
  <2>1. UNCHANGED <<reorderVars, next>>
    BY <1>4 DEF Deduplicate
  <2>2. PICK c \in Chunks : c = Head(recv[<<"dedup", t>>])
    BY <1>4, DeduplicateLemma
  <2>3. /\ c \in ForDedup /\ ForDedup' = ForDedup \ {c}
        /\ \/ ForCompress' = ForCompress \cup {c} /\ UNCHANGED ForReorder
           \/ ForReorder' = ForReorder \cup {c} /\ UNCHANGED ForCompress
        /\ UNCHANGED <<Uncut, Arrived>>
        /\ OnceIn(ChunkPlaces, ChunkLines') /\ AnchorInv'
    BY <1>4, <2>2, DeduplicateFlow
  <2>4. ChunkInv'
    BY <2>3 DEF ChunkInv, OnceIn
  <2> QED
    BY <2>1, <2>3, <2>4, SequenceKept
<1>5. ASSUME NEW t \in Tids, Compress(t) PROVE AnchorInv' /\ ChunkInv' /\ SequenceInv'
  <2>1. UNCHANGED <<reorderVars, next>>
    BY <1>5 DEF Compress
  <2>2. PICK c \in Chunks : c = Head(recv[<<"compress", t>>])
    BY <1>5, CompressLemma
  <2>3. /\ c \in ForCompress /\ ForCompress' = ForCompress \ {c}
        /\ ForReorder' = ForReorder \cup {c}
        /\ UNCHANGED <<Uncut, ForDedup, Arrived>>
        /\ OnceIn(ChunkPlaces, ChunkLines') /\ AnchorInv'
    BY <1>5, <2>2, CompressFlow
  <2>4. ChunkInv'
    BY <2>3 DEF ChunkInv, OnceIn
  <2> QED
    BY <2>1, <2>3, <2>4, SequenceKept
<1>6. CASE ReorderDequeue
  BY <1>6, ReorderDequeueFlow, ChunksKept
<1>7. CASE ReorderTake
  <2>1. PICK c : c = Head(rrecv)
    OBVIOUS
  <2>2. /\ c \in ForReorder /\ ForReorder' = ForReorder \ {c} /\ Arrived' = Arrived \cup {c}
        /\ UNCHANGED <<Uncut, ForDedup, ForCompress>>
        /\ OnceIn(ChunkPlaces, ChunkLines') /\ AnchorInv' /\ SequenceInv'
    BY <1>7, <2>1, TakeFlow
  <2>3. ChunkInv'
    BY <2>2 DEF ChunkInv, OnceIn
  <2> QED
    BY <2>2, <2>3
<1>8. CASE ReorderWrite
  BY <1>8, WriteFlow, ChunksKept
<1>9. CASE ReorderFlush
  BY <1>9, FlushFlow, ChunksKept
<1>10. CASE UNCHANGED pipeVars
  <2>1. UNCHANGED <<que, recv, send, rrecv, workVars, anchorcount, reorderVars, T, inHand, next>>
    BY <1>10 DEF pipeVars, workVars, fragVars, reorderVars
  <2>2. ChunkLines' = ChunkLines /\ AnchorLines' = AnchorLines
    BY <2>1, SameChunkLines
  <2>3. UNCHANGED <<Uncut, ForDedup, ForCompress, ForReorder, Arrived>> /\ AnchorInv'
    BY <2>1, <2>2, ReorderLinesKept, SameWaiting, SameArrived
  <2>4. OnceIn(ChunkPlaces, ChunkLines')
    BY <2>2 DEF ChunkInv
  <2> QED
    BY <2>1, <2>3, <2>4, ChunksKept, SequenceKept
<1>11. ASSUME NEW w \in Workers, WorkerStep(w) PROVE AnchorInv' /\ ChunkInv' /\ SequenceInv'
  <2>1. w[2] \in Tids
    BY WorkersLemma
  <2> QED
    BY <1>2, <1>3, <1>4, <1>5, <1>11, <2>1 DEF WorkerStep, Kernel
<1> QED
  BY <1>1, <1>6, <1>7, <1>8, <1>9, <1>10, <1>11 DEF Next, Step, ReorderStep, Finished, Standstill

-----------------------------------------------------------------------------
(* Shutdown.  A queue has been terminated exactly by those of its producers   *)
(* that are done; a thread leaves its loop when its queue is empty and        *)
(* terminated, and is done when it has sent everything.                       *)
ProducersOf(q) == {w \in Workers : Terminates(Stage(w)) = q[1] /\ qid(w) = q[2]}
DoneOf(q) == {w \in ProducersOf(q) : pc[w] = "done"}
ShutdownInv ==
    /\ \A q \in ChunkStages \X Groups : nTerminated[q] = Cardinality(DoneOf(q))
    /\ \A w \in Workers : pc[w] # "work" => /\ recv[w] = << >> /\ que[InQueue(w)] = << >>
                                            /\ isTerminated(InQueue(w))
    /\ \A w \in Workers : pc[w] = "done" => \A d \in Stages : send[w][d] = << >>

(* Each queue between two stages is terminated by the threads of one of them. *)
LEMMA TerminatesLemma ==
    /\ Terminates("refine") = "dedup" /\ Terminates("dedup") = "compress"
    /\ Terminates("compress") = "reorder"
    /\ \A w \in Workers : /\ Terminates(Stage(w)) \in ChunkStages
                          /\ <<Terminates(Stage(w)), qid(w)>> \in ChunkStages \X Groups
                          /\ w \in ProducersOf(<<Terminates(Stage(w)), qid(w)>>)
<1>1. /\ Terminates("refine") = "dedup" /\ Terminates("dedup") = "compress"
      /\ Terminates("compress") = "reorder"
  <2>1. \A x : <<x>>[1] = x
    OBVIOUS
  <2>2. \A x, y : <<x, y>>[1] = x
    OBVIOUS
  <2>3. Terminates("refine") = "dedup"
    BY <2>1 DEF Terminates, Destinations
  <2>4. Terminates("dedup") = "compress"
    BY <2>2 DEF Terminates, Destinations
  <2>5. Terminates("compress") = "reorder"
    BY <2>1 DEF Terminates, Destinations
  <2> QED
    BY <2>3, <2>4, <2>5
<1>2. ASSUME NEW w \in Workers
      PROVE  /\ Terminates(Stage(w)) \in ChunkStages
             /\ <<Terminates(Stage(w)), qid(w)>> \in ChunkStages \X Groups
             /\ w \in ProducersOf(<<Terminates(Stage(w)), qid(w)>>)
  <2>1. Terminates(Stage(w)) \in ChunkStages
    BY <1>1, WorkersLemma DEF Pools, ChunkStages
  <2> QED
    BY <2>1, WorkersLemma DEF ProducersOf
<1> QED
  BY <1>1, <1>2

Feeder(s) == CASE s = "dedup" -> "refine"
               [] s = "compress" -> "dedup"
               [] s = "reorder" -> "compress"

(* The producers a queue counts are the threads of the stage before, in its   *)
(* group.                                                                     *)
LEMMA ProducersLemma ==
    ASSUME NEW s \in ChunkStages, NEW g \in Groups
    PROVE  LET q == <<s, g>> IN
           /\ q \in Queues /\ nProducers(q) = GroupSize(g) /\ q \in ChunkStages \X Groups
           /\ \A w \in Workers : w \in ProducersOf(q) <=> Stage(w) = Feeder(s) /\ qid(w) = g
           /\ IsFiniteSet(ProducersOf(q)) /\ Cardinality(ProducersOf(q)) = GroupSize(g)
           /\ ProducersOf(q) # {} /\ ProducersOf(q) \subseteq Workers
<1> DEFINE q == <<s, g>>
           P == ProducersOf(q)
           f == [t \in Members(g) |-> <<Feeder(s), t>>]
<1>1. /\ q \in Queues /\ nProducers(q) = GroupSize(g) /\ q[1] = s /\ q[2] = g
      /\ q \in ChunkStages \X Groups /\ Feeder(s) \in Pools
  BY DEF ChunkStages, Queues, Stages, nProducers, Feeder, Pools
<1>2. ASSUME NEW w \in Workers PROVE w \in P <=> Stage(w) = Feeder(s) /\ qid(w) = g
  <2>1. Stage(w) \in Pools
    BY WorkersLemma
  <2>2. Terminates(Stage(w)) = s <=> Stage(w) = Feeder(s)
    BY <2>1, TerminatesLemma DEF ChunkStages, Pools, Feeder
  <2> QED
    BY <1>1, <2>2 DEF ProducersOf
<1>3. P \subseteq Workers
  BY DEF ProducersOf
<1> HIDE DEF P
<1>4. f \in Bijection(Members(g), P)
  <2>1. \A t \in Members(g) : f[t] \in P
    <3>1. ASSUME NEW t \in Members(g) PROVE <<Feeder(s), t>> \in P
      <4>1. t \in Tids /\ t \div ThreadsPerQueue = g
        BY DEF Members
      <4>2. /\ <<Feeder(s), t>> \in Workers /\ Stage(<<Feeder(s), t>>) = Feeder(s)
            /\ qid(<<Feeder(s), t>>) = g
        BY <1>1, <4>1, WorkersLemma
      <4> QED
        BY <1>2, <4>2
    <3> QED
      BY <3>1
  <2>2. \A t, u \in Members(g) : f[t] = f[u] => t = u
    OBVIOUS
  <2>3. \A w \in P : \E t \in Members(g) : f[t] = w
    <3>1. ASSUME NEW w \in P PROVE w[2] \in Members(g) /\ w = <<Feeder(s), w[2]>>
      <4>1. w \in Workers /\ Stage(w) = Feeder(s) /\ qid(w) = g
        BY <1>2, <1>3
      <4> QED
        BY <4>1, WorkersLemma DEF Members, qid
    <3> QED
      BY <3>1
  <2> QED
    <3>1. f \in [Members(g) -> P]
      BY <2>1
    <3>2. IsInjective(f)
      BY <2>2 DEF IsInjective
    <3> HIDE DEF f
    <3> QED
      BY <2>3, <3>1, <3>2 DEF Bijection, Injection, Surjection
<1>5. IsFiniteSet(P) /\ Cardinality(P) = GroupSize(g)
  BY <1>4, GroupsLemma, FS_Bijection DEF ExistsBijection
<1>6. P # {}
  BY <1>4, GroupsLemma DEF Bijection, Injection
<1> QED
  BY <1>1, <1>2, <1>3, <1>5, <1>6 DEF P

(* A queue is terminated when all its producers are done.                     *)
LEMMA TerminatedLemma ==
    ASSUME ShutdownInv, NEW s \in ChunkStages, NEW g \in Groups
    PROVE  /\ IsFiniteSet(DoneOf(<<s, g>>)) /\ Cardinality(DoneOf(<<s, g>>)) \in Nat
           /\ isTerminated(<<s, g>>) <=> \A w \in ProducersOf(<<s, g>>) : pc[w] = "done"
<1> DEFINE q == <<s, g>>
<1>1. /\ IsFiniteSet(ProducersOf(q)) /\ Cardinality(ProducersOf(q)) = nProducers(q)
      /\ nTerminated[q] = Cardinality(DoneOf(q))
  BY ProducersLemma DEF ShutdownInv
<1>2. DoneOf(q) \in SUBSET ProducersOf(q)
  BY DEF DoneOf
<1>3. /\ IsFiniteSet(DoneOf(q)) /\ Cardinality(DoneOf(q)) \in Nat
      /\ Cardinality(ProducersOf(q)) = Cardinality(DoneOf(q)) => ProducersOf(q) = DoneOf(q)
  BY <1>1, <1>2, FS_Subset, FS_CardinalityType
<1>4. isTerminated(q) <=> ProducersOf(q) = DoneOf(q)
  BY <1>1, <1>3 DEF isTerminated
<1> QED
  BY <1>3, <1>4 DEF DoneOf

(* A thread that still has chunks for a queue finds the queue open: for the   *)
(* chunks Deduplicate sends to a reorder queue too, although it is not among  *)
(* the producers that queue counts.                                           *)
LEMMA OpenLemma ==
    ASSUME SendInv, ShutdownInv, NEW w \in Workers, NEW d \in Stages, send[w][d] # << >>
    PROVE  ~isTerminated(<<d, qid(w)>>)
<1>1. d \in Aims(Stage(w)) /\ Stage(w) \in Pools /\ qid(w) \in Groups /\ pc[w] # "done"
  BY WorkersLemma DEF SendInv, ShutdownInv
<1>2. d \in ChunkStages
  BY <1>1, AimsLemma DEF Stages, Pools, ChunkStages
<1>3. CASE d = Terminates(Stage(w))
  BY <1>1, <1>2, <1>3, TerminatesLemma, TerminatedLemma
<1>4. CASE d # Terminates(Stage(w))
  <2>1. Stage(w) = "dedup" /\ d = "reorder"
    BY <1>1, <1>4, TerminatesLemma DEF Aims, Pools
  <2>2. PICK v : v = <<"compress", w[2]>>
    OBVIOUS
  <2>3. v \in Workers /\ Stage(v) = "compress" /\ qid(v) = qid(w)
    BY <2>2, WorkersLemma DEF Pools, qid
  <2>4. v \in ProducersOf(<<"reorder", qid(w)>>) /\ w \in ProducersOf(<<"compress", qid(w)>>)
    BY <2>1, <2>3, TerminatesLemma
  <2>5. "reorder" \in ChunkStages /\ "compress" \in ChunkStages
    BY DEF ChunkStages
  <2>6. ASSUME isTerminated(<<"reorder", qid(w)>>) PROVE FALSE
    <3>1. pc[v] = "done"
      BY <1>1, <2>4, <2>5, <2>6, TerminatedLemma
    <3>2. isTerminated(<<"compress", qid(w)>>)
      BY <2>3, <3>1 DEF ShutdownInv, InQueue
    <3>3. pc[w] = "done"
      BY <1>1, <2>4, <2>5, <3>2, TerminatedLemma
    <3> QED
      BY <1>1, <3>3
  <2> QED
    BY <2>1, <2>6
<1> QED
  BY <1>3, <1>4

Stopped(q) == isTerminated(q) /\ que[q] = << >>

(* A queue that is empty and terminated stays so.                             *)
LEMMA StoppedStays ==
    ASSUME TypeInv, FragmentInv, SendInv, ShutdownInv, [Next]_pipeVars,
           NEW q \in Queues, Stopped(q)
    PROVE  Stopped(q)'
<1>0. /\ que[q] = << >> /\ nTerminated[q] = nProducers(q)
      /\ DOMAIN que = Queues /\ DOMAIN nTerminated = Queues
  BY DEF Stopped, isTerminated, TypeInv, QueueTypes
<1>1. ASSUME UNCHANGED nTerminated, que'[q] = que[q] PROVE Stopped(q)'
  BY <1>0, <1>1 DEF Stopped, isTerminated
<1>2. ASSUME NEW g \in Groups, q = <<"refine", g>> PROVE fragPc # "read" /\ g < fragQid
  <2>1. nProducers(q) = 1
    BY <1>2 DEF nProducers
  <2> QED
    BY <1>0, <1>2, <2>1 DEF FragmentInv
<1>3. CASE FragmentSend
  <2>1. /\ que' = [que EXCEPT ![<<"refine", fragQid>>] = Append(@, anchorcount)]
        /\ UNCHANGED nTerminated /\ fragPc = "read" /\ fragQid \in Groups
    BY <1>3 DEF FragmentSend, FragmentInv
  <2>2. q # <<"refine", fragQid>>
    BY <1>2, <2>1
  <2> QED
    BY <1>0, <1>1, <2>1, <2>2
<1>4. CASE FragmentEnd
  BY <1>1, <1>4 DEF FragmentEnd
<1>5. CASE FragmentTerminate
  <2>1. /\ nTerminated' = [nTerminated EXCEPT ![<<"refine", fragQid>>] = @ + 1]
        /\ UNCHANGED que /\ fragQid \in Groups
    BY <1>5 DEF FragmentTerminate, FragmentInv
  <2>2. q # <<"refine", fragQid>>
    <3>1. fragQid \in Nat
      BY <2>1, GroupsLemma DEF Groups
    <3> QED
      BY <1>2, <2>1, <3>1
  <2> QED
    BY <1>0, <2>1, <2>2 DEF Stopped, isTerminated
<1>6. ASSUME NEW w \in Workers, NEW d \in Stages, Enqueue(w, d) PROVE Stopped(q)'
  <2>1. /\ que' = [que EXCEPT ![<<d, qid(w)>>] =
                     @ \o SubSeq(send[w][d], 1, EnqueueSize(w, d))]
        /\ UNCHANGED nTerminated /\ send[w][d] # << >>
    BY <1>6, EnqueueLemma
  <2>2. q # <<d, qid(w)>>
    BY <2>1, OpenLemma DEF Stopped
  <2> QED
    BY <1>0, <1>1, <2>1, <2>2
<1>7. ASSUME NEW w \in Workers, Dequeue(w) PROVE Stopped(q)'
  <2>1. /\ \/ /\ que[InQueue(w)] # << >>
              /\ que' = [que EXCEPT ![InQueue(w)] =
                           SubSeq(@, DequeueSize(InQueue(w)) + 1, Len(@))]
           \/ UNCHANGED que
        /\ UNCHANGED nTerminated
    BY <1>7, DequeueLemma
  <2> QED
    BY <1>0, <1>1, <2>1
<1>8. ASSUME NEW w \in Workers, Shutdown(w) PROVE Stopped(q)'
  <2> DEFINE r == <<Terminates(Stage(w)), qid(w)>>
  <2>1. /\ nTerminated' = [nTerminated EXCEPT ![r] = @ + 1] /\ UNCHANGED que /\ pc[w] = "drain"
    BY <1>8 DEF Shutdown
  <2>2. q # r
    <3>1. ~isTerminated(r)
      BY <2>1, TerminatesLemma, TerminatedLemma, WorkersLemma
    <3> QED
      BY <3>1 DEF Stopped
  <2> QED
    BY <1>0, <2>1, <2>2 DEF Stopped, isTerminated
<1>9. ASSUME NEW w \in Workers, Kernel(w) PROVE Stopped(q)'
  BY <1>1, <1>9 DEF Kernel, Refine, Deduplicate, Compress
<1>10. CASE ReorderDequeue
  <2>1. /\ \/ /\ que[<<"reorder", rqid>>] # << >>
              /\ que' = [que EXCEPT ![<<"reorder", rqid>>] =
                           SubSeq(@, DequeueSize(<<"reorder", rqid>>) + 1, Len(@))]
           \/ UNCHANGED que
        /\ UNCHANGED nTerminated
    BY <1>10, ReorderDequeueLemma
  <2> QED
    BY <1>0, <1>1, <2>1
<1>11. CASE ReorderTake \/ ReorderWrite \/ ReorderFlush
  BY <1>1, <1>11 DEF ReorderTake, ReorderWrite, ReorderFlush
<1>12. CASE UNCHANGED pipeVars
  BY <1>1, <1>12 DEF pipeVars
<1> QED
  BY <1>3, <1>4, <1>5, <1>6, <1>7, <1>8, <1>9, <1>10, <1>11, <1>12
     DEF Next, Step, FragmentStep, WorkerStep, ReorderStep, Finished, Standstill

(* What the steps do to Fragment, and to a worker.                            *)
LEMMA FragmentInvStep ==
    ASSUME TypeInv, FragmentInv, SendInv, [Next]_pipeVars
    PROVE  FragmentInv'
<1>0. nqueues \in Nat /\ nqueues > 0 /\ DOMAIN nTerminated = Queues
      /\ \A g \in Groups : <<"refine", g>> \in Queues
  BY GroupsLemma, AnchorPlacesLemma DEF TypeInv, QueueTypes
<1>1. CASE FragmentSend
  <2>1. fragQid \in Groups /\ fragQid' = (fragQid + 1) % nqueues /\ fragPc' = "read" /\ fragPc = "read"
        /\ UNCHANGED nTerminated
    BY <1>1 DEF FragmentSend, FragmentInv
  <2>2. fragQid' \in Groups
    BY <1>0, <2>1, NextIndexLemma DEF Groups
  <2> QED
    BY <2>1, <2>2 DEF FragmentInv
<1>2. CASE FragmentEnd
  <2>1. /\ fragPc' = "terminate" /\ fragQid' = 0 /\ fragPc = "read" /\ anchorcount \notin Anchors
        /\ UNCHANGED <<nTerminated, anchorcount>>
    BY <1>2 DEF FragmentEnd
  <2>2. anchorcount = Len(Input)
    BY <2>1, AnchorsLemma DEF TypeInv, FragmentTypes
  <2>3. \A g \in Groups : ~(g < 0)
    BY <1>0 DEF Groups
  <2> QED
    BY <2>1, <2>2, <2>3, WorkersLemma DEF FragmentInv
<1>3. CASE FragmentTerminate
  <2>1. /\ nTerminated' = [nTerminated EXCEPT ![<<"refine", fragQid>>] = @ + 1]
        /\ fragPc' = IF fragQid + 1 = nqueues THEN "done" ELSE "terminate"
        /\ fragQid' = fragQid + 1 /\ fragPc = "terminate" /\ UNCHANGED anchorcount
        /\ fragQid \in Groups
    BY <1>3 DEF FragmentTerminate, FragmentInv
  <2>2. fragPc' = "terminate" => fragQid' \in Groups
    BY <1>0, <2>1 DEF Groups
  <2>3. fragPc' = "done" => fragQid' = nqueues
    BY <2>1
  <2>4. ASSUME NEW g \in Groups
        PROVE  nTerminated'[<<"refine", g>>] = IF g < fragQid + 1 THEN 1 ELSE 0
    <3>1. nTerminated[<<"refine", g>>] = IF g < fragQid THEN 1 ELSE 0
      BY <2>1 DEF FragmentInv
    <3>2. g \in Nat /\ fragQid \in Nat
      BY <1>0, <2>1 DEF Groups
    <3>3. CASE g = fragQid
      BY <1>0, <2>1, <3>1, <3>2, <3>3
    <3>4. CASE g # fragQid
      BY <1>0, <2>1, <3>1, <3>2, <3>4
    <3> QED
      BY <3>3, <3>4
  <2> QED
    BY <2>1, <2>2, <2>3, <2>4 DEF FragmentInv
<1>4. ASSUME NEW w \in Workers, Shutdown(w) PROVE FragmentInv'
  <2>1. /\ nTerminated' = [nTerminated EXCEPT ![<<Terminates(Stage(w)), qid(w)>>] = @ + 1]
        /\ UNCHANGED fragVars
    BY <1>4 DEF Shutdown
  <2>2. Terminates(Stage(w)) # "refine"
    BY TerminatesLemma DEF ChunkStages
  <2>3. \A g \in Groups : nTerminated'[<<"refine", g>>] = nTerminated[<<"refine", g>>]
    BY <1>0, <2>1, <2>2
  <2> QED
    BY <2>1, <2>3 DEF FragmentInv, fragVars
<1>5. CASE UNCHANGED <<nTerminated, fragVars>>
  BY <1>5 DEF FragmentInv, fragVars
<1>6. ASSUME NEW w \in Workers, WorkerStep(w), ~Shutdown(w) PROVE UNCHANGED <<nTerminated, fragVars>>
  BY <1>6 DEF WorkerStep, Enqueue, Dequeue, Kernel, Refine, Deduplicate, Compress
<1>7. CASE ReorderStep
  BY <1>5, <1>7 DEF ReorderStep, ReorderDequeue, ReorderTake, ReorderWrite, ReorderFlush
<1>8. CASE UNCHANGED pipeVars
  BY <1>5, <1>8 DEF pipeVars
<1> QED
  BY <1>1, <1>2, <1>3, <1>4, <1>5, <1>6, <1>7, <1>8 DEF Next, Step, FragmentStep, Finished, Standstill

(* A worker's own step; the others stay as they are.                          *)
LEMMA WorkerFrame ==
    ASSUME TypeInv, HeadInv, SendInv, NEW w \in Workers, WorkerStep(w)
    PROVE  \A v \in Workers : v # w => pc'[v] = pc[v] /\ recv'[v] = recv[v] /\ send'[v] = send[v]
<1> SUFFICES ASSUME NEW v \in Workers, v # w
             PROVE  pc'[v] = pc[v] /\ recv'[v] = recv[v] /\ send'[v] = send[v]
  OBVIOUS
<1>0. /\ DOMAIN pc = Workers /\ DOMAIN recv = Workers /\ DOMAIN send = Workers
      /\ w = <<Stage(w), w[2]>> /\ w[2] \in Tids
  BY WorkersLemma DEF TypeInv, WorkTypes
<1>1. ASSUME NEW d \in Stages, Enqueue(w, d)
      PROVE  pc'[v] = pc[v] /\ recv'[v] = recv[v] /\ send'[v] = send[v]
  <2>1. UNCHANGED <<pc, recv>>
        /\ send' = [send EXCEPT ![w][d] = SubSeq(@, EnqueueSize(w, d) + 1, Len(@))]
    BY <1>1, EnqueueLemma
  <2> QED
    BY <1>0, <2>1
<1>2. CASE Dequeue(w)
  <2>1. /\ UNCHANGED send
        /\ recv' = recv \/ recv' = [recv EXCEPT ![w] = SubSeq(que[InQueue(w)], 1, DequeueSize(InQueue(w)))]
        /\ pc' = pc \/ pc' = [pc EXCEPT ![w] = "drain"]
    BY <1>2, DequeueLemma
  <2> QED
    BY <1>0, <2>1
<1>3. CASE Shutdown(w)
  BY <1>0, <1>3 DEF Shutdown
<1>4. CASE Kernel(w)
  <2>1. ASSUME Stage(w) = "refine", Refine(w[2])
        PROVE  pc'[v] = pc[v] /\ recv'[v] = recv[v] /\ send'[v] = send[v]
    <3>1. PICK t \in Tids : w = <<"refine", t>> /\ Refine(t)
      BY <1>0, <2>1
    <3>2. PICK c : send' = [send EXCEPT ![w]["dedup"] = Append(@, c)]
      BY <3>1, RefineLemma
    <3>3. UNCHANGED pc /\ (recv' = recv \/ recv' = [recv EXCEPT ![w] = Tail(@)])
      BY <3>1, RefineLemma
    <3> QED
      BY <1>0, <3>2, <3>3
  <2>2. ASSUME Stage(w) = "dedup", Deduplicate(w[2])
        PROVE  pc'[v] = pc[v] /\ recv'[v] = recv[v] /\ send'[v] = send[v]
    <3>1. PICK t \in Tids : w = <<"dedup", t>> /\ Deduplicate(t)
      BY <1>0, <2>2
    <3>2. PICK c, d : send' = [send EXCEPT ![w][d] = Append(@, c)]
      BY <3>1, DeduplicateLemma
    <3>3. UNCHANGED pc /\ recv' = [recv EXCEPT ![w] = Tail(@)]
      BY <3>1, DeduplicateLemma
    <3> QED
      BY <1>0, <3>2, <3>3
  <2>3. ASSUME Stage(w) = "compress", Compress(w[2])
        PROVE  pc'[v] = pc[v] /\ recv'[v] = recv[v] /\ send'[v] = send[v]
    <3>1. PICK t \in Tids : w = <<"compress", t>> /\ Compress(t)
      BY <1>0, <2>3
    <3>2. PICK c : send' = [send EXCEPT ![w]["reorder"] = Append(@, c)]
      BY <3>1, CompressLemma
    <3>3. UNCHANGED pc /\ recv' = [recv EXCEPT ![w] = Tail(@)]
      BY <3>1, CompressLemma
    <3> QED
      BY <1>0, <3>2, <3>3
  <2> QED
    BY <1>4, <2>1, <2>2, <2>3 DEF Kernel
<1> QED
  BY <1>1, <1>2, <1>3, <1>4 DEF WorkerStep

(* Sending respects the order of the stages.                                  *)
LEMMA SentTo ==
    ASSUME TypeInv, SendInv, NEW w \in Workers, NEW d \in Aims(Stage(w)), NEW longer,
           send' = [send EXCEPT ![w][d] = longer]
    PROVE  SendInv'
<1>0. DOMAIN send = Workers /\ \A v \in Workers : DOMAIN send[v] = Stages
  BY DEF TypeInv, WorkTypes
<1>1. ASSUME NEW v \in Workers, NEW e \in Stages, send'[v][e] # << >>
      PROVE  e \in Aims(Stage(v))
  <2>1. CASE v = w /\ e = d
    BY <2>1
  <2>2. CASE ~(v = w /\ e = d)
    <3>1. send'[v][e] = send[v][e]
      BY <1>0, <2>2
    <3> QED
      BY <1>1, <3>1 DEF SendInv
  <2> QED
    BY <2>1, <2>2
<1> QED
  BY <1>1 DEF SendInv

(* No stage fills a buffer for a queue it does not send to.                   *)
LEMMA SendInvStep ==
    ASSUME TypeInv, HeadInv, SendInv, [Next]_pipeVars
    PROVE  SendInv'
<1>1. CASE UNCHANGED send
  BY <1>1 DEF SendInv
<1>2. ASSUME NEW w \in Workers, NEW d \in Stages, Enqueue(w, d) PROVE SendInv'
  <2>1. PICK rest : rest = SubSeq(send[w][d], EnqueueSize(w, d) + 1, Len(send[w][d]))
    OBVIOUS
  <2>2. d \in Aims(Stage(w)) /\ send' = [send EXCEPT ![w][d] = rest]
    BY <1>2, <2>1, EnqueueLemma
  <2> QED
    BY <2>2, SentTo
<1>3. ASSUME NEW w \in Workers, Kernel(w) PROVE SendInv'
  <2>0. w = <<Stage(w), w[2]>> /\ w[2] \in Tids
    BY WorkersLemma
  <2>1. ASSUME Stage(w) = "refine", Refine(w[2]) PROVE SendInv'
    <3>1. PICK t \in Tids : w = <<"refine", t>> /\ Refine(t)
      BY <2>0, <2>1
    <3>2. PICK c : send' = [send EXCEPT ![w]["dedup"] = Append(@, c)]
      BY <3>1, RefineLemma
    <3>3. PICK longer : send' = [send EXCEPT ![w]["dedup"] = longer]
      BY <3>2
    <3>4. "dedup" \in Aims(Stage(w))
      BY <2>1 DEF Aims
    <3> QED
      BY <3>3, <3>4, SentTo
  <2>2. ASSUME Stage(w) = "dedup", Deduplicate(w[2]) PROVE SendInv'
    <3>1. PICK t \in Tids : w = <<"dedup", t>> /\ Deduplicate(t)
      BY <2>0, <2>2
    <3>2. PICK c, d : d = DedupDest(c) /\ send' = [send EXCEPT ![w][d] = Append(@, c)]
      BY <3>1, DeduplicateLemma
    <3>3. PICK longer : send' = [send EXCEPT ![w][d] = longer]
      BY <3>2
    <3>4. d \in Aims(Stage(w))
      BY <2>2, <3>2 DEF Aims, DedupDest
    <3> QED
      BY <3>3, <3>4, SentTo
  <2>3. ASSUME Stage(w) = "compress", Compress(w[2]) PROVE SendInv'
    <3>1. PICK t \in Tids : w = <<"compress", t>> /\ Compress(t)
      BY <2>0, <2>3
    <3>2. PICK c : send' = [send EXCEPT ![w]["reorder"] = Append(@, c)]
      BY <3>1, CompressLemma
    <3>3. PICK longer : send' = [send EXCEPT ![w]["reorder"] = longer]
      BY <3>2
    <3>4. "reorder" \in Aims(Stage(w))
      BY <2>3 DEF Aims
    <3> QED
      BY <3>3, <3>4, SentTo
  <2> QED
    BY <1>3, <2>1, <2>2, <2>3 DEF Kernel
<1>4. ASSUME NEW w \in Workers, Dequeue(w) \/ Shutdown(w) PROVE SendInv'
  BY <1>1, <1>4 DEF Dequeue, Shutdown
<1>5. CASE FragmentStep
  BY <1>1, <1>5 DEF FragmentStep, FragmentSend, FragmentEnd, FragmentTerminate, workVars
<1>6. CASE ReorderStep
  BY <1>1, <1>6 DEF ReorderStep, ReorderDequeue, ReorderTake, ReorderWrite, ReorderFlush, workVars
<1>7. CASE UNCHANGED pipeVars
  BY <1>1, <1>7 DEF pipeVars, workVars
<1> QED
  BY <1>2, <1>3, <1>4, <1>5, <1>6, <1>7 DEF Next, Step, WorkerStep, Finished, Standstill

(* A worker that has left its loop receives nothing more, and one that is     *)
(* done does nothing more.                                                    *)
LEMMA LeftTheLoop ==
    ASSUME TypeInv, HeadInv, SendInv, [Next]_pipeVars, NEW w \in Workers, pc[w] # "work"
    PROVE  /\ recv'[w] = recv[w] /\ pc'[w] # "work"
           /\ pc[w] = "done" => pc'[w] = "done"
           /\ pc[w] = "done" /\ (\A d \in Stages : send[w][d] = << >>) => send'[w] = send[w]
           /\ pc'[w] = "done" /\ pc[w] # "done" => \A d \in Stages : send'[w][d] = << >>
<1> DEFINE G == /\ recv'[w] = recv[w] /\ pc'[w] # "work"
                /\ pc[w] = "done" => pc'[w] = "done"
                /\ pc[w] = "done" /\ (\A d \in Stages : send[w][d] = << >>) => send'[w] = send[w]
                /\ pc'[w] = "done" /\ pc[w] # "done" => \A d \in Stages : send'[w][d] = << >>
<1>0. DOMAIN pc = Workers
  BY DEF TypeInv, WorkTypes
<1>1. CASE UNCHANGED <<pc, recv, send>>
  BY <1>1
<1>2. ASSUME NEW v \in Workers, WorkerStep(v) PROVE G
  <2>1. CASE v # w
    <3>1. pc'[w] = pc[w] /\ recv'[w] = recv[w] /\ send'[w] = send[w]
      BY <1>2, <2>1, WorkerFrame
    <3> QED
      BY <3>1
  <2>2. CASE v = w
    <3>1. ASSUME NEW d \in Stages, Enqueue(w, d) PROVE G
      <4>1. UNCHANGED <<pc, recv>> /\ pc[w] # "done"
        BY <3>1 DEF Enqueue, MustEnqueue
      <4> QED
        BY <4>1
    <3>2. ~Dequeue(w)
      BY DequeueLemma
    <3>3. ASSUME Shutdown(w) PROVE G
      <4>1. /\ pc[w] = "drain" /\ pc' = [pc EXCEPT ![w] = "done"] /\ UNCHANGED <<recv, send>>
            /\ \A d \in Stages : send[w][d] = << >>
        BY <3>3 DEF Shutdown
      <4> QED
        BY <1>0, <4>1
    <3>4. ~Kernel(w)
      <4>1. w = <<Stage(w), w[2]>> /\ w[2] \in Tids
        BY WorkersLemma
      <4>2. Stage(w) = "refine" => ~Refine(w[2])
        BY <4>1, RefineLemma
      <4>3. Stage(w) = "dedup" => ~Deduplicate(w[2])
        BY <4>1, DeduplicateLemma
      <4>4. Stage(w) = "compress" => ~Compress(w[2])
        BY <4>1, CompressLemma
      <4> QED
        BY <4>2, <4>3, <4>4 DEF Kernel
    <3> QED
      BY <1>2, <2>2, <3>1, <3>2, <3>3, <3>4 DEF WorkerStep
  <2> QED
    BY <2>1, <2>2
<1>3. CASE FragmentStep
  BY <1>1, <1>3 DEF FragmentStep, FragmentSend, FragmentEnd, FragmentTerminate, workVars
<1>4. CASE ReorderStep
  BY <1>1, <1>4 DEF ReorderStep, ReorderDequeue, ReorderTake, ReorderWrite, ReorderFlush, workVars
<1>5. CASE UNCHANGED pipeVars
  BY <1>1, <1>5 DEF pipeVars, workVars
<1> QED
  BY <1>2, <1>3, <1>4, <1>5 DEF Next, Step, Finished, Standstill

(* A worker leaves its loop when its queue is empty and terminated.           *)
LEMMA LeavesTheLoop ==
    ASSUME TypeInv, HeadInv, SendInv, [Next]_pipeVars, NEW w \in Workers,
           pc[w] = "work", pc'[w] # "work"
    PROVE  recv'[w] = << >> /\ Stopped(InQueue(w)) /\ pc'[w] = "drain"
<1>0. DOMAIN pc = Workers
  BY DEF TypeInv, WorkTypes
<1>1. ASSUME NEW v \in Workers, WorkerStep(v)
      PROVE  recv'[w] = << >> /\ Stopped(InQueue(w)) /\ pc'[w] = "drain"
  <2>1. v = w
    BY <1>1, WorkerFrame
  <2>2. \A d \in Stages : ~Enqueue(w, d)
    BY DEF Enqueue
  <2>3. ~Shutdown(w)
    BY DEF Shutdown
  <2>4. ~Kernel(w)
    BY DEF Kernel, Refine, Deduplicate, Compress
  <2>5. Dequeue(w)
    BY <1>1, <2>1, <2>2, <2>3, <2>4 DEF WorkerStep
  <2>6. /\ que[InQueue(w)] = << >> /\ isTerminated(InQueue(w)) /\ recv[w] = << >>
        /\ pc' = [pc EXCEPT ![w] = "drain"] /\ UNCHANGED recv
    BY <2>5, DequeueLemma
  <2> QED
    BY <1>0, <2>6 DEF Stopped
<1>2. ~FragmentStep
  BY DEF FragmentStep, FragmentSend, FragmentEnd, FragmentTerminate, workVars
<1>3. ~ReorderStep
  BY DEF ReorderStep, ReorderDequeue, ReorderTake, ReorderWrite, ReorderFlush, workVars
<1>4. ~UNCHANGED pipeVars
  BY DEF pipeVars, workVars
<1> QED
  BY <1>1, <1>2, <1>3, <1>4 DEF Next, Step, Finished, Standstill

(* Terminating the next queue is what makes a thread done.                    *)
LEMMA CountStep ==
    ASSUME TypeInv, HeadInv, SendInv, FragmentInv, ShutdownInv, [Next]_pipeVars,
           NEW q \in ChunkStages \X Groups
    PROVE  nTerminated'[q] = Cardinality(DoneOf(q)')
<1>0. /\ DOMAIN pc = Workers /\ DOMAIN nTerminated = Queues /\ q \in Queues
      /\ q = <<q[1], q[2]>> /\ q[1] \in ChunkStages /\ q[2] \in Groups /\ q[1] # "refine"
      /\ nTerminated[q] = Cardinality(DoneOf(q)) /\ nTerminated[q] \in Nat
  BY DEF TypeInv, WorkTypes, QueueTypes, ChunkStages, Queues, Stages, Pools, ShutdownInv
<1>1. IsFiniteSet(DoneOf(q))
  <2>1. PICK s \in ChunkStages, g \in Groups : q = <<s, g>>
    BY <1>0
  <2> QED
    BY <2>1, TerminatedLemma
<1>2. DoneOf(q)' = {w \in ProducersOf(q) : pc'[w] = "done"}
  BY DEF DoneOf, ProducersOf
<1>3. CASE UNCHANGED <<pc, nTerminated>>
  BY <1>0, <1>2, <1>3 DEF DoneOf
<1>4. ASSUME NEW w \in Workers, Shutdown(w) PROVE nTerminated'[q] = Cardinality(DoneOf(q)')
  <2> DEFINE r == <<Terminates(Stage(w)), qid(w)>>
  <2>1. /\ pc[w] = "drain" /\ pc' = [pc EXCEPT ![w] = "done"]
        /\ nTerminated' = [nTerminated EXCEPT ![r] = @ + 1]
    BY <1>4 DEF Shutdown
  <2>2. ProducersOf(q) \subseteq Workers
    BY DEF ProducersOf
  <2>3. CASE q = r
    <3>1. w \in ProducersOf(q)
      BY <2>3, TerminatesLemma
    <3>2. w \notin DoneOf(q)
      BY <2>1 DEF DoneOf
    <3>3. DoneOf(q)' = DoneOf(q) \cup {w}
      BY <1>0, <1>2, <2>1, <2>2, <3>1 DEF DoneOf
    <3>4. Cardinality(DoneOf(q) \cup {w}) = Cardinality(DoneOf(q)) + 1
      BY <1>1, <3>2, FS_AddElement
    <3>5. nTerminated'[q] = nTerminated[q] + 1
      BY <1>0, <2>1, <2>3
    <3> QED
      BY <1>0, <3>3, <3>4, <3>5
  <2>4. CASE q # r
    <3>1. w \notin ProducersOf(q)
      BY <1>0, <2>4 DEF ProducersOf
    <3>2. DoneOf(q)' = DoneOf(q)
      BY <1>0, <1>2, <2>1, <2>2, <3>1 DEF DoneOf
    <3>3. nTerminated'[q] = nTerminated[q]
      BY <1>0, <2>1, <2>4
    <3> QED
      BY <1>0, <3>2, <3>3
  <2> QED
    BY <2>3, <2>4
<1>5. ASSUME NEW w \in Workers, Dequeue(w) PROVE nTerminated'[q] = Cardinality(DoneOf(q)')
  <2>1. /\ UNCHANGED nTerminated /\ pc[w] = "work"
        /\ pc' = pc \/ pc' = [pc EXCEPT ![w] = "drain"]
    BY <1>5, DequeueLemma
  <2>2. ProducersOf(q) \subseteq Workers
    BY DEF ProducersOf
  <2>3. DoneOf(q)' = DoneOf(q)
    BY <1>0, <1>2, <2>1, <2>2 DEF DoneOf
  <2> QED
    BY <1>0, <2>1, <2>3
<1>6. CASE FragmentTerminate
  <2>1. /\ nTerminated' = [nTerminated EXCEPT ![<<"refine", fragQid>>] = @ + 1]
        /\ UNCHANGED pc
    BY <1>6 DEF FragmentTerminate, workVars
  <2>2. nTerminated'[q] = nTerminated[q]
    BY <1>0, <2>1
  <2>3. DoneOf(q)' = DoneOf(q)
    BY <1>2, <2>1 DEF DoneOf
  <2> QED
    BY <1>0, <2>2, <2>3
<1>7. CASE FragmentSend \/ FragmentEnd
  BY <1>3, <1>7 DEF FragmentSend, FragmentEnd, workVars
<1>8. ASSUME NEW w \in Workers, (\E d \in Stages : Enqueue(w, d)) \/ Kernel(w)
      PROVE  UNCHANGED <<pc, nTerminated>>
  BY <1>8 DEF Enqueue, Kernel, Refine, Deduplicate, Compress
<1>9. CASE ReorderStep
  BY <1>3, <1>9 DEF ReorderStep, ReorderDequeue, ReorderTake, ReorderWrite, ReorderFlush, workVars
<1>10. CASE UNCHANGED pipeVars
  BY <1>3, <1>10 DEF pipeVars, workVars
<1> QED
  BY <1>3, <1>4, <1>5, <1>6, <1>7, <1>8, <1>9, <1>10
     DEF Next, Step, FragmentStep, WorkerStep, Finished, Standstill

(* Every step keeps ShutdownInv.                                              *)
LEMMA ShutdownStep ==
    ASSUME TypeInv, HeadInv, SendInv, FragmentInv, ShutdownInv, [Next]_pipeVars
    PROVE  ShutdownInv'
<1>1. \A q \in ChunkStages \X Groups : nTerminated'[q] = Cardinality(DoneOf(q)')
  BY CountStep
<1>2. ASSUME NEW w \in Workers, pc'[w] # "work"
      PROVE  recv'[w] = << >> /\ Stopped(InQueue(w))'
  <2>1. recv'[w] = << >> /\ Stopped(InQueue(w))
    <3>1. CASE pc[w] = "work"
      BY <1>2, <3>1, LeavesTheLoop
    <3>2. CASE pc[w] # "work"
      BY <3>2, LeftTheLoop DEF ShutdownInv, Stopped
    <3> QED
      BY <3>1, <3>2
  <2>2. PICK q \in Queues : q = InQueue(w)
    BY WorkersLemma
  <2>3. Stopped(q)'
    BY <2>1, <2>2, StoppedStays
  <2> QED
    BY <2>1, <2>2, <2>3 DEF InQueue, qid, Stage
<1>3. ASSUME NEW w \in Workers, pc'[w] = "done"
      PROVE  \A d \in Stages : send'[w][d] = << >>
  <2>1. CASE pc[w] = "done"
    BY <2>1, LeftTheLoop DEF ShutdownInv
  <2>2. CASE pc[w] = "work"
    BY <1>3, <2>2, LeavesTheLoop
  <2>3. CASE pc[w] # "done" /\ pc[w] # "work"
    BY <1>3, <2>3, LeftTheLoop
  <2> QED
    BY <2>1, <2>2, <2>3
<1>4. \A w \in Workers : pc'[w] # "work" => que'[InQueue(w)] = << >> /\ isTerminated(InQueue(w))'
  BY <1>2 DEF Stopped, InQueue, qid, Stage
<1> QED
  BY <1>1, <1>2, <1>3, <1>4 DEF ShutdownInv

(* Reorder takes the reorder queues in turn and counts those that said -1 in  *)
(* a row: they are the last `tried' ones before rqid, and as a queue that is  *)
(* empty and terminated stays so, all of them are closed when it leaves.      *)
Dist(g) == IF g < rqid THEN rqid - 1 - g ELSE rqid - 1 - g + nqueues
TurnInv == \A g \in Groups : (Dist(g) < tried \/ rpc \in {"flush", "done"}) => Stopped(<<"reorder", g>>)

(* A turn of the round-robin loop moves every queue one further back.         *)
LEMMA DistLemma ==
    ASSUME NEW n \in Nat, NEW r \in 0 .. n - 1, NEW g \in 0 .. n - 1, NEW d,
           d = IF g < r THEN r - 1 - g ELSE r - 1 - g + n,
           NEW r2, r2 = IF r + 1 = n THEN 0 ELSE r + 1,
           NEW d2, d2 = IF g < r2 THEN r2 - 1 - g ELSE r2 - 1 - g + n
    PROVE  /\ d \in 0 .. n - 1 /\ d2 \in 0 .. n - 1
           /\ g # r => d2 = d + 1
OBVIOUS

(* A closed queue joins those that were closed in a row.                      *)
LEMMA ClosedInARow ==
    ASSUME TypeInv, TurnInv, ReorderDequeue, que[<<"reorder", rqid>>] = << >>,
           NEW g \in Groups, Dist(g)' < tried' \/ rpc' = "flush"
    PROVE  Stopped(<<"reorder", g>>)
<1>0. nqueues \in Nat /\ Groups = 0 .. nqueues - 1
  BY GroupsLemma DEF Groups
<1>1. /\ rqid \in Groups /\ tried \in Groups /\ isTerminated(<<"reorder", rqid>>)
      /\ rqid' = (IF rqid + 1 = nqueues THEN 0 ELSE rqid + 1)
      /\ tried' = (IF tried + 1 = nqueues THEN 0 ELSE tried + 1)
      /\ rpc' = IF tried + 1 = nqueues THEN "flush" ELSE "fetch"
  BY ReorderDequeueLemma
<1>2. CASE g = rqid
  BY <1>1, <1>2 DEF Stopped
<1>3. CASE g # rqid
  <2>1. PICK d, d2 : d = Dist(g) /\ d2 = Dist(g)'
    OBVIOUS
  <2>2. d2 = IF g < rqid' THEN rqid' - 1 - g ELSE rqid' - 1 - g + nqueues
    BY <2>1 DEF Dist
  <2>3. d \in 0 .. nqueues - 1 /\ d2 \in 0 .. nqueues - 1 /\ d2 = d + 1
    BY <1>0, <1>1, <1>3, <2>1, <2>2, DistLemma DEF Dist
  <2>4. d < tried
    <3>1. CASE tried + 1 = nqueues
      BY <1>0, <1>1, <2>3, <3>1
    <3>2. CASE tried + 1 # nqueues
      BY <1>0, <1>1, <2>1, <2>3, <3>2
    <3> QED
      BY <3>1, <3>2
  <2> QED
    BY <2>1, <2>4 DEF TurnInv
<1> QED
  BY <1>2, <1>3

(* Every step keeps TurnInv.                                                  *)
LEMMA TurnStep ==
    ASSUME TypeInv, FragmentInv, SendInv, ShutdownInv, ReorderPc, TurnInv, [Next]_pipeVars
    PROVE  TurnInv'
<1> SUFFICES ASSUME NEW g \in Groups, Dist(g)' < tried' \/ rpc' \in {"flush", "done"}
             PROVE  Stopped(<<"reorder", g>>)'
  BY DEF TurnInv
<1>0. <<"reorder", g>> \in Queues
  BY DEF Queues, Stages
<1>1. CASE UNCHANGED <<rqid, tried>> /\ (rpc' \in {"flush", "done"} => rpc \in {"flush", "done"})
  <2>1. Dist(g)' = Dist(g)
    BY <1>1 DEF Dist
  <2>2. Stopped(<<"reorder", g>>)
    BY <1>1, <2>1 DEF TurnInv
  <2> QED
    BY <1>0, <2>2, StoppedStays
<1>2. CASE ReorderDequeue
  <2>1. CASE que[<<"reorder", rqid>>] = << >>
    <3>1. rpc' # "done"
      BY <1>2, <2>1, ReorderDequeueLemma
    <3>2. Stopped(<<"reorder", g>>)
      BY <1>2, <2>1, <3>1, ClosedInARow
    <3> QED
      BY <1>0, <3>2, StoppedStays
  <2>2. CASE que[<<"reorder", rqid>>] # << >>
    <3>1. /\ tried' = 0 /\ rpc' = "take" /\ rqid \in Groups
          /\ rqid' = (IF rqid + 1 = nqueues THEN 0 ELSE rqid + 1)
      BY <1>2, <2>2, ReorderDequeueLemma
    <3>2. PICK d2 : d2 = Dist(g)'
      OBVIOUS
    <3>3. d2 = IF g < rqid' THEN rqid' - 1 - g ELSE rqid' - 1 - g + nqueues
      BY <3>2 DEF Dist
    <3>4. nqueues \in Nat /\ Groups = 0 .. nqueues - 1
      BY GroupsLemma DEF Groups
    <3>5. d2 \in 0 .. nqueues - 1
      BY <3>1, <3>3, <3>4
    <3> QED
      BY <3>1, <3>2, <3>5
  <2> QED
    BY <2>1, <2>2
<1>3. CASE ReorderTake
  BY <1>1, <1>3 DEF ReorderTake, Continue
<1>4. CASE ReorderWrite
  <2>1. UNCHANGED <<rqid, tried>> /\ rpc' \notin {"flush", "done"}
    BY <1>4 DEF ReorderWrite, Continue, ReorderPc
  <2> QED
    BY <1>1, <2>1
<1>5. CASE ReorderFlush
  BY <1>1, <1>5 DEF ReorderFlush
<1>6. CASE FragmentStep
  BY <1>1, <1>6 DEF FragmentStep, FragmentSend, FragmentEnd, FragmentTerminate, reorderVars
<1>7. ASSUME NEW w \in Workers, WorkerStep(w) PROVE UNCHANGED reorderVars
  BY <1>7 DEF WorkerStep, Enqueue, Dequeue, Shutdown, Kernel, Refine, Deduplicate, Compress
<1>8. CASE UNCHANGED pipeVars
  BY <1>1, <1>8 DEF pipeVars, reorderVars
<1> QED
  BY <1>1, <1>2, <1>3, <1>4, <1>5, <1>6, <1>7, <1>8
     DEF Next, Step, ReorderStep, Finished, Standstill, reorderVars

(* When every queue of a stage is empty and terminated, so is all behind it.  *)
LEMMA AllBehind ==
    ASSUME SendInv, ShutdownInv, NEW s \in ChunkStages, \A g \in Groups : Stopped(<<s, g>>)
    PROVE  /\ \A w \in Workers : Stage(w) = Feeder(s) =>
                recv[w] = << >> /\ \A d \in Stages : send[w][d] = << >>
           /\ \A g \in Groups : Stopped(<<Feeder(s), g>>)
<1>1. ASSUME NEW w \in Workers, Stage(w) = Feeder(s) PROVE pc[w] = "done"
  <2>1. qid(w) \in Groups /\ w \in ProducersOf(<<s, qid(w)>>)
    BY <1>1, WorkersLemma, ProducersLemma
  <2> QED
    BY <2>1, TerminatedLemma DEF Stopped
<1>2. ASSUME NEW g \in Groups PROVE Stopped(<<Feeder(s), g>>)
  <2>1. PICK w \in ProducersOf(<<s, g>>) : TRUE
    BY ProducersLemma
  <2>2. w \in Workers /\ Stage(w) = Feeder(s) /\ qid(w) = g
    BY <2>1, ProducersLemma
  <2>3. que[InQueue(w)] = << >> /\ isTerminated(InQueue(w))
    BY <1>1, <2>2 DEF ShutdownInv
  <2> QED
    BY <2>2, <2>3 DEF Stopped, InQueue
<1> QED
  BY <1>1, <1>2 DEF ShutdownInv

(* Where every line is empty no chunk is bound for a stage.                   *)
LEMMA EmptyLines ==
    ASSUME NEW L, NEW Q, \A p \in Q : L[p] = << >>
    PROVE  Among(L, Q) = {}
BY DEF Among, In

(* When Reorder has found all of its queues closed there is nothing under way *)
(* in the pipeline, and nothing to come.                                      *)
LEMMA NothingUnderWay ==
    ASSUME TypeInv, FragmentInv, SendInv, ShutdownInv, \A g \in Groups : Stopped(<<"reorder", g>>),
           rrecv = << >>
    PROVE  ForDedup = {} /\ ForCompress = {} /\ ForReorder = {} /\ Uncut = {}
<1>1. /\ \A w \in Workers : Stage(w) = "compress" =>
           recv[w] = << >> /\ \A d \in Stages : send[w][d] = << >>
      /\ \A g \in Groups : Stopped(<<"compress", g>>)
  <2>1. "reorder" \in ChunkStages /\ Feeder("reorder") = "compress"
    BY DEF ChunkStages, Feeder
  <2> QED
    BY <2>1, AllBehind
<1>2. /\ \A w \in Workers : Stage(w) = "dedup" =>
           recv[w] = << >> /\ \A d \in Stages : send[w][d] = << >>
      /\ \A g \in Groups : Stopped(<<"dedup", g>>)
  <2>1. "compress" \in ChunkStages /\ Feeder("compress") = "dedup"
    BY DEF ChunkStages, Feeder
  <2> QED
    BY <1>1, <2>1, AllBehind
<1>3. /\ \A w \in Workers : Stage(w) = "refine" =>
           recv[w] = << >> /\ \A d \in Stages : send[w][d] = << >>
      /\ \A g \in Groups : Stopped(<<"refine", g>>)
  <2>1. "dedup" \in ChunkStages /\ Feeder("dedup") = "refine"
    BY DEF ChunkStages, Feeder
  <2> QED
    BY <1>2, <2>1, AllBehind
<1>4. \A w \in Workers : recv[w] = << >> /\ \A d \in Stages : send[w][d] = << >>
  BY <1>1, <1>2, <1>3, WorkersLemma DEF Pools
<1>5. \A s \in Stages, g \in Groups : que[<<s, g>>] = << >>
  BY <1>1, <1>2, <1>3 DEF Stages, Pools, Stopped
<1>6. \A p \in ChunkPlaces : ChunkLines[p] = << >>
  <2>1. ChunkStages \subseteq Stages
    BY DEF ChunkStages, Stages, Pools
  <2>2. \A s \in {"dedup", "compress"}, t \in Tids : recv[<<s, t>>] = << >>
    BY <1>4, ReceivedPlace
  <2>3. ASSUME NEW p \in ChunkPlaces, NEW s \in ChunkStages, NEW g \in Groups, p = Queued(<<s, g>>)
        PROVE  ChunkLines[p] = << >>
    BY <1>5, <2>1, <2>3, LineOf
  <2>4. ASSUME NEW p \in ChunkPlaces, NEW s \in {"dedup", "compress"}, NEW t \in Tids,
               p = Received(<<s, t>>)
        PROVE  ChunkLines[p] = << >>
    BY <2>2, <2>4, LineOf
  <2>5. ASSUME NEW p \in ChunkPlaces, NEW w \in Workers, NEW d \in ChunkStages, p = Outgoing(w, d)
        PROVE  ChunkLines[p] = << >>
    BY <1>4, <2>1, <2>5, LineOf
  <2>6. ChunkLines[ReorderBuffer] = << >>
    BY LineOf
  <2> QED
    BY <2>3, <2>4, <2>5, <2>6, PlacesAre
<1>7. ForDedup = {} /\ ForCompress = {} /\ ForReorder = {}
  <2>1. \A s : BoundFor(s) \subseteq ChunkPlaces
    BY DEF BoundFor
  <2> QED
    BY <1>6, <2>1, EmptyLines DEF ForDedup, ForCompress, ForReorder
<1>8. QueuedAnchors = {}
  <2>1. \A p \in AnchorPlaces : AnchorLines[p] = << >>
    BY <1>4, <1>5, AnchorPlacesLemma DEF Stages, Pools
  <2> QED
    BY <2>1, EmptyLines DEF QueuedAnchors
<1>9. anchorcount = Len(Input)
  <2>1. 0 \in Groups /\ nTerminated[<<"refine", 0>>] = 1
    BY <1>3, WorkersLemma DEF Stopped, isTerminated, nProducers
  <2> QED
    BY <2>1 DEF FragmentInv
<1>10. Uncut = {}
  <2>1. \A c \in Chunks : ~(c[1] >= Len(Input))
    BY ChunksLemma, AnchorsLemma
  <2> QED
    BY <1>8, <1>9, <2>1 DEF Uncut, Unrefined
<1> QED
  BY <1>7, <1>10

(* Once every chunk has arrived, Reorder has written every chunk.             *)
LEMMA NothingLeft ==
    ASSUME TypeInv, FragmentInv, SendInv, ShutdownInv, ChunkInv, SequenceInv,
           \A g \in Groups : Stopped(<<"reorder", g>>), rpc = "fetch"
    PROVE  T = {} /\ next \notin Chunks
<1>1. rrecv = << >> /\ inHand = NoChunk /\ next \in Chunks \cup {End}
  BY DEF SequenceInv, ReorderPc
<1>2. Chunks = Arrived
  BY <1>1, NothingUnderWay DEF ChunkInv
<1>3. next \notin Chunks
  <2>1. ASSUME next \in Chunks PROVE FALSE
    <3>1. next \in T \/ next = NoChunk \/ Before(next, next)
      BY <1>1, <1>2, <2>1 DEF Arrived
    <3> QED
      BY <2>1, <3>1, ChunksLemma, OrderLemma DEF SequenceInv
  <2> QED
    BY <2>1
<1>4. next = End
  BY <1>1, <1>3
<1>5. T = {}
  BY <1>4, OrderLemma DEF SequenceInv, TypeInv, ReorderTypes
<1> QED
  BY <1>3, <1>5

(* Every step keeps EndInv.                                                   *)
LEMMA EndStep ==
    ASSUME TypeInv, FragmentInv, SendInv, ShutdownInv, AnchorInv, ChunkInv, SequenceInv, TurnInv,
           EndInv, [Next]_pipeVars
    PROVE  EndInv'
<1>0. ReorderPc
  BY DEF SequenceInv
<1>1. CASE UNCHANGED <<rpc, T, next>>
  BY <1>1 DEF EndInv
<1>2. CASE ReorderDequeue
  <2>1. rpc = "fetch" /\ UNCHANGED <<T, next>> /\ rpc' # "done"
    BY <1>2, ReorderDequeueLemma
  <2>2. CASE rpc' = "flush"
    <3>1. que[<<"reorder", rqid>>] = << >>
      BY <1>2, <2>2, ReorderDequeueLemma
    <3>2. \A g \in Groups : Stopped(<<"reorder", g>>)
      BY <1>2, <2>2, <3>1, ClosedInARow
    <3>3. T = {} /\ next \notin Chunks
      BY <2>1, <3>2, NothingLeft
    <3> QED
      BY <2>1, <3>3 DEF EndInv
  <2> QED
    BY <2>1, <2>2 DEF EndInv
<1>3. CASE ReorderTake
  <2>1. rpc' \notin {"flush", "done"}
    BY <1>3 DEF ReorderTake, Continue
  <2> QED
    BY <2>1 DEF EndInv
<1>4. CASE ReorderWrite
  <2>1. rpc' \notin {"flush", "done"}
    BY <1>0, <1>4 DEF ReorderWrite, Continue, ReorderPc
  <2> QED
    BY <2>1 DEF EndInv
<1>5. CASE ReorderFlush
  <2>1. rpc = "flush" /\ UNCHANGED <<T, next>>
    BY <1>5, FlushFlow DEF ReorderFlush
  <2> QED
    BY <2>1 DEF EndInv
<1>6. CASE FragmentStep
  BY <1>1, <1>6 DEF FragmentStep, FragmentSend, FragmentEnd, FragmentTerminate, reorderVars
<1>7. ASSUME NEW w \in Workers, WorkerStep(w) PROVE UNCHANGED <<reorderVars, next>>
  BY <1>7 DEF WorkerStep, Enqueue, Dequeue, Shutdown, Kernel, Refine, Deduplicate, Compress
<1>8. CASE UNCHANGED pipeVars
  BY <1>1, <1>8 DEF pipeVars, reorderVars
<1> QED
  BY <1>1, <1>2, <1>3, <1>4, <1>5, <1>6, <1>7, <1>8
     DEF Next, Step, ReorderStep, Finished, Standstill, reorderVars

-----------------------------------------------------------------------------
(* What the threads do to each other's work, all together.                    *)
ControlInv ==
    /\ TypeInv /\ FragmentInv /\ SendInv /\ AnchorInv /\ ChunkInv /\ SequenceInv
    /\ ShutdownInv /\ TurnInv /\ EndInv

(* Every step keeps the part of the invariant that is about control.          *)
LEMMA ControlStep ==
    ASSUME ControlInv, [Next]_pipeVars
    PROVE  ControlInv'
<1>0. HeadInv /\ ReorderPc
  BY DEF ControlInv, AnchorInv, SequenceInv
<1>1. TypeInv' /\ FragmentInv' /\ SendInv'
  BY <1>0, TypeStep, FragmentInvStep, SendInvStep DEF ControlInv
<1>2. AnchorInv' /\ ChunkInv' /\ SequenceInv'
  BY FlowStep DEF ControlInv
<1>3. ShutdownInv' /\ TurnInv' /\ EndInv'
  BY <1>0, ShutdownStep, TurnStep, EndStep DEF ControlInv
<1> QED
  BY <1>1, <1>2, <1>3 DEF ControlInv

(* It holds at the start.                                                     *)
LEMMA ControlInit ==
    ASSUME Init
    PROVE  ControlInv
<1>0. TypeInv
  BY InitTypes
<1>1. /\ \A q \in Queues : que[q] = << >> /\ nTerminated[q] = 0
      /\ fragPc = "read" /\ anchorcount = 0 /\ fragQid = 0
      /\ \A w \in Workers : pc[w] = "work" /\ recv[w] = << >> /\ \A d \in Stages : send[w][d] = << >>
      /\ \A t \in Tids : chcount[t] = 0
      /\ rpc = "fetch" /\ rqid = 0 /\ tried = 0 /\ rrecv = << >> /\ inHand = NoChunk
      /\ \A a \in Anchors : chunks_per_anchor[a] = 0
      /\ T = {} /\ next = First
  BY DEF Init
<1>2. 0 \in Groups /\ \A s \in Stages, g \in Groups : <<s, g>> \in Queues
  BY WorkersLemma DEF Queues
<1>3. FragmentInv
  <2>1. \A g \in Groups : nTerminated[<<"refine", g>>] = 0
    BY <1>1, <1>2 DEF Stages, Pools
  <2> QED
    BY <1>1, <1>2, <2>1 DEF FragmentInv
<1>4. SendInv
  BY <1>1 DEF SendInv
<1>5. /\ \A p \in ChunkPlaces : ChunkLines[p] = << >>
      /\ \A p \in AnchorPlaces : AnchorLines[p] = << >>
  <2>1. ChunkStages \subseteq Stages
    BY DEF ChunkStages, Stages, Pools
  <2>2. \A s \in ChunkStages, g \in Groups : que[<<s, g>>] = << >>
    BY <1>1, <1>2, <2>1
  <2>3. ASSUME NEW p \in ChunkPlaces, NEW s \in ChunkStages, NEW g \in Groups, p = Queued(<<s, g>>)
        PROVE  ChunkLines[p] = << >>
    BY <2>2, <2>3, LineOf
  <2>4. ASSUME NEW p \in ChunkPlaces, NEW s \in {"dedup", "compress"}, NEW t \in Tids,
               p = Received(<<s, t>>)
        PROVE  ChunkLines[p] = << >>
    BY <1>1, <2>4, LineOf, ReceivedPlace
  <2>5. ASSUME NEW p \in ChunkPlaces, NEW w \in Workers, NEW d \in ChunkStages, p = Outgoing(w, d)
        PROVE  ChunkLines[p] = << >>
    BY <1>1, <2>1, <2>5, LineOf
  <2>6. ChunkLines[ReorderBuffer] = << >>
    BY <1>1, LineOf
  <2>7. \A p \in ChunkPlaces : ChunkLines[p] = << >>
    BY <2>3, <2>4, <2>5, <2>6, PlacesAre
  <2>8. \A p \in AnchorPlaces : AnchorLines[p] = << >>
    BY <1>1, AnchorPlacesLemma
  <2> QED
    BY <2>7, <2>8
<1>6. /\ ForDedup = {} /\ ForCompress = {} /\ ForReorder = {} /\ QueuedAnchors = {}
      /\ OnceIn(ChunkPlaces, ChunkLines) /\ OnceIn(AnchorPlaces, AnchorLines)
  <2>1. \A s : BoundFor(s) \subseteq ChunkPlaces
    BY DEF BoundFor
  <2>2. ForDedup = {} /\ ForCompress = {} /\ ForReorder = {} /\ QueuedAnchors = {}
    BY <1>5, <2>1, EmptyLines DEF ForDedup, ForCompress, ForReorder, QueuedAnchors
  <2> QED
    BY <1>5, <2>2 DEF OnceIn
<1>7. AnchorInv
  <2>1. HeadInv
    BY <1>1, AnchorPlacesLemma DEF HeadInv
  <2> QED
    BY <1>6, <2>1 DEF AnchorInv
<1>8. Arrived = {}
  BY <1>1, FirstLemma, ChunksLemma DEF Arrived
<1>9. Uncut = Chunks
  <2>1. \A c \in Chunks : c[1] >= 0
    BY ChunksLemma
  <2> QED
    BY <1>1, <2>1 DEF Uncut, Unrefined
<1>10. ChunkInv
  BY <1>6, <1>8, <1>9 DEF ChunkInv
<1>11. SequenceInv
  BY <1>1, <1>8, FirstLemma DEF SequenceInv, ReorderPc
<1>12. ShutdownInv
  <2>1. ASSUME NEW q \in ChunkStages \X Groups PROVE nTerminated[q] = Cardinality(DoneOf(q))
    <3>1. DoneOf(q) = {}
      BY <1>1 DEF DoneOf, ProducersOf
    <3>2. q \in Queues
      BY DEF Queues, ChunkStages, Stages, Pools
    <3> QED
      BY <1>1, <3>1, <3>2, FS_EmptySet
  <2> QED
    BY <1>1, <2>1 DEF ShutdownInv
<1>13. TurnInv
  <2>1. ASSUME NEW g \in Groups PROVE ~(Dist(g) < 0)
    <3>1. nqueues \in Nat /\ g \in 0 .. nqueues - 1
      BY GroupsLemma DEF Groups
    <3> QED
      BY <1>1, <3>1 DEF Dist
  <2> QED
    BY <1>1, <2>1 DEF TurnInv
<1>14. EndInv
  BY <1>1 DEF EndInv
<1> QED
  BY <1>0, <1>3, <1>4, <1>7, <1>10, <1>11, <1>12, <1>13, <1>14 DEF ControlInv

(* Most steps move no chunk on to the next stage and change no chunk.         *)
LEMMA QuietSteps ==
    ASSUME ControlInv, [Next]_pipeVars, ~ReorderTake, ~ReorderWrite,
           \A t \in Tids : ~Refine(t) /\ ~Deduplicate(t) /\ ~Compress(t)
    PROVE  /\ UNCHANGED <<Uncut, ForDedup, ForCompress, ForReorder, Arrived>>
           /\ UNCHANGED <<cache, original, state, out, next>>
<1>1. CASE FragmentStep
  BY <1>1, FragmentFlow
     DEF ControlInv, FragmentStep, FragmentSend, FragmentEnd, FragmentTerminate, chunkVars
<1>2. ASSUME NEW w \in Workers, WorkerStep(w)
      PROVE  /\ UNCHANGED <<Uncut, ForDedup, ForCompress, ForReorder, Arrived>>
             /\ UNCHANGED <<cache, original, state, out, next>>
  <2>1. ~Kernel(w)
    BY WorkersLemma DEF Kernel
  <2>2. (\E d \in Stages : Enqueue(w, d)) \/ Dequeue(w) \/ Shutdown(w)
    BY <1>2, <2>1 DEF WorkerStep
  <2>3. UNCHANGED <<cache, original, state, out, next>>
    BY <2>2 DEF Enqueue, Dequeue, Shutdown, chunkVars
  <2> QED
    BY <2>2, <2>3, TransferFlow DEF ControlInv
<1>3. CASE ReorderDequeue
  BY <1>3, ReorderDequeueFlow DEF ControlInv, ReorderDequeue, chunkVars
<1>4. CASE ReorderFlush
  BY <1>4, FlushFlow DEF ControlInv, ReorderFlush, chunkVars
<1>5. CASE UNCHANGED pipeVars
  <2>1. /\ UNCHANGED <<que, recv, send, rrecv, workVars, anchorcount, T, inHand, next>>
        /\ UNCHANGED <<cache, original, state, out>>
    BY <1>5 DEF pipeVars, workVars, fragVars, reorderVars, chunkVars
  <2>2. ChunkLines' = ChunkLines /\ AnchorLines' = AnchorLines
    BY <2>1, SameChunkLines
  <2>3. UNCHANGED <<Uncut, ForDedup, ForCompress, ForReorder, Arrived>>
    BY <2>1, <2>2, ReorderLinesKept, SameWaiting, SameArrived DEF ControlInv
  <2> QED
    BY <2>1, <2>3
<1> QED
  BY <1>1, <1>2, <1>3, <1>4, <1>5 DEF Next, Step, ReorderStep, Finished, Standstill

-----------------------------------------------------------------------------
(* What the stages know of a chunk: the hash table finds originals only, a    *)
(* chunk refers to the one the table has for its contents, an original is     *)
(* flushed once some chunk with its contents is written, and a chunk's place  *)
(* in the pipeline tells how much of this has happened to it.                 *)
Written(x) == \E d \in Chunks : Before(d, next) /\ ContentOf(d) = x

CacheInv == \A x \in Contents :
    cache[x] # NoChunk => ContentOf(cache[x]) = x /\ original[cache[x]] = cache[x]
OriginalInv == \A c \in Chunks : original[c] # NoChunk => original[c] = cache[ContentOf(c)]
StateInv == \A c \in Chunks :
    /\ original[c] # c => state[c] = "UNCOMPRESSED"
    /\ original[c] = c => (state[c] = "FLUSHED" <=> Written(ContentOf(c)))
PlaceInv == \A c \in Chunks :
    /\ c \in Uncut \cup ForDedup => original[c] = NoChunk
    /\ c \in ForCompress => original[c] = c /\ state[c] = "UNCOMPRESSED"
    /\ c \in ForReorder \cup Arrived => original[c] # NoChunk
DataInv == CacheInv /\ OriginalInv /\ StateInv /\ PlaceInv

(* What Written depends on.                                                   *)
LEMMA SameWritten ==
    ASSUME UNCHANGED next
    PROVE  \A x : Written(x)' <=> Written(x)
BY DEF Written, Before

(* A chunk that the hash table has an entry for becomes a duplicate; of one   *)
(* it has no entry for nothing is written yet.                                *)
LEMMA DeduplicateData ==
    ASSUME ControlInv, DataInv, NEW t \in Tids, Deduplicate(t)
    PROVE  DataInv'
<1> DEFINE w == <<"dedup", t>>
<1>1. PICK c \in Chunks : c = Head(recv[w])
  BY DeduplicateLemma DEF ControlInv
<1>2. PICK x \in Contents : x = ContentOf(c)
  BY ContentsLemma
<1>3. PICK k \in Chunks : k = IF cache[x] = NoChunk THEN c ELSE cache[x]
  BY <1>1, <1>2, DeduplicateLemma DEF ControlInv
<1>4. /\ cache' = IF cache[x] = NoChunk THEN [cache EXCEPT ![x] = c] ELSE cache
      /\ original' = [original EXCEPT ![c] = k] /\ state' = state /\ next' = next
  BY <1>1, <1>2, <1>3, DeduplicateLemma DEF ControlInv
<1>5. /\ cache \in [Contents -> Chunks \cup {NoChunk}]
      /\ original \in [Chunks -> Chunks \cup {NoChunk}] /\ NoChunk \notin Chunks
  BY ChunksLemma DEF ControlInv, TypeInv, ChunkTypes
<1>6. /\ c \in ForDedup /\ ForDedup' = ForDedup \ {c}
      /\ ForCompress' = IF cache[x] = NoChunk THEN ForCompress \cup {c} ELSE ForCompress
      /\ ForReorder' = IF cache[x] = NoChunk THEN ForReorder ELSE ForReorder \cup {c}
      /\ UNCHANGED <<Uncut, Arrived>>
  BY <1>1, <1>2, DeduplicateFlow DEF ControlInv
<1>7. /\ original[c] = NoChunk /\ state[c] = "UNCOMPRESSED" /\ c \notin Uncut
      /\ c \notin ForCompress /\ c \notin ForReorder /\ c \notin Arrived
  BY <1>5, <1>6 DEF DataInv, PlaceInv, StateInv, ControlInv, ChunkInv
<1>8. \A y \in Contents : cache[y] # c
  BY <1>5, <1>7 DEF DataInv, CacheInv
<1>9. original'[c] = k /\ \A d \in Chunks : d # c => original'[d] = original[d]
  BY <1>4, <1>5
<1>10. cache'[x] = k /\ \A y \in Contents : y # x => cache'[y] = cache[y]
  BY <1>3, <1>4, <1>5
<1>11. CacheInv'
  <2>1. ASSUME NEW y \in Contents, cache'[y] # NoChunk
        PROVE  ContentOf(cache'[y]) = y /\ original'[cache'[y]] = cache'[y]
    <3>1. CASE y = x /\ cache[x] = NoChunk
      BY <1>2, <1>3, <1>9, <1>10, <3>1
    <3>2. CASE ~(y = x /\ cache[x] = NoChunk)
      <4>1. cache'[y] = cache[y] /\ cache[y] \in Chunks /\ cache[y] # c
        BY <1>3, <1>5, <1>8, <1>10, <2>1, <3>2
      <4> QED
        BY <1>9, <2>1, <4>1 DEF DataInv, CacheInv
    <3> QED
      BY <3>1, <3>2
  <2> QED
    BY <2>1 DEF CacheInv
<1>12. OriginalInv'
  <2>1. ASSUME NEW d \in Chunks, original'[d] # NoChunk PROVE original'[d] = cache'[ContentOf(d)]
    <3>1. CASE d = c
      BY <1>2, <1>9, <1>10, <3>1
    <3>2. CASE d # c
      <4>1. original[d] = cache[ContentOf(d)] /\ cache[ContentOf(d)] # NoChunk /\ ContentOf(d) \in Contents
        BY <1>9, <2>1, <3>2, ContentsLemma DEF DataInv, OriginalInv
      <4>2. cache'[ContentOf(d)] = cache[ContentOf(d)]
        BY <1>3, <1>10, <4>1
      <4> QED
        BY <1>9, <3>2, <4>1, <4>2
    <3> QED
      BY <3>1, <3>2
  <2> QED
    BY <2>1 DEF OriginalInv
<1>13. StateInv'
  <2>1. ASSUME cache[x] = NoChunk PROVE ~Written(x)
    <3>1. ASSUME NEW d \in Chunks, Before(d, next), ContentOf(d) = x PROVE FALSE
      <4>1. d \in Arrived
        BY <3>1 DEF Arrived
      <4>2. original[d] # NoChunk /\ original[d] = cache[x]
        BY <3>1, <4>1 DEF DataInv, PlaceInv, OriginalInv
      <4> QED
        BY <2>1, <4>2
    <3> QED
      BY <3>1 DEF Written
  <2>2. \A y : Written(y)' <=> Written(y)
    BY <1>4, SameWritten
  <2>3. ASSUME NEW d \in Chunks
        PROVE  /\ original'[d] # d => state'[d] = "UNCOMPRESSED"
               /\ original'[d] = d => (state'[d] = "FLUSHED" <=> Written(ContentOf(d))')
    <3>1. CASE d = c
      <4>1. k = c => cache[x] = NoChunk
        BY <1>3, <1>8
      <4> QED
        BY <1>2, <1>4, <1>7, <1>9, <2>1, <2>2, <3>1, <4>1
    <3>2. CASE d # c
      BY <1>4, <1>9, <2>2, <3>2 DEF DataInv, StateInv
    <3> QED
      BY <3>1, <3>2
  <2> QED
    BY <2>3 DEF StateInv
<1>14. PlaceInv'
  <2>1. ASSUME NEW d \in Chunks
        PROVE  /\ d \in Uncut' \cup ForDedup' => original'[d] = NoChunk
               /\ d \in ForCompress' => original'[d] = d /\ state'[d] = "UNCOMPRESSED"
               /\ d \in ForReorder' \cup Arrived' => original'[d] # NoChunk
    <3>1. CASE d = c
      BY <1>3, <1>4, <1>5, <1>6, <1>7, <1>9, <3>1
    <3>2. CASE d # c
      <4>1. /\ d \in Uncut' \cup ForDedup' => d \in Uncut \cup ForDedup
            /\ d \in ForCompress' => d \in ForCompress
            /\ d \in ForReorder' \cup Arrived' => d \in ForReorder \cup Arrived
        BY <1>6, <3>2
      <4> QED
        BY <1>4, <1>9, <3>2, <4>1 DEF DataInv, PlaceInv
    <3> QED
      BY <3>1, <3>2
  <2> QED
    BY <2>1 DEF PlaceInv
<1> QED
  BY <1>11, <1>12, <1>13, <1>14 DEF DataInv

(* An original that is compressed was not flushed before.                     *)
LEMMA CompressData ==
    ASSUME ControlInv, DataInv, NEW t \in Tids, Compress(t)
    PROVE  DataInv'
<1>1. PICK c \in Chunks : c = Head(recv[<<"compress", t>>])
  BY CompressLemma DEF ControlInv
<1>2. /\ state' = [state EXCEPT ![c] = "COMPRESSED"] /\ cache' = cache /\ original' = original
      /\ next' = next
  BY <1>1, CompressLemma DEF ControlInv
<1>3. /\ c \in ForCompress /\ ForCompress' = ForCompress \ {c} /\ ForReorder' = ForReorder \cup {c}
      /\ UNCHANGED <<Uncut, ForDedup, Arrived>>
  BY <1>1, CompressFlow DEF ControlInv
<1>4. original[c] = c /\ state[c] = "UNCOMPRESSED" /\ ~Written(ContentOf(c)) /\ c # NoChunk
  BY <1>3, ChunksLemma DEF DataInv, PlaceInv, StateInv
<1>5. state'[c] = "COMPRESSED" /\ \A d \in Chunks : d # c => state'[d] = state[d]
  BY <1>2 DEF ControlInv, TypeInv, ChunkTypes
<1>6. CacheInv' /\ OriginalInv'
  BY <1>2 DEF DataInv, CacheInv, OriginalInv
<1>7. StateInv'
  <2>1. \A y : Written(y)' <=> Written(y)
    BY <1>2, SameWritten
  <2>2. ASSUME NEW d \in Chunks
        PROVE  /\ original'[d] # d => state'[d] = "UNCOMPRESSED"
               /\ original'[d] = d => (state'[d] = "FLUSHED" <=> Written(ContentOf(d))')
    BY <1>2, <1>4, <1>5, <2>1 DEF DataInv, StateInv
  <2> QED
    BY <2>2 DEF StateInv
<1>8. PlaceInv'
  <2>1. ASSUME NEW d \in Chunks
        PROVE  /\ d \in Uncut' \cup ForDedup' => original'[d] = NoChunk
               /\ d \in ForCompress' => original'[d] = d /\ state'[d] = "UNCOMPRESSED"
               /\ d \in ForReorder' \cup Arrived' => original'[d] # NoChunk
    BY <1>2, <1>3, <1>4, <1>5 DEF DataInv, PlaceInv
  <2> QED
    BY <2>1 DEF PlaceInv
<1> QED
  BY <1>6, <1>7, <1>8 DEF DataInv

(* What Reorder writes for the chunk whose turn it is.                        *)
LEMMA WriteLemma ==
    ASSUME ControlInv, DataInv, ReorderWrite
    PROVE  LET o == original[next] IN
           /\ next \in Chunks /\ o \in Chunks /\ o = cache[ContentOf(next)]
           /\ ContentOf(o) = ContentOf(next) /\ original[o] = o /\ state[o] # "UNCOMPRESSED"
           /\ state' = [state EXCEPT ![o] = "FLUSHED"]
           /\ next' = Successor(next) /\ out' = Append(out, Record(next))
<1>1. next \in Chunks /\ next \in Arrived /\ WriteChunk(next) /\ next' = Successor(next)
  BY WriteFlow DEF ControlInv
<1>2. PICK x \in Contents : x = ContentOf(next)
  BY <1>1, ContentsLemma
<1>3. PICK o : o = original[next]
  OBVIOUS
<1>4. o # NoChunk /\ o = cache[x]
  BY <1>1, <1>2, <1>3 DEF DataInv, PlaceInv, OriginalInv
<1>5. o \in Chunks
  BY <1>4 DEF ControlInv, TypeInv, ChunkTypes
<1>6. ContentOf(o) = x /\ original[o] = o
  BY <1>4 DEF DataInv, CacheInv
<1>7. /\ state[o] # "UNCOMPRESSED" /\ state' = [state EXCEPT ![o] = "FLUSHED"]
      /\ out' = Append(out, IF state[o] = "COMPRESSED" THEN Data(x) ELSE Fingerprint(x))
  BY <1>1, <1>3, <1>6 DEF WriteChunk
<1>8. state[o] = "COMPRESSED" <=> ~IsRepetition(next)
  <2>1. state[o] = "FLUSHED" <=> Written(x)
    BY <1>5, <1>6 DEF DataInv, StateInv
  <2>2. Written(x) <=> IsRepetition(next)
    BY <1>2 DEF Written, IsRepetition
  <2>3. state[o] \in {"UNCOMPRESSED", "COMPRESSED", "FLUSHED"}
    BY <1>5 DEF ControlInv, TypeInv, ChunkTypes
  <2> QED
    BY <1>7, <2>1, <2>2, <2>3
<1>9. out' = Append(out, Record(next))
  BY <1>2, <1>7, <1>8 DEF Record
<1> QED
  BY <1>1, <1>2, <1>3, <1>4, <1>5, <1>6, <1>7, <1>9

(* Reorder flushes the original of what it writes, and no other.              *)
LEMMA WriteData ==
    ASSUME ControlInv, DataInv, ReorderWrite
    PROVE  DataInv'
<1>1. PICK o \in Chunks : o = original[next]
  BY WriteLemma
<1>2. /\ next \in Chunks /\ o = cache[ContentOf(next)] /\ ContentOf(o) = ContentOf(next)
      /\ original[o] = o /\ state[o] # "UNCOMPRESSED"
      /\ state' = [state EXCEPT ![o] = "FLUSHED"] /\ next' = Successor(next)
  BY <1>1, WriteLemma
<1>3. cache' = cache /\ original' = original
  BY DEF ReorderWrite
<1>4. state'[o] = "FLUSHED" /\ \A d \in Chunks : d # o => state'[d] = state[d]
  BY <1>2 DEF ControlInv, TypeInv, ChunkTypes
<1>5. UNCHANGED <<Uncut, ForDedup, ForCompress, ForReorder, Arrived>>
  BY WriteFlow DEF ControlInv
<1>6. CacheInv' /\ OriginalInv'
  BY <1>3 DEF DataInv, CacheInv, OriginalInv
<1>7. StateInv'
  <2>1. ASSUME NEW x PROVE Written(x)' <=> Written(x) \/ x = ContentOf(next)
    <3>1. \A d \in Chunks : Before(d, next') <=> d = next \/ Before(d, next)
      BY <1>2, SuccessorLemma
    <3>2. Written(x)' <=> \E d \in Chunks : Before(d, next') /\ ContentOf(d) = x
      BY DEF Written, Before
    <3> QED
      BY <1>2, <3>1, <3>2 DEF Written
  <2>2. ASSUME NEW d \in Chunks
        PROVE  /\ original'[d] # d => state'[d] = "UNCOMPRESSED"
               /\ original'[d] = d => (state'[d] = "FLUSHED" <=> Written(ContentOf(d))')
    <3>1. CASE d = o
      BY <1>2, <1>3, <1>4, <2>1, <3>1
    <3>2. CASE d # o
      <4>1. original[d] = d => ContentOf(d) # ContentOf(next)
        BY <1>2, <3>2, ChunksLemma DEF DataInv, OriginalInv
      <4> QED
        BY <1>3, <1>4, <2>1, <3>2, <4>1 DEF DataInv, StateInv
    <3> QED
      BY <3>1, <3>2
  <2> QED
    BY <2>2 DEF StateInv
<1>8. PlaceInv'
  <2>1. ASSUME NEW d \in Chunks
        PROVE  /\ d \in Uncut' \cup ForDedup' => original'[d] = NoChunk
               /\ d \in ForCompress' => original'[d] = d /\ state'[d] = "UNCOMPRESSED"
               /\ d \in ForReorder' \cup Arrived' => original'[d] # NoChunk
    BY <1>2, <1>3, <1>4, <1>5 DEF DataInv, PlaceInv
  <2> QED
    BY <2>1 DEF PlaceInv
<1> QED
  BY <1>6, <1>7, <1>8 DEF DataInv

(* A chunk that arrives has its original.                                     *)
LEMMA TakeData ==
    ASSUME ControlInv, DataInv, ReorderTake
    PROVE  DataInv'
<1>1. PICK c \in Chunks : c = Head(rrecv)
  BY TakeFlow DEF ControlInv
<1>2. /\ c \in ForReorder /\ ForReorder' = ForReorder \ {c} /\ Arrived' = Arrived \cup {c}
      /\ UNCHANGED <<Uncut, ForDedup, ForCompress>>
  BY <1>1, TakeFlow DEF ControlInv
<1>3. UNCHANGED <<cache, original, state, next>>
  BY DEF ReorderTake, chunkVars
<1>4. CacheInv' /\ OriginalInv'
  BY <1>3 DEF DataInv, CacheInv, OriginalInv
<1>5. StateInv'
  BY <1>3, SameWritten DEF DataInv, StateInv
<1>6. PlaceInv'
  BY <1>2, <1>3 DEF DataInv, PlaceInv
<1> QED
  BY <1>4, <1>5, <1>6 DEF DataInv

(* Every step keeps what the stages know of the chunks.                       *)
LEMMA DataStep ==
    ASSUME ControlInv, DataInv, [Next]_pipeVars
    PROVE  DataInv'
<1>1. CASE \E t \in Tids : Deduplicate(t) \/ Compress(t)
  BY <1>1, DeduplicateData, CompressData
<1>2. ASSUME NEW t \in Tids, Refine(t) PROVE DataInv'
  <2>1. PICK c : c = <<Head(recv[<<"refine", t>>]), chcount[t]>>
    OBVIOUS
  <2>2. /\ c \in Uncut /\ Uncut' = Uncut \ {c} /\ ForDedup' = ForDedup \cup {c}
        /\ UNCHANGED <<ForCompress, ForReorder, Arrived>>
    BY <1>2, <2>1, RefineFlow DEF ControlInv
  <2>3. UNCHANGED <<cache, original, state, next>>
    BY <1>2 DEF Refine
  <2>4. CacheInv' /\ OriginalInv'
    BY <2>3 DEF DataInv, CacheInv, OriginalInv
  <2>5. StateInv'
    BY <2>3, SameWritten DEF DataInv, StateInv
  <2>6. PlaceInv'
    BY <2>2, <2>3 DEF DataInv, PlaceInv
  <2> QED
    BY <2>4, <2>5, <2>6 DEF DataInv
<1>3. CASE ReorderTake \/ ReorderWrite
  BY <1>3, TakeData, WriteData
<1>4. CASE ~ReorderTake /\ ~ReorderWrite /\ \A t \in Tids : ~Refine(t) /\ ~Deduplicate(t) /\ ~Compress(t)
  <2>1. /\ UNCHANGED <<Uncut, ForDedup, ForCompress, ForReorder, Arrived>>
        /\ UNCHANGED <<cache, original, state, next>>
    BY <1>4, QuietSteps
  <2>2. CacheInv' /\ OriginalInv'
    BY <2>1 DEF DataInv, CacheInv, OriginalInv
  <2>3. StateInv'
    BY <2>1, SameWritten DEF DataInv, StateInv
  <2>4. PlaceInv'
    BY <2>1 DEF DataInv, PlaceInv
  <2> QED
    BY <2>2, <2>3, <2>4 DEF DataInv
<1> QED
  BY <1>1, <1>2, <1>3, <1>4

(* It holds at the start.                                                     *)
LEMMA DataInit ==
    ASSUME Init
    PROVE  DataInv
<1>1. /\ \A x \in Contents : cache[x] = NoChunk
      /\ \A c \in Chunks : original[c] = NoChunk /\ state[c] = "UNCOMPRESSED" /\ c # NoChunk
      /\ anchorcount = 0
  BY ChunksLemma DEF Init
<1>2. Uncut = Chunks
  BY <1>1, ChunksLemma DEF Uncut, Unrefined
<1>3. \A c \in Chunks : c \notin ForCompress /\ c \notin ForReorder /\ c \notin Arrived
  BY <1>2, ControlInit DEF ControlInv, ChunkInv
<1> QED
  BY <1>1, <1>3 DEF DataInv, CacheInv, OriginalInv, StateInv, PlaceInv

-----------------------------------------------------------------------------
(* The references to the buffer the input was read into.  A chunk holds one   *)
(* from when it is cut until it is compressed or found to be a duplicate, and *)
(* the last chunk of a coarse chunk takes over the one the coarse chunk held: *)
(* from Fragment's split on, or from the start if there is nothing to split.  *)
Lead(c) == isLastL2Chunk(c) /\ (c[1] < anchorcount \/ c[1] = Len(Input) - 1)
Holders == {c \in Chunks : NeedsItsData(c) /\ (c \notin Uncut \/ Lead(c))}
Unread == IF Input = << >> /\ fragPc = "read" THEN 1 ELSE 0
RefsInv == refs = Cardinality(Holders) + Unread

(* Finitely many chunks hold a reference.                                     *)
LEMMA HoldersLemma == IsFiniteSet(Holders) /\ Cardinality(Holders) \in Nat
<1>1. Holders \in SUBSET Chunks
  BY DEF Holders
<1>2. IsFiniteSet(Holders)
  BY <1>1, ChunksLemma, FS_Subset
<1> QED
  BY <1>2, FS_CardinalityType

(* mbuffer_split: one holder more, one reference more.                        *)
LEMMA MoreHolders ==
    ASSUME RefsInv, NEW c, c \notin Holders, Holders' = Holders \cup {c}, refs' = refs + 1,
           Unread' = Unread
    PROVE  RefsInv'
<1>1. Cardinality(Holders \cup {c}) = Cardinality(Holders) + 1
  BY HoldersLemma, FS_AddElement
<1> QED
  BY <1>1, HoldersLemma DEF RefsInv, Unread

(* mbuffer_free: one holder less, one reference less.                         *)
LEMMA FewerHolders ==
    ASSUME RefsInv, NEW c, c \in Holders, Holders' = Holders \ {c}, refs' = refs - 1,
           Unread' = Unread
    PROVE  RefsInv'
<1>1. Cardinality(Holders \ {c}) = Cardinality(Holders) - 1
  BY HoldersLemma, FS_RemoveElement
<1> QED
  BY <1>1, HoldersLemma DEF RefsInv, Unread

(* Neither: the same holders, the same references.                            *)
LEMMA SameHolders ==
    ASSUME RefsInv, Holders' = Holders, refs' = refs, Unread' = Unread
    PROVE  RefsInv'
BY DEF RefsInv

(* A chunk without an original still needs its data.                          *)
LEMMA NeedsLemma ==
    ASSUME ControlInv, DataInv, NEW c \in Chunks
    PROVE  c \in Uncut \cup ForDedup => original[c] = NoChunk /\ NeedsItsData(c)
BY ChunksLemma DEF DataInv, PlaceInv, StateInv, NeedsItsData

(* Fragment's splits and the end of an empty input.                           *)
LEMMA FragmentRefs ==
    ASSUME ControlInv, DataInv, RefsInv, FragmentStep
    PROVE  RefsInv'
<1>1. UNCHANGED <<original, state, Uncut>>
  BY FragmentFlow DEF ControlInv, FragmentStep, FragmentSend, FragmentEnd, FragmentTerminate, chunkVars
<1>2. anchorcount \in Nat /\ anchorcount <= Len(Input) /\ Len(Input) \in Nat
  BY AnchorsLemma DEF ControlInv, TypeInv, FragmentTypes
<1>3. \A c \in Chunks : NeedsItsData(c)' <=> NeedsItsData(c)
  BY <1>1 DEF NeedsItsData
<1>4. CASE FragmentSend
  <2>1. /\ anchorcount \in Anchors /\ anchorcount' = anchorcount + 1 /\ fragPc' = fragPc
        /\ refs' = IF anchorcount + 1 \in Anchors THEN refs + 1 ELSE refs
    BY <1>4 DEF FragmentSend, mbuffer_split
  <2>2. PICK c \in Chunks : c = LastOf(anchorcount)
    BY <2>1, LastLemma
  <2>3. c[1] = anchorcount /\ isLastL2Chunk(c) /\ c \in Uncut /\ NeedsItsData(c)
    <3>1. c[1] = anchorcount /\ isLastL2Chunk(c)
      BY <2>1, <2>2, LastLemma
    <3>2. c \in Uncut
      BY <1>2, <3>1 DEF Uncut, Unrefined
    <3> QED
      BY <3>1, <3>2, NeedsLemma
  <2>4. ASSUME NEW d \in Chunks, d # c PROVE Lead(d)' <=> Lead(d)
    <3>1. isLastL2Chunk(d) => d[1] # anchorcount
      BY <2>2, <2>4, LastLemma
    <3>2. isLastL2Chunk(d)' <=> isLastL2Chunk(d)
      BY DEF isLastL2Chunk
    <3>3. d[1] \in Nat
      BY ChunksLemma
    <3>4. d[1] # anchorcount => (d[1] < anchorcount + 1 <=> d[1] < anchorcount)
      BY <1>2, <3>3
    <3>5. Lead(d)' <=> isLastL2Chunk(d) /\ (d[1] < anchorcount + 1 \/ d[1] = Len(Input) - 1)
      BY <2>1, <3>2 DEF Lead
    <3> QED
      BY <3>1, <3>4, <3>5 DEF Lead
  <2>5. Lead(c)'
    BY <1>2, <2>1, <2>3 DEF Lead, isLastL2Chunk
  <2>6. Holders' = Holders \cup {c}
    BY <1>1, <1>3, <2>3, <2>4, <2>5 DEF Holders
  <2>7. Unread' = Unread
    BY <2>1 DEF Unread
  <2>8. CASE anchorcount + 1 \in Anchors
    <3>1. c \notin Holders
      BY <1>2, <2>3, <2>8, AnchorsLemma DEF Holders, Lead
    <3> QED
      BY <2>1, <2>6, <2>7, <2>8, <3>1, MoreHolders
  <2>9. CASE anchorcount + 1 \notin Anchors
    <3>1. anchorcount = Len(Input) - 1
      BY <1>2, <2>1, <2>9, AnchorsLemma
    <3>2. c \in Holders
      BY <2>3, <3>1 DEF Holders, Lead
    <3>3. Holders' = Holders
      BY <2>6, <3>2
    <3> QED
      BY <2>1, <2>7, <2>9, <3>3, SameHolders
  <2> QED
    BY <2>8, <2>9
<1>5. CASE ~FragmentSend
  <2>1. anchorcount' = anchorcount
    BY <1>5 DEF FragmentStep, FragmentEnd, FragmentTerminate
  <2>2. \A c \in Chunks : Lead(c)' <=> Lead(c)
    BY <2>1 DEF Lead, isLastL2Chunk
  <2>3. Holders' = Holders
    BY <1>1, <1>3, <2>2 DEF Holders
  <2>4. CASE FragmentEnd
    <3>1. fragPc = "read" /\ fragPc' = "terminate" /\ anchorcount = Len(Input)
          /\ refs' = IF anchorcount = 0 THEN refs - 1 ELSE refs
      BY <1>2, <2>4, AnchorsLemma DEF FragmentEnd, mbuffer_free
    <3>2. anchorcount = 0 <=> Input = << >>
      BY <1>2, <3>1, AnchorsLemma
    <3>3. Unread' = 0 /\ Unread = (IF Input = << >> THEN 1 ELSE 0)
      BY <3>1 DEF Unread
    <3> QED
      BY <2>3, <3>1, <3>2, <3>3, HoldersLemma DEF RefsInv
  <2>5. CASE FragmentTerminate
    <3>1. fragPc # "read" /\ fragPc' # "read" /\ refs' = refs
      BY <2>5 DEF FragmentTerminate, chunkVars
    <3>2. Unread' = Unread
      BY <3>1 DEF Unread
    <3> QED
      BY <2>3, <3>1, <3>2, SameHolders
  <2> QED
    BY <1>5, <2>4, <2>5 DEF FragmentStep
<1> QED
  BY <1>4, <1>5

(* FragmentRefine splits for every chunk but the last, which takes over.      *)
LEMMA RefineRefs ==
    ASSUME ControlInv, DataInv, RefsInv, NEW t \in Tids, Refine(t)
    PROVE  RefsInv'
<1>1. PICK a : a = Head(recv[<<"refine", t>>])
  OBVIOUS
<1>2. PICK c : c = <<a, chcount[t]>>
  OBVIOUS
<1>3. /\ a \in Anchors /\ c \in Chunks /\ chcount[t] \in Nat /\ chcount[t] < NPieces(a)
      /\ refs' = (IF chcount[t] = NPieces(a) - 1 THEN refs ELSE refs + 1)
      /\ UNCHANGED <<anchorcount, fragPc, original, state>>
      /\ recv[<<"refine", t>>] \in Seq(Anchors) /\ recv[<<"refine", t>>] # << >>
  BY <1>1, <1>2, RefineLemma DEF ControlInv, AnchorInv, fragVars
<1>4. c \in Uncut /\ Uncut' = Uncut \ {c}
  BY <1>1, <1>2, RefineFlow DEF ControlInv
<1>5. NeedsItsData(c) /\ c[1] = a
  BY <1>2, <1>3, <1>4, NeedsLemma
<1>6. isLastL2Chunk(c) <=> chcount[t] = NPieces(a) - 1
  BY <1>2 DEF isLastL2Chunk
<1>7. a < anchorcount
  <2>1. a \in QueuedAnchors
    BY <1>1, <1>3, HeadsDiffer DEF ControlInv, AnchorInv
  <2> QED
    BY <2>1 DEF ControlInv, AnchorInv
<1>8. Lead(c) <=> isLastL2Chunk(c)
  BY <1>5, <1>7 DEF Lead
<1>9. \A d \in Chunks : (Lead(d)' <=> Lead(d)) /\ (NeedsItsData(d)' <=> NeedsItsData(d))
  BY <1>3 DEF Lead, isLastL2Chunk, NeedsItsData
<1>10. Holders' = Holders \cup {c}
  BY <1>3, <1>4, <1>5, <1>9 DEF Holders
<1>11. c \in Holders <=> Lead(c)
  BY <1>3, <1>4, <1>5 DEF Holders
<1>12. Unread' = Unread
  BY <1>3 DEF Unread
<1>13. CASE Lead(c)
  <2>1. Holders' = Holders /\ refs' = refs
    BY <1>3, <1>6, <1>8, <1>10, <1>11, <1>13
  <2> QED
    BY <1>12, <2>1, SameHolders
<1>14. CASE ~Lead(c)
  BY <1>3, <1>6, <1>8, <1>10, <1>11, <1>12, <1>14, MoreHolders
<1> QED
  BY <1>13, <1>14

(* sub_Deduplicate frees the data of a duplicate.                             *)
LEMMA DeduplicateRefs ==
    ASSUME ControlInv, DataInv, RefsInv, NEW t \in Tids, Deduplicate(t)
    PROVE  RefsInv'
<1>1. PICK c \in Chunks : c = Head(recv[<<"dedup", t>>])
  BY DeduplicateLemma DEF ControlInv
<1>2. PICK x \in Contents : x = ContentOf(c)
  BY ContentsLemma
<1>3. PICK k \in Chunks : k = IF cache[x] = NoChunk THEN c ELSE cache[x]
  BY <1>1, <1>2, DeduplicateLemma DEF ControlInv
<1>4. /\ original' = [original EXCEPT ![c] = k] /\ state' = state
      /\ refs' = (IF cache[x] = NoChunk THEN refs ELSE refs - 1)
      /\ UNCHANGED <<anchorcount, fragPc>>
  BY <1>1, <1>2, <1>3, DeduplicateLemma DEF ControlInv, fragVars
<1>5. c \in ForDedup /\ Uncut' = Uncut
  BY <1>1, DeduplicateFlow DEF ControlInv
<1>6. original[c] = NoChunk /\ NeedsItsData(c) /\ c \notin Uncut
  BY <1>5, NeedsLemma DEF ControlInv, ChunkInv
<1>7. original'[c] = k /\ \A d \in Chunks : d # c => original'[d] = original[d]
  BY <1>4 DEF ControlInv, TypeInv, ChunkTypes
<1>8. /\ \A d \in Chunks : Lead(d)' <=> Lead(d)
      /\ \A d \in Chunks : d # c => (NeedsItsData(d)' <=> NeedsItsData(d))
      /\ NeedsItsData(c)' <=> k = c
  BY <1>3, <1>4, <1>6, <1>7, ChunksLemma DEF Lead, isLastL2Chunk, NeedsItsData
<1>9. c \in Holders
  BY <1>6 DEF Holders
<1>10. Unread' = Unread
  BY <1>4 DEF Unread
<1>11. CASE cache[x] = NoChunk
  <2>1. Holders' = Holders
    BY <1>3, <1>5, <1>8, <1>9, <1>11 DEF Holders
  <2> QED
    BY <1>4, <1>10, <1>11, <2>1, SameHolders
<1>12. CASE cache[x] # NoChunk
  <2>1. k # c
    BY <1>3, <1>6, <1>12 DEF DataInv, CacheInv
  <2>2. Holders' = Holders \ {c}
    BY <1>5, <1>8, <1>9, <2>1 DEF Holders
  <2> QED
    BY <1>4, <1>9, <1>10, <1>12, <2>2, FewerHolders
<1> QED
  BY <1>11, <1>12

(* sub_Compress frees the data it has compressed.                             *)
LEMMA CompressRefs ==
    ASSUME ControlInv, DataInv, RefsInv, NEW t \in Tids, Compress(t)
    PROVE  RefsInv'
<1>1. PICK c \in Chunks : c = Head(recv[<<"compress", t>>])
  BY CompressLemma DEF ControlInv
<1>2. /\ state' = [state EXCEPT ![c] = "COMPRESSED"] /\ original' = original /\ refs' = refs - 1
      /\ UNCHANGED <<anchorcount, fragPc>>
  BY <1>1, CompressLemma DEF ControlInv, fragVars
<1>3. c \in ForCompress /\ Uncut' = Uncut
  BY <1>1, CompressFlow DEF ControlInv
<1>4. NeedsItsData(c) /\ c \notin Uncut
  BY <1>3 DEF DataInv, PlaceInv, NeedsItsData, ControlInv, ChunkInv
<1>5. state'[c] = "COMPRESSED" /\ \A d \in Chunks : d # c => state'[d] = state[d]
  BY <1>2 DEF ControlInv, TypeInv, ChunkTypes
<1>6. /\ \A d \in Chunks : Lead(d)' <=> Lead(d)
      /\ \A d \in Chunks : d # c => (NeedsItsData(d)' <=> NeedsItsData(d))
      /\ ~NeedsItsData(c)'
  BY <1>2, <1>5 DEF Lead, isLastL2Chunk, NeedsItsData
<1>7. c \in Holders /\ Holders' = Holders \ {c}
  BY <1>3, <1>4, <1>6 DEF Holders
<1>8. Unread' = Unread
  BY <1>2 DEF Unread
<1> QED
  BY <1>2, <1>7, <1>8, FewerHolders

(* What RefsInv depends on.                                                   *)
LEMMA SameRefs ==
    ASSUME RefsInv, UNCHANGED <<Uncut, original, anchorcount, fragPc, refs>>,
           \A c \in Chunks : state'[c] = "UNCOMPRESSED" <=> state[c] = "UNCOMPRESSED"
    PROVE  RefsInv'
<1>1. \A c \in Chunks : (NeedsItsData(c)' <=> NeedsItsData(c)) /\ (Lead(c)' <=> Lead(c))
  BY DEF NeedsItsData, Lead, isLastL2Chunk
<1>2. Holders' = Holders /\ Unread' = Unread
  BY <1>1 DEF Holders, Unread
<1> QED
  BY <1>2, SameHolders

(* Every step keeps the count of references.                                  *)
LEMMA RefsStep ==
    ASSUME ControlInv, DataInv, RefsInv, [Next]_pipeVars
    PROVE  RefsInv'
<1>1. CASE FragmentStep
  BY <1>1, FragmentRefs
<1>2. CASE \E t \in Tids : Refine(t) \/ Deduplicate(t) \/ Compress(t)
  BY <1>2, RefineRefs, DeduplicateRefs, CompressRefs
<1>3. CASE ReorderTake
  <2>1. Uncut' = Uncut
    BY <1>3, TakeFlow DEF ControlInv
  <2> QED
    BY <1>3, <2>1, SameRefs DEF ReorderTake, chunkVars, fragVars
<1>4. CASE ReorderWrite
  <2>1. PICK o \in Chunks : state[o] # "UNCOMPRESSED" /\ state' = [state EXCEPT ![o] = "FLUSHED"]
    BY <1>4, WriteLemma
  <2>2. \A c \in Chunks : state'[c] = "UNCOMPRESSED" <=> state[c] = "UNCOMPRESSED"
    BY <2>1 DEF ControlInv, TypeInv, ChunkTypes
  <2>3. Uncut' = Uncut
    BY <1>4, WriteFlow DEF ControlInv
  <2> QED
    BY <1>4, <2>2, <2>3, SameRefs DEF ReorderWrite, fragVars
<1>5. CASE /\ ~FragmentStep /\ ~ReorderTake /\ ~ReorderWrite
           /\ \A t \in Tids : ~Refine(t) /\ ~Deduplicate(t) /\ ~Compress(t)
  <2>1. Uncut' = Uncut
    BY <1>5, QuietSteps
  <2>2. ASSUME NEW w \in Workers, WorkerStep(w) PROVE UNCHANGED <<fragVars, chunkVars>>
    <3>1. (\E d \in Stages : Enqueue(w, d)) \/ Dequeue(w) \/ Shutdown(w)
      BY <1>5, <2>2, WorkersLemma DEF WorkerStep, Kernel
    <3> QED
      BY <3>1 DEF Enqueue, Dequeue, Shutdown
  <2>3. CASE ReorderDequeue \/ ReorderFlush
    BY <2>1, <2>3, SameRefs DEF ReorderDequeue, ReorderFlush, fragVars, chunkVars
  <2>4. CASE UNCHANGED pipeVars
    BY <2>1, <2>4, SameRefs DEF pipeVars, fragVars, chunkVars
  <2>5. CASE \E w \in Workers : WorkerStep(w)
    BY <2>1, <2>2, <2>5, SameRefs DEF fragVars, chunkVars
  <2> QED
    BY <1>5, <2>3, <2>4, <2>5 DEF Next, Step, ReorderStep, Finished, Standstill
<1> QED
  BY <1>1, <1>2, <1>3, <1>4, <1>5

(* It is right at the start.                                                  *)
LEMMA RefsInit ==
    ASSUME Init
    PROVE  RefsInv
<1>1. /\ \A c \in Chunks : NeedsItsData(c)
      /\ anchorcount = 0 /\ fragPc = "read" /\ refs = 1
  BY DEF Init, NeedsItsData
<1>2. Uncut = Chunks
  BY <1>1, ChunksLemma DEF Uncut, Unrefined
<1>3. ASSUME NEW c \in Chunks PROVE c \in Holders <=> isLastL2Chunk(c) /\ c[1] = Len(Input) - 1
  BY <1>1, <1>2, ChunksLemma DEF Holders, Lead
<1>4. CASE Input = << >>
  <2>1. Holders = {}
    BY <1>4, AnchorsLemma, ChunksLemma DEF Holders
  <2>2. Cardinality(Holders) = 0
    BY <2>1, FS_EmptySet
  <2> QED
    BY <1>1, <1>4, <2>2 DEF RefsInv, Unread
<1>5. CASE Input # << >>
  <2>0. PICK b \in Anchors : b \in Nat /\ b < Len(Input)
    BY <1>5, AnchorsLemma
  <2>1. PICK a \in Anchors : a = Len(Input) - 1
    <3>1. Len(Input) - 1 \in Nat /\ Len(Input) - 1 < Len(Input)
      BY <2>0, AnchorsLemma
    <3> QED
      BY <3>1, AnchorsLemma
  <2>2. \A c \in Chunks : c \in Holders <=> c = LastOf(a)
    BY <1>3, <2>1, LastLemma
  <2>3. Holders = {LastOf(a)}
    BY <2>1, <2>2, LastLemma DEF Holders
  <2>4. Cardinality(Holders) = 1
    BY <2>3, FS_Singleton
  <2> QED
    BY <1>1, <1>5, <2>4 DEF RefsInv, Unread
<1> QED
  BY <1>4, <1>5

-----------------------------------------------------------------------------
(* A chunk on its way to Reorder, or there, that is an original has been      *)
(* compressed.                                                                *)
CompressedInv ==
    \A c \in ForReorder \cup Arrived : original[c] = c => state[c] # "UNCOMPRESSED"

(* Every step keeps this.                                                     *)
LEMMA CompressedStep ==
    ASSUME ControlInv, DataInv, CompressedInv, [Next]_pipeVars
    PROVE  CompressedInv'
<1>0. ForReorder \cup Arrived \subseteq Chunks
  BY DEF ControlInv, ChunkInv
<1>1. ASSUME NEW t \in Tids, Refine(t) PROVE CompressedInv'
  <2>1. UNCHANGED <<ForReorder, Arrived>>
    BY <1>1, RefineFlow DEF ControlInv
  <2>2. UNCHANGED <<original, state>>
    BY <1>1 DEF Refine
  <2> QED
    BY <2>1, <2>2 DEF CompressedInv
<1>2. ASSUME NEW t \in Tids, Deduplicate(t) PROVE CompressedInv'
  <2>1. PICK c \in Chunks : c = Head(recv[<<"dedup", t>>])
    BY <1>2, DeduplicateLemma DEF ControlInv
  <2>2. PICK x \in Contents : x = ContentOf(c)
    BY ContentsLemma
  <2>3. PICK k \in Chunks : k = cache'[x]
    BY <1>2, <2>1, <2>2, DeduplicateLemma DEF ControlInv
  <2>4. /\ original' = [original EXCEPT ![c] = k] /\ UNCHANGED state
        /\ cache[x] # NoChunk => k = cache[x]
    BY <1>2, <2>1, <2>2, <2>3, DeduplicateLemma DEF ControlInv
  <2>5. /\ c \in ForDedup /\ Arrived' = Arrived
        /\ ForReorder' = IF cache[x] = NoChunk THEN ForReorder ELSE ForReorder \cup {c}
    BY <1>2, <2>1, <2>2, DeduplicateFlow DEF ControlInv
  <2>6. c \notin ForReorder /\ c \notin Arrived
    BY <2>5 DEF ControlInv, ChunkInv
  <2>7. cache[x] # NoChunk => k # c
    <3>1. original[c] = NoChunk /\ c # NoChunk
      BY <2>5, ChunksLemma DEF DataInv, PlaceInv
    <3>2. cache[x] # NoChunk => original[cache[x]] = cache[x]
      BY <2>2 DEF DataInv, CacheInv
    <3> QED
      BY <2>4, <3>1, <3>2
  <2>8. original'[c] = k /\ \A d \in Chunks : d # c => original'[d] = original[d]
    BY <2>4 DEF ControlInv, TypeInv, ChunkTypes
  <2>9. ASSUME NEW d \in ForReorder' \cup Arrived', original'[d] = d
        PROVE  state'[d] # "UNCOMPRESSED"
    <3>1. d # c
      BY <2>5, <2>6, <2>7, <2>8, <2>9
    <3>2. d \in ForReorder \cup Arrived
      BY <2>5, <2>9, <3>1
    <3>3. original[d] = d
      BY <1>0, <2>8, <2>9, <3>1, <3>2
    <3> QED
      BY <2>4, <3>2, <3>3 DEF CompressedInv
  <2> QED
    BY <2>9 DEF CompressedInv
<1>3. ASSUME NEW t \in Tids, Compress(t) PROVE CompressedInv'
  <2>1. PICK c \in Chunks : c = Head(recv[<<"compress", t>>])
    BY <1>3, CompressLemma DEF ControlInv
  <2>2. ForReorder' = ForReorder \cup {c} /\ Arrived' = Arrived
    BY <1>3, <2>1, CompressFlow DEF ControlInv
  <2>3. state' = [state EXCEPT ![c] = "COMPRESSED"] /\ UNCHANGED original
    BY <1>3, <2>1, CompressLemma DEF ControlInv
  <2>4. state'[c] = "COMPRESSED" /\ \A d \in Chunks : d # c => state'[d] = state[d]
    BY <2>3 DEF ControlInv, TypeInv, ChunkTypes
  <2> QED
    BY <1>0, <2>2, <2>3, <2>4 DEF CompressedInv
<1>4. CASE ReorderTake
  <2>1. PICK c : c = Head(rrecv)
    OBVIOUS
  <2>2. /\ c \in ForReorder /\ ForReorder' = ForReorder \ {c}
        /\ Arrived' = Arrived \cup {c}
    BY <1>4, <2>1, TakeFlow DEF ControlInv
  <2>3. UNCHANGED <<original, state>>
    BY <1>4 DEF ReorderTake, chunkVars
  <2> QED
    BY <2>2, <2>3 DEF CompressedInv
<1>5. CASE ReorderWrite
  <2>1. UNCHANGED <<ForReorder, Arrived, original>>
    BY <1>5, WriteFlow DEF ControlInv, ReorderWrite
  <2>2. PICK o \in Chunks : state' = [state EXCEPT ![o] = "FLUSHED"]
    BY <1>5, WriteLemma
  <2>3. state'[o] = "FLUSHED" /\ \A d \in Chunks : d # o => state'[d] = state[d]
    BY <2>2 DEF ControlInv, TypeInv, ChunkTypes
  <2> QED
    BY <1>0, <2>1, <2>3 DEF CompressedInv
<1>6. CASE ~ReorderTake /\ ~ReorderWrite /\ \A t \in Tids : ~Refine(t) /\ ~Deduplicate(t) /\ ~Compress(t)
  BY <1>6, QuietSteps DEF CompressedInv
<1> QED
  BY <1>1, <1>2, <1>3, <1>4, <1>5, <1>6

-----------------------------------------------------------------------------
(* Every chunk stays in the group that its coarse chunk was dealt to.         *)
Home(s, x) == (IF s = "refine" THEN x ELSE x[1]) % nqueues
QueuesAtHome == \A q \in Queues : \A x \in In(que[q]) : Home(q[1], x) = q[2]
RecvAtHome == \A w \in Workers : \A x \in In(recv[w]) : Home(Stage(w), x) = qid(w)
SendAtHome == \A w \in Workers, d \in Stages : \A x \in In(send[w][d]) : Home(d, x) = qid(w)
GroupInv ==
    /\ fragPc = "read" => fragQid = anchorcount % nqueues
    /\ QueuesAtHome /\ RecvAtHome /\ SendAtHome

(* A queue that changes, with what it holds at home.                          *)
LEMMA QueuesAfter ==
    ASSUME TypeInv, QueuesAtHome, NEW q \in Queues, NEW L, que' = [que EXCEPT ![q] = L],
           \A x \in In(L) : Home(q[1], x) = q[2]
    PROVE  QueuesAtHome'
<1>1. DOMAIN que = Queues
  BY DEF TypeInv, QueueTypes
<1> QED
  BY <1>1 DEF QueuesAtHome, Home

(* The same for a receive buffer.                                             *)
LEMMA RecvAfter ==
    ASSUME TypeInv, RecvAtHome, NEW w \in Workers, NEW L, recv' = [recv EXCEPT ![w] = L],
           \A x \in In(L) : Home(Stage(w), x) = qid(w)
    PROVE  RecvAtHome'
<1>1. DOMAIN recv = Workers
  BY DEF TypeInv, WorkTypes
<1> QED
  BY <1>1 DEF RecvAtHome, Home

(* The same for a send buffer.                                                *)
LEMMA SendAfter ==
    ASSUME TypeInv, SendAtHome, NEW w \in Workers, NEW d \in Stages, NEW L,
           send' = [send EXCEPT ![w][d] = L], \A x \in In(L) : Home(d, x) = qid(w)
    PROVE  SendAtHome'
<1>0. DOMAIN send = Workers /\ \A v \in Workers : DOMAIN send[v] = Stages
  BY DEF TypeInv, WorkTypes
<1>1. ASSUME NEW v \in Workers, NEW e \in Stages, NEW x \in In(send'[v][e])
      PROVE  Home(e, x) = qid(v)
  <2>1. CASE v = w /\ e = d
    BY <1>0, <1>1, <2>1
  <2>2. CASE ~(v = w /\ e = d)
    <3>1. send'[v][e] = send[v][e]
      BY <1>0, <2>2
    <3> QED
      BY <1>1, <3>1 DEF SendAtHome
  <2> QED
    BY <2>1, <2>2
<1> QED
  BY <1>1 DEF SendAtHome, Home

(* Counting on before and after the remainder is taken comes to the same.     *)
LEMMA NextInTurn ==
    ASSUME NEW a \in Nat, NEW n \in Nat, n > 0
    PROVE  (a + 1) % n = ((a % n) + 1) % n
<1>1. PICK k \in Nat, r \in Nat : k = a \div n /\ r = a % n
  BY DivLemma
<1>2. a = n * k + r /\ r < n /\ a + 1 \in Nat
  BY <1>1, DivLemma
<1>3. n * k = k * n /\ n * (k + 1) = k * n + n /\ (k + 1) * n = k * n + n /\ k * n \in Nat
  OBVIOUS
<1>4. CASE r + 1 < n
  <2>1. (a + 1) \div n = k
    <3>1. k * n <= a + 1 /\ a + 1 < k * n + n
      BY <1>2, <1>3, <1>4
    <3> QED
      BY <1>2, <3>1, DivLemma
  <2>2. (a + 1) % n = r + 1
    <3>1. (a + 1) % n = a + 1 - n * k
      BY <1>2, <2>1, DivLemma
    <3> QED
      BY <1>2, <1>3, <3>1
  <2>3. (r + 1) % n = r + 1
    BY <1>4, NextIndexLemma
  <2> QED
    BY <1>1, <2>2, <2>3
<1>5. CASE r + 1 = n
  <2>1. (a + 1) \div n = k + 1
    <3>1. (k + 1) * n <= a + 1 /\ a + 1 < (k + 1) * n + n
      BY <1>2, <1>3, <1>5
    <3> QED
      BY <1>2, <3>1, DivLemma
  <2>2. (a + 1) % n = 0
    <3>1. (a + 1) % n = a + 1 - n * (k + 1)
      BY <1>2, <2>1, DivLemma
    <3> QED
      BY <1>2, <1>3, <1>5, <3>1
  <2>3. (r + 1) % n = 0
    BY <1>2, <1>5, NextIndexLemma
  <2> QED
    BY <1>1, <2>2, <2>3
<1> QED
  BY <1>2, <1>4, <1>5

(* Fragment deals the coarse chunks out in turn.                              *)
LEMMA FragmentGroup ==
    ASSUME TypeInv, FragmentInv, GroupInv, FragmentStep
    PROVE  GroupInv'
<1>0. nqueues \in Nat /\ nqueues > 0 /\ Groups = 0 .. nqueues - 1
  BY GroupsLemma DEF Groups
<1>1. UNCHANGED <<recv, send>>
  BY DEF FragmentStep, FragmentSend, FragmentEnd, FragmentTerminate, workVars
<1>2. RecvAtHome' /\ SendAtHome'
  BY <1>1 DEF GroupInv, RecvAtHome, SendAtHome, Home
<1>3. CASE FragmentSend
  <2>1. /\ anchorcount \in Anchors /\ anchorcount \in Nat /\ fragQid = anchorcount % nqueues
        /\ fragQid \in Groups
        /\ fragQid' = (fragQid + 1) % nqueues /\ anchorcount' = anchorcount + 1
        /\ que' = [que EXCEPT ![<<"refine", fragQid>>] = Append(@, anchorcount)]
    BY <1>3, AnchorsLemma DEF FragmentSend, GroupInv, FragmentInv
  <2>2. (anchorcount + 1) % nqueues = (fragQid + 1) % nqueues
    BY <1>0, <2>1, NextInTurn, Zenon
  <2>3. PICK q \in Queues : q = <<"refine", fragQid>>
    BY <2>1 DEF Queues, Stages, Pools
  <2>4. que[q] \in Seq(Anchors)
    <3>1. Carries(q[1]) = Anchors
      BY <2>3 DEF Carries
    <3> QED
      BY <2>3, <3>1 DEF TypeInv, QueueTypes
  <2>5. PICK L : L = Append(que[q], anchorcount)
    OBVIOUS
  <2>6. In(L) \subseteq In(que[q]) \cup {anchorcount}
    BY <2>1, <2>4, <2>5, InPieces
  <2>7. \A x \in In(L) : Home(q[1], x) = q[2]
    BY <2>1, <2>3, <2>6 DEF GroupInv, QueuesAtHome, Home
  <2>8. que' = [que EXCEPT ![q] = L]
    BY <2>1, <2>3, <2>5
  <2>9. QueuesAtHome'
    BY <2>7, <2>8, QueuesAfter DEF GroupInv
  <2> QED
    BY <1>2, <2>1, <2>2, <2>9 DEF GroupInv
<1>4. CASE FragmentEnd \/ FragmentTerminate
  <2>1. que' = que /\ fragPc' # "read"
    BY <1>4 DEF FragmentEnd, FragmentTerminate
  <2> QED
    BY <1>2, <2>1 DEF GroupInv, QueuesAtHome, Home
<1> QED
  BY <1>3, <1>4 DEF FragmentStep

(* queue_enqueue and queue_dequeue stay within a group.                       *)
LEMMA TransferGroup ==
    ASSUME TypeInv, SendInv, GroupInv, NEW w \in Workers,
           (\E d \in Stages : Enqueue(w, d)) \/ Dequeue(w) \/ Shutdown(w)
    PROVE  GroupInv'
<1>0. UNCHANGED fragVars
  BY DEF Enqueue, Dequeue, Shutdown
<1>1. ASSUME NEW d \in Stages, Enqueue(w, d) PROVE GroupInv'
  <2>1. PICK q \in Queues : q = <<d, qid(w)>>
    BY <1>1, EnqueueLemma
  <2>2. PICK n : n = EnqueueSize(w, d)
    OBVIOUS
  <2>3. /\ d # "refine" /\ send[w][d] \in Seq(Chunks) /\ que[q] \in Seq(Chunks)
        /\ que' = [que EXCEPT ![q] = @ \o SubSeq(send[w][d], 1, n)]
        /\ send' = [send EXCEPT ![w][d] = SubSeq(@, n + 1, Len(@))]
        /\ UNCHANGED recv
    BY <1>1, <2>1, <2>2, EnqueueLemma
  <2>4. n \in 0 .. Len(send[w][d])
    BY <2>2, EnqueueSizeLemma
  <2>5. PICK b : b = SubSeq(send[w][d], 1, n)
    OBVIOUS
  <2>6. PICK r : r = SubSeq(send[w][d], n + 1, Len(send[w][d]))
    OBVIOUS
  <2>7. PICK L : L = que[q] \o b
    OBVIOUS
  <2>8. b \in Seq(Chunks) /\ In(b) \subseteq In(send[w][d]) /\ In(r) \subseteq In(send[w][d])
    BY <2>3, <2>4, <2>5, <2>6, InPieces, CutLemma
  <2>9. In(L) \subseteq In(que[q]) \cup In(send[w][d])
    BY <2>3, <2>7, <2>8, InPieces
  <2>10. \A x \in In(L) : Home(q[1], x) = q[2]
    BY <2>1, <2>9 DEF GroupInv, QueuesAtHome, SendAtHome
  <2>11. \A x \in In(r) : Home(d, x) = qid(w)
    BY <2>8 DEF GroupInv, SendAtHome
  <2>12. que' = [que EXCEPT ![q] = L] /\ send' = [send EXCEPT ![w][d] = r]
    BY <2>3, <2>5, <2>6, <2>7
  <2>13. QueuesAtHome' /\ SendAtHome'
    BY <2>10, <2>11, <2>12, QueuesAfter, SendAfter DEF GroupInv
  <2>14. RecvAtHome'
    BY <2>3 DEF GroupInv, RecvAtHome, Home
  <2> QED
    BY <1>0, <2>13, <2>14 DEF GroupInv, fragVars
<1>2. CASE Dequeue(w)
  <2>1. PICK q \in Queues : q = InQueue(w) /\ q[1] = Stage(w) /\ q[2] = qid(w)
    BY <1>2, DequeueLemma DEF InQueue
  <2>2. PICK n : n = DequeueSize(q)
    OBVIOUS
  <2>3. /\ que[q] \in Seq(Carries(Stage(w))) /\ UNCHANGED send
        /\ \/ /\ recv' = [recv EXCEPT ![w] = SubSeq(que[q], 1, n)]
              /\ que' = [que EXCEPT ![q] = SubSeq(@, n + 1, Len(@))]
           \/ UNCHANGED <<recv, que>>
    BY <1>2, <2>1, <2>2, DequeueLemma
  <2>4. n \in 0 .. Len(que[q])
    BY <2>2, DequeueSizeLemma
  <2>5. PICK b : b = SubSeq(que[q], 1, n)
    OBVIOUS
  <2>6. PICK r : r = SubSeq(que[q], n + 1, Len(que[q]))
    OBVIOUS
  <2>7. In(b) \subseteq In(que[q]) /\ In(r) \subseteq In(que[q])
    BY <2>3, <2>4, <2>5, <2>6, InPieces
  <2>8. /\ \A x \in In(r) : Home(q[1], x) = q[2]
        /\ \A x \in In(b) : Home(Stage(w), x) = qid(w)
    BY <2>1, <2>7 DEF GroupInv, QueuesAtHome
  <2>9. ASSUME recv' = [recv EXCEPT ![w] = b], que' = [que EXCEPT ![q] = r]
        PROVE  QueuesAtHome' /\ RecvAtHome'
    BY <2>8, <2>9, QueuesAfter, RecvAfter DEF GroupInv
  <2>10. ASSUME UNCHANGED <<recv, que>> PROVE QueuesAtHome' /\ RecvAtHome'
    BY <2>10 DEF GroupInv, QueuesAtHome, RecvAtHome, Home
  <2>11. QueuesAtHome' /\ RecvAtHome'
    BY <2>3, <2>5, <2>6, <2>9, <2>10
  <2>12. SendAtHome'
    BY <2>3 DEF GroupInv, SendAtHome, Home
  <2> QED
    BY <1>0, <2>11, <2>12 DEF GroupInv, fragVars
<1>3. CASE Shutdown(w)
  <2>1. UNCHANGED <<que, recv, send>>
    BY <1>3 DEF Shutdown
  <2> QED
    BY <1>0, <2>1 DEF GroupInv, QueuesAtHome, RecvAtHome, SendAtHome, Home, fragVars
<1> QED
  BY <1>1, <1>2, <1>3

(* A kernel takes the head of its receive buffer, or a piece of it, and puts  *)
(* it into a send buffer of the same worker.                                  *)
LEMMA KernelGroup ==
    ASSUME TypeInv, HeadInv, GroupInv, NEW w \in Workers, Kernel(w)
    PROVE  GroupInv'
<1>1. /\ UNCHANGED <<fragVars, que>>
      /\ \E d \in Stages, c \in Chunks :
           /\ recv' = recv \/ recv' = [recv EXCEPT ![w] = Tail(@)]
           /\ send' = [send EXCEPT ![w][d] = Append(@, c)] /\ d # "refine"
           /\ recv[w] \in Seq(Carries(Stage(w))) /\ recv[w] # << >>
           /\ Home(d, c) = Home(Stage(w), Head(recv[w]))
  <2>0. w = <<Stage(w), w[2]>> /\ w[2] \in Tids
    BY WorkersLemma
  <2>1. ASSUME Stage(w) = "refine", Refine(w[2])
        PROVE  /\ UNCHANGED <<fragVars, que>>
               /\ \E d \in Stages, c \in Chunks :
                    /\ recv' = recv \/ recv' = [recv EXCEPT ![w] = Tail(@)]
                    /\ send' = [send EXCEPT ![w][d] = Append(@, c)] /\ d # "refine"
                    /\ recv[w] \in Seq(Carries(Stage(w))) /\ recv[w] # << >>
                    /\ Home(d, c) = Home(Stage(w), Head(recv[w]))
    <3>1. PICK t \in Tids : w = <<"refine", t>> /\ Refine(t)
      BY <2>0, <2>1
    <3>2. PICK c \in Chunks : c = <<Head(recv[w]), chcount[t]>>
      BY <3>1, RefineLemma
    <3>3. /\ send' = [send EXCEPT ![w]["dedup"] = Append(@, c)]
          /\ recv[w] \in Seq(Anchors) /\ recv[w] # << >>
          /\ recv' = recv \/ recv' = [recv EXCEPT ![w] = Tail(@)]
          /\ UNCHANGED <<fragVars, que>>
      BY <3>1, <3>2, RefineLemma
    <3>4. Home("dedup", c) = Home("refine", Head(recv[w]))
      BY <3>2 DEF Home
    <3> QED
      BY <2>1, <3>3, <3>4 DEF Stages, Pools, Carries
  <2>2. ASSUME Stage(w) = "dedup", Deduplicate(w[2])
        PROVE  /\ UNCHANGED <<fragVars, que>>
               /\ \E d \in Stages, c \in Chunks :
                    /\ recv' = recv \/ recv' = [recv EXCEPT ![w] = Tail(@)]
                    /\ send' = [send EXCEPT ![w][d] = Append(@, c)] /\ d # "refine"
                    /\ recv[w] \in Seq(Carries(Stage(w))) /\ recv[w] # << >>
                    /\ Home(d, c) = Home(Stage(w), Head(recv[w]))
    <3>1. PICK t \in Tids : w = <<"dedup", t>> /\ Deduplicate(t)
      BY <2>0, <2>2
    <3>2. PICK c \in Chunks : c = Head(recv[w])
      BY <3>1, DeduplicateLemma
    <3>3. PICK d \in {"compress", "reorder"} : d = DedupDest(c)
      BY DEF DedupDest
    <3>4. /\ send' = [send EXCEPT ![w][d] = Append(@, c)]
          /\ recv[w] \in Seq(Chunks) /\ recv[w] # << >>
          /\ recv' = [recv EXCEPT ![w] = Tail(@)]
          /\ UNCHANGED <<fragVars, que>>
      BY <3>1, <3>2, <3>3, DeduplicateLemma
    <3>5. Home(d, c) = Home("dedup", Head(recv[w]))
      BY <3>2, <3>3 DEF Home
    <3> QED
      BY <2>2, <3>3, <3>4, <3>5 DEF Stages, Pools, Carries
  <2>3. ASSUME Stage(w) = "compress", Compress(w[2])
        PROVE  /\ UNCHANGED <<fragVars, que>>
               /\ \E d \in Stages, c \in Chunks :
                    /\ recv' = recv \/ recv' = [recv EXCEPT ![w] = Tail(@)]
                    /\ send' = [send EXCEPT ![w][d] = Append(@, c)] /\ d # "refine"
                    /\ recv[w] \in Seq(Carries(Stage(w))) /\ recv[w] # << >>
                    /\ Home(d, c) = Home(Stage(w), Head(recv[w]))
    <3>1. PICK t \in Tids : w = <<"compress", t>> /\ Compress(t)
      BY <2>0, <2>3
    <3>2. PICK c \in Chunks : c = Head(recv[w])
      BY <3>1, CompressLemma
    <3>3. /\ send' = [send EXCEPT ![w]["reorder"] = Append(@, c)]
          /\ recv[w] \in Seq(Chunks) /\ recv[w] # << >>
          /\ recv' = [recv EXCEPT ![w] = Tail(@)]
          /\ UNCHANGED <<fragVars, que>>
      BY <3>1, <3>2, CompressLemma
    <3>4. Home("reorder", c) = Home("compress", Head(recv[w]))
      BY <3>2 DEF Home
    <3> QED
      BY <2>3, <3>3, <3>4 DEF Stages, Pools, Carries
  <2> QED
    BY <2>1, <2>2, <2>3 DEF Kernel
<1>2. PICK d \in Stages, c \in Chunks :
           /\ recv' = recv \/ recv' = [recv EXCEPT ![w] = Tail(@)]
           /\ send' = [send EXCEPT ![w][d] = Append(@, c)] /\ d # "refine"
           /\ recv[w] \in Seq(Carries(Stage(w))) /\ recv[w] # << >>
           /\ Home(d, c) = Home(Stage(w), Head(recv[w]))
  BY <1>1
<1>3. /\ Home(Stage(w), Head(recv[w])) = qid(w)
      /\ In(Tail(recv[w])) \subseteq In(recv[w])
  BY <1>2, InLemma, InPieces DEF GroupInv, RecvAtHome
<1>4. SendAtHome'
  <2>1. PICK L : L = Append(send[w][d], c)
    OBVIOUS
  <2>2. send[w][d] \in Seq(Chunks)
    BY DEF TypeInv, WorkTypes
  <2>3. In(L) \subseteq In(send[w][d]) \cup {c}
    BY <2>1, <2>2, InPieces
  <2>4. \A x \in In(L) : Home(d, x) = qid(w)
    BY <1>2, <1>3, <2>3 DEF GroupInv, SendAtHome
  <2>5. send' = [send EXCEPT ![w][d] = L]
    BY <1>2, <2>1
  <2> QED
    BY <2>4, <2>5, SendAfter DEF GroupInv
<1>5. RecvAtHome'
  <2>1. PICK L : L = Tail(recv[w])
    OBVIOUS
  <2>2. \A x \in In(L) : Home(Stage(w), x) = qid(w)
    BY <1>3, <2>1 DEF GroupInv, RecvAtHome
  <2>3. CASE recv' = [recv EXCEPT ![w] = L]
    BY <2>2, <2>3, RecvAfter DEF GroupInv
  <2>4. CASE recv' = recv
    BY <2>4 DEF GroupInv, RecvAtHome, Home
  <2> QED
    BY <1>2, <2>1, <2>3, <2>4
<1>6. QueuesAtHome'
  BY <1>1 DEF GroupInv, QueuesAtHome, Home
<1> QED
  BY <1>1, <1>4, <1>5, <1>6 DEF GroupInv, fragVars

(* Every step keeps the groups apart.                                         *)
LEMMA GroupStep ==
    ASSUME ControlInv, GroupInv, [Next]_pipeVars
    PROVE  GroupInv'
<1>0. TypeInv /\ FragmentInv /\ SendInv /\ HeadInv
  BY DEF ControlInv, AnchorInv
<1>1. CASE FragmentStep
  BY <1>0, <1>1, FragmentGroup
<1>2. ASSUME NEW w \in Workers, WorkerStep(w) PROVE GroupInv'
  BY <1>0, <1>2, TransferGroup, KernelGroup DEF WorkerStep
<1>3. CASE ReorderDequeue
  <2>1. PICK q \in Queues : q = <<"reorder", rqid>>
    BY <1>0, <1>3, ReorderDequeueLemma
  <2>2. PICK n : n = DequeueSize(q)
    OBVIOUS
  <2>3. /\ que[q] \in Seq(Chunks) /\ n \in 0 .. Len(que[q]) /\ UNCHANGED <<fragVars, workVars>>
        /\ que' = [que EXCEPT ![q] = SubSeq(@, n + 1, Len(@))] \/ UNCHANGED que
    BY <1>0, <1>3, <2>1, <2>2, ReorderDequeueLemma
  <2>4. PICK r : r = SubSeq(que[q], n + 1, Len(que[q]))
    OBVIOUS
  <2>5. In(r) \subseteq In(que[q])
    BY <2>3, <2>4, InPieces
  <2>6. \A x \in In(r) : Home(q[1], x) = q[2]
    BY <2>5 DEF GroupInv, QueuesAtHome
  <2>7. ASSUME que' = [que EXCEPT ![q] = r] PROVE QueuesAtHome'
    BY <1>0, <2>6, <2>7, QueuesAfter DEF GroupInv
  <2>8. ASSUME UNCHANGED que PROVE QueuesAtHome'
    BY <2>8 DEF GroupInv, QueuesAtHome, Home
  <2>9. QueuesAtHome'
    BY <2>3, <2>4, <2>7, <2>8
  <2>10. RecvAtHome' /\ SendAtHome'
    BY <2>3 DEF GroupInv, RecvAtHome, SendAtHome, Home, workVars
  <2> QED
    BY <2>3, <2>9, <2>10 DEF GroupInv, fragVars
<1>4. CASE UNCHANGED <<que, recv, send, fragVars>>
  BY <1>4 DEF GroupInv, QueuesAtHome, RecvAtHome, SendAtHome, Home, fragVars
<1>5. CASE ReorderTake \/ ReorderWrite \/ ReorderFlush
  BY <1>4, <1>5 DEF ReorderTake, ReorderWrite, ReorderFlush, workVars
<1>6. CASE UNCHANGED pipeVars
  BY <1>4, <1>6 DEF pipeVars, workVars
<1> QED
  BY <1>1, <1>2, <1>3, <1>5, <1>6 DEF Next, Step, ReorderStep, Finished, Standstill

(* It holds at the start.                                                     *)
LEMMA GroupInit ==
    ASSUME Init
    PROVE  GroupInv
<1>1. /\ \A q \in Queues : que[q] = << >>
      /\ \A w \in Workers : recv[w] = << >> /\ \A d \in Stages : send[w][d] = << >>
      /\ anchorcount = 0 /\ fragQid = 0
  BY DEF Init
<1>2. In(<< >>) = {}
  BY DEF In
<1>3. 0 % nqueues = 0
  BY GroupsLemma
<1> QED
  BY <1>1, <1>2, <1>3 DEF GroupInv, QueuesAtHome, RecvAtHome, SendAtHome

(* No chunk has been deduplicated at the start.                               *)
LEMMA CompressedInit ==
    ASSUME Init
    PROVE  CompressedInv
<1>1. \A c \in Chunks : original[c] = NoChunk /\ c # NoChunk
  BY ChunksLemma DEF Init
<1>2. ForReorder \cup Arrived \subseteq Chunks
  BY ControlInit DEF ControlInv, ChunkInv
<1> QED
  BY <1>1, <1>2 DEF CompressedInv

-----------------------------------------------------------------------------
(* The inductive invariant.                                                   *)
IInv == ControlInv /\ DataInv /\ RefsInv /\ CompressedInv /\ GroupInv

(* Everything together is an invariant of the pipeline.                       *)
THEOREM Invariance == Spec => []IInv
<1>1. Init => IInv
  BY ControlInit, DataInit, RefsInit, CompressedInit, GroupInit DEF IInv
<1>2. IInv /\ [Next]_pipeVars => IInv'
  BY ControlStep, DataStep, RefsStep, CompressedStep, GroupStep DEF IInv
<1> QED
  BY <1>1, <1>2, PTL DEF Spec

(* The types of the pipeline's state: queues within their size, no queue      *)
(* terminated more often than it has producers (queue.c, encoder.c), and the  *)
(* reference count of the input buffer never below zero (mbuffer.c).          *)
THEOREM TypeCorrect == Spec => []TypeOK
<1>1. ASSUME IInv PROVE TypeOK
  <2>1. TypeInv /\ FragmentInv /\ ShutdownInv
    BY <1>1 DEF IInv, ControlInv
  <2>2. refs \in Nat
    BY <1>1, HoldersLemma DEF IInv, RefsInv, Unread
  <2>3. ASSUME NEW q \in Queues
        PROVE  /\ que[q] \in Seq(IF q[1] = "refine" THEN Anchors ELSE Chunks)
               /\ Len(que[q]) <= QueueSize
               /\ nTerminated[q] \in 0 .. nProducers(q)
    <3>1. que[q] \in Seq(IF q[1] = "refine" THEN Anchors ELSE Chunks) /\ Len(que[q]) <= QueueSize
      BY <2>1 DEF TypeInv, QueueTypes, Carries
    <3>2. PICK s \in Stages, g \in Groups : q = <<s, g>>
      BY DEF Queues
    <3>3. CASE s = "refine"
      <4>1. nTerminated[q] \in {0, 1} /\ nProducers(q) = 1
        BY <2>1, <3>2, <3>3 DEF FragmentInv, nProducers
      <4> QED
        BY <3>1, <4>1
    <3>4. CASE s # "refine"
      <4>1. s \in ChunkStages
        BY <3>4 DEF ChunkStages, Stages, Pools
      <4>2. /\ nTerminated[q] = Cardinality(DoneOf(q)) /\ IsFiniteSet(ProducersOf(q))
            /\ nProducers(q) = Cardinality(ProducersOf(q))
        BY <2>1, <3>2, <4>1, ProducersLemma DEF ShutdownInv
      <4>3. DoneOf(q) \in SUBSET ProducersOf(q)
        BY DEF DoneOf
      <4>4. /\ Cardinality(DoneOf(q)) \in Nat /\ Cardinality(ProducersOf(q)) \in Nat
            /\ Cardinality(DoneOf(q)) <= Cardinality(ProducersOf(q))
        BY <4>2, <4>3, FS_Subset, FS_CardinalityType
      <4> QED
        BY <3>1, <4>2, <4>4
    <3> QED
      BY <3>3, <3>4
  <2>4. DOMAIN que = Queues /\ DOMAIN nTerminated = Queues
    BY <2>1 DEF TypeInv, QueueTypes
  <2>5. /\ DOMAIN recv = Workers
        /\ \A w \in Workers : recv[w] \in Seq(IF Stage(w) = "refine" THEN Anchors ELSE Chunks)
    BY <2>1 DEF TypeInv, WorkTypes, Carries
  <2> QED
    BY <2>1, <2>2, <2>3, <2>4, <2>5
       DEF TypeOK, TypeInv, FragmentTypes, WorkTypes, ChunkTypes, ReorderTypes
<1> QED
  BY <1>1, Invariance, PTL

(* The assertions in the stages: no thread enqueues to a terminated queue     *)
(* (queue.c:88), sub_Compress gets every chunk once (encoder.c), and Reorder  *)
(* learns the length of an anchor once.                                       *)
THEOREM StageAssertions == Spec => []Assertions
<1>1. ASSUME IInv PROVE Assertions
  <2>1. ControlInv /\ DataInv /\ TypeInv /\ PipelineAssumption
    BY <1>1, PipelineAssumption DEF IInv, ControlInv
  <2>2. ASSUME NEW w \in Workers, NEW d \in Stages, MustEnqueue(w, d)
        PROVE  ~isTerminated(<<d, qid(w)>>)
    <3>1. send[w][d] # << >>
      <4>1. Len(<< >>) = 0 /\ Batch > 0
        BY EmptySeq, PipelineAssumption
      <4> QED
        BY <2>2, <4>1 DEF MustEnqueue, FullBuffer
    <3> QED
      BY <2>1, <3>1, OpenLemma DEF ControlInv
  <2>3. ASSUME NEW t \in Tids, recv[<<"compress", t>>] # << >>
        PROVE  state[Head(recv[<<"compress", t>>])] = "UNCOMPRESSED"
    <3>1. PICK s : s = recv[<<"compress", t>>]
      OBVIOUS
    <3>2. /\ <<"compress", t>> \in Workers /\ Stage(<<"compress", t>>) = "compress"
          /\ Received(<<"compress", t>>) \in BoundFor("compress")
          /\ ChunkLines[Received(<<"compress", t>>)] = s
      BY <3>1, ReceivedPlace, LineOf DEF BoundFor
    <3>3. s \in Seq(Chunks) /\ s # << >>
      BY <2>1, <2>3, <3>1, <3>2 DEF TypeInv, WorkTypes, Carries
    <3>4. Head(s) \in In(s) /\ Head(s) \in Chunks
      <4>1. Head(s) = s[1] /\ 1 \in 1 .. Len(s) /\ s[1] \in Chunks
        BY <3>3, EmptySeq
      <4> QED
        BY <4>1 DEF In
    <3>5. Head(s) \in ForCompress
      BY <3>2, <3>4 DEF ForCompress, Among
    <3> QED
      BY <2>1, <3>1, <3>4, <3>5 DEF DataInv, PlaceInv
  <2>4. ASSUME rpc = "take", isLastL2Chunk(Head(rrecv))
        PROVE  chunks_per_anchor[Head(rrecv)[1]] = 0
    <3>1. rrecv \in Seq(Chunks) /\ rrecv # << >>
      BY <2>1, <2>4 DEF ControlInv, SequenceInv, ReorderPc, TypeInv, ReorderTypes
    <3>2. PICK c : c = Head(rrecv)
      OBVIOUS
    <3>3. c \in In(rrecv) /\ c \in Chunks
      <4>1. Head(rrecv) = rrecv[1] /\ 1 \in 1 .. Len(rrecv) /\ rrecv[1] \in Chunks
        BY <3>1, EmptySeq
      <4> QED
        BY <3>2, <4>1 DEF In
    <3>4. c \in ForReorder
      BY <3>3, BufferPlace, LineOf DEF ForReorder, Among, BoundFor
    <3>5. c \notin Arrived
      BY <2>1, <3>4 DEF ControlInv, ChunkInv
    <3>6. c = LastOf(c[1]) /\ c[1] \in Anchors
      BY <2>4, <3>2, <3>3, LastLemma, ChunksLemma
    <3> QED
      BY <2>1, <3>2, <3>5, <3>6 DEF ControlInv, SequenceInv
  <2> QED
    BY <2>2, <2>3, <2>4 DEF Assertions
<1> QED
  BY <1>1, Invariance, PTL

(* When all reorder queues have closed, Reorder has written every chunk: its  *)
(* final loop and both of its error exits find nothing to do (encoder.c,      *)
(* Reorder).                                                                  *)
THEOREM NothingIsLeftBehind == Spec => []NothingLeftBehind
<1>1. IInv => NothingLeftBehind
  BY DEF IInv, ControlInv, EndInv, NothingLeftBehind
<1> QED
  BY <1>1, Invariance, PTL

(* A duplicate that Reorder has written and freed is not in the hash table    *)
(* and no other chunk refers to it (encoder.c, sub_Deduplicate and            *)
(* write_chunk_to_file).                                                      *)
THEOREM FreedIsForgotten == Spec => []FreedChunksAreUnreachable
<1>1. ASSUME IInv PROVE FreedChunksAreUnreachable
  <2>1. DataInv
    BY <1>1 DEF IInv
  <2>2. ASSUME NEW c \in Chunks, original[c] # c
        PROVE  (\A x \in Contents : cache[x] # c) /\ (\A d \in Chunks : original[d] # c)
    <3>1. c # NoChunk
      BY ChunksLemma
    <3>2. \A x \in Contents : cache[x] # c
      BY <2>1, <2>2, <3>1 DEF DataInv, CacheInv
    <3>3. ASSUME NEW d \in Chunks PROVE original[d] # c
      BY <2>1, <3>1, <3>2, ContentsLemma DEF DataInv, OriginalInv
    <3> QED
      BY <3>2, <3>3
  <2> QED
    BY <2>2 DEF FreedChunksAreUnreachable
<1> QED
  BY <1>1, Invariance, PTL

(* The buffer the input was read into is released when, and only when, no     *)
(* chunk needs it any more: neither too early nor never (mbuffer.c; the       *)
(* splits and frees of encoder.c's stages).                                   *)
THEOREM BufferIsReleased == Spec => []BufferLivesAsLongAsItsChunks
<1>1. ASSUME IInv, Input # << >> PROVE refs = 0 <=> \A c \in Chunks : ~NeedsItsData(c)
  <2>1. ControlInv /\ DataInv /\ refs = Cardinality(Holders)
    BY <1>1, HoldersLemma DEF IInv, RefsInv, Unread
  <2>2. refs = 0 <=> Holders = {}
    BY <2>1, HoldersLemma, FS_EmptySet
  <2>3. ASSUME NEW c \in Chunks, NeedsItsData(c) PROVE Holders # {}
    <3>1. /\ c[1] \in Anchors /\ c[1] \in Nat /\ c[2] \in Nat /\ c[2] < NPieces(c[1])
          /\ c[1] < Len(Input)
          /\ NPieces(c[1]) \in Nat /\ anchorcount \in Nat /\ Len(Input) \in Nat
      BY <2>1, ChunksLemma, AnchorsLemma DEF ControlInv, TypeInv, FragmentTypes
    <3>2. CASE c \notin Uncut
      BY <2>3, <3>2 DEF Holders
    <3>3. CASE c \in Uncut /\ c[1] < anchorcount
      <4>1. PICK l \in Chunks : l = LastOf(c[1])
        BY <3>1, LastLemma
      <4>2. l[1] = c[1] /\ l[2] = NPieces(c[1]) - 1 /\ isLastL2Chunk(l)
        BY <3>1, <4>1, LastLemma DEF LastOf
      <4>3. /\ c[1] \in QueuedAnchors
            /\ \A t \in Tids : recv[<<"refine", t>>] # << >> /\ Head(recv[<<"refine", t>>]) = c[1]
                               => c[2] >= chcount[t]
        BY <3>1, <3>3 DEF Uncut, Unrefined
      <4>4. \A t \in Tids : chcount[t] \in Nat
        BY <2>1 DEF ControlInv, TypeInv, WorkTypes
      <4>5. \A t \in Tids : recv[<<"refine", t>>] # << >> /\ Head(recv[<<"refine", t>>]) = l[1]
                            => l[2] >= chcount[t]
        BY <3>1, <4>2, <4>3, <4>4
      <4>6. l \in Uncut
        BY <4>2, <4>3, <4>5 DEF Uncut, Unrefined
      <4> QED
        BY <2>1, <3>3, <4>2, <4>6, NeedsLemma DEF Holders, Lead
    <3>4. CASE c[1] >= anchorcount
      <4>0. Len(Input) - 1 \in Anchors /\ Len(Input) - 1 >= anchorcount
        <5>1. Len(Input) - 1 \in Nat /\ Len(Input) - 1 < Len(Input) /\ Len(Input) - 1 >= anchorcount
          BY <3>1, <3>4
        <5> QED
          BY <5>1, AnchorsLemma
      <4>1. PICK l \in Chunks : l = LastOf(Len(Input) - 1)
        BY <4>0, LastLemma
      <4>2. l[1] = Len(Input) - 1 /\ isLastL2Chunk(l)
        BY <4>0, <4>1, LastLemma
      <4>3. l \in Uncut
        BY <4>0, <4>2 DEF Uncut, Unrefined
      <4> QED
        BY <2>1, <4>2, <4>3, NeedsLemma DEF Holders, Lead
    <3> QED
      BY <3>1, <3>2, <3>3, <3>4
  <2> QED
    BY <2>2, <2>3 DEF Holders
<1>2. IInv => BufferLivesAsLongAsItsChunks
  BY <1>1 DEF BufferLivesAsLongAsItsChunks
<1> QED
  BY <1>2, Invariance, PTL

-----------------------------------------------------------------------------
(* A standstill.  A worker that has not returned is starving, on an empty and *)
(* open queue, or it has chunks for a queue that is full.                     *)
Starving(w) == /\ recv[w] = << >> /\ que[InQueue(w)] = << >> /\ ~isTerminated(InQueue(w))
Jammed(w) == \E d \in Aims(Stage(w)) : IsFull(<<d, qid(w)>>)

LEMMA BlockedLemma ==
    ASSUME TypeInv, SendInv, NEW w \in Workers, ~WorkerCanStep(w)
    PROVE  pc[w] = "done" \/ Starving(w) \/ Jammed(w)
<1>1. pc[w] \in {"work", "drain", "done"} /\ \A d \in Stages : send[w][d] \in Seq(Chunks)
  BY DEF TypeInv, WorkTypes
<1>2. ASSUME NEW d \in Stages, MustEnqueue(w, d) PROVE Jammed(w)
  <2>1. send[w][d] # << >>
    <3>1. Len(<< >>) = 0 /\ Batch # 0
      BY EmptySeq, PipelineAssumption
    <3> QED
      BY <1>2, <3>1 DEF MustEnqueue, FullBuffer
  <2>2. d \in Aims(Stage(w)) /\ IsFull(<<d, qid(w)>>)
    BY <1>2, <2>1 DEF SendInv, WorkerCanStep
  <2> QED
    BY <2>2 DEF Jammed
<1>3. CASE pc[w] = "work"
  <2>1. CASE \A d \in Stages : ~FullBuffer(w, d)
    BY <1>3, <2>1 DEF Ready, WorkerCanStep, Starving
  <2>2. CASE \E d \in Stages : FullBuffer(w, d)
    BY <1>2, <1>3, <2>2 DEF MustEnqueue
  <2> QED
    BY <2>1, <2>2
<1>4. CASE pc[w] = "drain"
  <2>1. PICK d \in Stages : send[w][d] # << >>
    BY <1>4 DEF WorkerCanStep
  <2>2. "compress" \in Stages
    BY DEF Stages, Pools
  <2>3. MustEnqueue(w, d) \/ MustEnqueue(w, "compress")
    BY <1>4, <2>1 DEF MustEnqueue
  <2> QED
    BY <1>2, <2>2, <2>3
<1> QED
  BY <1>1, <1>3, <1>4

(* While the reorder queue of a group has room nothing is under way in its    *)
(* other queues, and its workers have returned or starve.                     *)
LEMMA RoomLemma ==
    ASSUME TypeInv, SendInv, ShutdownInv, \A w \in Workers : ~WorkerCanStep(w),
           NEW g \in Groups, ~IsFull(<<"reorder", g>>)
    PROVE  /\ \A w \in Workers : qid(w) = g => pc[w] = "done" \/ Starving(w)
           /\ \A s \in Pools : que[<<s, g>>] = << >> /\ ~IsFull(<<s, g>>)
<1>1. ASSUME NEW s \in Pools, \A d \in Aims(s) : ~IsFull(<<d, g>>)
      PROVE  /\ \A w \in Workers : Stage(w) = s /\ qid(w) = g => pc[w] = "done" \/ Starving(w)
             /\ que[<<s, g>>] = << >> /\ ~IsFull(<<s, g>>)
  <2>1. ASSUME NEW w \in Workers, Stage(w) = s, qid(w) = g
        PROVE  (pc[w] = "done" \/ Starving(w)) /\ que[InQueue(w)] = << >> /\ InQueue(w) = <<s, g>>
    <3>1. ~Jammed(w)
      BY <1>1, <2>1 DEF Jammed
    <3>2. pc[w] = "done" \/ Starving(w)
      BY <3>1, BlockedLemma
    <3> QED
      BY <2>1, <3>2 DEF ShutdownInv, Starving, InQueue
  <2>2. PICK t \in Tids : t \div ThreadsPerQueue = g
    BY GroupsLemma DEF Members
  <2>3. PICK w \in Workers : Stage(w) = s /\ qid(w) = g
    BY <2>2, WorkersLemma
  <2>4. que[<<s, g>>] = << >>
    BY <2>1, <2>3
  <2>5. ~IsFull(<<s, g>>)
    BY <2>4, EmptySeq, PipelineAssumption DEF IsFull
  <2> QED
    BY <2>1, <2>4, <2>5
<1>2. Aims("compress") = {"reorder"} /\ Aims("dedup") = {"compress", "reorder"} /\ Aims("refine") = {"dedup"}
  BY DEF Aims
<1>3. /\ \A w \in Workers : Stage(w) = "compress" /\ qid(w) = g => pc[w] = "done" \/ Starving(w)
      /\ que[<<"compress", g>>] = << >> /\ ~IsFull(<<"compress", g>>)
  BY <1>1, <1>2 DEF Pools
<1>4. /\ \A w \in Workers : Stage(w) = "dedup" /\ qid(w) = g => pc[w] = "done" \/ Starving(w)
      /\ que[<<"dedup", g>>] = << >> /\ ~IsFull(<<"dedup", g>>)
  BY <1>1, <1>2, <1>3 DEF Pools
<1>5. /\ \A w \in Workers : Stage(w) = "refine" /\ qid(w) = g => pc[w] = "done" \/ Starving(w)
      /\ que[<<"refine", g>>] = << >> /\ ~IsFull(<<"refine", g>>)
  BY <1>1, <1>2, <1>4 DEF Pools
<1> QED
  BY <1>3, <1>4, <1>5, WorkersLemma DEF Pools

(* A group that has room and is not finished is held up.                      *)
LEMMA HeldUpLemma ==
    ASSUME TypeInv, FragmentInv, SendInv, ShutdownInv, Stuck,
           NEW g \in Groups, ~IsFull(<<"reorder", g>>),
           NEW s \in Stages, ~isTerminated(<<s, g>>)
    PROVE  HeldUp(g)
<1>0. (\A w \in Workers : ~WorkerCanStep(w)) /\ ~FragmentCanStep
  BY DEF Stuck
<1>1. ASSUME NEW d \in ChunkStages, ~isTerminated(<<d, g>>)
      PROVE  ~isTerminated(<<Feeder(d), g>>)
  <2>1. PICK w \in ProducersOf(<<d, g>>) : pc[w] # "done"
    BY <1>1, TerminatedLemma
  <2>2. w \in Workers /\ Stage(w) = Feeder(d) /\ qid(w) = g
    BY <2>1, ProducersLemma
  <2>3. Starving(w)
    BY <1>0, <2>1, <2>2, RoomLemma
  <2> QED
    BY <2>2, <2>3 DEF Starving, InQueue
<1>2. /\ Feeder("dedup") = "refine" /\ Feeder("compress") = "dedup" /\ Feeder("reorder") = "compress"
      /\ ChunkStages = {"dedup", "compress", "reorder"}
  BY DEF Feeder, ChunkStages
<1>3. ~isTerminated(<<"dedup", g>>) => ~isTerminated(<<"refine", g>>)
  BY <1>1, <1>2
<1>4. ~isTerminated(<<"compress", g>>) => ~isTerminated(<<"dedup", g>>)
  BY <1>1, <1>2
<1>5. ~isTerminated(<<"reorder", g>>) => ~isTerminated(<<"compress", g>>)
  BY <1>1, <1>2
<1>6. ~isTerminated(<<"refine", g>>)
  BY <1>3, <1>4, <1>5 DEF Stages, Pools
<1>7. fragPc = "read"
  <2>1. nTerminated[<<"refine", g>>] # 1
    BY <1>6 DEF isTerminated, nProducers
  <2>2. fragPc = "read" \/ ~(g < fragQid)
    BY <2>1 DEF FragmentInv
  <2>3. fragPc \in {"read", "done"}
    BY <1>0 DEF FragmentCanStep, TypeInv, FragmentTypes
  <2>4. fragPc = "done" => g < fragQid
    BY GroupsLemma DEF FragmentInv, Groups
  <2> QED
    BY <2>2, <2>3, <2>4
<1>8. IsFull(<<"refine", fragQid>>) /\ fragQid \in Groups
  BY <1>0, <1>7 DEF FragmentCanStep, FragmentInv
<1>9. \A h \in Groups : IsFull(<<"refine", h>>) => IsFull(<<"reorder", h>>)
  BY <1>0, RoomLemma DEF Pools
<1> QED
  BY <1>7, <1>8, <1>9 DEF HeldUp

(* The original that Reorder waits for is on its way to be compressed.        *)
LEMMA AwaitedLemma ==
    ASSUME ControlInv, DataInv, CompressedInv, rpc = "write",
           NEW o, o = original[inHand], state[o] = "UNCOMPRESSED"
    PROVE  o \in Chunks /\ o \in ForCompress
<1>1. inHand = next /\ next \in Chunks /\ next \in Arrived
  BY AdvanceLemma DEF ControlInv
<1>2. o # NoChunk /\ o = cache[ContentOf(next)]
  BY <1>1 DEF DataInv, PlaceInv, OriginalInv
<1>3. o \in Chunks /\ original[o] = o
  BY <1>1, <1>2, ContentsLemma DEF ControlInv, TypeInv, ChunkTypes, DataInv, CacheInv
<1>4. o \notin Uncut \cup ForDedup
  BY <1>2, <1>3 DEF DataInv, PlaceInv
<1>5. o \notin ForReorder \cup Arrived
  BY <1>3 DEF CompressedInv
<1> QED
  BY <1>3, <1>4, <1>5 DEF ControlInv, ChunkInv

(* If its group has room, a Deduplicate thread of this group has it and       *)
(* starves, so that the group is held up.                                     *)
LEMMA AwaitedHeldUp ==
    ASSUME ControlInv, GroupInv, Stuck, NEW o \in ForCompress, o \in Chunks,
           NEW g \in Groups, g = o[1] % nqueues, ~IsFull(<<"reorder", g>>)
    PROVE  HeldUp(g)
<1>0. /\ TypeInv /\ FragmentInv /\ SendInv /\ ShutdownInv
      /\ \A w \in Workers : ~WorkerCanStep(w)
  BY DEF ControlInv, Stuck
<1>1. /\ \A w \in Workers : qid(w) = g => pc[w] = "done" \/ Starving(w)
      /\ que[<<"compress", g>>] = << >>
  BY <1>0, RoomLemma DEF Pools
<1>2. PICK p \in ChunkPlaces : Aim(p) = "compress" /\ o \in In(ChunkLines[p])
  BY DEF ForCompress, Among, BoundFor
<1>3. In(<< >>) = {}
  BY DEF In
<1>4. ASSUME NEW s \in ChunkStages, NEW h \in Groups, p = Queued(<<s, h>>) PROVE FALSE
  <2>1. s = "compress" /\ <<s, h>> \in Queues /\ o \in In(que[<<s, h>>])
    BY <1>2, <1>4, QueuedPlace, LineOf
  <2>2. h = g
    BY <2>1 DEF GroupInv, QueuesAtHome, Home
  <2> QED
    BY <1>1, <1>3, <2>1, <2>2
<1>5. ASSUME NEW s \in {"dedup", "compress"}, NEW t \in Tids, p = Received(<<s, t>>) PROVE FALSE
  <2>1. PICK w \in Workers : w = <<s, t>> /\ Stage(w) = s /\ s = "compress" /\ o \in In(recv[w])
    BY <1>2, <1>5, ReceivedPlace, LineOf
  <2>2. qid(w) = g
    BY <2>1 DEF GroupInv, RecvAtHome, Home
  <2>3. recv[w] = << >>
    BY <1>0, <1>1, <2>2 DEF Starving, ShutdownInv
  <2> QED
    BY <1>3, <2>1, <2>3
<1>6. ASSUME NEW w \in Workers, NEW d \in ChunkStages, p = Outgoing(w, d) PROVE HeldUp(g)
  <2>1. d = "compress" /\ d \in Stages /\ o \in In(send[w][d])
    BY <1>2, <1>6, OutgoingPlace, LineOf DEF Stages, Pools
  <2>2. qid(w) = g
    BY <2>1 DEF GroupInv, SendAtHome, Home
  <2>3. pc[w] # "done"
    BY <1>0, <1>3, <2>1 DEF ShutdownInv
  <2>4. ~isTerminated(<<Stage(w), g>>) /\ Stage(w) \in Stages
    BY <1>1, <2>2, <2>3, WorkersLemma DEF Starving, InQueue, Stages
  <2> QED
    BY <1>0, <2>4, HeldUpLemma
<1>7. p # ReorderBuffer
  BY <1>2, BufferPlace
<1> QED
  BY <1>4, <1>5, <1>6, <1>7, PlacesAre

(* When Reorder has returned so has every other thread.                       *)
LEMMA ReorderIsLast ==
    ASSUME ControlInv, rpc = "done", ~FragmentCanStep
    PROVE  AllDone
<1>0. TypeInv /\ FragmentInv /\ SendInv /\ ShutdownInv /\ TurnInv
  BY DEF ControlInv
<1>1. \A g \in Groups : Stopped(<<"reorder", g>>)
  BY <1>0, Zenon DEF TurnInv
<1>2. /\ Feeder("dedup") = "refine" /\ Feeder("compress") = "dedup" /\ Feeder("reorder") = "compress"
      /\ ChunkStages = {"dedup", "compress", "reorder"}
  BY DEF Feeder, ChunkStages
<1>3. \A g \in Groups : Stopped(<<"compress", g>>)
  <2>1. "reorder" \in ChunkStages /\ Feeder("reorder") = "compress"
    BY <1>2
  <2> QED
    BY <1>0, <1>1, <2>1, AllBehind
<1>4. \A g \in Groups : Stopped(<<"dedup", g>>)
  <2>1. "compress" \in ChunkStages /\ Feeder("compress") = "dedup"
    BY <1>2
  <2> QED
    BY <1>0, <1>3, <2>1, AllBehind
<1>5. \A g \in Groups : Stopped(<<"refine", g>>)
  <2>1. "dedup" \in ChunkStages /\ Feeder("dedup") = "refine"
    BY <1>2
  <2> QED
    BY <1>0, <1>4, <2>1, AllBehind
<1>6. ASSUME NEW w \in Workers PROVE pc[w] = "done"
  <2>1. PICK s \in ChunkStages : Feeder(s) = Stage(w) /\ \A g \in Groups : Stopped(<<s, g>>)
    BY <1>1, <1>2, <1>3, <1>4, WorkersLemma DEF Pools
  <2>2. qid(w) \in Groups /\ w \in ProducersOf(<<s, qid(w)>>)
    BY <2>1, WorkersLemma, ProducersLemma
  <2> QED
    BY <1>0, <2>1, <2>2, TerminatedLemma DEF Stopped
<1>7. fragPc = "done"
  <2>1. ASSUME NEW g \in Groups PROVE fragPc # "read" /\ g < fragQid
    <3>1. nTerminated[<<"refine", g>>] = 1
      BY <1>5 DEF Stopped, isTerminated, nProducers
    <3> QED
      BY <1>0, <3>1 DEF FragmentInv
  <2>2. fragPc # "read" /\ fragPc # "terminate"
    BY <2>1, WorkersLemma DEF FragmentCanStep
  <2> QED
    BY <1>0, <2>2 DEF TypeInv, FragmentTypes
<1> QED
  BY <1>6, <1>7 DEF AllDone

(* What the invariant says of a standstill.                                   *)
LEMMA StandstillLemma ==
    ASSUME IInv
    PROVE  StuckOnlyBehindAFullQueue
<1>0. ControlInv /\ DataInv /\ CompressedInv /\ GroupInv
  BY DEF IInv
<1> SUFFICES ASSUME Stuck
             PROVE  \/ rpc = "fetch" /\ que[<<"reorder", rqid>>] = << >> /\ HeldUp(rqid)
                    \/ /\ rpc = "write" /\ state[original[inHand]] = "UNCOMPRESSED"
                       /\ LET g == original[inHand][1] % nqueues
                          IN IsFull(<<"reorder", g>>) \/ HeldUp(g)
  BY DEF StuckOnlyBehindAFullQueue
<1>1. /\ TypeInv /\ FragmentInv /\ SendInv /\ ShutdownInv /\ ReorderPc
      /\ ~ReorderCanStep /\ ~FragmentCanStep /\ ~AllDone
  BY <1>0 DEF ControlInv, SequenceInv, Stuck
<1>2. rpc \in {"fetch", "write"}
  <2>1. rpc # "done"
    BY <1>1, <1>0, ReorderIsLast
  <2> QED
    BY <1>1, <2>1 DEF ReorderCanStep, ReorderPc, TypeInv, ReorderTypes
<1>3. CASE rpc = "fetch"
  <2>1. que[<<"reorder", rqid>>] = << >> /\ ~isTerminated(<<"reorder", rqid>>) /\ rqid \in Groups
    BY <1>1, <1>3 DEF ReorderCanStep, TypeInv, ReorderTypes
  <2>2. ~IsFull(<<"reorder", rqid>>)
    BY <2>1, EmptySeq, PipelineAssumption DEF IsFull
  <2>3. HeldUp(rqid)
    BY <1>1, <2>1, <2>2, HeldUpLemma DEF Stages
  <2> QED
    BY <1>3, <2>1, <2>3
<1>4. CASE rpc = "write"
  <2>1. PICK o : o = original[inHand]
    OBVIOUS
  <2>2. state[o] = "UNCOMPRESSED"
    BY <1>1, <1>4, <2>1 DEF ReorderCanStep
  <2>3. o \in Chunks /\ o \in ForCompress
    BY <1>4, <1>0, <2>1, <2>2, AwaitedLemma
  <2>4. PICK g \in Groups : g = o[1] % nqueues
    <3>1. PICK n \in Nat : n = nqueues /\ n > 0 /\ Groups = 0 .. n - 1
      BY GroupsLemma DEF Groups
    <3>2. PICK a \in Nat : a = o[1]
      BY <2>3, ChunksLemma
    <3>3. a % n \in Nat /\ a % n < n
      BY <3>1, DivLemma
    <3> QED
      BY <3>1, <3>2, <3>3
  <2>5. IsFull(<<"reorder", g>>) \/ HeldUp(g)
    BY <1>0, <2>3, <2>4, AwaitedHeldUp
  <2> QED
    BY <1>4, <2>1, <2>2, <2>4, <2>5
<1> QED
  BY <1>2, <1>3, <1>4

(* When no thread of the pipeline can take a step any more, Reorder waits for *)
(* a queue that Fragment cannot feed or for an original that is behind a full *)
(* queue, and nothing else is wrong (encoder.c, Reorder and                   *)
(* write_chunk_to_file).                                                      *)
THEOREM NoOtherStandstill == Spec => []StuckOnlyBehindAFullQueue
<1>1. IInv => StuckOnlyBehindAFullQueue
  BY StandstillLemma
<1> QED
  BY <1>1, Invariance, PTL

(* The chunks of the input that are dealt to a group.                         *)
ChunksOf(g) == {c \in Chunks : c[1] % nqueues = g}

(* A reorder queue in which a chunk of its group is missing is not full, if   *)
(* it has room for all of them.                                               *)
LEMMA MissingChunk ==
    ASSUME TypeInv, ChunkInv, GroupInv, NEW g \in Groups, Cardinality(ChunksOf(g)) <= QueueSize,
           NEW x \in ChunksOf(g), x \notin ForReorder
    PROVE  ~IsFull(<<"reorder", g>>)
<1> SUFFICES ASSUME IsFull(<<"reorder", g>>) PROVE FALSE
  OBVIOUS
<1>1. /\ <<"reorder", g>> \in Queues /\ "reorder" \in ChunkStages
      /\ Queued(<<"reorder", g>>) \in ChunkPlaces /\ Aim(Queued(<<"reorder", g>>)) = "reorder"
  BY QueuedPlace DEF ChunkStages
<1>2. PICK p \in ChunkPlaces : p = Queued(<<"reorder", g>>) /\ p \in BoundFor("reorder")
  BY <1>1 DEF BoundFor
<1>3. PICK s \in Seq(Chunks) : s = que[<<"reorder", g>>] /\ s = ChunkLines[p]
  <2>1. que[<<"reorder", g>>] \in Seq(Chunks)
    BY <1>1 DEF TypeInv, QueueTypes, Carries
  <2> QED
    BY <1>1, <1>2, <2>1, LineOf
<1>4. Len(s) = QueueSize
  BY <1>3 DEF IsFull
<1>5. ASSUME NEW i \in 1 .. QueueSize PROVE s[i] \in ChunksOf(g) \ {x}
  <2>1. s[i] \in In(s) /\ s[i] \in Chunks
    BY <1>4 DEF In
  <2>2. s[i] \in ForReorder
    BY <1>2, <1>3, <2>1 DEF ForReorder, Among
  <2>3. s[i][1] % nqueues = g
    BY <1>1, <1>3, <2>1 DEF GroupInv, QueuesAtHome, Home
  <2> QED
    BY <2>1, <2>2, <2>3 DEF ChunksOf
<1>6. \A i, j \in 1 .. QueueSize : s[i] = s[j] => i = j
  BY <1>2, <1>3, <1>4 DEF ChunkInv, OnceIn
<1> DEFINE f == [i \in 1 .. QueueSize |-> s[i]]
<1>7. f \in Injection(1 .. QueueSize, ChunksOf(g) \ {x})
  BY <1>5, <1>6 DEF Injection, IsInjective
<1> HIDE DEF f
<1>8. IsFiniteSet(ChunksOf(g)) /\ IsFiniteSet(ChunksOf(g) \ {x})
      /\ Cardinality(ChunksOf(g) \ {x}) = Cardinality(ChunksOf(g)) - 1
  <2>1. IsFiniteSet(ChunksOf(g))
    BY ChunksLemma, FS_Subset DEF ChunksOf
  <2> QED
    BY <2>1, FS_RemoveElement
<1>9. Cardinality(1 .. QueueSize) <= Cardinality(ChunksOf(g)) - 1
  BY <1>7, <1>8, FS_Injection
<1>10. Cardinality(1 .. QueueSize) = QueueSize /\ QueueSize \in Nat
  BY PipelineAssumption, FS_Interval
<1>11. Cardinality(ChunksOf(g)) \in Nat
  BY <1>8, FS_CardinalityType
<1> QED
  BY <1>9, <1>10, <1>11

(* Of a coarse chunk at the head of a refine queue nothing is cut yet.        *)
LEMMA UncutHead ==
    ASSUME ControlInv, GroupInv, NEW g \in Groups, que[<<"refine", g>>] # << >>
    PROVE  \E x \in ChunksOf(g) : x \in Uncut
<1>1. /\ <<"refine", g>> \in Queues /\ Queued(<<"refine", g>>) \in AnchorPlaces
      /\ AnchorLines[Queued(<<"refine", g>>)] = que[<<"refine", g>>]
  BY AnchorPlacesLemma
<1>2. PICK s \in Seq(Anchors) : s = que[<<"refine", g>>]
  BY <1>1 DEF ControlInv, TypeInv, QueueTypes, Carries
<1>3. s # << >> /\ 1 \in 1 .. Len(s)
  BY <1>2, EmptySeq
<1>4. PICK a \in Anchors : a = Head(s) /\ a = s[1] /\ a \in In(s)
  BY <1>2, <1>3, InLemma
<1>5. a % nqueues = g
  BY <1>1, <1>2, <1>4 DEF GroupInv, QueuesAtHome, Home
<1>6. PICK x \in Chunks : x = <<a, 0>> /\ x[1] = a /\ x[2] = 0
  <2>1. 0 \in Nat /\ 0 < NPieces(a)
    BY AnchorsLemma
  <2>2. <<a, 0>> \in Chunks
    BY <2>1, ChunksLemma
  <2> QED
    BY <2>2
<1>7. a \in QueuedAnchors
  BY <1>1, <1>2, <1>4 DEF QueuedAnchors, Among
<1>8. ASSUME NEW t \in Tids, recv[<<"refine", t>>] # << >>, Head(recv[<<"refine", t>>]) = a
      PROVE  FALSE
  <2>1. /\ Received(<<"refine", t>>) \in AnchorPlaces /\ <<"refine", t>> \in Workers
        /\ AnchorLines[Received(<<"refine", t>>)] = recv[<<"refine", t>>]
    BY AnchorPlacesLemma
  <2>2. PICK r \in Seq(Anchors) : r = recv[<<"refine", t>>]
    <3>1. recv[<<"refine", t>>] \in Seq(Carries(Stage(<<"refine", t>>)))
      BY <2>1 DEF ControlInv, TypeInv, WorkTypes
    <3>2. Carries(Stage(<<"refine", t>>)) = Anchors
      BY DEF Carries, Stage
    <3> QED
      BY <3>1, <3>2
  <2>3. 1 \in 1 .. Len(r) /\ r[1] = a
    BY <1>8, <2>2, EmptySeq
  <2>4. Queued(<<"refine", g>>) = Received(<<"refine", t>>)
    BY <1>1, <1>2, <1>3, <1>4, <2>1, <2>2, <2>3 DEF ControlInv, AnchorInv, OnceIn
  <2> QED
    BY <2>4, PlacesDiffer
<1>9. x \in Uncut
  BY <1>6, <1>7, <1>8 DEF Uncut, Unrefined
<1> QED
  BY <1>5, <1>6, <1>9 DEF ChunksOf

(* If every reorder queue has room for the chunks of its group, as the        *)
(* million slots of QUEUE_SIZE have for inputs of ordinary size, the pipeline *)
(* never comes to a standstill (encoder.c and queue.c).                       *)
THEOREM NoStandstillWithRoom ==
    ASSUME \A g \in Groups : Cardinality(ChunksOf(g)) <= QueueSize
    PROVE  Spec => []~Stuck
<1>1. ASSUME IInv, Stuck PROVE FALSE
  <2>0. ControlInv /\ DataInv /\ CompressedInv /\ GroupInv /\ TypeInv /\ ChunkInv /\ FragmentInv
    BY <1>1 DEF IInv, ControlInv
  <2>1. StuckOnlyBehindAFullQueue
    BY <1>1, StandstillLemma
  <2>2. ASSUME NEW g, HeldUp(g) PROVE FALSE
    <3>1. PICK h \in Groups : h = fragQid /\ IsFull(<<"refine", h>>) /\ IsFull(<<"reorder", h>>)
      BY <2>0, <2>2 DEF HeldUp, FragmentInv
    <3>2. que[<<"refine", h>>] # << >>
      BY <3>1, EmptySeq, PipelineAssumption DEF IsFull
    <3>3. PICK x \in ChunksOf(h) : x \in Uncut
      BY <2>0, <3>2, UncutHead
    <3>4. x \notin ForReorder
      BY <2>0, <3>3 DEF ChunkInv
    <3> QED
      BY <2>0, <3>1, <3>3, <3>4, MissingChunk
  <2>3. /\ rpc = "write" /\ state[original[inHand]] = "UNCOMPRESSED"
        /\ IsFull(<<"reorder", original[inHand][1] % nqueues>>)
    BY <1>1, <2>1, <2>2 DEF StuckOnlyBehindAFullQueue
  <2>4. PICK o : o = original[inHand]
    OBVIOUS
  <2>5. o \in Chunks /\ o \in ForCompress
    BY <2>0, <2>3, <2>4, AwaitedLemma
  <2>6. PICK g \in Groups : g = o[1] % nqueues
    <3>1. PICK n \in Nat : n = nqueues /\ n > 0 /\ Groups = 0 .. n - 1
      BY GroupsLemma DEF Groups
    <3>2. PICK a \in Nat : a = o[1]
      BY <2>5, ChunksLemma
    <3>3. a % n \in Nat /\ a % n < n
      BY <3>1, DivLemma
    <3> QED
      BY <3>1, <3>2, <3>3
  <2>7. o \in ChunksOf(g) /\ o \notin ForReorder
    BY <2>0, <2>5, <2>6 DEF ChunksOf, ChunkInv
  <2> QED
    BY <2>0, <2>3, <2>4, <2>6, <2>7, MissingChunk
<1>2. IInv => ~Stuck
  BY <1>1
<1> QED
  BY <1>2, Invariance, PTL

-----------------------------------------------------------------------------
(* The refinement.                                                            *)
LEMMA SameStream ==
    /\ Archive!Chunks = Chunks /\ Archive!First = First
    /\ \A c : Archive!Successor(c) = Successor(c)
    /\ \A c : Archive!Record(c) = Record(c)
BY DEF Archive!Chunks, Chunks, Archive!Anchors, Anchors, Archive!NPieces, NPieces,
       Archive!First, First, Archive!Successor, Successor, Archive!Record, Record,
       Archive!IsRepetition, IsRepetition, Archive!Before, Before,
       Archive!ContentOf, ContentOf, Archive!Data, Data, Archive!Fingerprint, Fingerprint

(* A step of the pipeline writes the next record of the serial program, or    *)
(* nothing.                                                                   *)
LEMMA ArchiveStep ==
    ASSUME IInv, [Next]_pipeVars
    PROVE  [Archive!Write]_Archive!vars
<1>1. CASE ReorderWrite
  <2>1. next \in Chunks /\ next' = Successor(next) /\ out' = Append(out, Record(next))
    BY <1>1, WriteLemma DEF IInv
  <2> QED
    BY <2>1, SameStream DEF Archive!Write
<1>2. CASE ~ReorderWrite
  <2>1. UNCHANGED <<out, next>>
    <3>1. CASE \E t \in Tids : Refine(t) \/ Deduplicate(t) \/ Compress(t)
      BY <3>1 DEF Refine, Deduplicate, Compress
    <3>2. CASE ReorderTake
      BY <3>2 DEF ReorderTake
    <3>3. CASE ~ReorderTake /\ \A t \in Tids : ~Refine(t) /\ ~Deduplicate(t) /\ ~Compress(t)
      BY <1>2, <3>3, QuietSteps DEF IInv
    <3> QED
      BY <3>1, <3>2, <3>3
  <2> QED
    BY <2>1 DEF Archive!vars
<1> QED
  BY <1>1, <1>2

(* The archive of the parallel program is the serial program's, record by     *)
(* record: for every input, every number of threads and queues, every queue   *)
(* and batch size and every interleaving (encoder.c).                         *)
THEOREM ArchiveIsTheSerialOne == Spec => ImplementsArchive
<1>1. Init => Archive!Init
  BY SameStream DEF Init, Archive!Init
<1> QED
  BY <1>1, ArchiveStep, Invariance, PTL DEF Spec, ImplementsArchive, Archive!Spec

-----------------------------------------------------------------------------
(* The decoder.                                                               *)
Records == [type : {"data", "fingerprint"}, of : Contents]
Decoders == [cache : SUBSET Contents, text : Seq(Contents), stopped : BOOLEAN]

(* The decoder's state keeps its type.                                        *)
LEMMA DecoderTypes ==
    /\ DecodeStart \in Decoders
    /\ \A s \in Decoders, r \in Records : DecodeRecord(s, r) \in Decoders
<1>1. DecodeStart \in Decoders
  BY DEF DecodeStart, Decoders
<1>2. ASSUME NEW s \in Decoders, NEW r \in Records PROVE DecodeRecord(s, r) \in Decoders
  <2>1. r.of \in Contents /\ s.text \in Seq(Contents) /\ s.cache \in SUBSET Contents
    BY DEF Decoders, Records
  <2>2. Append(s.text, r.of) \in Seq(Contents) /\ s.cache \cup {r.of} \in SUBSET Contents
    BY <2>1
  <2> QED
    BY <2>2 DEF DecodeRecord, Decoders
<1> QED
  BY <1>1, <1>2

(* The states the decoder goes through.                                       *)
Decoding(f, a) ==
    /\ f \in [0 .. Len(a) -> Decoders]
    /\ f[0] = DecodeStart
    /\ \A i \in 1 .. Len(a) : f[i] = DecodeRecord(f[i - 1], a[i])

(* The recursion of Decode is well defined.                                   *)
LEMMA DecodeLemma ==
    ASSUME NEW a \in Seq(Records)
    PROVE  \E f : Decoding(f, a) /\ Decode(a) = f[Len(a)]
<1>1. PICK n \in Nat : n = Len(a)
  OBVIOUS
<1>2. PICK G : G = [p \in Decoders \X (1 .. n) |-> DecodeRecord(p[1], a[p[2]])]
  OBVIOUS
<1>3. \A i \in 1 .. n : a[i] \in Records
  BY <1>1
<1>4. G \in [Decoders \X (1 .. n) -> Decoders]
  BY <1>2, <1>3, DecoderTypes
<1>5. PICK f \in [0 .. n -> Decoders] : Computes(f, DecodeStart, n, G)
  BY <1>4, DecoderTypes, StepByStep
<1>6. f[0] = DecodeStart
  BY <1>5 DEF Computes
<1>7. ASSUME NEW i \in 1 .. n PROVE f[i] = DecodeRecord(f[i - 1], a[i])
  <2>1. i - 1 \in 0 .. n /\ f[i - 1] \in Decoders
    OBVIOUS
  <2>2. f[i] = G[<<f[i - 1], i>>] /\ <<f[i - 1], i>> \in Decoders \X (1 .. n)
    BY <1>5, <2>1 DEF Computes
  <2> QED
    BY <1>2, <2>2
<1>8. Decoding(f, a)
  BY <1>1, <1>6, <1>7 DEF Decoding
<1> DEFINE Equation(g) == g = [i \in 0 .. n |-> IF i = 0 THEN DecodeStart ELSE DecodeRecord(g[i - 1], a[i])]
<1>9. Equation(f)
  <2>1. \A i \in 0 .. n : f[i] = IF i = 0 THEN DecodeStart ELSE DecodeRecord(f[i - 1], a[i])
    <3>1. \A i \in 0 .. n : i # 0 => i \in 1 .. n
      OBVIOUS
    <3> QED
      BY <1>6, <1>7, <3>1, Zenon
  <2> QED
    BY <2>1
<1>10. PICK g : Equation(g) /\ Decode(a) = g[n]
  BY <1>1, <1>9 DEF Decode
<1>11. /\ g[0] = DecodeStart
       /\ \A i \in 1 .. n : g[i] = DecodeRecord(g[i - 1], a[i])
  BY <1>10
<1>12. f[n] = g[n]
  <2>1. \A i \in 0 .. n : i # 0 => i \in 1 .. n
    OBVIOUS
  <2>2. SameSteps(f, g, 0, n)
    BY <1>6, <1>7, <1>11, <2>1, Zenon DEF SameSteps
  <2>3. \A i \in 0 .. n : f[i] = g[i]
    BY <2>2, OneOnly
  <2> QED
    BY <2>3
<1> QED
  BY <1>1, <1>8, <1>10, <1>12

(* Decoding one record more.                                                  *)
LEMMA DecodeNext ==
    ASSUME NEW a \in Seq(Records)
    PROVE  /\ Decode(a) \in Decoders
           /\ Decode(<< >>) = DecodeStart
           /\ \A r \in Records : /\ Append(a, r) \in Seq(Records)
                                 /\ Decode(Append(a, r)) = DecodeRecord(Decode(a), r)
<1>1. PICK f : Decoding(f, a) /\ Decode(a) = f[Len(a)]
  BY DecodeLemma
<1>2. Decode(a) \in Decoders
  BY <1>1 DEF Decoding
<1>3. Decode(<< >>) = DecodeStart
  <2>1. PICK e \in Seq(Records) : e = << >> /\ Len(e) = 0
    <3>1. << >> \in Seq(Records)
      OBVIOUS
    <3>2. Len(<< >>) = 0
      OBVIOUS
    <3> QED
      BY <3>1, <3>2, Zenon
  <2>2. PICK g : Decoding(g, e) /\ Decode(e) = g[Len(e)]
    BY DecodeLemma
  <2> QED
    BY <2>1, <2>2 DEF Decoding
<1>4. ASSUME NEW r \in Records
      PROVE  Append(a, r) \in Seq(Records) /\ Decode(Append(a, r)) = DecodeRecord(Decode(a), r)
  <2>1. PICK b \in Seq(Records) : b = Append(a, r)
    <3>1. Append(a, r) \in Seq(Records)
      OBVIOUS
    <3> QED
      BY <3>1, Zenon
  <2>2. Len(a) \in Nat /\ Len(b) = Len(a) + 1 /\ b[Len(a) + 1] = r /\ \A i \in 1 .. Len(a) : b[i] = a[i]
    BY <2>1
  <2>3. PICK n \in Nat : n = Len(a)
    BY <2>2
  <2>4. PICK g : Decoding(g, b) /\ Decode(b) = g[Len(b)]
    BY DecodeLemma
  <2>5. g[0] = DecodeStart /\ \A i \in 1 .. n + 1 : g[i] = DecodeRecord(g[i - 1], b[i])
    BY <2>2, <2>3, <2>4 DEF Decoding
  <2>6. f[0] = DecodeStart /\ \A i \in 1 .. n : f[i] = DecodeRecord(f[i - 1], a[i])
    BY <1>1, <2>3 DEF Decoding
  <2>7. \A i \in 1 .. n : i \in 1 .. n + 1 /\ b[i] = a[i]
    BY <2>2, <2>3
  <2>8. SameSteps(f, g, 0, n)
    <3>1. \A i \in 0 .. n : i # 0 => i \in 1 .. n
      OBVIOUS
    <3> QED
      BY <2>5, <2>6, <2>7, <3>1, Zenon DEF SameSteps
  <2>9. f[n] = g[n]
    <3>1. \A i \in 0 .. n : f[i] = g[i]
      BY <2>8, OneOnly
    <3> QED
      BY <3>1
  <2>10. g[n + 1] = DecodeRecord(g[n], b[n + 1])
    <3>1. n + 1 \in 1 .. n + 1 /\ (n + 1) - 1 = n
      OBVIOUS
    <3> QED
      BY <2>5, <3>1
  <2> QED
    BY <1>1, <2>1, <2>2, <2>3, <2>4, <2>9, <2>10
<1> QED
  BY <1>2, <1>3, <1>4

-----------------------------------------------------------------------------
(* The text of the input.                                                     *)

(* The contents of its first coarse chunks, one chunk after the other.        *)
TextUpTo[a \in 0 .. Len(Input)] == IF a = 0 THEN << >> ELSE TextUpTo[a - 1] \o Input[a]

(* A coarse chunk is a sequence of contents, those of its fine chunks.        *)
LEMMA InputLemma ==
    /\ Input \in Seq(Seq(Contents))
    /\ \A a \in 1 .. Len(Input) : Input[a] \in Seq(Contents)
    /\ \A c \in Chunks : c[1] + 1 \in 1 .. Len(Input) /\ c[2] + 1 \in 1 .. Len(Input[c[1] + 1])
<1> DEFINE X == UNION {{Input[a][b] : b \in DOMAIN Input[a]} : a \in DOMAIN Input}
<1>1. Input \in Seq(Seq(X))
  BY InputAssumption
<1>2. DOMAIN Input = 1 .. Len(Input) /\ Len(Input) \in Nat /\ \A a \in 1 .. Len(Input) : Input[a] \in Seq(X)
  <2> HIDE DEF X
  <2> QED
    BY <1>1
<1>3. ASSUME NEW a \in DOMAIN Input, NEW b \in DOMAIN Input[a] PROVE Input[a][b] \in Contents
  <2>1. Input[a] \in Seq(X) /\ a \in 1 .. Len(Input)
    BY <1>2
  <2>2. DOMAIN Input[a] = 1 .. Len(Input[a]) /\ Len(Input[a]) \in Nat
    <3> HIDE DEF X
    <3> QED
      BY <2>1
  <2>3. PICK i \in Anchors : i + 1 = a
    <3>1. a - 1 \in Anchors /\ (a - 1) + 1 = a
      <4> HIDE DEF X
      <4> QED
        BY <1>2, <2>1 DEF Anchors
    <3> QED
      BY <3>1
  <2>4. PICK j \in Nat : j + 1 = b /\ j < NPieces(i)
    <3>1. b - 1 \in Nat /\ (b - 1) + 1 = b /\ b - 1 < Len(Input[a])
      BY <2>2
    <3> QED
      BY <2>3, <3>1 DEF NPieces
  <2>5. PICK c \in Chunks : c = <<i, j>>
    BY <2>3, <2>4, ChunksLemma
  <2>6. ContentOf(c) = Input[a][b]
    BY <2>3, <2>4, <2>5 DEF ContentOf
  <2> QED
    BY <2>6, ContentsLemma
<1>4. X \subseteq Contents
  BY <1>3
<1> HIDE DEF X
<1>5. \A a \in 1 .. Len(Input) : Input[a] \in Seq(Contents)
  BY <1>2, <1>4
<1>6. Input \in Seq(Seq(Contents))
  BY <1>1, <1>2, <1>5
<1>7. ASSUME NEW c \in Chunks
      PROVE  c[1] + 1 \in 1 .. Len(Input) /\ c[2] + 1 \in 1 .. Len(Input[c[1] + 1])
  <2>1. c[1] \in Nat /\ c[1] < Len(Input) /\ c[2] \in Nat /\ c[2] < NPieces(c[1]) /\ c[1] \in Anchors
    BY ChunksLemma
  <2>2. NPieces(c[1]) = Len(Input[c[1] + 1]) /\ NPieces(c[1]) \in Nat
    BY <2>1, AnchorsLemma DEF NPieces
  <2> QED
    BY <1>2, <2>1, <2>2
<1> QED
  BY <1>5, <1>6, <1>7

(* The recursion of TextUpTo is well defined.                                 *)
LEMMA TextLemma ==
    /\ TextUpTo \in [0 .. Len(Input) -> Seq(Contents)]
    /\ TextUpTo[0] = << >>
    /\ \A a \in 1 .. Len(Input) : TextUpTo[a] = TextUpTo[a - 1] \o Input[a]
<1>1. PICK n \in Nat : n = Len(Input)
  BY AnchorsLemma
<1>2. PICK G : G = [p \in Seq(Contents) \X (1 .. n) |-> p[1] \o Input[p[2]]]
  OBVIOUS
<1>3. G \in [Seq(Contents) \X (1 .. n) -> Seq(Contents)]
  <2>1. ASSUME NEW p \in Seq(Contents) \X (1 .. n) PROVE p[1] \o Input[p[2]] \in Seq(Contents)
    <3>1. p[1] \in Seq(Contents) /\ Input[p[2]] \in Seq(Contents)
      BY <1>1, InputLemma
    <3> QED
      BY <3>1, JoinLemma
  <2> QED
    BY <1>2, <2>1
<1>4. PICK f \in [0 .. n -> Seq(Contents)] : Computes(f, << >>, n, G)
  <2>1. << >> \in Seq(Contents)
    OBVIOUS
  <2> QED
    BY <1>3, <2>1, StepByStep
<1>5. f[0] = << >>
  BY <1>4 DEF Computes
<1>6. ASSUME NEW a \in 1 .. n PROVE f[a] = f[a - 1] \o Input[a]
  <2>1. a - 1 \in 0 .. n /\ f[a - 1] \in Seq(Contents)
    OBVIOUS
  <2>2. f[a] = G[<<f[a - 1], a>>] /\ <<f[a - 1], a>> \in Seq(Contents) \X (1 .. n)
    BY <1>4, <2>1 DEF Computes
  <2> QED
    BY <1>2, <2>2
<1> DEFINE Equation(g) == g = [a \in 0 .. n |-> IF a = 0 THEN << >> ELSE g[a - 1] \o Input[a]]
<1>7. Equation(f)
  <2>1. \A a \in 0 .. n : f[a] = IF a = 0 THEN << >> ELSE f[a - 1] \o Input[a]
    <3>1. \A a \in 0 .. n : a # 0 => a \in 1 .. n
      OBVIOUS
    <3> QED
      BY <1>5, <1>6, <3>1, Zenon
  <2> QED
    BY <2>1
<1>8. PICK g : Equation(g) /\ g = TextUpTo
  <2>1. Equation(TextUpTo)
    BY <1>1, <1>7 DEF TextUpTo
  <2> QED
    BY <2>1
<1>9. /\ DOMAIN g = 0 .. n /\ g = [a \in DOMAIN g |-> g[a]]
      /\ g[0] = << >>
      /\ \A a \in 1 .. n : g[a] = g[a - 1] \o Input[a]
  <2>1. DOMAIN g = 0 .. n /\ g = [a \in DOMAIN g |-> g[a]]
    BY <1>8, Zenon
  <2>2. g[0] = << >>
    BY <1>8
  <2>3. \A a \in 1 .. n : g[a] = g[a - 1] \o Input[a]
    <3>1. \A a \in 1 .. n : a \in 0 .. n /\ a # 0
      OBVIOUS
    <3>2. \A a \in 0 .. n : g[a] = IF a = 0 THEN << >> ELSE g[a - 1] \o Input[a]
      BY <1>8, Zenon
    <3> QED
      BY <3>1, <3>2, Zenon
  <2> QED
    BY <2>1, <2>2, <2>3
<1>10. SameSteps(f, g, 0, n)
  <2>1. \A a \in 0 .. n : a # 0 => a \in 1 .. n
    OBVIOUS
  <2> QED
    BY <1>5, <1>6, <1>9, <2>1, Zenon DEF SameSteps
<1>11. \A a \in 0 .. n : f[a] = g[a]
  BY <1>10, OneOnly
<1>12. g \in [0 .. n -> Seq(Contents)]
  <2>1. \A a \in 0 .. n : g[a] \in Seq(Contents)
    BY <1>11
  <2> QED
    BY <1>9, <2>1
<1> QED
  BY <1>1, <1>8, <1>9, <1>12

(* FlattenSeq puts the same together.                                         *)
LEMMA FlattenLemma == FlattenSeq(Input) = TextUpTo[Len(Input)]
<1>1. PICK n \in Nat : n = Len(Input)
  BY AnchorsLemma
<1>2. CASE n = 0
  <2>1. Input = << >>
    BY <1>1, <1>2, InputLemma, EmptySeq
  <2> QED
    BY <1>1, <1>2, <2>1, TextLemma DEF FlattenSeq
<1>3. CASE n # 0
  <2> DEFINE Equation(g) == g = [i \in 1 .. n |-> IF i = 1 THEN Input[i] ELSE g[i - 1] \o Input[i]]
  <2>1. PICK f : f = [i \in 1 .. n |-> TextUpTo[i]]
    OBVIOUS
  <2>2. \A i \in 1 .. n : f[i] = TextUpTo[i] /\ (i # 1 => i - 1 \in 1 .. n /\ f[i - 1] = TextUpTo[i - 1])
    BY <2>1
  <2>3. 1 \in 1 .. n /\ f[1] = Input[1]
    <3>1. 1 \in 1 .. n /\ Input[1] \in Seq(Contents)
      BY <1>1, <1>3, InputLemma
    <3>2. \A a \in 1 .. n : a = 1 => TextUpTo[a] = TextUpTo[0] \o Input[a]
      <4>1. \A a \in 1 .. n : a = 1 => a - 1 = 0
        OBVIOUS
      <4> QED
        BY <1>1, <4>1, TextLemma
    <3>3. TextUpTo[1] = << >> \o Input[1]
      BY <3>1, <3>2, TextLemma, Zenon
    <3>4. << >> \o Input[1] = Input[1]
      BY <3>1, ConcatEmptySeq
    <3> QED
      BY <2>2, <3>1, <3>3, <3>4
  <2>4. \A i \in 1 .. n : i # 1 => f[i] = f[i - 1] \o Input[i]
    BY <1>1, <2>2, TextLemma
  <2>5. Equation(f)
    <3>1. \A i \in 1 .. n : f[i] = IF i = 1 THEN Input[i] ELSE f[i - 1] \o Input[i]
      BY <2>3, <2>4, Zenon
    <3> QED
      BY <2>1, <3>1
  <2>6. PICK g : Equation(g) /\ FlattenSeq(Input) = g[n]
    BY <1>1, <1>3, <2>5 DEF FlattenSeq
  <2>7. g[1] = Input[1] /\ \A i \in 1 .. n : i # 1 => g[i] = g[i - 1] \o Input[i]
    BY <2>3, <2>6
  <2>8. SameSteps(f, g, 1, n)
    BY <2>3, <2>4, <2>7, Zenon DEF SameSteps
  <2>9. f[n] = g[n] /\ n \in 1 .. n
    <3>1. \A i \in 1 .. n : f[i] = g[i]
      BY <2>8, OneOnly
    <3> QED
      BY <1>3, <3>1
  <2> QED
    BY <1>1, <2>2, <2>6, <2>9
<1> QED
  BY <1>2, <1>3

(* One sequence is the beginning of another.                                  *)
Begins(s, t) == Len(s) <= Len(t) /\ \A i \in 1 .. Len(s) : s[i] = t[i]

(* It is reflexive and transitive, and a beginning is a piece of the whole.   *)
LEMMA BeginsLemma ==
    ASSUME NEW S
    PROVE  /\ \A s \in Seq(S) : Begins(s, s)
           /\ \A s, t \in Seq(S) : Begins(s, s \o t)
           /\ \A s, t, u \in Seq(S) : Begins(s, t) /\ Begins(t, u) => Begins(s, u)
           /\ \A s, t \in Seq(S) : Begins(s, t) => s = SubSeq(t, 1, Len(s))
<1>1. \A s \in Seq(S) : Len(s) \in Nat /\ Begins(s, s)
  BY DEF Begins
<1>2. ASSUME NEW s \in Seq(S), NEW t \in Seq(S) PROVE Begins(s, s \o t)
  <2>1. /\ Len(s \o t) = Len(s) + Len(t)
        /\ \A i \in 1 .. Len(s) + Len(t) : (s \o t)[i] = IF i <= Len(s) THEN s[i] ELSE t[i - Len(s)]
    BY JoinLemma
  <2>2. Len(s) \in Nat /\ Len(t) \in Nat
    BY <1>1
  <2>3. \A i \in 1 .. Len(s) : i \in 1 .. Len(s) + Len(t) /\ i <= Len(s)
    BY <2>2
  <2> QED
    BY <2>1, <2>2, <2>3 DEF Begins
<1>3. ASSUME NEW s \in Seq(S), NEW t \in Seq(S), NEW u \in Seq(S), Begins(s, t), Begins(t, u)
      PROVE  Begins(s, u)
  <2>1. Len(s) \in Nat /\ Len(t) \in Nat /\ Len(u) \in Nat
    BY <1>1
  <2>2. \A i \in 1 .. Len(s) : i \in 1 .. Len(t)
    BY <1>3, <2>1 DEF Begins
  <2> QED
    BY <1>3, <2>1, <2>2 DEF Begins
<1>4. ASSUME NEW s \in Seq(S), NEW t \in Seq(S), Begins(s, t) PROVE s = SubSeq(t, 1, Len(s))
  <2>1. Len(s) \in 0 .. Len(t)
    BY <1>1, <1>4 DEF Begins
  <2>2. PICK u \in Seq(S) : u = SubSeq(t, 1, Len(s))
    BY <2>1, CutLemma
  <2>3. Len(u) = Len(s) /\ \A i \in 1 .. Len(s) : u[i] = t[i]
    BY <2>1, <2>2, CutLemma
  <2>4. s = u
    BY <1>4, <2>3, SeqEqual DEF Begins
  <2> QED
    BY <2>2, <2>4
<1> QED
  BY <1>1, <1>2, <1>3, <1>4

(* Every coarse chunk's text up to its end is a beginning of the whole text.  *)
LEMMA TextBegins == \A a \in 0 .. Len(Input) : Begins(TextUpTo[a], TextUpTo[Len(Input)])
<1>1. PICK n \in Nat : n = Len(Input)
  BY AnchorsLemma
<1>2. PICK t : t = TextUpTo
  OBVIOUS
<1>3. /\ \A a \in 0 .. n : t[a] \in Seq(Contents)
      /\ \A a \in 1 .. n : t[a] = t[a - 1] \o Input[a] /\ Input[a] \in Seq(Contents)
  BY <1>1, <1>2, TextLemma, InputLemma
<1> DEFINE S == {k \in 0 .. n : Begins(t[n - k], t[n])}
<1>4. 0 \in S
  <2>1. n - 0 = n /\ n \in 0 .. n
    OBVIOUS
  <2>2. Begins(t[n], t[n])
    BY <1>3, <2>1, BeginsLemma
  <2> QED
    BY <2>1, <2>2
<1>5. ASSUME NEW k \in 0 .. n - 1, k \in S PROVE k + 1 \in S
  <2>1. PICK a \in 1 .. n : a = n - k
    OBVIOUS
  <2>2. n - (k + 1) = a - 1 /\ a - 1 \in 0 .. n /\ k + 1 \in 0 .. n /\ a \in 0 .. n /\ n \in 0 .. n
    BY <2>1
  <2>3. t[a - 1] \in Seq(Contents) /\ t[a] \in Seq(Contents) /\ t[n] \in Seq(Contents)
    BY <1>3, <2>2
  <2>4. Begins(t[a - 1], t[a])
    <3>1. t[a] = t[a - 1] \o Input[a] /\ Input[a] \in Seq(Contents)
      BY <1>3
    <3>2. Begins(t[a - 1], t[a - 1] \o Input[a])
      BY <2>3, <3>1, BeginsLemma
    <3> QED
      BY <3>1, <3>2
  <2>5. Begins(t[a], t[n])
    BY <1>5, <2>1
  <2>6. Begins(t[a - 1], t[n])
    BY <2>3, <2>4, <2>5, BeginsLemma
  <2> QED
    BY <2>2, <2>6
<1> HIDE DEF S
<1>6. \A k \in 0 .. n : k \in S
  BY <1>4, <1>5, CountingUp
<1>7. ASSUME NEW a \in 0 .. n PROVE Begins(t[a], t[n])
  <2>1. n - a \in S
    <3>1. n - a \in 0 .. n
      OBVIOUS
    <3> QED
      BY <1>6, <3>1
  <2>2. n - (n - a) = a
    OBVIOUS
  <2> QED
    BY <2>1, <2>2 DEF S
<1> QED
  BY <1>1, <1>2, <1>7

(* The text before a fine chunk.                                              *)
TextBefore(c) == TextUpTo[c[1]] \o (IF c[2] = 0 THEN << >> ELSE SubSeq(Input[c[1] + 1], 1, c[2]))

(* It grows by the contents of the chunk, and it is a beginning of the whole  *)
(* text.                                                                      *)
LEMMA TextBeforeLemma ==
    /\ TextBefore(First) = << >>
    /\ \A c \in Chunks : TextBefore(Successor(c)) = Append(TextBefore(c), ContentOf(c))
    /\ \A c \in Chunks \cup {End} : /\ TextBefore(c) \in Seq(Contents)
                                   /\ Begins(TextBefore(c), FlattenSeq(Input))
<1>1. PICK n \in Nat : n = Len(Input)
  BY AnchorsLemma
<1>2. PICK t : t = TextUpTo
  OBVIOUS
<1>3. /\ \A a \in 0 .. n : t[a] \in Seq(Contents) /\ Begins(t[a], t[n])
      /\ t[0] = << >> /\ FlattenSeq(Input) = t[n]
  BY <1>1, <1>2, TextLemma, TextBegins, FlattenLemma
<1>4. ASSUME NEW a \in 0 .. n, NEW c, c = <<a, 0>> PROVE TextBefore(c) = t[a]
  <2>1. TextBefore(c) = t[a] \o << >>
    BY <1>2, <1>4 DEF TextBefore
  <2> QED
    BY <1>3, <2>1, ConcatEmptySeq
<1>5. ASSUME NEW c \in Chunks
      PROVE  /\ TextBefore(Successor(c)) = Append(TextBefore(c), ContentOf(c))
             /\ TextBefore(c) \in Seq(Contents)
             /\ Begins(TextBefore(c), t[n])
  <2>1. PICK a \in 0 .. n - 1, b \in Nat : c = <<a, b>> /\ c[1] = a /\ c[2] = b
    <3>1. c = <<c[1], c[2]>> /\ c[1] \in Nat /\ c[1] < Len(Input) /\ c[2] \in Nat
      BY ChunksLemma
    <3>2. c[1] \in 0 .. n - 1
      BY <1>1, <3>1
    <3> QED
      BY <3>1, <3>2
  <2>2. PICK s \in Seq(Contents) : s = Input[a + 1]
    BY <1>1, InputLemma
  <2>3. Len(s) \in Nat /\ b < Len(s) /\ NPieces(a) = Len(s) /\ ContentOf(c) = s[b + 1]
    <3>1. b < NPieces(a)
      BY <2>1, ChunksLemma
    <3> QED
      BY <2>1, <2>2, <3>1 DEF NPieces, ContentOf
  <2>4. PICK x \in Contents : x = s[b + 1]
    <3>1. b + 1 \in 1 .. Len(s)
      BY <2>3
    <3> QED
      BY <3>1
  <2>5. PICK u \in Seq(Contents) : u = SubSeq(s, 1, b)
    <3>1. b \in 0 .. Len(s)
      BY <2>3
    <3> QED
      BY <3>1, CutLemma
  <2>6. TextBefore(c) = t[a] \o u
    <3>1. CASE b = 0
      <4>1. u = << >>
        BY <2>5, <3>1, SubSeqEmpty
      <4> QED
        BY <1>2, <2>1, <3>1, <4>1 DEF TextBefore
    <3>2. CASE b # 0
      BY <1>2, <2>1, <2>2, <2>5, <3>2 DEF TextBefore
    <3> QED
      BY <3>1, <3>2
  <2>7. PICK v \in Seq(Contents) : v = t[a]
    BY <1>3
  <2>8. v \o Append(u, x) = Append(v \o u, x)
    <3>1. <<x>> \in Seq(Contents) /\ v \o u \in Seq(Contents)
      BY JoinLemma
    <3>2. Append(u, x) = u \o <<x>> /\ Append(v \o u, x) = (v \o u) \o <<x>>
      BY <3>1, AppendIsConcat
    <3> QED
      BY <3>1, <3>2, ConcatAssociative
  <2>9. SubSeq(s, 1, b + 1) = Append(u, x)
    <3>1. b + 1 \in 1 .. Len(s) /\ 1 \in 1 .. Len(s) /\ b + 1 \in 1 .. Len(s)
      BY <2>3
    <3>2. SubSeq(s, 1, b + 1) = SubSeq(s, 1, (b + 1) - 1) \o <<s[b + 1]>> /\ (b + 1) - 1 = b
      BY <3>1, SubSeqRecursiveSecond
    <3> QED
      BY <2>4, <2>5, <3>2, AppendIsConcat
  <2>10. TextBefore(Successor(c)) = v \o SubSeq(s, 1, b + 1)
    <3>1. CASE b + 1 < NPieces(a)
      <4>1. PICK d : d = <<a, b + 1>>
        OBVIOUS
      <4>2. Successor(c) = d /\ d[1] = a /\ d[2] = b + 1 /\ d[2] # 0
        BY <2>1, <3>1, <4>1 DEF Successor
      <4> QED
        BY <1>2, <2>2, <2>7, <4>2, Zenon DEF TextBefore
    <3>2. CASE ~(b + 1 < NPieces(a))
      <4>1. b + 1 = Len(s) /\ Successor(c) = <<a + 1, 0>>
        BY <2>1, <2>3, <3>2 DEF Successor
      <4>2. a + 1 \in 0 .. n /\ a + 1 \in 1 .. n /\ (a + 1) - 1 = a
        OBVIOUS
      <4>3. TextBefore(Successor(c)) = t[a + 1]
        BY <1>4, <4>1, <4>2
      <4>4. t[a + 1] = v \o s
        <5>1. \A i \in 1 .. n : t[i] = t[i - 1] \o Input[i]
          BY <1>1, <1>2, TextLemma
        <5>2. t[a + 1] = t[(a + 1) - 1] \o Input[a + 1]
          BY <4>2, <5>1, Zenon
        <5> QED
          BY <2>2, <2>7, <4>2, <5>2, Zenon
      <4>5. SubSeq(s, 1, b + 1) = s
        BY <4>1, SubSeqFull
      <4> QED
        BY <4>3, <4>4, <4>5, Zenon
    <3> QED
      BY <3>1, <3>2
  <2>11. TextBefore(Successor(c)) = Append(TextBefore(c), ContentOf(c))
    BY <2>3, <2>4, <2>6, <2>7, <2>8, <2>9, <2>10, Zenon
  <2>12. v \o u \in Seq(Contents) /\ v \o s \in Seq(Contents)
    BY JoinLemma
  <2>13. Begins(v \o u, v \o s)
    <3>1. /\ Len(v \o u) = Len(v) + Len(u) /\ Len(v \o s) = Len(v) + Len(s)
          /\ \A i \in 1 .. Len(v) + Len(u) : (v \o u)[i] = IF i <= Len(v) THEN v[i] ELSE u[i - Len(v)]
          /\ \A i \in 1 .. Len(v) + Len(s) : (v \o s)[i] = IF i <= Len(v) THEN v[i] ELSE s[i - Len(v)]
      BY JoinLemma
    <3>2. Len(u) = b /\ \A i \in 1 .. b : u[i] = s[i]
      <4>1. b \in 0 .. Len(s)
        BY <2>3
      <4> QED
        BY <2>5, <4>1, CutLemma
    <3>3. Len(v) \in Nat
      OBVIOUS
    <3>4. \A i \in 1 .. Len(v) + Len(u) : i \in 1 .. Len(v) + Len(s) /\ (i <= Len(v) \/ i - Len(v) \in 1 .. b)
      BY <2>3, <3>2, <3>3
    <3>5. \A i \in 1 .. Len(v) + Len(u) : (v \o u)[i] = (v \o s)[i]
      BY <3>1, <3>2, <3>4, Zenon
    <3>6. Len(v \o u) <= Len(v \o s)
      BY <2>3, <3>1, <3>2, <3>3
    <3> QED
      BY <3>1, <3>5, <3>6, Zenon DEF Begins
  <2>14. Begins(v \o s, t[n]) /\ t[n] \in Seq(Contents)
    <3>1. a + 1 \in 0 .. n /\ a + 1 \in 1 .. n /\ (a + 1) - 1 = a /\ n \in 0 .. n
      OBVIOUS
    <3>2. \A i \in 1 .. n : t[i] = t[i - 1] \o Input[i]
      BY <1>1, <1>2, TextLemma
    <3>3. t[a + 1] = v \o s
      BY <2>2, <2>7, <3>1, <3>2, Zenon
    <3> QED
      BY <1>3, <3>1, <3>3, Zenon
  <2>15. Begins(v \o u, t[n])
    BY <2>12, <2>13, <2>14, BeginsLemma
  <2> QED
    BY <2>6, <2>7, <2>11, <2>12, <2>15, Zenon
<1>6. TextBefore(End) \in Seq(Contents) /\ Begins(TextBefore(End), t[n])
  <2>1. n \in 0 .. n
    OBVIOUS
  <2>2. TextBefore(End) = t[n]
    BY <1>1, <1>4, <2>1 DEF End
  <2> QED
    BY <1>3, <2>1, <2>2
<1>7. TextBefore(First) = << >>
  <2>1. 0 \in 0 .. n
    OBVIOUS
  <2> QED
    BY <1>3, <1>4, <2>1 DEF First
<1> QED
  BY <1>3, <1>5, <1>6, <1>7

-----------------------------------------------------------------------------
(* What the archive decodes to at every moment.                               *)

(* The contents that have been written.                                       *)
Seen(c) == {ContentOf(d) : d \in {d \in Chunks : Before(d, c)}}

(* The decoder has not stopped, has the text before the chunk Reorder waits   *)
(* for, one chunk for every record, and knows the contents of these chunks.   *)
Restores(d, n, c) ==
    ~d.stopped /\ d.text = TextBefore(c) /\ Len(d.text) = n /\ d.cache = Seen(c)

DecoderInv ==
    /\ out \in Seq(Records)
    /\ next \in Chunks \cup {End}
    /\ Restores(Decode(out), Len(out), next)

(* One record more.                                                           *)
LEMMA RestoresNext ==
    ASSUME NEW d \in Decoders, NEW n \in Nat, NEW c \in Chunks, Restores(d, n, c)
    PROVE  Record(c) \in Records /\ Restores(DecodeRecord(d, Record(c)), n + 1, Successor(c))
<1>1. PICK x \in Contents : x = ContentOf(c)
  BY ContentsLemma
<1>2. ~d.stopped /\ d.text = TextBefore(c) /\ Len(d.text) = n /\ d.cache = Seen(c)
  BY DEF Restores
<1>3. d.text \in Seq(Contents)
  BY DEF Decoders
<1>4. IsRepetition(c) <=> x \in Seen(c)
  BY <1>1 DEF IsRepetition, Seen
<1>5. Seen(Successor(c)) = Seen(c) \cup {x}
  <2>1. \A e \in Chunks : Before(e, Successor(c)) <=> e = c \/ Before(e, c)
    BY SuccessorLemma
  <2> QED
    BY <1>1, <2>1 DEF Seen
<1>6. Len(Append(d.text, x)) = n + 1 /\ Append(d.text, x) = TextBefore(Successor(c))
  <2>1. Len(Append(d.text, x)) = n + 1
    BY <1>2, <1>3, AppendProperties
  <2> QED
    BY <1>1, <1>2, <2>1, TextBeforeLemma
<1>7. CASE IsRepetition(c)
  <2>1. PICK r : r = Record(c)
    OBVIOUS
  <2>2. r \in Records /\ r.type = "fingerprint" /\ r.of = x
    BY <1>1, <1>7, <2>1 DEF Record, Fingerprint, Records
  <2>3. DecodeRecord(d, r) = [d EXCEPT !.text = Append(@, x)]
    BY <1>2, <1>4, <1>7, <2>2 DEF DecodeRecord
  <2>4. PICK e : e = DecodeRecord(d, r)
    OBVIOUS
  <2>5. e.stopped = d.stopped /\ e.text = Append(d.text, x) /\ e.cache = d.cache
    BY <2>3, <2>4 DEF Decoders
  <2>6. d.cache = Seen(Successor(c))
    BY <1>2, <1>4, <1>5, <1>7
  <2>7. Restores(e, n + 1, Successor(c))
    BY <1>2, <1>6, <2>5, <2>6 DEF Restores
  <2> QED
    BY <2>1, <2>2, <2>4, <2>7
<1>8. CASE ~IsRepetition(c)
  <2>1. PICK r : r = Record(c)
    OBVIOUS
  <2>2. r \in Records /\ r.type = "data" /\ r.of = x
    BY <1>1, <1>8, <2>1 DEF Record, Data, Records
  <2>3. DecodeRecord(d, r) = [d EXCEPT !.cache = @ \cup {x}, !.text = Append(@, x)]
    BY <1>2, <2>2 DEF DecodeRecord
  <2>4. PICK e : e = DecodeRecord(d, r)
    OBVIOUS
  <2>5. e.stopped = d.stopped /\ e.text = Append(d.text, x) /\ e.cache = d.cache \cup {x}
    BY <2>3, <2>4 DEF Decoders
  <2>6. e.cache = Seen(Successor(c))
    BY <1>2, <1>5, <2>5
  <2>7. Restores(e, n + 1, Successor(c))
    BY <1>2, <1>6, <2>5, <2>6 DEF Restores
  <2> QED
    BY <2>1, <2>2, <2>4, <2>7
<1> QED
  BY <1>7, <1>8

(* Nothing is written yet.                                                   *)
LEMMA DecoderInit == Init => DecoderInv
<1> SUFFICES ASSUME Init PROVE DecoderInv
  OBVIOUS
<1>1. out = << >> /\ next = First
  BY DEF Init
<1>2. PICK e \in Seq(Records) : e = << >> /\ Len(e) = 0
  <2>1. << >> \in Seq(Records) /\ Len(<< >>) = 0
    BY EmptySeq
  <2> QED
    BY <2>1, Zenon
<1>3. Decode(e) = DecodeStart
  BY <1>2, DecodeNext
<1>4. Seen(First) = {}
  BY FirstLemma DEF Seen
<1>5. Restores(DecodeStart, 0, First)
  <2>1. Len(<< >>) = 0
    BY EmptySeq
  <2> QED
    BY <1>4, <2>1, TextBeforeLemma DEF Restores, DecodeStart
<1> QED
  BY <1>1, <1>2, <1>3, <1>5, FirstLemma DEF DecoderInv

(* Every step keeps it; only a write moves it on.                             *)
LEMMA DecoderStep ==
    ASSUME IInv, DecoderInv, [Next]_pipeVars
    PROVE  DecoderInv'
<1>1. CASE UNCHANGED <<out, next>>
  BY <1>1 DEF DecoderInv
<1>2. CASE next \in Chunks /\ next' = Successor(next) /\ out' = Append(out, Record(next))
  <2>1. PICK a \in Seq(Records) : a = out
    BY DEF DecoderInv
  <2>2. PICK c \in Chunks : c = next
    BY <1>2
  <2>3. Decode(a) \in Decoders /\ Len(a) \in Nat
    BY DecodeNext
  <2>4. Restores(Decode(a), Len(a), c)
    BY <2>1, <2>2 DEF DecoderInv
  <2>5. PICK r \in Records : r = Record(c)
    BY <2>3, <2>4, RestoresNext
  <2>6. Restores(DecodeRecord(Decode(a), r), Len(a) + 1, Successor(c))
    BY <2>3, <2>4, <2>5, RestoresNext
  <2>7. PICK b \in Seq(Records) : b = Append(a, r) /\ Decode(b) = DecodeRecord(Decode(a), r)
    <3>1. Append(a, r) \in Seq(Records) /\ Decode(Append(a, r)) = DecodeRecord(Decode(a), r)
      BY DecodeNext
    <3> QED
      BY <3>1, Zenon
  <2>8. Len(b) = Len(a) + 1
    BY <2>7, AppendProperties
  <2>9. out' = b /\ next' = Successor(c) /\ Successor(c) \in Chunks \cup {End}
    BY <1>2, <2>1, <2>2, <2>5, <2>7, SuccessorLemma
  <2>10. Restores(Decode(b), Len(b), Successor(c))
    BY <2>6, <2>7, <2>8
  <2> QED
    BY <2>9, <2>10 DEF DecoderInv
<1>3. UNCHANGED <<out, next>> \/ (next \in Chunks /\ next' = Successor(next) /\ out' = Append(out, Record(next)))
  <2>1. [Archive!Write]_Archive!vars
    BY ArchiveStep
  <2> QED
    BY <2>1, SameStream DEF Archive!Write, Archive!vars
<1> QED
  BY <1>1, <1>2, <1>3

(* At every moment the archive decodes to the beginning of the input, one     *)
(* chunk for every record, and the decoder never meets a fingerprint before   *)
(* its data (encoder.c, decoder.c): for every input, every number of threads  *)
(* and queues, every queue and batch size and every interleaving.             *)
THEOREM DecodesToTheInput == Spec => []RestoresInput
<1>1. Init => DecoderInv
  BY DecoderInit
<1>2. IInv /\ DecoderInv /\ [Next]_pipeVars => DecoderInv'
  BY DecoderStep
<1>3. DecoderInv => RestoresInput
  <2> SUFFICES ASSUME DecoderInv PROVE RestoresInput
    OBVIOUS
  <2>1. PICK s : s = TextBefore(next)
    OBVIOUS
  <2>2. PICK w : w = FlattenSeq(Input)
    OBVIOUS
  <2>3. PICK d : d = Decode(out)
    OBVIOUS
  <2>4. s \in Seq(Contents) /\ Begins(s, w)
    BY <2>1, <2>2, TextBeforeLemma DEF DecoderInv
  <2>5. w \in Seq(Contents)
    <3>1. Len(Input) \in 0 .. Len(Input)
      BY AnchorsLemma
    <3> QED
      BY <2>2, <3>1, FlattenLemma, TextLemma
  <2>6. s = SubSeq(w, 1, Len(s))
    BY <2>4, <2>5, BeginsLemma
  <2>7. ~d.stopped /\ d.text = s /\ Len(s) = Len(out)
    BY <2>1, <2>3 DEF DecoderInv, Restores
  <2>8. d.text = SubSeq(w, 1, Len(out))
    BY <2>6, <2>7
  <2> QED
    BY <2>2, <2>3, <2>7, <2>8 DEF RestoresInput
<1> QED
  BY <1>1, <1>2, <1>3, Invariance, PTL DEF Spec
=============================================================================
