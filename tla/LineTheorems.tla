---------------------------- MODULE LineTheorems ----------------------------
(* Lines of elements in a set of places: the queues of a pipeline and the     *)
(* buffers of its stages.  L gives the line of every place, its head first.   *)
(* Elements are handed on from the head of one line to the end of another,    *)
(* enter at the end of a line and leave from the head of one.  The facts      *)
(* about this that proofs need: no element gets into two places, and which    *)
(* elements are in a group of places afterwards; and, about sequences of      *)
(* values that are computed one from the other, that they exist and are       *)
(* unique.                                                                    *)
EXTENDS Integers, Sequences, SequenceTheorems, WellFoundedInduction, TLAPS

Lines(P, S) == [P -> Seq(S)]

(* No element is in two places, nor twice in one.                             *)
OnceIn(P, L) == \A p, q \in P : \A i \in 1 .. Len(L[p]), j \in 1 .. Len(L[q]) :
                    L[p][i] = L[q][j] => p = q /\ i = j

(* The elements of a line, and those of all the lines in the places Q.        *)
In(s) == {s[i] : i \in 1 .. Len(s)}
Among(L, Q) == UNION {In(L[p]) : p \in Q}

-----------------------------------------------------------------------------
(* Sequences cut in two and put together.                                     *)
LEMMA CutLemma ==
    ASSUME NEW S, NEW s \in Seq(S), NEW n \in 0 .. Len(s)
    PROVE  /\ Len(s) \in Nat
           /\ SubSeq(s, 1, n) \in Seq(S) /\ Len(SubSeq(s, 1, n)) = n
           /\ \A i \in 1 .. n : SubSeq(s, 1, n)[i] = s[i]
           /\ SubSeq(s, n + 1, Len(s)) \in Seq(S)
           /\ Len(SubSeq(s, n + 1, Len(s))) = Len(s) - n
           /\ \A i \in 1 .. Len(s) - n : SubSeq(s, n + 1, Len(s))[i] = s[n + i]
<1>1. Len(s) \in Nat
  OBVIOUS
<1>2. /\ SubSeq(s, 1, n) \in Seq(S) /\ Len(SubSeq(s, 1, n)) = n
      /\ \A i \in 1 .. n : SubSeq(s, 1, n)[i] = s[i]
  OBVIOUS
<1>3. /\ SubSeq(s, n + 1, Len(s)) \in Seq(S)
      /\ Len(SubSeq(s, n + 1, Len(s))) = Len(s) - n
      /\ \A i \in 1 .. Len(s) - n : SubSeq(s, n + 1, Len(s))[i] = s[n + i]
  OBVIOUS
<1> QED
  BY <1>1, <1>2, <1>3

(* The elements and the length of two sequences put together.                 *)
LEMMA JoinLemma ==
    ASSUME NEW S, NEW s \in Seq(S), NEW t \in Seq(S)
    PROVE  /\ s \o t \in Seq(S) /\ Len(s \o t) = Len(s) + Len(t)
           /\ \A i \in 1 .. Len(s) + Len(t) :
                (s \o t)[i] = IF i <= Len(s) THEN s[i] ELSE t[i - Len(s)]
OBVIOUS

(* The elements of a sequence, of its head and its tail, and of a sequence    *)
(* with one more.                                                             *)
LEMMA InLemma ==
    ASSUME NEW S, NEW s \in Seq(S)
    PROVE  /\ In(s) \subseteq S
           /\ s # << >> => Head(s) \in In(s) /\ Head(s) = s[1]
           /\ In(<< >>) = {}
<1>1. Len(s) \in Nat /\ \A i \in 1 .. Len(s) : s[i] \in S
  OBVIOUS
<1>2. In(s) \subseteq S
  BY <1>1 DEF In
<1>3. ASSUME s # << >> PROVE Head(s) \in In(s) /\ Head(s) = s[1]
  <2>1. Len(s) # 0
    BY <1>3, EmptySeq
  <2>2. 1 \in 1 .. Len(s) /\ Head(s) = s[1]
    BY <1>1, <2>1
  <2> QED
    BY <2>2 DEF In
<1>4. In(<< >>) = {}
  <2>1. Len(<< >>) = 0
    OBVIOUS
  <2> QED
    BY <2>1 DEF In
<1> QED
  BY <1>2, <1>3, <1>4

(* The elements of a piece, of a join, of a tail and of a longer sequence.    *)
LEMMA InPieces ==
    ASSUME NEW S, NEW s \in Seq(S)
    PROVE  /\ \A n \in 0 .. Len(s) : /\ In(SubSeq(s, 1, n)) \subseteq In(s)
                                     /\ In(SubSeq(s, n + 1, Len(s))) \subseteq In(s)
           /\ \A t \in Seq(S) : In(s \o t) \subseteq In(s) \cup In(t)
           /\ s # << >> => In(Tail(s)) \subseteq In(s)
           /\ \A x \in S : In(Append(s, x)) \subseteq In(s) \cup {x}
<1>0. Len(s) \in Nat
  OBVIOUS
<1>1. ASSUME NEW n \in 0 .. Len(s)
      PROVE  In(SubSeq(s, 1, n)) \subseteq In(s) /\ In(SubSeq(s, n + 1, Len(s))) \subseteq In(s)
  <2>1. /\ Len(SubSeq(s, 1, n)) = n /\ \A i \in 1 .. n : SubSeq(s, 1, n)[i] = s[i]
        /\ Len(SubSeq(s, n + 1, Len(s))) = Len(s) - n
        /\ \A i \in 1 .. Len(s) - n : SubSeq(s, n + 1, Len(s))[i] = s[n + i]
    BY CutLemma
  <2>2. \A i \in 1 .. n : i \in 1 .. Len(s)
    BY <1>0
  <2>3. \A i \in 1 .. Len(s) - n : n + i \in 1 .. Len(s)
    BY <1>0
  <2> QED
    BY <2>1, <2>2, <2>3 DEF In
<1>2. ASSUME NEW t \in Seq(S) PROVE In(s \o t) \subseteq In(s) \cup In(t)
  <2>1. /\ Len(s \o t) = Len(s) + Len(t)
        /\ \A i \in 1 .. Len(s) + Len(t) : (s \o t)[i] = IF i <= Len(s) THEN s[i] ELSE t[i - Len(s)]
    BY JoinLemma
  <2>2. Len(t) \in Nat
    OBVIOUS
  <2>3. \A i \in 1 .. Len(s) + Len(t) : i \in 1 .. Len(s) \/ (~(i <= Len(s)) /\ i - Len(s) \in 1 .. Len(t))
    BY <1>0, <2>2
  <2> QED
    BY <2>1, <2>3 DEF In
<1>3. ASSUME s # << >> PROVE In(Tail(s)) \subseteq In(s)
  <2>1. Len(Tail(s)) = Len(s) - 1 /\ \A i \in 1 .. Len(s) - 1 : Tail(s)[i] = s[i + 1] /\ i + 1 \in 1 .. Len(s)
    BY <1>3, EmptySeq
  <2> QED
    BY <2>1 DEF In
<1>4. ASSUME NEW x \in S PROVE In(Append(s, x)) \subseteq In(s) \cup {x}
  <2>1. /\ Len(Append(s, x)) = Len(s) + 1
        /\ \A i \in 1 .. Len(s) + 1 : Append(s, x)[i] = IF i <= Len(s) THEN s[i] ELSE x
    OBVIOUS
  <2>2. \A i \in 1 .. Len(s) + 1 : i <= Len(s) => i \in 1 .. Len(s)
    BY <1>0
  <2> QED
    BY <2>1, <2>2 DEF In
<1> QED
  BY <1>1, <1>2, <1>3, <1>4

-----------------------------------------------------------------------------
(* The first n elements of the line at p are handed on to the line at q.      *)
HandedOn(L, p, q, n) == [L EXCEPT ![p] = SubSeq(@, n + 1, Len(@)),
                                  ![q] = @ \o SubSeq(L[p], 1, n)]

(* The two lines that handing on changes.                                     *)
LEMMA HandOnShape ==
    ASSUME NEW P, NEW S, NEW L \in [P -> Seq(S)],
           NEW p \in P, NEW q \in P, p # q, NEW n \in 0 .. Len(L[p]),
           NEW M, M = HandedOn(L, p, q, n)
    PROVE  /\ M \in [P -> Seq(S)]
           /\ Len(M[p]) = Len(L[p]) - n
           /\ \A i \in 1 .. Len(M[p]) : M[p][i] = L[p][n + i]
           /\ Len(M[q]) = Len(L[q]) + n
           /\ \A i \in 1 .. Len(M[q]) :
                M[q][i] = IF i <= Len(L[q]) THEN L[q][i] ELSE L[p][i - Len(L[q])]
           /\ \A r \in P : r # p /\ r # q => M[r] = L[r]
           /\ \A r \in P : Len(L[r]) \in Nat /\ Len(M[r]) \in Nat
<1>1. L[p] \in Seq(S) /\ L[q] \in Seq(S)
  OBVIOUS
<1>2. PICK t \in Seq(S) : t = SubSeq(L[p], 1, n)
  BY <1>1, CutLemma
<1>3. Len(t) = n /\ \A i \in 1 .. n : t[i] = L[p][i]
  BY <1>1, <1>2, CutLemma
<1>4. PICK u \in Seq(S) : u = SubSeq(L[p], n + 1, Len(L[p]))
  BY <1>1, CutLemma
<1>5. Len(u) = Len(L[p]) - n /\ \A i \in 1 .. Len(L[p]) - n : u[i] = L[p][n + i]
  BY <1>1, <1>4, CutLemma
<1>6. PICK v \in Seq(S) : v = L[q] \o t
  <2>1. L[q] \o t \in Seq(S)
    BY <1>1, JoinLemma
  <2> QED
    BY <2>1, Zenon
<1>7. /\ Len(v) = Len(L[q]) + n
      /\ \A i \in 1 .. Len(L[q]) + n : v[i] = IF i <= Len(L[q]) THEN L[q][i] ELSE t[i - Len(L[q])]
  BY <1>1, <1>3, <1>6, JoinLemma
<1>8. M = [[L EXCEPT ![p] = u] EXCEPT ![q] = v]
  BY <1>2, <1>4, <1>6 DEF HandedOn
<1>9. /\ M \in [P -> Seq(S)] /\ M[p] = u /\ M[q] = v
      /\ \A r \in P : r # p /\ r # q => M[r] = L[r]
  BY <1>8
<1>10. \A r \in P : Len(L[r]) \in Nat /\ Len(M[r]) \in Nat
  <2>1. \A r \in P : L[r] \in Seq(S) /\ M[r] \in Seq(S)
    BY <1>9
  <2> QED
    BY <2>1, LenProperties
<1>11. ASSUME NEW i \in 1 .. Len(M[q])
       PROVE  M[q][i] = IF i <= Len(L[q]) THEN L[q][i] ELSE L[p][i - Len(L[q])]
  <2>1. /\ Len(L[q]) \in Nat /\ i \in 1 .. Len(L[q]) + n
        /\ ~(i <= Len(L[q])) => i - Len(L[q]) \in 1 .. n
    BY <1>7, <1>9, <1>10
  <2>2. M[q][i] = IF i <= Len(L[q]) THEN L[q][i] ELSE t[i - Len(L[q])]
    BY <1>7, <1>9, <2>1, Zenon
  <2> QED
    BY <1>3, <2>1, <2>2, Zenon
<1> QED
  BY <1>5, <1>7, <1>9, <1>10, <1>11, Zenon

(* When the first n elements of one line are moved to the end of another,     *)
(* each element stays in one place (queue_enqueue and queue_dequeue of a      *)
(* batch).                                                                    *)
LEMMA HandOn ==
    ASSUME NEW P, NEW S, NEW L \in Lines(P, S), OnceIn(P, L),
           NEW p \in P, NEW q \in P, p # q, NEW n \in 0 .. Len(L[p]),
           NEW M, M = HandedOn(L, p, q, n)
    PROVE  M \in Lines(P, S) /\ OnceIn(P, M)
<1> USE DEF Lines
<1>1. /\ M \in [P -> Seq(S)]
      /\ Len(M[p]) = Len(L[p]) - n
      /\ \A i \in 1 .. Len(M[p]) : M[p][i] = L[p][n + i]
      /\ Len(M[q]) = Len(L[q]) + n
      /\ \A i \in 1 .. Len(M[q]) :
           M[q][i] = IF i <= Len(L[q]) THEN L[q][i] ELSE L[p][i - Len(L[q])]
      /\ \A r \in P : r # p /\ r # q => M[r] = L[r]
      /\ \A r \in P : Len(L[r]) \in Nat /\ Len(M[r]) \in Nat
  BY HandOnShape
<1> DEFINE from(r, i) == IF r = q /\ i > Len(L[q]) THEN p ELSE r
           at(r, i) == IF r = p THEN n + i
                       ELSE IF r = q /\ i > Len(L[q]) THEN i - Len(L[q]) ELSE i
<1>2. ASSUME NEW r \in P, NEW i \in 1 .. Len(M[r])
      PROVE  /\ from(r, i) \in P /\ at(r, i) \in 1 .. Len(L[from(r, i)])
             /\ M[r][i] = L[from(r, i)][at(r, i)]
  <2>1. CASE r = p
    <3>1. from(r, i) = p /\ at(r, i) = n + i
      BY <2>1
    <3>2. n + i \in 1 .. Len(L[p])
      BY <1>1, <2>1
    <3> QED
      BY <1>1, <2>1, <3>1, <3>2, Zenon
  <2>2. CASE r = q /\ i > Len(L[q])
    <3>1. from(r, i) = p /\ at(r, i) = i - Len(L[q])
      BY <2>2
    <3>2. i - Len(L[q]) \in 1 .. Len(L[p]) /\ ~(i <= Len(L[q]))
      BY <1>1, <2>2
    <3> QED
      BY <1>1, <2>2, <3>1, <3>2, Zenon
  <2>3. CASE r = q /\ ~(i > Len(L[q]))
    <3>1. from(r, i) = q /\ at(r, i) = i
      BY <2>3
    <3>2. i \in 1 .. Len(L[q]) /\ i <= Len(L[q])
      BY <1>1, <2>3
    <3> QED
      BY <1>1, <2>3, <3>1, <3>2, Zenon
  <2>4. CASE r # p /\ r # q
    BY <1>1, <2>4
  <2> QED
    BY <2>1, <2>2, <2>3, <2>4
<1>3. ASSUME NEW r \in P, NEW i \in 1 .. Len(M[r]), NEW s \in P, NEW j \in 1 .. Len(M[s]),
             from(r, i) = from(s, j), at(r, i) = at(s, j)
      PROVE  r = s /\ i = j
  <2>1. /\ r = p => i \in 1 .. Len(L[p]) - n
        /\ s = p => j \in 1 .. Len(L[p]) - n
        /\ r = q => i \in 1 .. Len(L[q]) + n
        /\ s = q => j \in 1 .. Len(L[q]) + n
        /\ i \in Nat /\ j \in Nat /\ Len(L[p]) \in Nat /\ Len(L[q]) \in Nat
    BY <1>1
  <2>2. r = s
    <3>1. CASE from(r, i) = r /\ from(s, j) = s
      BY <1>3, <3>1, Zenon
    <3>2. CASE r = q /\ i > Len(L[q])
      <4>1. from(r, i) = p /\ at(r, i) = i - Len(L[q]) /\ i - Len(L[q]) <= n
        BY <2>1, <3>2
      <4>2. from(s, j) = p /\ at(s, j) <= n
        BY <1>3, <4>1
      <4>3. s # p
        BY <2>1, <4>2
      <4> QED
        BY <3>2, <4>2, <4>3
    <3>3. CASE s = q /\ j > Len(L[q])
      <4>1. from(s, j) = p /\ at(s, j) = j - Len(L[q]) /\ j - Len(L[q]) <= n
        BY <2>1, <3>3
      <4>2. from(r, i) = p /\ at(r, i) <= n
        BY <1>3, <4>1
      <4>3. r # p
        BY <2>1, <4>2
      <4> QED
        BY <3>3, <4>2, <4>3
    <3> QED
      BY <3>1, <3>2, <3>3
  <2>3. i = j
    <3>1. CASE r = p
      BY <1>3, <2>1, <2>2, <3>1
    <3>2. CASE r = q /\ i > Len(L[q])
      <4>1. j > Len(L[q])
        BY <1>3, <2>1, <2>2, <3>2
      <4> QED
        BY <1>3, <2>1, <2>2, <3>2, <4>1
    <3>3. CASE r = q /\ ~(i > Len(L[q]))
      <4>1. ~(j > Len(L[q]))
        BY <1>3, <2>1, <2>2, <3>3
      <4> QED
        BY <1>3, <2>1, <2>2, <3>3, <4>1
    <3>4. CASE r # p /\ r # q
      BY <1>3, <2>2, <3>4
    <3> QED
      BY <3>1, <3>2, <3>3, <3>4
  <2> QED
    BY <2>2, <2>3
<1> HIDE DEF from, at
<1>4. ASSUME NEW r \in P, NEW s \in P, NEW i \in 1 .. Len(M[r]), NEW j \in 1 .. Len(M[s]),
             M[r][i] = M[s][j]
      PROVE  r = s /\ i = j
  <2>1. L[from(r, i)][at(r, i)] = L[from(s, j)][at(s, j)]
    BY <1>2, <1>4
  <2>2. from(r, i) = from(s, j) /\ at(r, i) = at(s, j)
    BY <1>2, <2>1 DEF OnceIn
  <2> QED
    BY <1>3, <2>2
<1> QED
  BY <1>1, <1>4 DEF OnceIn

(* A group of places that has both lines in it, or neither, keeps its         *)
(* elements.                                                                  *)
LEMMA HandOnAmong ==
    ASSUME NEW P, NEW S, NEW L \in Lines(P, S),
           NEW p \in P, NEW q \in P, p # q, NEW n \in 0 .. Len(L[p]),
           NEW M, M = HandedOn(L, p, q, n), NEW Q \in SUBSET P, p \in Q <=> q \in Q
    PROVE  Among(M, Q) = Among(L, Q)
<1> USE DEF Lines
<1>1. /\ Len(M[p]) = Len(L[p]) - n
      /\ \A i \in 1 .. Len(M[p]) : M[p][i] = L[p][n + i]
      /\ Len(M[q]) = Len(L[q]) + n
      /\ \A i \in 1 .. Len(M[q]) :
           M[q][i] = IF i <= Len(L[q]) THEN L[q][i] ELSE L[p][i - Len(L[q])]
      /\ \A r \in P : r # p /\ r # q => M[r] = L[r]
      /\ Len(L[p]) \in Nat /\ Len(L[q]) \in Nat
  BY HandOnShape
<1>2. In(M[p]) \subseteq In(L[p])
  <2>1. ASSUME NEW i \in 1 .. Len(M[p]) PROVE M[p][i] \in In(L[p])
    <3>1. n + i \in 1 .. Len(L[p]) /\ M[p][i] = L[p][n + i]
      BY <1>1
    <3> QED
      BY <3>1, Zenon DEF In
  <2> QED
    BY <2>1, Zenon DEF In
<1>3. In(M[q]) \subseteq In(L[p]) \cup In(L[q])
  <2>1. ASSUME NEW i \in 1 .. Len(M[q]) PROVE M[q][i] \in In(L[p]) \cup In(L[q])
    <3>1. CASE i <= Len(L[q])
      <4>1. i \in 1 .. Len(L[q]) /\ M[q][i] = L[q][i]
        BY <1>1, <3>1
      <4> QED
        BY <4>1, Zenon DEF In
    <3>2. CASE ~(i <= Len(L[q]))
      <4>1. i - Len(L[q]) \in 1 .. Len(L[p]) /\ M[q][i] = L[p][i - Len(L[q])]
        BY <1>1, <3>2
      <4> QED
        BY <4>1, Zenon DEF In
    <3> QED
      BY <3>1, <3>2
  <2> QED
    BY <2>1, Zenon DEF In
<1>4. In(L[q]) \subseteq In(M[q])
  <2>1. ASSUME NEW i \in 1 .. Len(L[q]) PROVE L[q][i] \in In(M[q])
    <3>1. i \in 1 .. Len(M[q]) /\ M[q][i] = L[q][i]
      BY <1>1
    <3> QED
      BY <3>1, Zenon DEF In
  <2> QED
    BY <2>1, Zenon DEF In
<1>5. In(L[p]) \subseteq In(M[p]) \cup In(M[q])
  <2>1. ASSUME NEW i \in 1 .. Len(L[p]) PROVE L[p][i] \in In(M[p]) \cup In(M[q])
    <3>1. CASE i <= n
      <4>1. PICK k \in 1 .. Len(M[q]) : ~(k <= Len(L[q])) /\ k - Len(L[q]) = i
        <5>1. Len(L[q]) + i \in 1 .. Len(M[q]) /\ ~(Len(L[q]) + i <= Len(L[q]))
              /\ (Len(L[q]) + i) - Len(L[q]) = i
          BY <1>1, <3>1
        <5> QED
          BY <5>1, Zenon
      <4>2. M[q][k] = L[p][i]
        BY <1>1, <4>1, Zenon
      <4> QED
        BY <4>1, <4>2, Zenon DEF In
    <3>2. CASE ~(i <= n)
      <4>1. i - n \in 1 .. Len(M[p]) /\ n + (i - n) = i
        BY <1>1, <3>2
      <4>2. M[p][i - n] = L[p][i]
        BY <1>1, <4>1, Zenon
      <4> QED
        BY <4>1, <4>2, Zenon DEF In
    <3> QED
      BY <3>1, <3>2
  <2> QED
    BY <2>1, Zenon DEF In
<1>6. \A r \in P : r # p /\ r # q => In(M[r]) = In(L[r])
  BY <1>1, Zenon
<1> QED
  <2>1. CASE p \in Q /\ q \in Q
    <3>1. ASSUME NEW x \in Among(M, Q) PROVE x \in Among(L, Q)
      <4>1. PICK r \in Q : x \in In(M[r])
        BY Zenon DEF Among
      <4>2. \E s \in Q : x \in In(L[s])
        BY <1>2, <1>3, <1>6, <2>1, <4>1
      <4> QED
        BY <4>2, Zenon DEF Among
    <3>2. ASSUME NEW x \in Among(L, Q) PROVE x \in Among(M, Q)
      <4>1. PICK r \in Q : x \in In(L[r])
        BY Zenon DEF Among
      <4>2. \E s \in Q : x \in In(M[s])
        BY <1>4, <1>5, <1>6, <2>1, <4>1
      <4> QED
        BY <4>2, Zenon DEF Among
    <3> QED
      BY <3>1, <3>2
  <2>2. CASE p \notin Q /\ q \notin Q
    <3>1. \A r \in Q : In(M[r]) = In(L[r])
      BY <1>6, <2>2
    <3> QED
      BY <3>1 DEF Among
  <2> QED
    BY <2>1, <2>2

-----------------------------------------------------------------------------
(* The head of the line at p leaves it.                                       *)
Left(L, p) == [L EXCEPT ![p] = Tail(@)]

(* When the head of a line leaves, it is in no place any more and nothing     *)
(* else moves.                                                                *)
LEMMA Leaving ==
    ASSUME NEW P, NEW S, NEW L \in Lines(P, S), OnceIn(P, L),
           NEW p \in P, L[p] # << >>, NEW M, M = Left(L, p)
    PROVE  /\ M \in Lines(P, S) /\ OnceIn(P, M)
           /\ Head(L[p]) \in S /\ Head(L[p]) \in In(L[p])
           /\ \A Q \in SUBSET P :
                /\ p \in Q => Among(M, Q) = Among(L, Q) \ {Head(L[p])}
                /\ p \notin Q => Among(M, Q) = Among(L, Q) /\ Head(L[p]) \notin Among(L, Q)
<1> USE DEF Lines
<1>1. PICK s \in Seq(S) : s = L[p]
  OBVIOUS
<1>2. /\ s # << >> /\ Len(s) \in Nat /\ Len(s) # 0 /\ Tail(s) \in Seq(S)
      /\ Len(Tail(s)) = Len(s) - 1 /\ Head(s) = s[1] /\ Head(s) \in S
      /\ \A i \in 1 .. Len(s) - 1 : Tail(s)[i] = s[i + 1]
  <2>1. s # << >> /\ Len(s) \in Nat /\ Len(s) # 0
    BY <1>1, EmptySeq
  <2> QED
    BY <2>1
<1>3. PICK u \in Seq(S) : u = Tail(s)
  BY <1>2
<1>4. M = [L EXCEPT ![p] = u]
  BY <1>1, <1>3 DEF Left
<1>5. /\ M \in [P -> Seq(S)] /\ M[p] = u /\ \A r \in P : r # p => M[r] = L[r]
  BY <1>4
<1>6. Head(s) \in In(s)
  BY <1>2, InLemma
<1> DEFINE at(r, i) == IF r = p THEN i + 1 ELSE i
<1>12. ASSUME NEW r \in P, NEW i \in 1 .. Len(M[r])
       PROVE  i \in Nat /\ at(r, i) \in 1 .. Len(L[r]) /\ M[r][i] = L[r][at(r, i)]
  <2>1. CASE r = p
    <3>1. i \in 1 .. Len(s) - 1
      BY <1>2, <1>3, <1>5, <2>1
    <3>2. i + 1 \in 1 .. Len(s) /\ i \in Nat
      BY <1>2, <3>1
    <3>3. M[r][i] = s[i + 1]
      BY <1>2, <1>3, <1>5, <2>1, <3>1
    <3> QED
      BY <1>1, <2>1, <3>2, <3>3
  <2>2. CASE r # p
    BY <1>5, <2>2
  <2> QED
    BY <2>1, <2>2
<1>13. ASSUME NEW r \in P, NEW i \in Nat, NEW j \in Nat, at(r, i) = at(r, j) PROVE i = j
  BY <1>13
<1> HIDE DEF at
<1>7. ASSUME NEW r1 \in P, NEW r2 \in P, NEW i \in 1 .. Len(M[r1]), NEW j \in 1 .. Len(M[r2]),
             M[r1][i] = M[r2][j]
      PROVE  r1 = r2 /\ i = j
  <2>1. L[r1][at(r1, i)] = L[r2][at(r2, j)] /\ i \in Nat /\ j \in Nat
    BY <1>7, <1>12
  <2>2. r1 = r2 /\ at(r1, i) = at(r2, j)
    BY <1>12, <2>1 DEF OnceIn
  <2> QED
    BY <1>13, <2>1, <2>2
<1>8. In(u) = In(s) \ {Head(s)}
  <2>1. ASSUME NEW i \in 1 .. Len(u) PROVE u[i] \in In(s) /\ u[i] # Head(s)
    <3>1. i + 1 \in 1 .. Len(s) /\ u[i] = s[i + 1] /\ 1 \in 1 .. Len(s) /\ i + 1 # 1
      BY <1>2, <1>3
    <3>2. PICK k \in 1 .. Len(s) : u[i] = s[k] /\ k # 1
      BY <3>1, Zenon
    <3>3. s[k] # s[1]
      BY <1>1, <3>1, <3>2 DEF OnceIn
    <3> QED
      BY <1>2, <3>2, <3>3, Zenon DEF In
  <2>2. ASSUME NEW i \in 1 .. Len(s), s[i] # Head(s) PROVE s[i] \in In(u)
    <3>1. i # 1
      BY <1>2, <2>2
    <3>2. i - 1 \in 1 .. Len(u) /\ u[i - 1] = s[i]
      BY <1>2, <1>3, <3>1
    <3> QED
      BY <3>2, Zenon DEF In
  <2> QED
    BY <2>1, <2>2 DEF In
<1>9. ASSUME NEW r \in P, r # p PROVE Head(s) \notin In(L[r]) /\ In(M[r]) = In(L[r])
  <2>1. ASSUME NEW j \in 1 .. Len(L[r]) PROVE L[r][j] # Head(s)
    <3>1. 1 \in 1 .. Len(s)
      BY <1>2
    <3>2. s[1] # L[r][j]
      BY <1>1, <1>9, <3>1 DEF OnceIn
    <3> QED
      BY <1>2, <3>2
  <2> QED
    BY <1>5, <1>9, <2>1, Zenon DEF In
<1>10. ASSUME NEW Q \in SUBSET P, p \in Q PROVE Among(M, Q) = Among(L, Q) \ {Head(s)}
  <2>1. /\ In(M[p]) = In(L[p]) \ {Head(s)}
        /\ \A r \in P : r # p => Head(s) \notin In(L[r]) /\ In(M[r]) = In(L[r])
    <3>1. M[p] = u /\ L[p] = s
      BY <1>1, <1>5
    <3> QED
      BY <1>8, <1>9, <3>1, Zenon
  <2>2. \A r \in Q : In(M[r]) = In(L[r]) \ {Head(s)}
    BY <2>1
  <2>3. ASSUME NEW x \in Among(M, Q) PROVE x \in Among(L, Q) /\ x # Head(s)
    <3>1. PICK r \in Q : x \in In(M[r])
      BY Zenon DEF Among
    <3>2. x \in In(L[r]) /\ x # Head(s)
      BY <2>2, <3>1
    <3> QED
      BY <3>2, Zenon DEF Among
  <2>4. ASSUME NEW x \in Among(L, Q), x # Head(s) PROVE x \in Among(M, Q)
    <3>1. PICK r \in Q : x \in In(L[r])
      BY Zenon DEF Among
    <3>2. x \in In(M[r])
      BY <2>2, <2>4, <3>1
    <3> QED
      BY <3>2, Zenon DEF Among
  <2> QED
    BY <2>3, <2>4
<1>11. ASSUME NEW Q \in SUBSET P, p \notin Q
       PROVE  Among(M, Q) = Among(L, Q) /\ Head(s) \notin Among(L, Q)
  BY <1>9, <1>11 DEF Among
<1> QED
  BY <1>1, <1>2, <1>5, <1>6, <1>7, <1>10, <1>11 DEF OnceIn

(* An element that is nowhere enters at the end of the line at p.             *)
Entered(L, p, x) == [L EXCEPT ![p] = Append(@, x)]

(* When an element that is in no place enters, it is in one place and nothing *)
(* else moves.                                                                *)
LEMMA Entering ==
    ASSUME NEW P, NEW S, NEW L \in Lines(P, S), OnceIn(P, L),
           NEW p \in P, NEW x \in S, x \notin Among(L, P), NEW M, M = Entered(L, p, x)
    PROVE  /\ M \in Lines(P, S) /\ OnceIn(P, M)
           /\ \A Q \in SUBSET P :
                /\ p \in Q => Among(M, Q) = Among(L, Q) \cup {x}
                /\ p \notin Q => Among(M, Q) = Among(L, Q)
<1> USE DEF Lines
<1>1. PICK s \in Seq(S) : s = L[p]
  OBVIOUS
<1>2. /\ Len(s) \in Nat /\ Append(s, x) \in Seq(S) /\ Len(Append(s, x)) = Len(s) + 1
      /\ \A i \in 1 .. Len(s) : Append(s, x)[i] = s[i]
      /\ Append(s, x)[Len(s) + 1] = x
  OBVIOUS
<1>3. PICK u \in Seq(S) : u = Append(s, x)
  BY <1>2
<1>4. M = [L EXCEPT ![p] = u]
  BY <1>1, <1>3 DEF Entered
<1>5. /\ M \in [P -> Seq(S)] /\ M[p] = u /\ \A r \in P : r # p => M[r] = L[r]
  BY <1>4
<1>6. /\ Len(u) = Len(s) + 1 /\ u[Len(s) + 1] = x /\ \A i \in 1 .. Len(s) : u[i] = s[i]
  BY <1>2, <1>3
<1>7. \A r \in P : \A i \in 1 .. Len(L[r]) : L[r][i] # x
  <2>1. \A r \in P : x \notin In(L[r])
    BY Zenon DEF Among
  <2> QED
    BY <2>1, Zenon DEF In
<1>8. ASSUME NEW r \in P, NEW i \in 1 .. Len(M[r])
      PROVE  \/ i \in 1 .. Len(L[r]) /\ M[r][i] = L[r][i]
             \/ r = p /\ i = Len(s) + 1 /\ M[r][i] = x
  <2>1. CASE r = p
    <3>1. i \in 1 .. Len(s) \/ i = Len(s) + 1
      BY <1>2, <1>5, <1>6, <2>1
    <3> QED
      BY <1>1, <1>5, <1>6, <2>1, <3>1, Zenon
  <2>2. CASE r # p
    BY <1>5, <2>2
  <2> QED
    BY <2>1, <2>2
<1>9. ASSUME NEW r1 \in P, NEW r2 \in P, NEW i \in 1 .. Len(M[r1]), NEW j \in 1 .. Len(M[r2]),
             M[r1][i] = M[r2][j]
      PROVE  r1 = r2 /\ i = j
  <2>1. \/ i \in 1 .. Len(L[r1]) /\ M[r1][i] = L[r1][i]
        \/ r1 = p /\ i = Len(s) + 1 /\ M[r1][i] = x
    BY <1>8, Zenon
  <2>2. \/ j \in 1 .. Len(L[r2]) /\ M[r2][j] = L[r2][j]
        \/ r2 = p /\ j = Len(s) + 1 /\ M[r2][j] = x
    BY <1>8, Zenon
  <2>3. CASE i \in 1 .. Len(L[r1]) /\ M[r1][i] = L[r1][i] /\ j \in 1 .. Len(L[r2]) /\ M[r2][j] = L[r2][j]
    <3>1. L[r1][i] = L[r2][j]
      BY <1>9, <2>3, Zenon
    <3> QED
      BY <2>3, <3>1 DEF OnceIn
  <2>4. CASE M[r1][i] = x /\ M[r2][j] = x
    BY <1>7, <2>1, <2>2, <2>4
  <2> QED
    BY <1>7, <1>9, <2>1, <2>2, <2>3, <2>4
<1>10. In(u) = In(s) \cup {x}
  <2>1. \A i \in 1 .. Len(u) : u[i] \in In(s) \cup {x}
    <3>1. ASSUME NEW i \in 1 .. Len(u) PROVE u[i] \in In(s) \cup {x}
      <4>1. i \in 1 .. Len(s) \/ i = Len(s) + 1
        BY <1>2, <1>6
      <4> QED
        BY <1>6, <4>1 DEF In
    <3> QED
      BY <3>1
  <2>2. \A i \in 1 .. Len(s) : s[i] \in In(u)
    <3>1. ASSUME NEW i \in 1 .. Len(s) PROVE s[i] \in In(u)
      <4>1. i \in 1 .. Len(u) /\ u[i] = s[i]
        BY <1>2, <1>6
      <4> QED
        BY <4>1, Zenon DEF In
    <3> QED
      BY <3>1
  <2>3. x \in In(u)
    <3>1. Len(s) + 1 \in 1 .. Len(u)
      BY <1>2, <1>6
    <3> QED
      BY <1>6, <3>1, Zenon DEF In
  <2> QED
    BY <2>1, <2>2, <2>3 DEF In
<1>11. ASSUME NEW Q \in SUBSET P, p \in Q PROVE Among(M, Q) = Among(L, Q) \cup {x}
  BY <1>1, <1>5, <1>10, <1>11 DEF Among
<1>12. ASSUME NEW Q \in SUBSET P, p \notin Q PROVE Among(M, Q) = Among(L, Q)
  BY <1>5, <1>12 DEF Among
<1> QED
  BY <1>5, <1>9, <1>11, <1>12 DEF OnceIn

(* The head of the line at p passes on to the end of the line at q.           *)
Passed(L, p, q) == Entered(Left(L, p), q, Head(L[p]))

(* When the head of one line passes on to the end of another, each element    *)
(* stays in one place (what a stage's kernel does with a chunk).              *)
LEMMA Passing ==
    ASSUME NEW P, NEW S, NEW L \in Lines(P, S), OnceIn(P, L),
           NEW p \in P, NEW q \in P, p # q, L[p] # << >>, NEW x \in S, x = Head(L[p]),
           NEW M, M = Passed(L, p, q)
    PROVE  /\ M \in Lines(P, S) /\ OnceIn(P, M)
           /\ M[p] = Tail(L[p]) /\ M[q] = Append(L[q], x)
           /\ \A r \in P : r # p /\ r # q => M[r] = L[r]
<1> USE DEF Lines
<1>1. PICK K : K = Left(L, p)
  OBVIOUS
<1>2. /\ K \in [P -> Seq(S)] /\ OnceIn(P, K)
      /\ x \in S /\ x \in In(L[p])
      /\ \A Q \in SUBSET P :
           /\ p \in Q => Among(K, Q) = Among(L, Q) \ {x}
           /\ p \notin Q => Among(K, Q) = Among(L, Q) /\ x \notin Among(L, Q)
  <2>1. /\ K \in [P -> Seq(S)] /\ OnceIn(P, K)
        /\ Head(L[p]) \in S /\ Head(L[p]) \in In(L[p])
        /\ \A Q \in SUBSET P :
             /\ p \in Q => Among(K, Q) = Among(L, Q) \ {Head(L[p])}
             /\ p \notin Q => Among(K, Q) = Among(L, Q) /\ Head(L[p]) \notin Among(L, Q)
    BY <1>1, Leaving
  <2> QED
    BY <2>1
<1>3. K[p] = Tail(L[p]) /\ \A r \in P : r # p => K[r] = L[r]
  BY <1>1 DEF Left
<1>4. M = Entered(K, q, x)
  BY <1>1 DEF Passed
<1>5. x \notin Among(K, P)
  BY <1>2
<1>6. /\ M \in [P -> Seq(S)] /\ OnceIn(P, M)
      /\ \A Q \in SUBSET P :
           /\ q \in Q => Among(M, Q) = Among(K, Q) \cup {x}
           /\ q \notin Q => Among(M, Q) = Among(K, Q)
  <2>1. K \in [P -> Seq(S)] /\ OnceIn(P, K) /\ x \in S
    BY <1>2
  <2> QED
    BY <2>1, <1>4, <1>5, Entering
<1>7. M[q] = Append(K[q], x) /\ \A r \in P : r # q => M[r] = K[r]
  BY <1>2, <1>4 DEF Entered
<1> QED
  BY <1>3, <1>6, <1>7

(* What passing on does to all the groups of places.                          *)
LEMMA PassingAll ==
    ASSUME NEW P, NEW S, NEW L \in Lines(P, S), OnceIn(P, L),
           NEW p \in P, NEW q \in P, p # q, L[p] # << >>, NEW x \in S, x = Head(L[p]),
           NEW M, M = Passed(L, p, q)
    PROVE  \A R \in SUBSET P :
             /\ p \in R /\ q \notin R => Among(M, R) = Among(L, R) \ {x} /\ x \in Among(L, R)
             /\ p \notin R /\ q \in R => Among(M, R) = Among(L, R) \cup {x}
             /\ p \notin R /\ q \notin R => Among(M, R) = Among(L, R)
             /\ p \notin R => x \notin Among(L, R)
<1> USE DEF Lines
<1>1. PICK K : K = Left(L, p)
  OBVIOUS
<1>2. /\ K \in [P -> Seq(S)] /\ OnceIn(P, K)
      /\ x \in S /\ x \in In(L[p])
      /\ \A R \in SUBSET P :
           /\ p \in R => Among(K, R) = Among(L, R) \ {x}
           /\ p \notin R => Among(K, R) = Among(L, R) /\ x \notin Among(L, R)
  <2>1. /\ K \in [P -> Seq(S)] /\ OnceIn(P, K)
        /\ Head(L[p]) \in S /\ Head(L[p]) \in In(L[p])
        /\ \A R \in SUBSET P :
             /\ p \in R => Among(K, R) = Among(L, R) \ {Head(L[p])}
             /\ p \notin R => Among(K, R) = Among(L, R) /\ Head(L[p]) \notin Among(L, R)
    BY <1>1, Leaving
  <2> QED
    BY <2>1
<1>3. K[p] = Tail(L[p]) /\ \A r \in P : r # p => K[r] = L[r]
  BY <1>1 DEF Left
<1>4. M = Entered(K, q, x)
  BY <1>1 DEF Passed
<1>5. x \notin Among(K, P)
  BY <1>2
<1>6. /\ M \in [P -> Seq(S)] /\ OnceIn(P, M)
      /\ \A R \in SUBSET P :
           /\ q \in R => Among(M, R) = Among(K, R) \cup {x}
           /\ q \notin R => Among(M, R) = Among(K, R)
  <2>1. K \in [P -> Seq(S)] /\ OnceIn(P, K) /\ x \in S
    BY <1>2
  <2> QED
    BY <2>1, <1>4, <1>5, Entering
<1>7. \A R \in SUBSET P : p \in R => x \in Among(L, R)
  BY <1>2, Zenon DEF Among
<1> QED
  BY <1>2, <1>6, <1>7

(* The group passed from loses the element, the group passed to gains it.     *)
LEMMA PassingAmong ==
    ASSUME NEW P, NEW S, NEW L \in Lines(P, S), OnceIn(P, L),
           NEW p \in P, NEW q \in P, p # q, L[p] # << >>, NEW x \in S, x = Head(L[p]),
           NEW M, M = Passed(L, p, q), NEW Q \in SUBSET P
    PROVE  /\ p \in Q /\ q \notin Q => Among(M, Q) = Among(L, Q) \ {x} /\ x \in Among(L, Q)
           /\ p \notin Q /\ q \in Q => Among(M, Q) = Among(L, Q) \cup {x}
           /\ p \notin Q /\ q \notin Q => Among(M, Q) = Among(L, Q)
           /\ p \notin Q => x \notin Among(L, Q)
BY PassingAll
(* The last element of the line at p leaves it.                               *)
LastLeft(L, p) == [L EXCEPT ![p] = SubSeq(@, 1, Len(@) - 1)]

(* When the last element of a line leaves, it is in no place any more and     *)
(* nothing else moves.                                                        *)
LEMMA LeavingLast ==
    ASSUME NEW P, NEW S, NEW L \in Lines(P, S), OnceIn(P, L),
           NEW p \in P, L[p] # << >>, NEW x, x = L[p][Len(L[p])], NEW M, M = LastLeft(L, p)
    PROVE  /\ M \in Lines(P, S) /\ OnceIn(P, M)
           /\ x \in S /\ x \in Among(L, P) /\ Among(M, P) = Among(L, P) \ {x}
<1> DEFINE s == L[p]  n == Len(s)
<1>1. L \in [P -> Seq(S)] /\ s \in Seq(S) /\ n \in Nat /\ n > 0 /\ n - 1 \in 0 .. n
  <2>1. L \in [P -> Seq(S)] /\ s \in Seq(S)
    BY DEF Lines
  <2> QED
    BY <2>1, EmptySeq
<1>2. PICK r : r = SubSeq(s, 1, n - 1)
  OBVIOUS
<1>3. r \in Seq(S) /\ Len(r) = n - 1 /\ \A i \in 1 .. n - 1 : r[i] = s[i]
  BY <1>1, <1>2, CutLemma
<1>4. M = [L EXCEPT ![p] = r]
  BY <1>2 DEF LastLeft
<1> HIDE DEF s, n
<1>5. M \in [P -> Seq(S)] /\ M[p] = r /\ \A q \in P : q # p => M[q] = L[q]
  BY <1>1, <1>3, <1>4
<1>6. x = s[n] /\ n \in 1 .. n /\ x \in S
  BY <1>1 DEF s, n
<1>7. ASSUME NEW q \in P, NEW i \in 1 .. Len(M[q])
      PROVE  i \in 1 .. Len(L[q]) /\ M[q][i] = L[q][i] /\ M[q][i] # x
  <2>1. CASE q = p
    <3>1. i \in 1 .. n - 1 /\ M[q][i] = s[i] /\ i \in 1 .. n /\ i # n
      BY <1>1, <1>3, <1>5, <2>1
    <3>2. s[i] # s[n]
      BY <1>1, <1>6, <3>1 DEF OnceIn, s, n
    <3> QED
      BY <1>6, <2>1, <3>1, <3>2 DEF s, n
  <2>2. CASE q # p
    <3>1. i \in 1 .. Len(L[q]) /\ M[q][i] = L[q][i]
      BY <1>5, <2>2
    <3>2. L[q][i] # L[p][n]
      BY <1>6, <2>2, <3>1 DEF OnceIn, s, n
    <3> QED
      BY <1>6, <3>1, <3>2 DEF s
  <2> QED
    BY <2>1, <2>2
<1>8. OnceIn(P, M)
  BY <1>7 DEF OnceIn
<1>9. x \in Among(L, P)
  BY <1>6 DEF Among, In, s, n
<1>10. Among(M, P) \subseteq Among(L, P) \ {x}
  BY <1>7 DEF Among, In
<1>11. ASSUME NEW y \in Among(L, P), y # x PROVE y \in Among(M, P)
  <2>0. PICK q \in P : y \in In(L[q])
    BY <1>11 DEF Among
  <2>1. PICK i \in 1 .. Len(L[q]) : y = L[q][i]
    BY <2>0 DEF In
  <2>2. i \in 1 .. Len(M[q]) /\ M[q][i] = L[q][i]
    <3>1. CASE q = p
      <4>1. i \in 1 .. n /\ i # n
        BY <1>6, <1>11, <2>1, <3>1 DEF s, n
      <4> QED
        BY <1>1, <1>3, <1>5, <3>1, <4>1 DEF s
    <3>2. CASE q # p
      BY <1>5, <3>2
    <3> QED
      BY <3>1, <3>2
  <2> QED
    BY <2>1, <2>2 DEF Among, In
<1> QED
  BY <1>5, <1>6, <1>8, <1>9, <1>10, <1>11 DEF Lines

-----------------------------------------------------------------------------
(* A set of natural numbers has a least one.                                  *)
LEMMA LeastLemma ==
    ASSUME NEW S \in SUBSET Nat, S # {}
    PROVE  \E m \in S : \A n \in S : m <= n
<1> DEFINE R == OpToRel(<, Nat)
<1>1. IsWellFoundedOn(R, Nat)
  BY NatLessThanWellFounded
<1>2. PICK m \in S : \A n \in S : <<n, m>> \notin R
  <2> HIDE DEF R
  <2> QED
    BY <1>1, WFMin
<1>3. \A n \in S : ~(n < m)
  BY <1>2 DEF OpToRel
<1> QED
  BY <1>3

(* Induction up to n, for the numbers in a set.                               *)
LEMMA CountingUp ==
    ASSUME NEW S, NEW k \in Nat, NEW n \in Nat, k \in S,
           \A m \in k .. n - 1 : m \in S => m + 1 \in S
    PROVE  \A m \in k .. n : m \in S
<1> DEFINE Bad == (k .. n) \ S
<1>1. ASSUME Bad # {} PROVE FALSE
  <2>1. PICK b \in Bad : \A m \in Bad : b <= m
    <3>1. Bad \in SUBSET Nat
      OBVIOUS
    <3> QED
      BY <1>1, <3>1, LeastLemma
  <2>2. b \in k .. n /\ b \notin S
    OBVIOUS
  <2>3. b # k
    BY <2>2
  <2>4. b - 1 \in k .. n - 1 /\ b - 1 \in k .. n /\ (b - 1) + 1 = b /\ ~(b <= b - 1)
    BY <2>2, <2>3
  <2>5. b - 1 \in S
    BY <2>1, <2>4
  <2> QED
    BY <2>2, <2>4, <2>5
<1> QED
  BY <1>1

-----------------------------------------------------------------------------
(* Values computed one after the other, the next one from the one before and  *)
(* its number: G gives the step.                                              *)
Computes(f, s0, m, G) == f[0] = s0 /\ \A i \in 1 .. m : f[i] = G[<<f[i - 1], i>>]

(* There is such a sequence of values.                                        *)
LEMMA StepByStep ==
    ASSUME NEW S, NEW s0 \in S, NEW n \in Nat, NEW G \in [S \X (1 .. n) -> S]
    PROVE  \E f \in [0 .. n -> S] : Computes(f, s0, n, G)
<1> DEFINE Done == {m \in 0 .. n : \E f \in [0 .. m -> S] : Computes(f, s0, m, G)}
<1>1. 0 \in Done
  <2>1. PICK f : f = [i \in 0 .. 0 |-> s0]
    OBVIOUS
  <2>2. f \in [0 .. 0 -> S] /\ f[0] = s0
    BY <2>1
  <2> QED
    BY <2>2 DEF Computes
<1>2. ASSUME NEW m \in 0 .. n - 1, m \in Done PROVE m + 1 \in Done
  <2>1. PICK f \in [0 .. m -> S] : Computes(f, s0, m, G)
    BY <1>2
  <2>2. m \in 0 .. m /\ f[m] \in S /\ m + 1 \in 1 .. n
    OBVIOUS
  <2>3. PICK x \in S : x = G[<<f[m], m + 1>>]
    BY <2>2
  <2>4. PICK g : g = [i \in 0 .. m + 1 |-> IF i = m + 1 THEN x ELSE f[i]]
    OBVIOUS
  <2>5. /\ g \in [0 .. m + 1 -> S] /\ g[m + 1] = x
        /\ \A i \in 0 .. m : g[i] = f[i]
    BY <2>4
  <2>6. g[0] = s0
    BY <2>1, <2>5 DEF Computes
  <2>7. ASSUME NEW i \in 1 .. m + 1 PROVE g[i] = G[<<g[i - 1], i>>]
    <3>1. CASE i = m + 1
      <4>1. i - 1 = m
        BY <3>1
      <4> QED
        BY <2>2, <2>3, <2>5, <3>1, <4>1
    <3>2. CASE i # m + 1
      <4>1. i \in 1 .. m /\ i \in 0 .. m /\ i - 1 \in 0 .. m
        BY <3>2
      <4> QED
        BY <2>1, <2>5, <4>1 DEF Computes
    <3> QED
      BY <3>1, <3>2
  <2>8. m + 1 \in 0 .. n
    OBVIOUS
  <2> QED
    BY <2>5, <2>6, <2>7, <2>8 DEF Computes
<1> HIDE DEF Done
<1>3. n \in Done
  BY <1>1, <1>2, CountingUp
<1> QED
  BY <1>3 DEF Done

(* Two sequences that start alike and go on alike from what is alike.         *)
SameSteps(f, g, k, n) ==
    f[k] = g[k] /\ \A i \in k .. n : i # k /\ f[i - 1] = g[i - 1] => f[i] = g[i]

(* They are the same throughout.                                              *)
LEMMA OneOnly ==
    ASSUME NEW f, NEW g, NEW k \in Nat, NEW n \in Nat, SameSteps(f, g, k, n)
    PROVE  \A i \in k .. n : f[i] = g[i]
<1> DEFINE Same == {m \in Nat : f[m] = g[m]}
<1>1. k \in Same
  BY DEF SameSteps
<1>2. ASSUME NEW m \in k .. n - 1, m \in Same PROVE m + 1 \in Same
  <2>1. m + 1 \in k .. n /\ m + 1 # k /\ (m + 1) - 1 = m /\ m + 1 \in Nat
    OBVIOUS
  <2>2. f[m] = g[m]
    BY <1>2
  <2>3. f[m + 1] = g[m + 1]
    BY <2>1, <2>2 DEF SameSteps
  <2> QED
    BY <2>1, <2>3
<1> HIDE DEF Same
<1>3. \A m \in k .. n : m \in Same
  BY <1>1, <1>2, CountingUp
<1> QED
  BY <1>3 DEF Same
=============================================================================
