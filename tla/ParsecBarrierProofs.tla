------------------------- MODULE ParsecBarrierProofs -------------------------
(* The safety of parsec_barrier for every number of threads and uses, with    *)
(* and without polling.                                                       *)
EXTENDS ParsecBarrier, FiniteSetTheorems, TLAPS

-----------------------------------------------------------------------------
(* The inductive invariant.                                                   *)

(* While threads arrive, all have passed equally often and somebody is still  *)
(* missing.  While they depart, those that are out are one use ahead of those *)
(* that are still inside, and there are some.                                 *)
PhaseInv ==
    /\ is_arrival_phase =>
          /\ n < max
          /\ \A t, u \in Threads : passed[t] = passed[u]
    /\ ~is_arrival_phase =>
          /\ n # 0
          /\ \A t, u \in Inside : passed[t] = passed[u]
          /\ \A t \in Inside, u \in Threads \ Inside : passed[u] = passed[t] + 1
          /\ \A t, u \in Threads \ Inside : passed[t] = passed[u]

InsideInv == \A t \in Inside : passed[t] < Uses

(* The serial thread of use k: it has been told so, or will be when it leaves. *)
IsSerial(t, k) ==
    t \in serial[k] \/ (t \in Inside /\ master[t] /\ passed[t] + 1 = k)

SerialInv ==
    \A k \in 1 .. Uses :
        /\ \A t, u \in Threads : IsSerial(t, k) /\ IsSerial(u, k) => t = u
        /\ (\E t \in Threads : ArrivedAt(t) >= k) => \E t \in Threads : IsSerial(t, k)
        /\ \A t \in serial[k] : passed[t] >= k

Inv == TypeOK /\ SleepersHaveAReason /\ PhaseInv /\ InsideInv /\ SerialInv

-----------------------------------------------------------------------------
(* Facts used in several places.                                              *)

(* The number of threads inside is a number, and max is at least one.         *)
LEMMA InsideIsFinite ==
    IsFiniteSet(Inside) /\ Cardinality(Inside) \in Nat /\ max \in Nat \ {0}
<1>1. Inside \in SUBSET Threads
  BY DEF Inside
<1>2. IsFiniteSet(Inside)
  BY <1>1, BarrierAssumption, FS_Subset
<1>3. max \in Nat /\ max # 0
  BY BarrierAssumption, FS_CardinalityType, FS_EmptySet DEF max
<1> QED BY <1>2, <1>3, FS_CardinalityType

(* Waking sleepers changes nobody's being inside.                             *)
LEMMA AwakeLemma ==
    ASSUME NEW label \in AtEntry \cup {"sleepEnter"} \cup Counted
    PROVE  /\ Awake(label) \in (AtEntry \cup Counted)
           /\ Awake(label) \in Counted <=> label \in Counted
           /\ Awake(label) \notin {"sleepEnter", "sleepArrive"}
BY DEF Awake, AtEntry, Counted

(* The first thread of a use becomes the master.                              *)
LEMMA MasterLemma ==
    ASSUME master \in [Threads -> BOOLEAN], NEW t
    PROVE  [master EXCEPT ![t] = n = 0] \in [Threads -> BOOLEAN]
<1> DEFINE first == n = 0
<1>1. first \in BOOLEAN
  OBVIOUS
<1> HIDE DEF first
<1>2. [master EXCEPT ![t] = first] \in [Threads -> BOOLEAN]
  BY <1>1
<1> QED BY <1>2 DEF first

(* The last thread to arrive finds all the others inside (n + 1 >= max).      *)
LEMMA LastLemma ==
    ASSUME Inv, NEW t \in Threads, MayArrive(t), n + 1 >= max
    PROVE  Inside = Threads \ {t}
<1>1. t \notin Inside
  BY DEF MayArrive, AtEntry, Inside, Counted
<1>2. Inside \cup {t} \in SUBSET Threads
  BY DEF Inside
<1>3. Cardinality(Inside \cup {t}) = n + 1
  BY <1>1, InsideIsFinite, FS_AddElement DEF Inv, TypeOK
<1>4. Cardinality(Inside \cup {t}) <= max
  BY <1>2, BarrierAssumption, FS_Subset DEF max
<1>5. n \in Nat
  BY InsideIsFinite DEF Inv, TypeOK
<1>6. Cardinality(Threads) = Cardinality(Inside \cup {t})
  BY <1>3, <1>4, <1>5, InsideIsFinite DEF max
<1>7. Threads = Inside \cup {t}
  BY <1>2, <1>6, BarrierAssumption, FS_Subset
<1> QED BY <1>1, <1>7

-----------------------------------------------------------------------------
(* The invariant holds at the start: everybody is outside and nobody has      *)
(* passed (parsec_barrier_init).                                              *)
LEMMA InitInv == Init => Inv
<1> SUFFICES ASSUME Init PROVE Inv
  OBVIOUS
<1>1. Inside = {}
  BY DEF Init, Inside, Counted
<1>2. Cardinality(Inside) = 0 /\ 0 \in 0 .. max
  BY <1>1, FS_EmptySet, InsideIsFinite
<1>3. TypeOK
  BY <1>2, BarrierAssumption DEF Init, TypeOK, AtEntry
<1>4. SleepersHaveAReason
  BY DEF Init, SleepersHaveAReason
<1>5. PhaseInv
  BY InsideIsFinite DEF Init, PhaseInv
<1>6. InsideInv
  BY <1>1 DEF InsideInv
<1>7. SerialInv
  BY <1>1 DEF Init, SerialInv, IsSerial, ArrivedAt
<1> QED BY <1>3, <1>4, <1>5, <1>6, <1>7 DEF Inv

(* A step that only moves a thread between polling, sleeping and testing.     *)
LEMMA QuietInv ==
    ASSUME Inv, UNCHANGED <<n, is_arrival_phase, master, passed, serial>>,
           pc' \in [Threads -> AtEntry \cup {"sleepEnter"} \cup Counted],
           Inside' = Inside, SleepersHaveAReason'
    PROVE  Inv'
<1>1. TypeOK'
  BY DEF Inv, TypeOK
<1>2. PhaseInv' /\ InsideInv' /\ SerialInv'
  BY DEF Inv, PhaseInv, InsideInv, SerialInv, IsSerial, ArrivedAt
<1> QED BY <1>1, <1>2 DEF Inv

(* Waiting for the arrival phase keeps the invariant.                         *)
LEMMA AwaitArrivalPhaseInv ==
    ASSUME Inv, NEW t \in Threads, AwaitArrivalPhase(t)
    PROVE  Inv'
<1>1. pc' \in [Threads -> AtEntry \cup {"sleepEnter"} \cup Counted]
  BY DEF Inv, TypeOK, AwaitArrivalPhase, Goto, AtEntry
<1>2. Inside' = Inside
  BY DEF Inv, TypeOK, AwaitArrivalPhase, Goto, Inside, AtEntry, Counted
<1>3. SleepersHaveAReason'
  BY DEF Inv, TypeOK, SleepersHaveAReason, AwaitArrivalPhase, Goto
<1> QED BY <1>1, <1>2, <1>3, QuietInv DEF AwaitArrivalPhase

(* Waiting for the departure phase keeps the invariant.                       *)
LEMMA AwaitDeparturePhaseInv ==
    ASSUME Inv, NEW t \in Threads, AwaitDeparturePhase(t)
    PROVE  Inv'
<1>1. pc' \in [Threads -> AtEntry \cup {"sleepEnter"} \cup Counted]
  BY DEF Inv, TypeOK, AwaitDeparturePhase, Goto, AtEntry, Counted
<1>2. Inside' = Inside
  BY DEF Inv, TypeOK, AwaitDeparturePhase, Goto, Inside, AtExit, Counted
<1>3. SleepersHaveAReason'
  BY DEF Inv, TypeOK, SleepersHaveAReason, AwaitDeparturePhase, Goto
<1> QED BY <1>1, <1>2, <1>3, QuietInv DEF AwaitDeparturePhase

(* A wakeup nobody asked for keeps it, because the sleeper tests again.       *)
LEMMA SpuriousWakeupInv ==
    ASSUME Inv, NEW t \in Threads, SpuriousWakeup(t)
    PROVE  Inv'
<1>1. pc' \in [Threads -> AtEntry \cup {"sleepEnter"} \cup Counted]
  BY DEF Inv, TypeOK, SpuriousWakeup, Goto, Awake, AtEntry, Counted
<1>2. Inside' = Inside
  BY DEF Inv, TypeOK, SpuriousWakeup, Goto, Awake, Inside, Counted
<1>3. SleepersHaveAReason'
  BY DEF Inv, TypeOK, SleepersHaveAReason, SpuriousWakeup, Goto, Awake
<1> QED BY <1>1, <1>2, <1>3, QuietInv DEF SpuriousWakeup

(* A thread that arrives and is not the last keeps the invariant: it is the   *)
(* serial thread of the coming use if it is the first.                        *)
LEMMA ArriveInv ==
    ASSUME Inv, NEW t \in Threads, Arrive(t)
    PROVE  Inv'
<1>1. t \notin Inside /\ is_arrival_phase /\ passed[t] < Uses
  BY DEF Arrive, MayArrive, AtEntry, Inside, Counted
<1>2. Inside' = Inside \cup {t}
  BY DEF Inv, TypeOK, Arrive, Goto, Inside, Counted
<1>3. n \in Nat /\ max \in Nat /\ n' = n + 1 /\ n' < max
  BY InsideIsFinite DEF Arrive, Inv, TypeOK
<1>4. Cardinality(Inside') = n'
  BY <1>1, <1>2, InsideIsFinite, FS_AddElement DEF Arrive, Inv, TypeOK
<1>5. pc' \in [Threads -> AtEntry \cup {"sleepEnter"} \cup Counted]
  BY DEF Inv, TypeOK, Arrive, Goto, Counted
<1>6. TypeOK'
  <2>1. master' \in [Threads -> BOOLEAN]
    BY MasterLemma DEF Inv, TypeOK, Arrive
  <2>2. n' \in 0 .. max
    BY <1>3
  <2> QED BY <1>4, <1>5, <2>1, <2>2 DEF Inv, TypeOK, Arrive
<1>7. SleepersHaveAReason'
  BY <1>1 DEF Inv, TypeOK, SleepersHaveAReason, Arrive, Goto
<1>8. PhaseInv'
  BY <1>1, <1>3 DEF Inv, PhaseInv, Arrive
<1>9. InsideInv'
  BY <1>1, <1>2 DEF Inv, InsideInv, Arrive
<1>10. SerialInv'
  <2> SUFFICES ASSUME NEW k \in 1 .. Uses
               PROVE  /\ \A x, y \in Threads : IsSerial(x, k)' /\ IsSerial(y, k)' => x = y
                      /\ (\E x \in Threads : ArrivedAt(x)' >= k) => \E x \in Threads : IsSerial(x, k)'
                      /\ \A x \in serial'[k] : passed'[x] >= k
    BY DEF SerialInv
  <2>1. /\ \A x, y \in Threads : IsSerial(x, k) /\ IsSerial(y, k) => x = y
        /\ (\E x \in Threads : ArrivedAt(x) >= k) => \E x \in Threads : IsSerial(x, k)
        /\ \A x \in serial[k] : passed[x] >= k
    BY DEF Inv, SerialInv
  <2>2. serial' = serial /\ passed' = passed
    BY DEF Arrive
  <2>3. \A x \in Threads : passed[x] = passed[t] /\ passed[x] \in Nat
    BY <1>1 DEF Inv, PhaseInv, TypeOK
  <2>4. \A x \in Threads \ {t} : IsSerial(x, k)' <=> IsSerial(x, k)
    BY <1>2, <2>2 DEF IsSerial, Arrive, Inv, TypeOK
  <2>5. IsSerial(t, k)' <=> t \in serial[k] \/ (n = 0 /\ passed[t] + 1 = k)
    BY <1>2, <2>2 DEF IsSerial, Arrive, Inv, TypeOK
  <2>6. IsSerial(t, k) <=> t \in serial[k]
    BY <1>1 DEF IsSerial
  <2>7. CASE k # passed[t] + 1
    BY <2>1, <2>2, <2>3, <2>4, <2>5, <2>6, <2>7, <1>1, <1>2 DEF ArrivedAt
  <2>8. CASE k = passed[t] + 1 /\ n = 0
    <3>1. Inside = {}
      BY <2>8, InsideIsFinite, FS_EmptySet DEF Inv, TypeOK
    <3>2. \A x \in Threads : ~IsSerial(x, k)
      BY <2>1, <2>3, <2>8, <3>1 DEF IsSerial
    <3>3. IsSerial(t, k)'
      BY <2>5, <2>8
    <3>4. \A x \in serial[k] : x \in Threads
      BY DEF Inv, TypeOK
    <3> QED BY <2>1, <2>2, <2>4, <3>2, <3>3
  <2>9. CASE k = passed[t] + 1 /\ n # 0
    <3>1. PICK w \in Inside : TRUE
      BY <2>9, InsideIsFinite, FS_EmptySet DEF Inv, TypeOK
    <3>2. w \in Threads /\ ArrivedAt(w) >= k
      BY <2>3, <2>9, <3>1 DEF ArrivedAt, Inside
    <3>3. \A x \in Threads : IsSerial(x, k)' <=> IsSerial(x, k)
      BY <2>4, <2>5, <2>6, <2>9
    <3> QED BY <2>1, <2>2, <3>2, <3>3
  <2> QED BY <2>7, <2>8, <2>9
<1> QED BY <1>6, <1>7, <1>8, <1>9, <1>10 DEF Inv

(* The last thread to arrive keeps the invariant: with it everybody has       *)
(* arrived, and it has passed.                                                *)
LEMMA ArriveLastInv ==
    ASSUME Inv, NEW t \in Threads, ArriveLast(t)
    PROVE  Inv'
<1>1. Inside = Threads \ {t} /\ is_arrival_phase /\ passed[t] < Uses
  BY LastLemma DEF ArriveLast, MayArrive
<1>2. \A u \in Threads : pc'[u] = IF u = t THEN "work" ELSE Awake(pc[u])
  BY DEF ArriveLast, Broadcast
<1>3. pc' \in [Threads -> AtEntry \cup {"sleepEnter"} \cup Counted]
  BY AwakeLemma DEF ArriveLast, Broadcast, Inv, TypeOK, AtEntry
<1>4. Inside' = Inside
  <2>1. \A u \in Threads \ {t} : pc'[u] \in Counted <=> pc[u] \in Counted
    BY <1>2, AwakeLemma DEF Inv, TypeOK
  <2>2. pc'[t] \notin Counted
    BY <1>2 DEF Counted
  <2> QED BY <1>1, <2>1, <2>2 DEF Inside
<1>5. \A x \in Threads : passed[x] = passed[t] /\ passed[x] \in Nat
  BY <1>1 DEF Inv, PhaseInv, TypeOK
<1>6. passed' = [passed EXCEPT ![t] = passed[t] + 1] /\ passed' \in [Threads -> 0 .. Uses]
  BY <1>1, BarrierAssumption DEF ArriveLast, Return, Inv, TypeOK
<1>7. passed'[t] = passed[t] + 1 /\ \A x \in Threads \ {t} : passed'[x] = passed[t]
  BY <1>5, <1>6 DEF Inv, TypeOK
<1>8. n' = n /\ n \in Nat /\ n = Cardinality(Inside) /\ n < max
  BY <1>1, InsideIsFinite DEF ArriveLast, Inv, TypeOK, PhaseInv
<1>9. n = 0 => \A x, y \in Threads : x = y
  <2>1. SUFFICES ASSUME n = 0 PROVE \A x, y \in Threads : x = y
    OBVIOUS
  <2>2. Inside = {}
    BY <1>8, <2>1, InsideIsFinite, FS_EmptySet
  <2>3. \A x \in Threads : x = t
    BY <1>1, <2>2
  <2> QED BY <2>3
<1>10. is_arrival_phase' <=> n = 0
  BY DEF ArriveLast
<1>11. serial' = IF n = 0 THEN [serial EXCEPT ![passed[t] + 1] = @ \cup {t}] ELSE serial
  BY DEF ArriveLast, Return
<1>12. passed[t] + 1 \in 1 .. Uses
  BY <1>1, <1>5, BarrierAssumption
<1>13. \A k \in 1 .. Uses :
          serial'[k] = IF n = 0 /\ k = passed[t] + 1 THEN serial[k] \cup {t} ELSE serial[k]
  BY <1>11, <1>12 DEF Inv, TypeOK
<1>14. TypeOK'
  <2>1. master' \in [Threads -> BOOLEAN]
    BY MasterLemma DEF Inv, TypeOK, ArriveLast
  <2>2. is_arrival_phase' \in BOOLEAN
    BY DEF ArriveLast
  <2>3. serial' \in [1 .. Uses -> SUBSET Threads]
    BY <1>11, <1>12 DEF Inv, TypeOK
  <2> QED BY <1>3, <1>4, <1>6, <1>8, <2>1, <2>2, <2>3, InsideIsFinite DEF Inv, TypeOK
<1>15. SleepersHaveAReason'
  <2>1. \A u \in Threads : pc'[u] \notin {"sleepEnter", "sleepArrive"}
    BY <1>2, AwakeLemma DEF Inv, TypeOK
  <2> QED BY <2>1 DEF SleepersHaveAReason
<1>16. PhaseInv'
  <2>1. CASE n = 0
    <3>1. \A x, y \in Threads : x = y
      BY <1>9, <2>1
    <3> QED BY <1>8, <1>10, <2>1, <3>1 DEF PhaseInv, max
  <2>2. CASE n # 0
    BY <1>1, <1>4, <1>5, <1>7, <1>8, <1>10, <2>2 DEF PhaseInv
  <2> QED BY <2>1, <2>2
<1>17. InsideInv'
  BY <1>1, <1>4, <1>5, <1>7 DEF InsideInv
<1>18. SerialInv'
  <2> SUFFICES ASSUME NEW k \in 1 .. Uses
               PROVE  /\ \A x, y \in Threads : IsSerial(x, k)' /\ IsSerial(y, k)' => x = y
                      /\ (\E x \in Threads : ArrivedAt(x)' >= k) => \E x \in Threads : IsSerial(x, k)'
                      /\ \A x \in serial'[k] : passed'[x] >= k
    BY DEF SerialInv
  <2>1. /\ \A x, y \in Threads : IsSerial(x, k) /\ IsSerial(y, k) => x = y
        /\ (\E x \in Threads : ArrivedAt(x) >= k) => \E x \in Threads : IsSerial(x, k)
        /\ \A x \in serial[k] : passed[x] >= k
    BY DEF Inv, SerialInv
  <2>2. \A x \in Threads \ {t} : IsSerial(x, k)' <=> IsSerial(x, k)
    BY <1>4, <1>5, <1>7, <1>13 DEF IsSerial, ArriveLast, Inv, TypeOK
  <2>3. IsSerial(t, k)' <=> t \in serial[k] \/ (n = 0 /\ k = passed[t] + 1)
    BY <1>1, <1>4, <1>13 DEF IsSerial
  <2>4. IsSerial(t, k) <=> t \in serial[k]
    BY <1>1 DEF IsSerial
  <2>5. \A x \in serial[k] : x \in Threads
    BY DEF Inv, TypeOK
  <2>6. \A x \in serial'[k] : passed'[x] >= k
    <3> SUFFICES ASSUME NEW x \in serial'[k] PROVE passed'[x] >= k
      OBVIOUS
    <3>1. x \in serial[k] \/ (x = t /\ k = passed[t] + 1)
      BY <1>13
    <3>2. CASE x \in serial[k]
      <4>1. passed[x] >= k /\ x \in Threads
        BY <2>1, <2>5, <3>2
      <4>2. passed[x] \in Nat /\ (passed'[x] = passed[x] \/ passed'[x] = passed[x] + 1)
        BY <1>5, <1>7, <4>1
      <4> QED BY <4>1, <4>2
    <3>3. CASE x = t /\ k = passed[t] + 1
      BY <1>5, <1>7, <3>3
    <3> QED BY <3>1, <3>2, <3>3
  <2>7. CASE n = 0
    <3>1. \A x, y \in Threads : x = y
      BY <1>9, <2>7
    <3>2. ArrivedAt(t)' = passed[t] + 1 /\ ArrivedAt(t) = passed[t]
      BY <1>1, <1>4, <1>7 DEF ArrivedAt
    <3>3. ArrivedAt(t)' >= k => IsSerial(t, k)'
      BY <1>5, <2>1, <2>3, <2>4, <2>7, <3>1, <3>2
    <3> QED BY <2>6, <3>1, <3>3
  <2>8. CASE n # 0
    <3>1. PICK w \in Inside : TRUE
      BY <1>8, <2>8, FS_EmptySet
    <3>2. \A x \in Threads : ArrivedAt(x)' = passed[t] + 1
      BY <1>1, <1>4, <1>5, <1>7 DEF ArrivedAt
    <3>3. w \in Threads /\ ArrivedAt(w) = passed[t] + 1
      BY <1>1, <1>5, <3>1 DEF ArrivedAt
    <3>4. \A x \in Threads : IsSerial(x, k)' <=> IsSerial(x, k)
      BY <2>2, <2>3, <2>4, <2>8
    <3> QED BY <2>1, <2>6, <3>2, <3>3, <3>4
  <2> QED BY <2>7, <2>8
<1> QED BY <1>14, <1>15, <1>16, <1>17, <1>18 DEF Inv

(* A thread that leaves keeps the invariant: the last one to leave has        *)
(* brought everybody to the same use.                                         *)
LEMMA LeaveInv ==
    ASSUME Inv, NEW t \in Threads, Leave(t)
    PROVE  Inv'
<1>1. t \in Inside /\ ~is_arrival_phase /\ passed[t] < Uses
  BY DEF Leave, AtExit, Inside, Counted, Inv, InsideInv
<1>2. \A u \in Threads \ {t} : pc'[u] = Awake(pc[u]) \/ pc'[u] = pc[u]
  BY DEF Leave, Broadcast, Goto, Inv, TypeOK
<1>3. pc'[t] = "work"
  BY DEF Leave, Broadcast, Goto, Inv, TypeOK
<1>4. pc' \in [Threads -> AtEntry \cup {"sleepEnter"} \cup Counted]
  <2>1. [u \in Threads |-> IF u = t THEN "work" ELSE Awake(pc[u])]
            \in [Threads -> AtEntry \cup {"sleepEnter"} \cup Counted]
    BY AwakeLemma DEF Inv, TypeOK, AtEntry
  <2>2. [pc EXCEPT ![t] = "work"] \in [Threads -> AtEntry \cup {"sleepEnter"} \cup Counted]
    BY DEF Inv, TypeOK, AtEntry
  <2> QED BY <2>1, <2>2 DEF Leave, Broadcast, Goto
<1>5. Inside' = Inside \ {t}
  <2>1. \A u \in Threads \ {t} : pc'[u] \in Counted <=> pc[u] \in Counted
    BY <1>2, AwakeLemma DEF Inv, TypeOK
  <2>2. pc'[t] \notin Counted
    BY <1>3 DEF Counted
  <2> QED BY <2>1, <2>2 DEF Inside
<1>6. n \in 1 .. max /\ n' = n - 1 /\ n' = Cardinality(Inside')
  <2>1. n \in 1 .. max
    BY <1>1, InsideIsFinite DEF Inv, TypeOK, PhaseInv
  <2>2. n' = n - 1
    BY DEF Leave
  <2>3. Cardinality(Inside \ {t}) = Cardinality(Inside) - 1
    BY <1>1, InsideIsFinite, FS_RemoveElement
  <2>4. n = Cardinality(Inside)
    BY DEF Inv, TypeOK
  <2> QED BY <1>5, <2>1, <2>2, <2>3, <2>4
<1>7. passed' = [passed EXCEPT ![t] = passed[t] + 1] /\ passed' \in [Threads -> 0 .. Uses]
  BY <1>1, BarrierAssumption DEF Leave, Return, Inv, TypeOK
<1>8. \A x \in Threads : passed[x] \in Nat /\ passed'[x] = IF x = t THEN passed[t] + 1 ELSE passed[x]
  BY <1>7 DEF Inv, TypeOK
<1>9. \A x \in Threads : passed[x] = IF x \in Inside THEN passed[t] ELSE passed[t] + 1
  BY <1>1 DEF Inv, PhaseInv
<1>10. is_arrival_phase' <=> n' = 0
  BY <1>1 DEF Leave
<1>11. passed[t] + 1 \in 1 .. Uses
  BY <1>1, <1>8, BarrierAssumption
<1>12. \A k \in 1 .. Uses :
          serial'[k] = IF master[t] /\ k = passed[t] + 1 THEN serial[k] \cup {t} ELSE serial[k]
  BY <1>11 DEF Leave, Return, Inv, TypeOK
<1>13. TypeOK'
  <2>1. n' \in 0 .. max
    BY <1>6, InsideIsFinite
  <2>2. is_arrival_phase' \in BOOLEAN
    BY DEF Leave, Inv, TypeOK
  <2>3. serial' \in [1 .. Uses -> SUBSET Threads]
    BY <1>11 DEF Leave, Return, Inv, TypeOK
  <2>4. master' = master
    BY DEF Leave
  <2> QED BY <1>4, <1>6, <1>7, <2>1, <2>2, <2>3, <2>4 DEF Inv, TypeOK
<1>14. SleepersHaveAReason'
  <2>1. CASE n' = 0
    <3>1. \A u \in Threads : pc'[u] \notin {"sleepEnter", "sleepArrive"}
      BY <2>1, AwakeLemma DEF Leave, Broadcast, Inv, TypeOK
    <3> QED BY <3>1 DEF SleepersHaveAReason
  <2>2. CASE n' # 0
    BY <2>2 DEF Leave, Goto, Inv, TypeOK, SleepersHaveAReason
  <2> QED BY <2>1, <2>2
<1>15. PhaseInv'
  <2>1. CASE n' = 0
    <3>1. Inside' = {}
      BY <1>5, <1>6, <2>1, InsideIsFinite, FS_RemoveElement, FS_EmptySet
    <3>2. \A x \in Threads : passed'[x] = passed[t] + 1
      BY <1>5, <1>8, <1>9, <3>1
    <3>3. max' = max /\ 0 < max
      BY InsideIsFinite DEF max
    <3> QED BY <1>10, <2>1, <3>2, <3>3 DEF PhaseInv
  <2>2. CASE n' # 0
    <3>1. \A x \in Threads : passed'[x] = IF x \in Inside' THEN passed[t] ELSE passed[t] + 1
      BY <1>5, <1>8, <1>9
    <3>2. Inside' \subseteq Threads
      BY DEF Inside
    <3> QED BY <1>10, <2>2, <3>1, <3>2 DEF PhaseInv
  <2> QED BY <2>1, <2>2
<1>16. InsideInv'
  BY <1>5, <1>8 DEF InsideInv, Inside, Inv
<1>17. SerialInv'
  <2> SUFFICES ASSUME NEW k \in 1 .. Uses
               PROVE  /\ \A x, y \in Threads : IsSerial(x, k)' /\ IsSerial(y, k)' => x = y
                      /\ (\E x \in Threads : ArrivedAt(x)' >= k) => \E x \in Threads : IsSerial(x, k)'
                      /\ \A x \in serial'[k] : passed'[x] >= k
    BY DEF SerialInv
  <2>1. /\ \A x, y \in Threads : IsSerial(x, k) /\ IsSerial(y, k) => x = y
        /\ (\E x \in Threads : ArrivedAt(x) >= k) => \E x \in Threads : IsSerial(x, k)
        /\ \A x \in serial[k] : passed[x] >= k
    BY DEF Inv, SerialInv
  <2>2. \A x \in Threads : ArrivedAt(x)' = ArrivedAt(x)
    BY <1>1, <1>5, <1>8 DEF ArrivedAt
  <2>3. \A x \in Threads \ {t} : IsSerial(x, k)' <=> IsSerial(x, k)
    BY <1>5, <1>8, <1>12 DEF IsSerial, Leave
  <2>4. IsSerial(t, k)' <=> IsSerial(t, k)
    BY <1>1, <1>5, <1>12 DEF IsSerial
  <2>5. \A x \in serial[k] : x \in Threads
    BY DEF Inv, TypeOK
  <2>6. \A x \in serial'[k] : passed'[x] >= k
    <3> SUFFICES ASSUME NEW x \in serial'[k] PROVE passed'[x] >= k
      OBVIOUS
    <3>1. x \in serial[k] \/ (x = t /\ k = passed[t] + 1)
      BY <1>12
    <3>2. CASE x \in serial[k]
      <4>1. passed[x] >= k /\ x \in Threads
        BY <2>1, <2>5, <3>2
      <4>2. passed[x] \in Nat /\ (passed'[x] = passed[x] \/ passed'[x] = passed[x] + 1)
        BY <1>8, <4>1
      <4> QED BY <4>1, <4>2
    <3>3. CASE x = t /\ k = passed[t] + 1
      BY <1>8, <3>3
    <3> QED BY <3>1, <3>2, <3>3
  <2> QED BY <2>1, <2>2, <2>3, <2>4, <2>6
<1> QED BY <1>13, <1>14, <1>15, <1>16, <1>17 DEF Inv

-----------------------------------------------------------------------------
(* Every step keeps the invariant.                                            *)
LEMMA NextInv == Inv /\ [Next]_vars => Inv'
<1> SUFFICES ASSUME Inv, [Next]_vars PROVE Inv'
  OBVIOUS
<1>1. ASSUME NEW t \in Threads, ThreadStep(t) PROVE Inv'
  BY <1>1, AwaitArrivalPhaseInv, ArriveInv, ArriveLastInv, AwaitDeparturePhaseInv, LeaveInv
     DEF ThreadStep
<1>2. ASSUME NEW t \in Threads, SpuriousWakeup(t) PROVE Inv'
  BY <1>2, SpuriousWakeupInv
<1>3. ASSUME UNCHANGED vars PROVE Inv'
  <2>1. Inside' = Inside /\ SleepersHaveAReason'
    BY <1>3 DEF Inv, SleepersHaveAReason, Inside, vars
  <2>2. pc' \in [Threads -> AtEntry \cup {"sleepEnter"} \cup Counted]
    BY <1>3 DEF Inv, TypeOK, vars
  <2> QED BY <1>3, <2>1, <2>2, QuietInv DEF vars
<1> QED BY <1>1, <1>2, <1>3 DEF Next, Finished

(* The inductive invariant holds throughout (parsec_barrier_wait).            *)
THEOREM Invariance == Spec => []Inv
<1> QED BY InitInv, NextInv, PTL DEF Spec

(* Types, and the unsigned counter is the number of threads inside: it never  *)
(* passes max and is never counted below zero.                                *)
THEOREM TypeCorrect == Spec => []TypeOK
<1>1. Inv => TypeOK
  BY DEF Inv
<1> QED BY <1>1, Invariance, PTL

(* No broadcast misses a sleeper: who sleeps waits for a phase still to come. *)
THEOREM NobodyOversleeps == Spec => []SleepersHaveAReason
<1>1. Inv => SleepersHaveAReason
  BY DEF Inv
<1> QED BY <1>1, Invariance, PTL

(* Every use has exactly one serial thread.                                   *)
THEOREM UniqueSerialThread == Spec => []OneSerialThread
<1>1. ASSUME Inv PROVE OneSerialThread
  <2> SUFFICES ASSUME NEW k \in 1 .. Uses
               PROVE  /\ \A t, u \in serial[k] : t = u
                      /\ (\A t \in Threads : passed[t] >= k) => serial[k] # {}
    BY DEF OneSerialThread
  <2>1. \A t \in serial[k] : t \in Threads /\ IsSerial(t, k)
    BY <1>1 DEF Inv, TypeOK, IsSerial
  <2>2. \A t, u \in serial[k] : t = u
    BY <1>1, <2>1 DEF Inv, SerialInv
  <2>3. ASSUME \A t \in Threads : passed[t] >= k PROVE serial[k] # {}
    <3>1. PICK t \in Threads : TRUE
      BY BarrierAssumption
    <3>2. ArrivedAt(t) >= k
      BY <1>1, <2>3 DEF ArrivedAt, Inv, TypeOK
    <3>3. PICK u \in Threads : IsSerial(u, k)
      BY <1>1, <3>2 DEF Inv, SerialInv
    <3>4. passed[u] \in Nat /\ passed[u] >= k
      BY <1>1, <2>3 DEF Inv, TypeOK
    <3> QED BY <3>3, <3>4 DEF IsSerial
  <2> QED BY <2>2, <2>3
<1> QED BY <1>1, Invariance, PTL

-----------------------------------------------------------------------------
(* The refinement of AbstractBarrier.                                         *)

(* The initial states map to initial states.                                  *)
LEMMA InitRefines == Init => Barrier!Init
BY DEF Init, Barrier!Init, ArrivedAt, Inside, Counted

(* A step that moves nobody in or out is a stutter.                           *)
LEMMA QuietRefines ==
    ASSUME passed' = passed, Inside' = Inside
    PROVE  UNCHANGED Barrier!vars
BY DEF Barrier!vars, ArrivedAt

(* Every step is a step of the abstract barrier or a stutter.                 *)
LEMMA NextRefines == Inv /\ [Next]_vars => [Barrier!Next]_(Barrier!vars)
<1> SUFFICES ASSUME Inv, [Next]_vars PROVE [Barrier!Next]_(Barrier!vars)
  OBVIOUS
<1> DEFINE arrived == [x \in Threads |-> ArrivedAt(x)]
<1>1. ASSUME NEW t \in Threads, AwaitArrivalPhase(t) PROVE UNCHANGED Barrier!vars
  <2>1. Inside' = Inside
    BY <1>1 DEF Inv, TypeOK, AwaitArrivalPhase, Goto, Inside, AtEntry, Counted
  <2> QED BY <1>1, <2>1, QuietRefines DEF AwaitArrivalPhase
<1>2. ASSUME NEW t \in Threads, AwaitDeparturePhase(t) PROVE UNCHANGED Barrier!vars
  <2>1. Inside' = Inside
    BY <1>2 DEF Inv, TypeOK, AwaitDeparturePhase, Goto, Inside, AtExit, Counted
  <2> QED BY <1>2, <2>1, QuietRefines DEF AwaitDeparturePhase
<1>3. ASSUME NEW t \in Threads, SpuriousWakeup(t) PROVE UNCHANGED Barrier!vars
  <2>1. Inside' = Inside
    BY <1>3 DEF Inv, TypeOK, SpuriousWakeup, Goto, Awake, Inside, Counted
  <2> QED BY <1>3, <2>1, QuietRefines DEF SpuriousWakeup
<1>4. ASSUME NEW t \in Threads, Arrive(t) PROVE Barrier!Arrive(t)
  <2>1. t \notin Inside /\ passed[t] < Uses /\ passed' = passed
    BY <1>4 DEF Arrive, MayArrive, AtEntry, Inside, Counted
  <2>2. Inside' = Inside \cup {t}
    BY <1>4 DEF Inv, TypeOK, Arrive, Goto, Inside, Counted
  <2>3. arrived[t] = passed[t] /\ arrived' = [arrived EXCEPT ![t] = arrived[t] + 1]
    BY <2>1, <2>2 DEF ArrivedAt
  <2> QED BY <2>1, <2>3 DEF Barrier!Arrive
<1>5. ASSUME NEW t \in Threads, ArriveLast(t) PROVE Barrier!ArriveLast(t)
  <2>1. Inside = Threads \ {t} /\ passed[t] < Uses
    BY <1>5, LastLemma DEF ArriveLast, MayArrive
  <2>2. \A x \in Threads : passed[x] = passed[t] /\ passed[x] \in Nat
    BY <1>5 DEF ArriveLast, MayArrive, Inv, PhaseInv, TypeOK
  <2>3. Inside' = Inside
    <3>1. \A u \in Threads \ {t} : pc'[u] \in Counted <=> pc[u] \in Counted
      BY <1>5, AwakeLemma DEF ArriveLast, Broadcast, Inv, TypeOK
    <3>2. pc'[t] \notin Counted
      BY <1>5 DEF ArriveLast, Broadcast, Counted
    <3> QED BY <2>1, <3>1, <3>2 DEF Inside
  <2>4. passed' = [passed EXCEPT ![t] = passed[t] + 1]
    BY <1>5 DEF ArriveLast, Return
  <2>5. arrived[t] = passed[t] /\ \A u \in Threads \ {t} : arrived[u] > passed[t]
    BY <2>1, <2>2 DEF ArrivedAt
  <2>6. arrived' = [arrived EXCEPT ![t] = arrived[t] + 1]
    BY <2>1, <2>3, <2>4 DEF ArrivedAt, Inv, TypeOK
  <2> QED BY <2>1, <2>4, <2>5, <2>6 DEF Barrier!ArriveLast
<1>6. ASSUME NEW t \in Threads, Leave(t) PROVE Barrier!Pass(t)
  <2>1. t \in Inside /\ ~is_arrival_phase
    BY <1>6 DEF Leave, AtExit, Inside, Counted
  <2>2. \A x \in Threads : /\ passed[x] \in Nat
                           /\ passed[x] = IF x \in Inside THEN passed[t] ELSE passed[t] + 1
    BY <2>1 DEF Inv, PhaseInv, TypeOK
  <2>3. Inside' = Inside \ {t}
    <3>1. \A u \in Threads \ {t} : pc'[u] \in Counted <=> pc[u] \in Counted
      BY <1>6, AwakeLemma DEF Leave, Broadcast, Goto, Inv, TypeOK
    <3>2. pc'[t] \notin Counted
      BY <1>6 DEF Leave, Broadcast, Goto, Inv, TypeOK, Counted
    <3> QED BY <3>1, <3>2 DEF Inside
  <2>4. passed' = [passed EXCEPT ![t] = passed[t] + 1]
    BY <1>6 DEF Leave, Return
  <2>5. passed[t] < arrived[t] /\ \A u \in Threads : arrived[u] > passed[t]
    BY <2>1, <2>2 DEF ArrivedAt
  <2>6. arrived' = arrived
    BY <2>1, <2>3, <2>4 DEF ArrivedAt, Inv, TypeOK
  <2> QED BY <2>4, <2>5, <2>6 DEF Barrier!Pass
<1>7. ASSUME UNCHANGED vars PROVE UNCHANGED Barrier!vars
  BY <1>7 DEF vars, Barrier!vars, ArrivedAt, Inside
<1> QED BY <1>1, <1>2, <1>3, <1>4, <1>5, <1>6, <1>7
        DEF Next, ThreadStep, Finished, Barrier!Next

(* parsec_barrier is a barrier: nobody returns from a use before everybody    *)
(* has arrived at it.                                                         *)
THEOREM IsABarrier == Spec => ImplementsBarrier
<1> QED BY InitRefines, NextRefines, Invariance, PTL DEF Spec, ImplementsBarrier, Barrier!Spec
=============================================================================
