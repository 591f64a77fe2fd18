--------------------------- MODULE CannealProofs ---------------------------
(* The swap of Canneal, for any number of threads and elements and any number *)
(* of moves: a null pointer has one owner, and the three accesses of a swap   *)
(* are one exchange of two locations; and who can be left at the barrier.      *)
EXTENDS Canneal, FiniteSetTheorems, TLAPS

(* What a thread has in its locals while it makes a move.                     *)
LocalsOK ==
    \A t \in Threads :
        /\ pc[t] \in {"costA", "costB"} => left[t] > 0
        /\ pc[t] \in {"casFirst", "casLast"} => val[t] # NULL
        /\ pc[t] \in {"getLast", "casLast"} => valFirst[t] # NULL
        /\ pc[t] = "checkin" => valLast[t] # NULL

IInv == TypeOK /\ LocalsOK /\ OneOwner

(* The invariant holds in the beginning.                                      *)
LEMMA InitIInv == Init => IInv
<1>1. SUFFICES ASSUME Init PROVE IInv
  OBVIOUS
<1>2. TypeOK
  BY <1>1, CannealAssumption DEF Init, TypeOK, Elements, NULL, Locations
<1>3. LocalsOK /\ OneOwner
  BY <1>1 DEF Init, LocalsOK, OneOwner, InMove, Holding, Elements, NULL
<1> QED
  BY <1>2, <1>3 DEF IInv

(* Every step keeps the types.                                                *)
LEMMA TypeStep == IInv /\ [Next]_vars => TypeOK'
<1>1. SUFFICES ASSUME IInv, [Next]_vars PROVE TypeOK'
  OBVIOUS
<1> USE CannealAssumption
<1>2. TypeOK /\ LocalsOK
  BY <1>1 DEF IInv
<1>3. ASSUME NEW t \in Threads, ThreadStep(t) PROVE TypeOK'
  <2>1. CASE KeepGoing(t)
    BY <2>1, <1>2 DEF KeepGoing, TypeOK, Goto, control, swapping, counts, InMove, Locations
  <2>2. CASE Stop(t)
    BY <2>2, <1>2 DEF Stop, TypeOK, Goto, control, swapping, counts, InMove, Locations
  <2>3. CASE Converged(t)
    BY <2>3, <1>2 DEF Converged, TypeOK, Goto, control, swapping, counts, InMove, Locations
  <2>4. CASE Choose(t)
    BY <2>4, <1>2 DEF Choose, TypeOK, Goto, control, swapping, counts, InMove, Locations
  <2>5. CASE CostA(t)
    BY <2>5, <1>2 DEF CostA, TypeOK, Goto, control, swapping, counts, InMove, Locations
  <2>6. CASE Reject(t)
    <3>1. left[t] \in 1 .. moves
      BY <2>6, <1>2 DEF Reject, TypeOK, LocalsOK
    <3> QED
      BY <2>6, <3>1, <1>2 DEF Reject, TypeOK, Goto, control, swapping, counts, InMove, Locations
  <2>7. CASE Accept(t)
    <3>1. left[t] \in 1 .. moves
      BY <2>7, <1>2 DEF Accept, TypeOK, LocalsOK
    <3> QED
      BY <2>7, <3>1, <1>2 DEF Accept, TypeOK, Goto, control, swapping, counts, InMove, Locations
  <2>8. CASE GetFirst(t)
    BY <2>8, <1>2 DEF GetFirst, Get, First, TypeOK, Goto, control, swapping, counts, InMove, Locations
  <2>9. CASE CasFirst(t)
    BY <2>9, <1>2 DEF CasFirst, TypeOK, Goto, control, swapping, counts, InMove, Locations
  <2>10. CASE GetLast(t)
    BY <2>10, <1>2 DEF GetLast, Get, First, Last, TypeOK, Goto, control, swapping, counts, InMove, Locations
  <2>11. CASE CasLast(t)
    BY <2>11, <1>2 DEF CasLast, First, Last, TypeOK, Goto, control, swapping, counts, InMove, Locations
  <2>12. CASE Checkin(t)
    BY <2>12, <1>2 DEF Checkin, First, TypeOK, Goto, control, swapping, counts, InMove, Locations
  <2>13. CASE EndStep(t)
    BY <2>13, <1>2 DEF EndStep, AtBarrier, TypeOK, Goto, control, swapping, counts, InMove, Locations
  <2> QED
    BY <1>3, <2>1, <2>2, <2>3, <2>4, <2>5, <2>6, <2>7, <2>8, <2>9, <2>10, <2>11, <2>12, <2>13 DEF ThreadStep
<1>4. CASE UNCHANGED vars
  BY <1>2, <1>4 DEF TypeOK, vars
<1> QED
  BY <1>1, <1>3, <1>4 DEF Next, Stopped

(* Every step keeps what the threads know of the values they have read.       *)
LEMMA LocalsStep == IInv /\ [Next]_vars => LocalsOK'
<1>1. SUFFICES ASSUME IInv, [Next]_vars PROVE LocalsOK'
  OBVIOUS
<1>2. TypeOK /\ LocalsOK
  BY <1>1 DEF IInv
<1>3. ASSUME NEW t \in Threads, ThreadStep(t) PROVE LocalsOK'
  <2>1. CASE KeepGoing(t)
    BY <2>1, <1>2 DEF KeepGoing, TypeOK, LocalsOK, Goto, control, swapping, counts, InMove
  <2>2. CASE Stop(t)
    BY <2>2, <1>2 DEF Stop, TypeOK, LocalsOK, Goto, control, swapping, counts, InMove
  <2>3. CASE Converged(t)
    BY <2>3, <1>2 DEF Converged, TypeOK, LocalsOK, Goto, control, swapping, counts, InMove
  <2>4. CASE Choose(t)
    BY <2>4, <1>2 DEF Choose, TypeOK, LocalsOK, Goto, control, swapping, counts, InMove
  <2>5. CASE CostA(t)
    BY <2>5, <1>2 DEF CostA, TypeOK, LocalsOK, Goto, control, swapping, counts, InMove
  <2>6. CASE Reject(t)
    BY <2>6, <1>2 DEF Reject, TypeOK, LocalsOK, Goto, control, swapping, counts, InMove
  <2>7. CASE Accept(t)
    BY <2>7, <1>2 DEF Accept, TypeOK, LocalsOK, Goto, control, swapping, counts, InMove
  <2>8. CASE GetFirst(t)
    BY <2>8, <1>2 DEF GetFirst, Get, First, TypeOK, LocalsOK, Goto, control, swapping, counts, InMove
  <2>9. CASE CasFirst(t)
    BY <2>9, <1>2 DEF CasFirst, TypeOK, LocalsOK, Goto, control, swapping, counts, InMove
  <2>10. CASE GetLast(t)
    BY <2>10, <1>2 DEF GetLast, Get, First, Last, TypeOK, LocalsOK, Goto, control, swapping, counts, InMove
  <2>11. CASE CasLast(t)
    BY <2>11, <1>2 DEF CasLast, First, Last, TypeOK, LocalsOK, Goto, control, swapping, counts, InMove
  <2>12. CASE Checkin(t)
    BY <2>12, <1>2 DEF Checkin, First, TypeOK, LocalsOK, Goto, control, swapping, counts, InMove
  <2>13. CASE EndStep(t)
    BY <2>13, <1>2 DEF EndStep, AtBarrier, TypeOK, LocalsOK, Goto, control, swapping, counts, InMove
  <2> QED
    BY <1>3, <2>1, <2>2, <2>3, <2>4, <2>5, <2>6, <2>7, <2>8, <2>9, <2>10, <2>11, <2>12, <2>13 DEF ThreadStep
<1>4. CASE UNCHANGED vars
  BY <1>2, <1>4 DEF LocalsOK, vars
<1> QED
  BY <1>1, <1>3, <1>4 DEF Next, Stopped

(* A step that changes no location keeps OneOwner if it lets nobody begin or  *)
(* end a checkout and nobody choose another pair while it swaps.              *)
LEMMA OwnerFrame ==
    ASSUME OneOwner, loc' = loc,
           \A u \in Threads :
               /\ pc'[u] \in Holding <=> pc[u] \in Holding
               /\ pc[u] \in Holding => a'[u] = a[u] /\ b'[u] = b[u]
               /\ pc'[u] \in InMove => a'[u] # b'[u]
    PROVE  OneOwner'
<1>1. \A u \in Threads : pc[u] \in Holding => First(u)' = First(u)
  BY DEF First
<1> QED
  BY <1>1 DEF OneOwner

(* Every step leaves each null pointer with one owner.                        *)
LEMMA OwnerStep == IInv /\ [Next]_vars => OneOwner'
<1>1. SUFFICES ASSUME IInv, [Next]_vars PROVE OneOwner'
  OBVIOUS
<1>2. TypeOK /\ LocalsOK /\ OneOwner
  BY <1>1 DEF IInv
<1>3. \A t \in Threads : pc[t] \in InMove => a[t] # b[t]
  BY <1>2 DEF OneOwner
<1>4. ASSUME NEW t \in Threads, ThreadStep(t) PROVE OneOwner'
  <2>1. CASE KeepGoing(t)
    <3>1. /\ loc' = loc
          /\ \A u \in Threads :
                /\ pc'[u] \in Holding <=> pc[u] \in Holding
                /\ pc[u] \in Holding => a'[u] = a[u] /\ b'[u] = b[u]
                /\ pc'[u] \in InMove => a'[u] # b'[u]
      BY <2>1, <1>2, <1>3 DEF KeepGoing, TypeOK, Goto, control, swapping, counts, InMove, Holding
    <3> QED
      BY <1>2, <3>1, OwnerFrame
  <2>2. CASE Stop(t)
    <3>1. /\ loc' = loc
          /\ \A u \in Threads :
                /\ pc'[u] \in Holding <=> pc[u] \in Holding
                /\ pc[u] \in Holding => a'[u] = a[u] /\ b'[u] = b[u]
                /\ pc'[u] \in InMove => a'[u] # b'[u]
      BY <2>2, <1>2, <1>3 DEF Stop, TypeOK, Goto, control, swapping, counts, InMove, Holding
    <3> QED
      BY <1>2, <3>1, OwnerFrame
  <2>3. CASE Converged(t)
    <3>1. /\ loc' = loc
          /\ \A u \in Threads :
                /\ pc'[u] \in Holding <=> pc[u] \in Holding
                /\ pc[u] \in Holding => a'[u] = a[u] /\ b'[u] = b[u]
                /\ pc'[u] \in InMove => a'[u] # b'[u]
      BY <2>3, <1>2, <1>3 DEF Converged, TypeOK, Goto, control, swapping, counts, InMove, Holding
    <3> QED
      BY <1>2, <3>1, OwnerFrame
  <2>4. CASE Choose(t)
    <3>1. /\ loc' = loc
          /\ \A u \in Threads :
                /\ pc'[u] \in Holding <=> pc[u] \in Holding
                /\ pc[u] \in Holding => a'[u] = a[u] /\ b'[u] = b[u]
                /\ pc'[u] \in InMove => a'[u] # b'[u]
      BY <2>4, <1>2, <1>3 DEF Choose, TypeOK, Goto, control, swapping, counts, InMove, Holding
    <3> QED
      BY <1>2, <3>1, OwnerFrame
  <2>5. CASE CostA(t)
    <3>1. /\ loc' = loc
          /\ \A u \in Threads :
                /\ pc'[u] \in Holding <=> pc[u] \in Holding
                /\ pc[u] \in Holding => a'[u] = a[u] /\ b'[u] = b[u]
                /\ pc'[u] \in InMove => a'[u] # b'[u]
      BY <2>5, <1>2, <1>3 DEF CostA, TypeOK, Goto, control, swapping, counts, InMove, Holding
    <3> QED
      BY <1>2, <3>1, OwnerFrame
  <2>6. CASE Reject(t)
    <3>1. /\ loc' = loc
          /\ \A u \in Threads :
                /\ pc'[u] \in Holding <=> pc[u] \in Holding
                /\ pc[u] \in Holding => a'[u] = a[u] /\ b'[u] = b[u]
                /\ pc'[u] \in InMove => a'[u] # b'[u]
      BY <2>6, <1>2, <1>3 DEF Reject, TypeOK, Goto, control, swapping, counts, InMove, Holding
    <3> QED
      BY <1>2, <3>1, OwnerFrame
  <2>7. CASE Accept(t)
    <3>1. /\ loc' = loc
          /\ \A u \in Threads :
                /\ pc'[u] \in Holding <=> pc[u] \in Holding
                /\ pc[u] \in Holding => a'[u] = a[u] /\ b'[u] = b[u]
                /\ pc'[u] \in InMove => a'[u] # b'[u]
      BY <2>7, <1>2, <1>3 DEF Accept, TypeOK, Goto, control, swapping, counts, InMove, Holding
    <3> QED
      BY <1>2, <3>1, OwnerFrame
  <2>8. CASE GetFirst(t)
    <3>1. /\ loc' = loc
          /\ \A u \in Threads :
                /\ pc'[u] \in Holding <=> pc[u] \in Holding
                /\ pc[u] \in Holding => a'[u] = a[u] /\ b'[u] = b[u]
                /\ pc'[u] \in InMove => a'[u] # b'[u]
      BY <2>8, <1>2, <1>3 DEF GetFirst, Get, TypeOK, Goto, control, swapping, counts, InMove, Holding
    <3> QED
      BY <1>2, <3>1, OwnerFrame
  <2>9. CASE GetLast(t)
    <3>1. /\ loc' = loc
          /\ \A u \in Threads :
                /\ pc'[u] \in Holding <=> pc[u] \in Holding
                /\ pc[u] \in Holding => a'[u] = a[u] /\ b'[u] = b[u]
                /\ pc'[u] \in InMove => a'[u] # b'[u]
      BY <2>9, <1>2, <1>3 DEF GetLast, Get, TypeOK, Goto, control, swapping, counts, InMove, Holding
    <3> QED
      BY <1>2, <3>1, OwnerFrame
  <2>10. CASE EndStep(t)
    <3>1. /\ loc' = loc
          /\ \A u \in Threads :
                /\ pc'[u] \in Holding <=> pc[u] \in Holding
                /\ pc[u] \in Holding => a'[u] = a[u] /\ b'[u] = b[u]
                /\ pc'[u] \in InMove => a'[u] # b'[u]
      BY <2>10, <1>2, <1>3 DEF EndStep, AtBarrier, TypeOK, Goto, control, swapping, counts, InMove, Holding
    <3> QED
      BY <1>2, <3>1, OwnerFrame
  <2>11. CASE CasFirst(t)
    <3>1. /\ a' = a /\ b' = b /\ pc[t] = "casFirst"
          /\ First(t) \in Elements /\ \A u \in Threads : First(u)' = First(u)
      BY <2>11, <1>2 DEF CasFirst, First, TypeOK
    <3>2. CASE loc[First(t)] = val[t]
      <4>1. loc' = [loc EXCEPT ![First(t)] = NULL] /\ pc' = [pc EXCEPT ![t] = "getLast"]
        BY <2>11, <3>2 DEF CasFirst, Goto
      <4>2. loc[First(t)] # NULL
        BY <1>2, <3>1, <3>2 DEF LocalsOK
      <4>3. \A u \in Threads : pc'[u] \in Holding <=> u = t \/ pc[u] \in Holding
        BY <4>1, <1>2 DEF TypeOK, Holding
      <4>4. \A u \in Threads : pc'[u] \in InMove => pc[u] \in InMove
        BY <4>1, <3>1, <1>2 DEF TypeOK, InMove
      <4> QED
        BY <1>2, <3>1, <4>1, <4>2, <4>3, <4>4 DEF OneOwner, TypeOK
    <3>3. CASE loc[First(t)] # val[t]
      <4>1. /\ loc' = loc
            /\ \A u \in Threads :
                  /\ pc'[u] \in Holding <=> pc[u] \in Holding
                  /\ pc[u] \in Holding => a'[u] = a[u] /\ b'[u] = b[u]
                  /\ pc'[u] \in InMove => a'[u] # b'[u]
        BY <2>11, <3>3, <1>2, <1>3 DEF CasFirst, TypeOK, Goto, InMove, Holding
      <4> QED
        BY <1>2, <4>1, OwnerFrame
    <3> QED
      BY <3>2, <3>3
  <2>12. CASE CasLast(t)
    <3>1. /\ a' = a /\ b' = b /\ pc[t] = "casLast"
          /\ Last(t) \in Elements /\ \A u \in Threads : First(u)' = First(u)
      BY <2>12, <1>2 DEF CasLast, First, Last, TypeOK
    <3>2. CASE loc[Last(t)] = val[t]
      <4>1. loc' = [loc EXCEPT ![Last(t)] = valFirst[t]] /\ pc' = [pc EXCEPT ![t] = "checkin"]
        BY <2>12, <3>2 DEF CasLast, Goto
      <4>2. loc[Last(t)] # NULL /\ valFirst[t] # NULL
        BY <1>2, <3>1, <3>2 DEF LocalsOK
      <4>3. \A u \in Threads : pc'[u] \in Holding <=> pc[u] \in Holding
        BY <4>1, <3>1, <1>2 DEF TypeOK, Holding
      <4>4. \A u \in Threads : pc'[u] \in InMove => pc[u] \in InMove
        BY <4>1, <3>1, <1>2 DEF TypeOK, InMove
      <4>5. \A e \in Elements : loc'[e] = NULL <=> loc[e] = NULL
        BY <4>1, <4>2, <3>1, <1>2 DEF TypeOK
      <4>6. \A u \in Threads : First(u) \in Elements
        BY <1>2 DEF TypeOK, First
      <4> QED
        BY <1>2, <3>1, <4>3, <4>4, <4>5, <4>6 DEF OneOwner
    <3>3. CASE loc[Last(t)] # val[t]
      <4>1. /\ loc' = loc
            /\ \A u \in Threads :
                  /\ pc'[u] \in Holding <=> pc[u] \in Holding
                  /\ pc[u] \in Holding => a'[u] = a[u] /\ b'[u] = b[u]
                  /\ pc'[u] \in InMove => a'[u] # b'[u]
        BY <2>12, <3>3, <1>2, <1>3 DEF CasLast, TypeOK, Goto, InMove, Holding
      <4> QED
        BY <1>2, <4>1, OwnerFrame
    <3> QED
      BY <3>2, <3>3
  <2>13. CASE Checkin(t)
    BY <2>13, <1>2 DEF Checkin, First, TypeOK, LocalsOK, OneOwner, Goto, control, swapping, counts,
       InMove, Holding, NULL, Elements
  <2> QED
    BY <1>4, <2>1, <2>2, <2>3, <2>4, <2>5, <2>6, <2>7, <2>8, <2>9, <2>10, <2>11, <2>12, <2>13 DEF ThreadStep
<1>5. CASE UNCHANGED vars
  BY <1>2, <1>5 DEF OneOwner, First, vars
<1> QED
  BY <1>1, <1>4, <1>5 DEF Next, Stopped

(* The invariant holds in every reachable state.                              *)
THEOREM Invariance == Spec => []IInv
<1>1. IInv /\ [Next]_vars => IInv'
  BY TypeStep, LocalsStep, OwnerStep DEF IInv
<1> QED
  BY InitIInv, <1>1, PTL DEF Spec

(* Every variable keeps its type, for any number of threads and moves.        *)
THEOREM TypeCorrect == Spec => []TypeOK
<1>1. IInv => TypeOK
  BY DEF IInv
<1> QED
  BY Invariance, <1>1, PTL

(* A null pointer is one thread's checkout, and nobody stores over it.        *)
THEOREM ExclusiveCheckout == Spec => []OneOwner
<1>1. IInv => OneOwner
  BY DEF IInv
<1> QED
  BY Invariance, <1>1, PTL

-----------------------------------------------------------------------------
(* The swap.                                                                  *)

(* What a thread that has checked an element out is to check in there, if     *)
(* nothing happens to the other element.                                      *)
Due(u) == IF pc[u] = "checkin" THEN valLast[u] ELSE valFirst[u]

(* The location of an element that is checked out is the one its owner is due *)
(* to store.                                                                  *)
LEMMA HeldLocation ==
    ASSUME OneOwner, NEW u \in Threads, NEW e \in Elements,
           pc[u] \in Holding, First(u) = e
    PROVE  LocationOf(e) = Due(u)
<1>1. loc[e] = NULL
  BY DEF OneOwner
<1>2. \A t \in Threads : pc[t] \in Holding /\ First(t) = e => t = u
  BY DEF OneOwner
<1> DEFINE holder == CHOOSE t \in Threads : pc[t] \in Holding /\ First(t) = e
<1>3. holder = u
  BY <1>2
<1> QED
  BY <1>1, <1>3 DEF LocationOf, Due

(* The same of the next state.                                                *)
LEMMA HeldLocationNext ==
    ASSUME OneOwner', NEW u \in Threads, NEW e \in Elements,
           pc'[u] \in Holding, First(u)' = e
    PROVE  LocationOf(e)' = Due(u)'
<1>1. loc'[e] = NULL
  BY DEF OneOwner
<1>2. \A t \in Threads : pc'[t] \in Holding /\ First(t)' = e => t = u
  BY DEF OneOwner
<1> DEFINE holder == CHOOSE t \in Threads : pc'[t] \in Holding /\ First(t)' = e
<1>3. holder = u
  BY <1>2
<1> QED
  BY <1>1, <1>3 DEF LocationOf, Due

(* An element that a step leaves alone, or whose holder goes on holding it,   *)
(* stays where it is.                                                         *)
LEMMA Unmoved ==
    ASSUME OneOwner, OneOwner', NEW e \in Elements, loc'[e] = loc[e],
           \A u \in Threads : pc[u] \in Holding /\ First(u) = e =>
               pc'[u] \in Holding /\ First(u)' = e /\ Due(u)' = Due(u)
    PROVE  LocationOf(e)' = LocationOf(e)
<1>1. CASE loc[e] # NULL
  BY <1>1 DEF LocationOf
<1>2. CASE loc[e] = NULL
  <2>1. PICK u \in Threads : pc[u] \in Holding /\ First(u) = e
    BY <1>2 DEF OneOwner
  <2>2. LocationOf(e) = Due(u)
    BY <2>1, HeldLocation
  <2>3. pc'[u] \in Holding /\ First(u)' = e /\ Due(u)' = Due(u)
    BY <2>1
  <2>4. LocationOf(e)' = Due(u)'
    BY <2>3, HeldLocationNext
  <2> QED
    BY <2>2, <2>3, <2>4
<1> QED
  BY <1>1, <1>2

(* A step after which every holder is where it was in its swap moves nothing. *)
LEMMA NothingMoved ==
    ASSUME OneOwner, OneOwner', loc' = loc,
           \A u \in Threads : pc[u] \in Holding =>
               /\ pc'[u] \in Holding /\ (pc'[u] = "checkin" <=> pc[u] = "checkin")
               /\ a'[u] = a[u] /\ b'[u] = b[u]
               /\ valFirst'[u] = valFirst[u] /\ valLast'[u] = valLast[u]
    PROVE  UNCHANGED [e \in Elements |-> LocationOf(e)]
<1>1. \A u \in Threads : pc[u] \in Holding =>
          pc'[u] \in Holding /\ First(u)' = First(u) /\ Due(u)' = Due(u)
  BY DEF First, Due
<1>2. ASSUME NEW e \in Elements PROVE LocationOf(e)' = LocationOf(e)
  BY <1>1, <1>2, Unmoved
<1> QED
  BY <1>2

(* Checking an element out and in moves nothing; the compare-and-set of the   *)
(* last element is the exchange.                                              *)
LEMMA CasFirstMovesNothing ==
    ASSUME IInv, IInv', NEW t \in Threads, CasFirst(t)
    PROVE  UNCHANGED [e \in Elements |-> LocationOf(e)]
<1>1. TypeOK /\ LocalsOK /\ OneOwner /\ OneOwner'
  BY DEF IInv
<1>2. CASE loc[First(t)] # val[t]
  <2>1. /\ loc' = loc
        /\ \A u \in Threads : pc[u] \in Holding =>
               /\ pc'[u] \in Holding /\ (pc'[u] = "checkin" <=> pc[u] = "checkin")
               /\ a'[u] = a[u] /\ b'[u] = b[u]
               /\ valFirst'[u] = valFirst[u] /\ valLast'[u] = valLast[u]
    BY <1>1, <1>2 DEF CasFirst, TypeOK, Goto, Holding
  <2> QED
    BY <1>1, <2>1, NothingMoved
<1>3. CASE loc[First(t)] = val[t]
  <2>1. /\ pc[t] = "casFirst" /\ pc' = [pc EXCEPT ![t] = "getLast"]
        /\ loc' = [loc EXCEPT ![First(t)] = NULL]
        /\ valFirst' = [valFirst EXCEPT ![t] = val[t]]
        /\ a' = a /\ b' = b /\ valLast' = valLast
    BY <1>3 DEF CasFirst, Goto
  <2>2. \A u \in Threads : First(u)' = First(u) /\ First(u) \in Elements
    BY <2>1, <1>1 DEF First, TypeOK
  <2>3. val[t] # NULL
    BY <1>1, <2>1 DEF LocalsOK
  <2>4. pc'[t] \in Holding /\ Due(t)' = val[t]
    BY <1>1, <2>1 DEF TypeOK, Holding, Due
  <2>5. LocationOf(First(t)) = val[t]
    BY <1>3, <2>3 DEF LocationOf
  <2>6. ASSUME NEW e \in Elements PROVE LocationOf(e)' = LocationOf(e)
    <3>1. CASE e = First(t)
      BY <1>1, <2>2, <2>4, <2>5, <3>1, HeldLocationNext
    <3>2. CASE e # First(t)
      <4>1. loc'[e] = loc[e]
        BY <2>1, <2>2, <3>2, <1>1 DEF TypeOK
      <4>2. \A u \in Threads : pc[u] \in Holding /\ First(u) = e =>
                pc'[u] \in Holding /\ First(u)' = e /\ Due(u)' = Due(u)
        BY <1>1, <2>1, <2>2, <3>2 DEF TypeOK, Holding, Due
      <4> QED
        BY <1>1, <4>1, <4>2, Unmoved
    <3> QED
      BY <3>1, <3>2
  <2> QED
    BY <2>6
<1> QED
  BY <1>2, <1>3

(* Checkin puts the element where it already counted as being.                *)
LEMMA CheckinMovesNothing ==
    ASSUME IInv, IInv', NEW t \in Threads, Checkin(t)
    PROVE  UNCHANGED [e \in Elements |-> LocationOf(e)]
<1>1. TypeOK /\ LocalsOK /\ OneOwner /\ OneOwner'
  BY DEF IInv
<1>2. /\ pc[t] = "checkin" /\ pc' = [pc EXCEPT ![t] = "choose"]
      /\ loc' = [loc EXCEPT ![First(t)] = valLast[t]]
      /\ valFirst' = [valFirst EXCEPT ![t] = NULL]
      /\ valLast' = [valLast EXCEPT ![t] = NULL]
      /\ a' = a /\ b' = b
  BY DEF Checkin, Goto
<1>3. \A u \in Threads : First(u)' = First(u) /\ First(u) \in Elements
  BY <1>1, <1>2 DEF First, TypeOK
<1>4. valLast[t] # NULL /\ pc[t] \in Holding /\ Due(t) = valLast[t]
  BY <1>1, <1>2 DEF LocalsOK, Holding, Due
<1>5. LocationOf(First(t)) = valLast[t]
  BY <1>1, <1>3, <1>4, HeldLocation
<1>6. ASSUME NEW e \in Elements PROVE LocationOf(e)' = LocationOf(e)
  <2>1. CASE e = First(t)
    <3>1. loc'[e] = valLast[t]
      BY <1>1, <1>2, <1>3, <2>1 DEF TypeOK
    <3> QED
      BY <1>4, <1>5, <2>1, <3>1 DEF LocationOf
  <2>2. CASE e # First(t)
    <3>1. loc'[e] = loc[e]
      BY <1>1, <1>2, <1>3, <2>2 DEF TypeOK
    <3>2. \A u \in Threads : pc[u] \in Holding /\ First(u) = e =>
              pc'[u] \in Holding /\ First(u)' = e /\ Due(u)' = Due(u)
      BY <1>1, <1>2, <1>3, <2>2 DEF TypeOK, Holding, Due
    <3> QED
      BY <1>1, <3>1, <3>2, Unmoved
  <2> QED
    BY <2>1, <2>2
<1> QED
  BY <1>6

(* The second compare-and-set is the exchange if it succeeds, and nothing     *)
(* otherwise.                                                                 *)
LEMMA CasLastSwaps ==
    ASSUME IInv, IInv', NEW t \in Threads, CasLast(t)
    PROVE  Atomic!Swap \/ UNCHANGED [e \in Elements |-> LocationOf(e)]
<1>1. TypeOK /\ LocalsOK /\ OneOwner /\ OneOwner'
  BY DEF IInv
<1>2. CASE loc[Last(t)] # val[t]
  <2>1. /\ loc' = loc
        /\ \A u \in Threads : pc[u] \in Holding =>
               /\ pc'[u] \in Holding /\ (pc'[u] = "checkin" <=> pc[u] = "checkin")
               /\ a'[u] = a[u] /\ b'[u] = b[u]
               /\ valFirst'[u] = valFirst[u] /\ valLast'[u] = valLast[u]
    BY <1>1, <1>2 DEF CasLast, TypeOK, Goto, Holding
  <2> QED
    BY <1>1, <2>1, NothingMoved
<1>3. CASE loc[Last(t)] = val[t]
  <2>1. /\ pc[t] = "casLast" /\ pc' = [pc EXCEPT ![t] = "checkin"]
        /\ loc' = [loc EXCEPT ![Last(t)] = valFirst[t]]
        /\ valLast' = [valLast EXCEPT ![t] = val[t]]
        /\ a' = a /\ b' = b /\ valFirst' = valFirst
    BY <1>3 DEF CasLast, Goto
  <2>2. /\ \A u \in Threads : First(u)' = First(u) /\ First(u) \in Elements
        /\ Last(t) \in Elements
    BY <2>1, <1>1 DEF First, Last, TypeOK
  <2>3. val[t] # NULL /\ valFirst[t] # NULL
    BY <1>1, <2>1 DEF LocalsOK
  <2>4. /\ pc[t] \in Holding /\ pc'[t] \in Holding
        /\ Due(t) = valFirst[t] /\ Due(t)' = val[t]
    BY <1>1, <2>1 DEF TypeOK, Holding, Due
  <2>5. First(t) # Last(t)
    BY <1>1, <2>1 DEF OneOwner, First, Last, InMove
  <2>6. LocationOf(Last(t)) = val[t] /\ LocationOf(First(t)) = valFirst[t]
    BY <1>1, <1>3, <2>2, <2>3, <2>4, HeldLocation DEF LocationOf
  <2>7. ASSUME NEW e \in Elements, e = First(t) PROVE LocationOf(e)' = val[t]
    BY <1>1, <2>2, <2>4, <2>7, HeldLocationNext
  <2>8. ASSUME NEW e \in Elements, e = Last(t) PROVE LocationOf(e)' = valFirst[t]
    <3>1. loc'[e] = valFirst[t]
      BY <1>1, <2>1, <2>2, <2>8 DEF TypeOK
    <3> QED
      BY <2>3, <3>1 DEF LocationOf
  <2>9. ASSUME NEW e \in Elements, e # First(t), e # Last(t)
        PROVE  LocationOf(e)' = LocationOf(e)
    <3>1. loc'[e] = loc[e]
      BY <1>1, <2>1, <2>2, <2>9 DEF TypeOK
    <3>2. \A u \in Threads : pc[u] \in Holding /\ First(u) = e =>
              pc'[u] \in Holding /\ First(u)' = e /\ Due(u)' = Due(u)
      BY <1>1, <2>1, <2>2, <2>9 DEF TypeOK, Holding, Due
    <3> QED
      BY <1>1, <3>1, <3>2, Unmoved
  <2> DEFINE place == [e \in Elements |-> LocationOf(e)]
             placeNext == [e \in Elements |-> LocationOf(e)']
  <2>10. placeNext = [place EXCEPT ![First(t)] = place[Last(t)], ![Last(t)] = place[First(t)]]
    <3>1. place[Last(t)] = val[t] /\ place[First(t)] = valFirst[t]
      BY <2>2, <2>6
    <3>2. \A e \in Elements : placeNext[e] =
              IF e = First(t) THEN val[t] ELSE IF e = Last(t) THEN valFirst[t] ELSE place[e]
      BY <2>7, <2>8, <2>9
    <3> QED
      BY <2>5, <3>1, <3>2
  <2> QED
    BY <2>2, <2>10 DEF Atomic!Swap
<1> QED
  BY <1>2, <1>3

(* Every step is the exchange of two locations or changes no location.        *)
LEMMA SwapStep ==
    ASSUME IInv, IInv', [Next]_vars
    PROVE  [Atomic!Swap]_[e \in Elements |-> LocationOf(e)]
<1>1. TypeOK /\ OneOwner /\ OneOwner'
  BY DEF IInv
<1>2. ASSUME NEW t \in Threads, ThreadStep(t)
      PROVE  Atomic!Swap \/ UNCHANGED [e \in Elements |-> LocationOf(e)]
  <2>1. CASE KeepGoing(t)
    <3>1. /\ loc' = loc
          /\ \A u \in Threads : pc[u] \in Holding =>
                 /\ pc'[u] \in Holding /\ (pc'[u] = "checkin" <=> pc[u] = "checkin")
                 /\ a'[u] = a[u] /\ b'[u] = b[u]
                 /\ valFirst'[u] = valFirst[u] /\ valLast'[u] = valLast[u]
      BY <1>1, <2>1 DEF KeepGoing, TypeOK, Goto, control, swapping, counts, Holding
    <3> QED
      BY <1>1, <3>1, NothingMoved
  <2>2. CASE Stop(t)
    <3>1. /\ loc' = loc
          /\ \A u \in Threads : pc[u] \in Holding =>
                 /\ pc'[u] \in Holding /\ (pc'[u] = "checkin" <=> pc[u] = "checkin")
                 /\ a'[u] = a[u] /\ b'[u] = b[u]
                 /\ valFirst'[u] = valFirst[u] /\ valLast'[u] = valLast[u]
      BY <1>1, <2>2 DEF Stop, TypeOK, Goto, control, swapping, counts, Holding
    <3> QED
      BY <1>1, <3>1, NothingMoved
  <2>3. CASE Converged(t)
    <3>1. /\ loc' = loc
          /\ \A u \in Threads : pc[u] \in Holding =>
                 /\ pc'[u] \in Holding /\ (pc'[u] = "checkin" <=> pc[u] = "checkin")
                 /\ a'[u] = a[u] /\ b'[u] = b[u]
                 /\ valFirst'[u] = valFirst[u] /\ valLast'[u] = valLast[u]
      BY <1>1, <2>3 DEF Converged, TypeOK, Goto, control, swapping, counts, Holding
    <3> QED
      BY <1>1, <3>1, NothingMoved
  <2>4. CASE Choose(t)
    <3>1. /\ loc' = loc
          /\ \A u \in Threads : pc[u] \in Holding =>
                 /\ pc'[u] \in Holding /\ (pc'[u] = "checkin" <=> pc[u] = "checkin")
                 /\ a'[u] = a[u] /\ b'[u] = b[u]
                 /\ valFirst'[u] = valFirst[u] /\ valLast'[u] = valLast[u]
      BY <1>1, <2>4 DEF Choose, TypeOK, Goto, control, swapping, counts, Holding
    <3> QED
      BY <1>1, <3>1, NothingMoved
  <2>5. CASE CostA(t)
    <3>1. /\ loc' = loc
          /\ \A u \in Threads : pc[u] \in Holding =>
                 /\ pc'[u] \in Holding /\ (pc'[u] = "checkin" <=> pc[u] = "checkin")
                 /\ a'[u] = a[u] /\ b'[u] = b[u]
                 /\ valFirst'[u] = valFirst[u] /\ valLast'[u] = valLast[u]
      BY <1>1, <2>5 DEF CostA, TypeOK, Goto, control, swapping, counts, Holding
    <3> QED
      BY <1>1, <3>1, NothingMoved
  <2>6. CASE Reject(t)
    <3>1. /\ loc' = loc
          /\ \A u \in Threads : pc[u] \in Holding =>
                 /\ pc'[u] \in Holding /\ (pc'[u] = "checkin" <=> pc[u] = "checkin")
                 /\ a'[u] = a[u] /\ b'[u] = b[u]
                 /\ valFirst'[u] = valFirst[u] /\ valLast'[u] = valLast[u]
      BY <1>1, <2>6 DEF Reject, TypeOK, Goto, control, swapping, counts, Holding
    <3> QED
      BY <1>1, <3>1, NothingMoved
  <2>7. CASE Accept(t)
    <3>1. /\ loc' = loc
          /\ \A u \in Threads : pc[u] \in Holding =>
                 /\ pc'[u] \in Holding /\ (pc'[u] = "checkin" <=> pc[u] = "checkin")
                 /\ a'[u] = a[u] /\ b'[u] = b[u]
                 /\ valFirst'[u] = valFirst[u] /\ valLast'[u] = valLast[u]
      BY <1>1, <2>7 DEF Accept, TypeOK, Goto, control, swapping, counts, Holding
    <3> QED
      BY <1>1, <3>1, NothingMoved
  <2>8. CASE GetFirst(t)
    <3>1. /\ loc' = loc
          /\ \A u \in Threads : pc[u] \in Holding =>
                 /\ pc'[u] \in Holding /\ (pc'[u] = "checkin" <=> pc[u] = "checkin")
                 /\ a'[u] = a[u] /\ b'[u] = b[u]
                 /\ valFirst'[u] = valFirst[u] /\ valLast'[u] = valLast[u]
      BY <1>1, <2>8 DEF GetFirst, Get, TypeOK, Goto, control, swapping, counts, Holding
    <3> QED
      BY <1>1, <3>1, NothingMoved
  <2>9. CASE GetLast(t)
    <3>1. /\ loc' = loc
          /\ \A u \in Threads : pc[u] \in Holding =>
                 /\ pc'[u] \in Holding /\ (pc'[u] = "checkin" <=> pc[u] = "checkin")
                 /\ a'[u] = a[u] /\ b'[u] = b[u]
                 /\ valFirst'[u] = valFirst[u] /\ valLast'[u] = valLast[u]
      BY <1>1, <2>9 DEF GetLast, Get, TypeOK, Goto, control, swapping, counts, Holding
    <3> QED
      BY <1>1, <3>1, NothingMoved
  <2>10. CASE EndStep(t)
    <3>1. /\ loc' = loc
          /\ \A u \in Threads : pc[u] \in Holding =>
                 /\ pc'[u] \in Holding /\ (pc'[u] = "checkin" <=> pc[u] = "checkin")
                 /\ a'[u] = a[u] /\ b'[u] = b[u]
                 /\ valFirst'[u] = valFirst[u] /\ valLast'[u] = valLast[u]
      BY <1>1, <2>10 DEF EndStep, AtBarrier, TypeOK, Goto, control, swapping, counts, Holding
    <3> QED
      BY <1>1, <3>1, NothingMoved
  <2>11. CASE CasFirst(t)
    BY <2>11, CasFirstMovesNothing
  <2>12. CASE CasLast(t)
    BY <2>12, CasLastSwaps
  <2>13. CASE Checkin(t)
    BY <2>13, CheckinMovesNothing
  <2> QED
    BY <1>2, <2>1, <2>2, <2>3, <2>4, <2>5, <2>6, <2>7, <2>8, <2>9, <2>10, <2>11, <2>12, <2>13 DEF ThreadStep
<1>3. CASE UNCHANGED vars
  <2>1. loc' = loc /\ pc' = pc /\ a' = a /\ b' = b /\ valFirst' = valFirst /\ valLast' = valLast
    BY <1>3 DEF vars
  <2> QED
    BY <1>1, <2>1, NothingMoved
<1> QED
  BY <1>2, <1>3 DEF Next, Stopped

(* In the beginning every element has its location.                           *)
LEMMA SwapInit == Init => Atomic!Init
<1>1. SUFFICES ASSUME Init PROVE [e \in Elements |-> LocationOf(e)] = [e \in Elements |-> e]
  BY DEF Atomic!Init
<1>2. ASSUME NEW e \in Elements PROVE LocationOf(e) = e
  BY <1>1 DEF Init, LocationOf, Elements, NULL
<1> QED
  BY <1>2

(* AtomicPtr::Swap, with its two compare-and-sets and its store, exchanges    *)
(* two locations at once, whatever other threads swap at the same time.       *)
THEOREM SwapIsAtomic == Spec => ImplementsSwap
<1>1. IInv /\ IInv' /\ [Next]_vars => [Atomic!Swap]_[e \in Elements |-> LocationOf(e)]
  BY SwapStep
<1> QED
  BY Invariance, SwapInit, <1>1, PTL DEF Spec, ImplementsSwap, Atomic!Spec
-----------------------------------------------------------------------------
(* The temperature steps.                                                     *)

(* All threads are in the same temperature step, which a thread leaves when   *)
(* it comes to the barrier; with a fixed number of steps, one that is still   *)
(* at it has not done them all, and one that has returned has.                *)
Level(t) == IF pc[t] = "barrier" THEN steps[t] - 1 ELSE steps[t]
LevelInv ==
    /\ \A t, u \in Threads : Level(t) = Level(u)
    /\ number_temp_steps # -1 =>
          \A t \in Threads : /\ pc[t] \in {"choose", "barrier"} \cup InMove => Level(t) < number_temp_steps
                             /\ pc[t] = "done" => Level(t) >= number_temp_steps
                             /\ pc[t] # "converged"

(* Who comes to the barrier and does not have to wait finds all others there. *)
LEMMA LastAtBarrier ==
    ASSUME TypeOK, NEW t \in Threads, pc[t] # "barrier",
           ~(Cardinality(AtBarrier) + 1 < Cardinality(Threads))
    PROVE  AtBarrier = Threads \ {t}
<1>1. /\ IsFiniteSet(Threads \ {t}) /\ Cardinality(Threads \ {t}) = Cardinality(Threads) - 1
      /\ Cardinality(Threads) \in Nat
  BY FS_RemoveElement, FS_CardinalityType, CannealAssumption
<1>2. AtBarrier \in SUBSET (Threads \ {t})
  BY DEF AtBarrier
<1>3. /\ Cardinality(AtBarrier) \in Nat
      /\ Cardinality(AtBarrier) <= Cardinality(Threads \ {t})
      /\ Cardinality(AtBarrier) = Cardinality(Threads \ {t}) => AtBarrier = Threads \ {t}
  BY <1>1, <1>2, FS_Subset, FS_CardinalityType
<1> QED
  BY <1>1, <1>3

(* A step that lets nobody come to the barrier or leave it keeps the level,   *)
(* and what is left to see is that no thread goes on or returns too early.    *)
LEMMA LevelFrame ==
    ASSUME TypeOK, LevelInv, steps' = steps, number_temp_steps' = number_temp_steps,
           NEW t \in Threads,
           \A u \in Threads : u # t => pc'[u] = pc[u],
           pc[t] # "barrier" /\ pc'[t] # "barrier",
           number_temp_steps # -1 =>
               /\ pc'[t] \in {"choose"} \cup InMove => steps[t] < number_temp_steps
               /\ pc'[t] = "done" => steps[t] >= number_temp_steps
               /\ pc'[t] # "converged"
    PROVE  LevelInv'
<1>1. \A u \in Threads : Level(u)' = Level(u)
  BY DEF Level
<1>2. Level(t) = steps[t]
  BY DEF Level
<1>3. \A u \in Threads : (u # t => pc'[u] = pc[u]) /\ (u = t => pc'[u] # "barrier")
  OBVIOUS
<1> HIDE DEF Level
<1> QED
  BY <1>1, <1>2, <1>3 DEF LevelInv

(* Every step keeps the threads in the same temperature step.                 *)
LEMMA LevelStep == IInv /\ LevelInv /\ [Next]_vars => LevelInv'
<1>1. SUFFICES ASSUME IInv, LevelInv, [Next]_vars PROVE LevelInv'
  OBVIOUS
<1> USE CannealAssumption
<1>2. TypeOK /\ LevelInv
  BY <1>1 DEF IInv
<1>3. ASSUME NEW t \in Threads, pc[t] \in {"choose"} \cup InMove, number_temp_steps # -1
      PROVE  steps[t] < number_temp_steps
  BY <1>2, <1>3 DEF LevelInv, Level, InMove
<1>4. number_temp_steps \in Nat \cup {-1} /\ steps \in [Threads -> Nat]
  BY <1>2 DEF TypeOK
<1>5. ASSUME NEW t \in Threads, ThreadStep(t) PROVE LevelInv'
  <2>1. CASE KeepGoing(t) \/ Stop(t) \/ Converged(t)
    <3>1. /\ steps' = steps /\ number_temp_steps' = number_temp_steps
          /\ \A u \in Threads : u # t => pc'[u] = pc[u]
          /\ pc[t] # "barrier" /\ pc'[t] # "barrier"
      BY <1>2, <2>1 DEF KeepGoing, Stop, Converged, Goto, TypeOK, control
    <3>2. ASSUME number_temp_steps # -1
          PROVE  /\ pc'[t] \in {"choose"} \cup InMove => steps[t] < number_temp_steps
                 /\ pc'[t] = "done" => steps[t] >= number_temp_steps
                 /\ pc'[t] # "converged"
      <4>1. pc[t] # "converged"
        BY <1>2, <3>2 DEF LevelInv
      <4> QED
        BY <1>2, <1>4, <2>1, <3>2, <4>1
           DEF KeepGoing, Stop, Converged, Goto, GoesOn, TypeOK, InMove
    <3> QED
      BY <1>2, <3>1, <3>2, LevelFrame
  <2>2. CASE \/ Choose(t) \/ CostA(t) \/ Reject(t) \/ Accept(t) \/ GetFirst(t) \/ CasFirst(t)
             \/ GetLast(t) \/ CasLast(t) \/ Checkin(t)
    <3>1. /\ steps' = steps /\ number_temp_steps' = number_temp_steps
          /\ \A u \in Threads : u # t => pc'[u] = pc[u]
          /\ pc[t] \in {"choose"} \cup InMove /\ pc'[t] \in {"choose"} \cup InMove
      BY <1>2, <2>2 DEF Choose, CostA, Reject, Accept, GetFirst, CasFirst, GetLast, CasLast,
                        Checkin, Goto, TypeOK, control, InMove
    <3>2. number_temp_steps # -1 => steps[t] < number_temp_steps
      BY <1>3, <3>1
    <3>3. pc[t] # "barrier" /\ pc'[t] \notin {"barrier", "done", "converged"}
      BY <3>1 DEF InMove
    <3> QED
      BY <1>2, <3>1, <3>2, <3>3, LevelFrame
  <2>3. CASE EndStep(t)
    <3>1. /\ pc[t] = "choose" /\ number_temp_steps' = number_temp_steps
          /\ steps' = [steps EXCEPT ![t] = @ + 1]
      BY <2>3 DEF EndStep
    <3>2. CASE Cardinality(AtBarrier) + 1 < Cardinality(Threads)
      <4>1. pc' = [pc EXCEPT ![t] = "barrier"]
        BY <2>3, <3>2 DEF EndStep, Goto
      <4>2. \A u \in Threads : Level(u)' = Level(u)
        BY <1>2, <1>4, <3>1, <4>1 DEF Level, TypeOK
      <4>3. number_temp_steps # -1 => Level(t) < number_temp_steps
        BY <1>3, <3>1 DEF Level
      <4>4. \A u \in Threads : pc'[u] = IF u = t THEN "barrier" ELSE pc[u]
        BY <1>2, <4>1 DEF TypeOK
      <4> HIDE DEF Level
      <4> QED
        BY <1>2, <3>1, <4>2, <4>3, <4>4 DEF LevelInv
    <3>3. CASE ~(Cardinality(AtBarrier) + 1 < Cardinality(Threads))
      <4>1. AtBarrier = Threads \ {t}
        BY <1>2, <3>1, <3>3, LastAtBarrier
      <4>2. \A u \in Threads : u # t => pc[u] = "barrier"
        BY <4>1 DEF AtBarrier
      <4>3. \A u \in Threads : pc'[u] = "keepGoing"
        BY <2>3, <3>3, <4>1 DEF EndStep
      <4>4. \A u \in Threads : steps'[u] = steps[t] + 1
        <5>1. \A u \in Threads : Level(u) = Level(t)
          BY <1>2 DEF LevelInv
        <5> QED
          BY <1>4, <3>1, <4>2, <5>1 DEF Level
      <4> QED
        BY <4>3, <4>4 DEF LevelInv, Level, InMove
    <3> QED
      BY <3>2, <3>3
  <2> QED
    BY <1>5, <2>1, <2>2, <2>3 DEF ThreadStep
<1>6. CASE UNCHANGED vars
  BY <1>2, <1>6 DEF LevelInv, Level, vars
<1> QED
  BY <1>1, <1>5, <1>6 DEF Next, Stopped

(* A thread is left alone at the barrier only in a run to convergence, by one *)
(* that took the flag down between the two tests of the same step.            *)
THEOREM StrandedByConvergence == Spec => []OnlyConvergenceStrands
<1>1. Init => LevelInv
  <2>1. SUFFICES ASSUME Init PROVE LevelInv
    OBVIOUS
  <2> QED
    BY <2>1 DEF Init, LevelInv, Level, InMove
<1>2. IInv /\ LevelInv => OnlyConvergenceStrands
  <2>1. SUFFICES ASSUME TypeOK, LevelInv, NEW t \in Threads, NEW u \in Threads,
                        pc[t] = "barrier", pc[u] = "done"
                 PROVE  number_temp_steps = -1 /\ steps[t] = steps[u] + 1
    BY DEF IInv, OnlyConvergenceStrands
  <2>2. steps[t] \in Nat /\ steps[u] \in Nat /\ number_temp_steps \in Nat \cup {-1}
    BY <2>1, CannealAssumption DEF TypeOK
  <2>3. Level(t) = steps[t] - 1 /\ Level(u) = steps[u]
    BY <2>1 DEF Level
  <2>4. steps[t] - 1 = steps[u]
    BY <2>1, <2>3 DEF LevelInv
  <2>5. number_temp_steps # -1 =>
           steps[t] - 1 < number_temp_steps /\ steps[u] >= number_temp_steps
    BY <2>1, <2>3 DEF LevelInv
  <2> QED
    BY <2>2, <2>4, <2>5
<1> QED
  BY Invariance, LevelStep, <1>1, <1>2, PTL DEF Spec
=============================================================================
