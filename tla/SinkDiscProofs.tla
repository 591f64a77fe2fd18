--------------------------- MODULE SinkDiscProofs ---------------------------
(* The safety of SinkDisc for any number of workers and any sizes of image and *)
(* buffers: a buffer's sections, tiles and writers are accounted for in every  *)
(* phase of the double buffering, and so write_fn gets complete sections in    *)
(* order and vips_sink_disc comes back only with the whole image.              *)
EXTENDS SinkDisc, FiniteSetTheorems, SequenceTheorems, TLAPS

-----------------------------------------------------------------------------
(* The writers of a buffer.                                                    *)

Working(b) == {t \in Workers : pc[t] = "work" /\ wbuf[t] = b}

(* Those who took a tile of b and have not given it back, some never will.     *)
Holders(b) == {t \in Workers : /\ wbuf[t] = b /\ ~NeverBegan(t)
                               /\ pc[t] = "work" \/ thrError[t]}

(* A worker that fails in wbuffer_flush holds no tile any more, and so counts  *)
(* as a holder only in this bound.                                             *)
WriterBounds ==
    /\ \A t \in Workers : pc[t] = "work" => ~NeverBegan(t) /\ ~thrError[t]
    /\ \A b \in Buffers : /\ nwrite[b] <= -Cardinality(Working(b))
                          /\ nwrite[b] >= -Cardinality(Holders(b))

WritersCounted == \A b \in Buffers : nwrite[b] = -Cardinality(Holders(b))

-----------------------------------------------------------------------------
(* What a buffer's thread is doing, and what it has written.                   *)

Quiet(b)     == go[b] = 0 /\ bg[b] = "go" /\ done[b] = 0
UnderWay(b)  == /\ done[b] = 0
                /\ \/ go[b] = 1 /\ bg[b] = "go"
                   \/ go[b] = 0 /\ bg[b] \in {"nwrite", "writing"}
Complete(b)  == go[b] = 0 /\ bg[b] = "go" /\ done[b] = 1

OutInOrder ==
    /\ out \in Seq([top : Nat, height : Nat, ok : BOOLEAN])
    /\ out # <<>> => out[1].top = 0
    /\ \A i \in 1 .. Len(out) - 1 : out[i + 1].top = Bottom(out[i])

AllOk      == \A i \in 1 .. Len(out) : out[i].ok
AllButLast == \A i \in 1 .. Len(out) - 1 : out[i].ok

Area(b)  == (0 .. Xsize - 1) \X (area[b].top .. Bottom(area[b]) - 1)
Taken    == {p \in Area(buf) : p[2] < y \/ (p[2] = y /\ p[1] < x)}
Held(b)  == {pos[t] : t \in Holders(b)}

(* A buffer that was set writing: every tile is there or in the hands of a     *)
(* worker, and its section is the next one, or was the last one written.       *)
Flushed(b) ==
    \/ /\ UnderWay(b)
       /\ area[b].top = Written /\ AllOk
       /\ filled[b] \cup Held(b) = Area(b)
       /\ bg[b] = "writing" => Holders(b) = {}
    \/ /\ Complete(b)
       /\ Bottom(area[b]) = Written /\ AllButLast
       /\ out # <<>> /\ out[Len(out)].ok = ~write_errno[b]
       /\ Holders(b) = {}

-----------------------------------------------------------------------------
(* The phases of the double buffering.                                         *)

Front ==
    /\ ~stop
    /\ Quiet(buf)
    /\ area[buf].top <= y /\ y < Bottom(area[buf])
    /\ filled[buf] \cup Held(buf) = Taken
    /\ WritersCounted

First   == Front /\ area[buf].top = 0 /\ Quiet(buf_back) /\ Holders(buf_back) = {} /\ out = <<>>
Filling == Front /\ area[buf].top > 0 /\ Flushed(buf_back) /\ Bottom(area[buf_back]) = area[buf].top

(* After a failed write nobody waits at done successfully any more.            *)
Failed  == ~stop /\ area[buf].top > 0 /\ \A b \in Buffers : Quiet(b)

Last == /\ stop
        /\ Bottom(area[buf]) = Ysize
        /\ Flushed(buf) /\ Quiet(buf_back) /\ Holders(buf_back) = {}
        /\ WritersCounted

Running == /\ main \in {"tick", "progress", "finish", "done"}
           /\ \A b \in Buffers : ~kill[b]
           /\ First \/ Filling \/ Failed \/ Last

(* The image is written; the threads are told to exit one after the other.     *)
Killed(b) == kill[b] /\ (\/ go[b] = 1 /\ bg[b] = "go"
                         \/ go[b] = 0 /\ bg[b] = "gone")

Ended ==
    /\ main \in {"kill", "join", "returned"}
    /\ stop /\ Written = Ysize /\ AllButLast
    /\ \A b \in Buffers : /\ Holders(b) = {} /\ done[b] = 0
                          /\ Killed(b) \/ (~kill[b] /\ Quiet(b))
    /\ main = "kill" => ~kill[buf_back]

Phase == Running \/ Ended

-----------------------------------------------------------------------------

AreasOK ==
    /\ \A b \in Buffers : Bottom(area[b]) <= Ysize
    /\ area[buf].height > 0

MainOK ==
    /\ finish <= Cardinality({t \in Workers : pc[t] = "gone"})
    /\ main \in {"done", "kill", "join", "returned"} => (result = -1 <=> error)

Inv == TypeOK /\ AreasOK /\ MainOK /\ OutInOrder /\ WriterBounds /\ Phase
-----------------------------------------------------------------------------
(* Sets of workers, and the area of a buffer.                                  *)

(* Any set of workers can be counted.                                         *)
LEMMA SubsetsFinite ==
    /\ Cardinality(Workers) \in Nat
    /\ \A S \in SUBSET Workers : /\ IsFiniteSet(S) /\ Cardinality(S) \in Nat
                                 /\ Cardinality(S) <= Cardinality(Workers)
BY SinkDiscAssumption, FS_Subset, FS_CardinalityType

(* A worker more, a count more.                                               *)
LEMMA OneMore ==
    ASSUME NEW S \in SUBSET Workers, NEW t \in Workers \ S
    PROVE  Cardinality(S \cup {t}) = Cardinality(S) + 1
BY SubsetsFinite, FS_AddElement

(* A worker less, a count less.                                               *)
LEMMA OneLess ==
    ASSUME NEW S \in SUBSET Workers, NEW t \in S
    PROVE  Cardinality(S \ {t}) = Cardinality(S) - 1
BY SubsetsFinite, FS_RemoveElement

(* Who are none can be recognised by their count.                             *)
LEMMA NobodyLeft ==
    ASSUME NEW S \in SUBSET Workers, Cardinality(S) <= 0
    PROVE  S = {}
BY SubsetsFinite, FS_EmptySet

(* What Min chooses of two numbers.                                           *)
LEMMA MinOfTwo ==
    ASSUME NEW a \in Int, NEW b \in Int
    PROVE  Min({a, b}) = IF a <= b THEN a ELSE b
<1>1. CASE a <= b
  <2> DEFINE P(m) == m \in {a, b} /\ \A n \in {a, b} : m <= n
  <2>1. P(a) /\ \A m : P(m) => m = a
    BY <1>1
  <2> QED
    BY <2>1, <1>1 DEF Min
<1>2. CASE ~(a <= b)
  <2> DEFINE P(m) == m \in {a, b} /\ \A n \in {a, b} : m <= n
  <2>1. P(b) /\ \A m : P(m) => m = b
    BY <1>2
  <2> QED
    BY <2>1, <1>2 DEF Min
<1> QED
  BY <1>1, <1>2

(* wbuffer_position at a row of the image gives an area inside it that is not *)
(* empty.                                                                     *)
LEMMA PositionFacts ==
    ASSUME NEW row \in 0 .. Ysize - 1
    PROVE  /\ Position(row) \in [top : 0 .. Ysize - 1, height : 0 .. nlines]
           /\ Position(row).top = row /\ Position(row).height > 0
           /\ Bottom(Position(row)) <= Ysize
<1>1. nlines \in Nat \ {0} /\ Ysize - row \in Nat \ {0} /\ Ysize \in Nat
  BY SinkDiscAssumption
<1>2. Min({nlines, Ysize - row}) = IF nlines <= Ysize - row THEN nlines ELSE Ysize - row
  BY <1>1, MinOfTwo
<1> QED
  BY <1>1, <1>2 DEF Position, Bottom

(* There are two buffers, the front and the back one.                         *)
LEMMA BackFacts ==
    ASSUME buf \in Buffers
    PROVE  buf_back \in Buffers /\ buf_back # buf /\ Buffers = {buf, buf_back}
BY DEF Buffers, buf_back

(* What the initial state is.                                                  *)
LEMMA InitInv == Init => Inv
<1> SUFFICES ASSUME Init PROVE Inv
  OBVIOUS
<1>1. /\ Ysize \in Nat /\ Xsize \in Nat /\ nlines \in Nat /\ Xsize > 0 /\ Ysize > 0
      /\ 0 \in 0 .. Ysize - 1
  BY SinkDiscAssumption
<1>2. /\ Position(0) \in [top : 0 .. Ysize - 1, height : 0 .. nlines]
      /\ Position(0).top = 0 /\ Position(0).height > 0 /\ Bottom(Position(0)) <= Ysize
  BY <1>1, PositionFacts
<1>3. /\ area \in [Buffers -> [top : 0 .. Ysize - 1, height : 0 .. nlines]]
      /\ area[0] = Position(0) /\ area[1] = [top |-> 0, height |-> 0]
  BY <1>1, <1>2 DEF Init, Buffers
<1>4. pos \in [Workers -> Tiles] /\ \A t \in Workers : NeverBegan(t)
  <2>1. <<0, None>> \in Tiles
    BY <1>1 DEF Tiles, None
  <2> QED
    BY <2>1 DEF Init, NeverBegan
<1>5. TypeOK
  <2>1. /\ Cardinality(Workers) \in Nat /\ 0 \in 0 .. Cardinality(Workers)
        /\ 0 \in -Cardinality(Workers) .. 0 /\ 0 \in 0 .. Xsize /\ 0 \in 0 .. Ysize
    BY <1>1, SubsetsFinite
  <2>2. /\ buf \in Buffers /\ x \in 0 .. Xsize /\ y \in 0 .. Ysize
        /\ go \in [Buffers -> 0 .. 2] /\ done \in [Buffers -> 0 .. 1]
        /\ nwrite \in [Buffers -> -Cardinality(Workers) .. 0]
        /\ finish \in 0 .. Cardinality(Workers)
    BY <2>1 DEF Init, Buffers
  <2>3. /\ wbuf \in [Workers -> Buffers]
        /\ pc \in [Workers -> {"unit", "work", "loop", "next", "gone"}]
        /\ thrError \in [Workers -> BOOLEAN]
        /\ write_errno \in [Buffers -> BOOLEAN] /\ kill \in [Buffers -> BOOLEAN]
        /\ bg \in [Buffers -> {"go", "nwrite", "writing", "gone"}]
        /\ filled \in [Buffers -> SUBSET Tiles]
    BY DEF Init, Buffers
  <2> QED
    BY <1>3, <1>4, <2>2, <2>3 DEF Init, TypeOK
<1>6. AreasOK
  BY <1>1, <1>2, <1>3 DEF AreasOK, Bottom, Init, Buffers
<1>7. MainOK
  <2>1. Cardinality({t \in Workers : pc[t] = "gone"}) \in Nat
    BY SubsetsFinite
  <2> QED
    BY <2>1 DEF Init, MainOK
<1>8. OutInOrder
  BY DEF Init, OutInOrder
<1>9. \A b \in Buffers : Holders(b) = {} /\ Working(b) = {} /\ Held(b) = {}
  BY <1>4 DEF Holders, Working, Held, Init
<1>10. WriterBounds /\ WritersCounted
  <2>1. Cardinality({}) = 0
    BY FS_EmptySet
  <2>2. \A b \in Buffers : nwrite[b] = 0
    BY DEF Init
  <2>3. \A t \in Workers : pc[t] # "work"
    BY DEF Init
  <2> QED
    BY <1>9, <2>1, <2>2, <2>3 DEF WriterBounds, WritersCounted
<1>11. Taken = {}
  <2>1. area[buf].top = 0 /\ Bottom(area[buf]) \in Int /\ x = 0 /\ y = 0
    BY <1>1, <1>2, <1>3 DEF Init, Bottom
  <2>2. \A p \in Area(buf) : p[1] \in Nat /\ p[2] \in Nat
    BY <1>1, <2>1 DEF Area
  <2> QED
    BY <2>1, <2>2 DEF Taken
<1>12. First
  BY <1>1, <1>2, <1>3, <1>9, <1>10, <1>11
  DEF First, Front, Quiet, Init, Buffers, buf_back, Bottom
<1> QED
  BY <1>5, <1>6, <1>7, <1>8, <1>10, <1>12 DEF Inv, Phase, Running, Init
-----------------------------------------------------------------------------
(* What a step leaves as it is.                                                *)

(* A step that leaves the workers alone leaves the holders of the tiles       *)
(* alone.                                                                     *)
LEMMA WorkersStill ==
    ASSUME UNCHANGED workers
    PROVE  /\ \A b \in Buffers : /\ Working(b)' = Working(b) /\ Holders(b)' = Holders(b)
                                 /\ Held(b)' = Held(b)
           /\ \A t \in Workers : NeverBegan(t)' = NeverBegan(t)
<1>1. \A t \in Workers : NeverBegan(t)' = NeverBegan(t)
  BY DEF workers, NeverBegan
<1> QED
  BY <1>1 DEF workers, Working, Holders, Held

(* It leaves the count of writers right as long as nobody touches the         *)
(* semaphore.                                                                 *)
LEMMA WriterBoundsStill ==
    ASSUME UNCHANGED workers, UNCHANGED nwrite
    PROVE  /\ WriterBounds => WriterBounds'
           /\ WritersCounted => WritersCounted'
BY WorkersStill DEF WriterBounds, WritersCounted, workers

(* The thread of a buffer writes only what was flushed.                        *)
LEMMA WhoWrites ==
    ASSUME Inv, NEW b \in Buffers,
           bg[b] \in {"nwrite", "writing"} \/ (go[b] > 0 /\ ~kill[b])
    PROVE  /\ Running /\ WritersCounted
           /\ (~stop /\ Filling /\ b = buf_back) \/ (stop /\ Last /\ b = buf)
           /\ Flushed(b) /\ UnderWay(b)
           /\ area[b].top = Written /\ AllOk
           /\ filled[b] \cup Held(b) = Area(b)
           /\ bg[b] = "writing" => Holders(b) = {}
<1>1. buf \in Buffers /\ buf_back \in Buffers /\ b \in {buf, buf_back} /\ go[b] \in Nat
  BY BackFacts DEF Inv, TypeOK
<1>2. ~Quiet(b) /\ ~Complete(b)
  BY <1>1 DEF Quiet, Complete
<1>3. ~Ended
  <2> SUFFICES ASSUME Ended PROVE FALSE
    OBVIOUS
  <2>1. Killed(b)
    BY <1>2 DEF Ended
  <2> QED
    BY <2>1 DEF Killed
<1>4. Running /\ ~First /\ ~Failed
  BY <1>1, <1>2, <1>3 DEF Inv, Phase, First, Failed, Front
<1>5. (~stop /\ Filling /\ b = buf_back) \/ (stop /\ Last /\ b = buf)
  BY <1>1, <1>2, <1>4 DEF Running, Filling, Last, Front
<1>6. Flushed(b) /\ WritersCounted
  BY <1>5 DEF Filling, Last, Front
<1> QED
  BY <1>2, <1>4, <1>5, <1>6 DEF Flushed

(* The row up to which the image has been written is a number.                *)
LEMMA WrittenType ==
    ASSUME OutInOrder
    PROVE  Written \in Nat
<1>1. CASE out # <<>>
  <2>1. Len(out) \in 1 .. Len(out)
    BY <1>1, EmptySeq DEF OutInOrder
  <2>2. out[Len(out)] \in [top : Nat, height : Nat, ok : BOOLEAN]
    BY <2>1, ElementOfSeq DEF OutInOrder
  <2> QED
    BY <1>1, <2>2 DEF Written, Bottom
<1> QED
  BY <1>1 DEF Written

-----------------------------------------------------------------------------
(* A buffer's thread.                                                          *)

(* A step of the thread of b leaves the other buffer alone.                    *)
OtherStill(b) == \A c \in Buffers \ {b} : /\ go'[c] = go[c] /\ bg'[c] = bg[c] /\ done'[c] = done[c]
                                          /\ write_errno'[c] = write_errno[c]

(* What every step of a background thread has in common: it keeps the types,  *)
(* and does nothing to the other buffer.                                      *)
LEMMA BgTypeOK ==
    ASSUME Inv, NEW b \in Buffers, BgStep(b)
    PROVE  /\ TypeOK' /\ AreasOK' /\ MainOK' /\ WriterBounds' /\ OtherStill(b)
           /\ UNCHANGED <<position, nwrite, kill, filled, pool, workers, main, result>>
<1>1. /\ TypeOK /\ AreasOK /\ MainOK /\ WriterBounds
      /\ go[b] \in 0 .. 2 /\ done[b] \in 0 .. 1
  BY DEF Inv, TypeOK
<1>2. /\ UNCHANGED <<position, nwrite, kill, filled, pool, workers, main, result>>
      /\ OtherStill(b)
  BY <1>1 DEF BgStep, BgGo, WriteBegin, WriteEnd, BgGoto, flags, OtherStill, TypeOK
<1>3. /\ go' \in [Buffers -> 0 .. 2] /\ done' \in [Buffers -> 0 .. 1]
      /\ write_errno' \in [Buffers -> BOOLEAN]
      /\ bg' \in [Buffers -> {"go", "nwrite", "writing", "gone"}]
  <2>1. CASE BgGo(b)
    BY <1>1, <2>1 DEF BgGo, BgGoto, TypeOK, flags
  <2>2. CASE WriteBegin(b)
    BY <1>1, <2>2 DEF WriteBegin, BgGoto, TypeOK, flags
  <2>3. CASE WriteEnd(b)
    <3>1. done[b] = 0
      BY <2>3, WhoWrites DEF WriteEnd, UnderWay
    <3> QED
      BY <1>1, <2>3, <3>1 DEF WriteEnd, BgGoto, TypeOK
  <2> QED
    BY <2>1, <2>2, <2>3 DEF BgStep
<1>4. TypeOK'
  BY <1>1, <1>2, <1>3 DEF TypeOK, position, pool, workers
<1>5. AreasOK' /\ MainOK'
  BY <1>1, <1>2 DEF AreasOK, MainOK, Bottom, position, pool, workers
<1>6. WriterBounds'
  BY <1>1, <1>2, WriterBoundsStill
<1> QED
  BY <1>2, <1>4, <1>5, <1>6

(* The phase does not change when the buffer that is written gets on.          *)
LEMMA BgPhase ==
    ASSUME Inv, NEW b \in Buffers, BgStep(b),
           Running, WritersCounted,
           (~stop /\ Filling /\ b = buf_back) \/ (stop /\ Last /\ b = buf),
           Flushed(b)'
    PROVE  Phase'
<1>1. /\ UNCHANGED <<position, nwrite, kill, filled, pool, workers, main, result>>
      /\ OtherStill(b) /\ TypeOK
  BY BgTypeOK DEF Inv
<1>2. /\ buf \in Buffers /\ buf_back \in Buffers /\ buf # buf_back
      /\ buf' = buf /\ buf_back' = buf_back /\ UNCHANGED <<x, y, area, stop, filled>>
  BY <1>1, BackFacts DEF TypeOK, position, pool, buf_back
<1>3. \A c \in Buffers : Holders(c)' = Holders(c) /\ Held(c)' = Held(c)
  BY <1>1, WorkersStill
<1>4. WritersCounted'
  BY <1>1, WriterBoundsStill
<1>5. CASE ~stop /\ Filling /\ b = buf_back
  <2>1. Quiet(buf)'
    BY <1>1, <1>2, <1>5 DEF Filling, Front, Quiet, OtherStill
  <2>2. Taken' = Taken
    BY <1>2 DEF Taken, Area, Bottom
  <2>3. Front'
    BY <1>2, <1>3, <1>4, <1>5, <2>1, <2>2 DEF Filling, Front, Bottom
  <2>4. Filling'
    BY <1>2, <1>5, <2>3 DEF Filling, Bottom
  <2> QED
    BY <1>1, <2>4 DEF Running, Phase
<1>6. CASE stop /\ Last /\ b = buf
  <2>1. Quiet(buf_back)'
    BY <1>1, <1>2, <1>6 DEF Last, Quiet, OtherStill
  <2>2. Last'
    BY <1>2, <1>3, <1>4, <1>6, <2>1 DEF Last, Bottom
  <2> QED
    BY <1>1, <2>2 DEF Running, Phase
<1> QED
  BY <1>5, <1>6

(* The background thread is woken, to write or to exit.                       *)
LEMMA BgGoStep ==
    ASSUME Inv, NEW b \in Buffers, BgGo(b)
    PROVE  OutInOrder' /\ Phase'
<1>1. /\ UNCHANGED <<position, nwrite, kill, filled, pool, workers, main, result>>
      /\ OtherStill(b) /\ TypeOK /\ UNCHANGED <<done, write_errno, out>>
      /\ go[b] \in 0 .. 2 /\ go[b] > 0 /\ bg[b] = "go"
      /\ go'[b] = go[b] - 1 /\ bg'[b] = IF kill[b] THEN "gone" ELSE "nwrite"
  BY BgTypeOK DEF Inv, BgGo, BgStep, BgGoto, flags, TypeOK
<1>2. OutInOrder'
  BY <1>1 DEF Inv, OutInOrder, Bottom
<1>3. \A c \in Buffers : Holders(c)' = Holders(c) /\ Held(c)' = Held(c)
  BY <1>1, WorkersStill
<1>4. CASE ~kill[b]
  <2>1. Flushed(b)'
    <3>1. UnderWay(b) /\ area[b].top = Written /\ AllOk /\ filled[b] \cup Held(b) = Area(b)
      BY <1>1, <1>4, WhoWrites
    <3>2. UnderWay(b)' /\ bg'[b] # "writing"
      BY <1>1, <1>4, <3>1 DEF UnderWay
    <3> QED
      BY <1>1, <1>3, <3>1, <3>2 DEF Flushed, Written, AllOk, Area, Bottom, position
  <2> QED
    BY <1>1, <1>2, <1>4, <2>1, WhoWrites, BgPhase DEF BgStep
<1>5. CASE kill[b]
  <2>1. Ended
    BY <1>5 DEF Inv, Phase, Running
  <2>2. go[b] = 1
    BY <1>1, <1>5, <2>1 DEF Ended, Killed
  <2>3. Killed(b)'
    BY <1>1, <1>5, <2>2 DEF Killed
  <2>4. \A c \in Buffers \ {b} : (Killed(c)' <=> Killed(c)) /\ (Quiet(c)' <=> Quiet(c))
    BY <1>1 DEF OtherStill, Killed, Quiet
  <2>5. \A c \in Buffers : /\ Holders(c)' = {} /\ done'[c] = 0
                           /\ Killed(c)' \/ (~kill'[c] /\ Quiet(c)')
    BY <1>1, <1>3, <2>1, <2>3, <2>4 DEF Ended
  <2> QED
    BY <1>1, <1>2, <2>1, <2>5
    DEF Ended, Phase, Written, AllButLast, Bottom, position, pool, buf_back
<1> QED
  BY <1>2, <1>4, <1>5
(* It has found all the workers gone from the buffer and begins to write.     *)
LEMMA WriteBeginStep ==
    ASSUME Inv, NEW b \in Buffers, WriteBegin(b)
    PROVE  OutInOrder' /\ Phase'
<1>1. /\ UNCHANGED <<position, nwrite, kill, filled, pool, workers, main, result>>
      /\ TypeOK /\ UNCHANGED <<go, done, write_errno, out>>
      /\ bg[b] = "nwrite" /\ bg'[b] = "writing" /\ nwrite[b] >= 0
  BY BgTypeOK DEF Inv, WriteBegin, BgStep, BgGoto, flags, TypeOK
<1>2. OutInOrder'
  BY <1>1 DEF Inv, OutInOrder, Bottom
<1>3. /\ Running /\ WritersCounted /\ UnderWay(b)
      /\ (~stop /\ Filling /\ b = buf_back) \/ (stop /\ Last /\ b = buf)
      /\ area[b].top = Written /\ AllOk /\ filled[b] \cup Held(b) = Area(b)
  BY <1>1, WhoWrites
<1>4. Holders(b) = {}
  <2>1. Holders(b) \in SUBSET Workers
    BY DEF Holders
  <2>2. Cardinality(Holders(b)) \in Nat /\ nwrite[b] = -Cardinality(Holders(b))
    BY <1>3, <2>1, SubsetsFinite DEF WritersCounted
  <2> QED
    BY <1>1, <2>1, <2>2, NobodyLeft
<1>5. Holders(b)' = Holders(b) /\ Held(b)' = Held(b)
  BY <1>1, WorkersStill
<1>6. UnderWay(b)'
  BY <1>1, <1>3 DEF UnderWay
<1>7. Flushed(b)'
  BY <1>1, <1>3, <1>4, <1>5, <1>6 DEF Flushed, Written, AllOk, Area, Bottom, position
<1> QED
  BY <1>2, <1>3, <1>7, BgPhase DEF BgStep

(* It has written, or failed to, and reports that it is done.                 *)
LEMMA WriteEndStep ==
    ASSUME Inv, NEW b \in Buffers, WriteEnd(b)
    PROVE  OutInOrder' /\ Phase'
<1>1. /\ UNCHANGED <<position, nwrite, kill, filled, pool, workers, main, result>>
      /\ TypeOK /\ UNCHANGED go /\ OutInOrder
      /\ bg[b] = "writing" /\ bg'[b] = "go" /\ done'[b] = done[b] + 1
  BY BgTypeOK DEF Inv, WriteEnd, BgStep, BgGoto, TypeOK
<1>2. /\ Running /\ WritersCounted /\ UnderWay(b)
      /\ (~stop /\ Filling /\ b = buf_back) \/ (stop /\ Last /\ b = buf)
      /\ area[b].top = Written /\ AllOk /\ Holders(b) = {}
  BY <1>1, WhoWrites
<1> DEFINE Section == [top : Nat, height : Nat, ok : BOOLEAN]
<1>3. PICK failed \in BOOLEAN :
          /\ write_errno' = [write_errno EXCEPT ![b] = failed]
          /\ out' = Append(out, [top |-> area[b].top, height |-> area[b].height, ok |-> ~failed])
  BY DEF WriteEnd
<1> DEFINE s == [top |-> area[b].top, height |-> area[b].height, ok |-> ~failed]
<1>4. /\ s \in Section /\ s.top = area[b].top /\ s.ok = ~failed
      /\ Bottom(s) = Bottom(area[b])
  <2>1. area[b] \in [top : 0 .. Ysize - 1, height : 0 .. nlines] /\ Ysize \in Nat /\ nlines \in Nat
    BY <1>1, SinkDiscAssumption DEF TypeOK
  <2> QED
    BY <2>1 DEF Bottom
<1>5. out \in Seq(Section) /\ Len(out) \in Nat /\ (out = <<>> <=> Len(out) = 0)
  BY <1>1, EmptySeq, LenProperties DEF OutInOrder
<1> HIDE DEF s, Section
<1>6. /\ out' \in Seq(Section) /\ out' # <<>> /\ Len(out') = Len(out) + 1
      /\ \A i \in 1 .. Len(out) : out'[i] = out[i]
      /\ out'[Len(out) + 1] = s
  <2>1. out' = Append(out, s)
    BY <1>3 DEF s
  <2> QED
    BY <1>4, <1>5, <2>1, AppendProperties
<1>7. Written' = Bottom(area[b])
  BY <1>4, <1>6 DEF Written, Bottom
<1>8. OutInOrder'
  <2>1. out'[1].top = 0
    <3>1. CASE out = <<>>
      BY <1>2, <1>4, <1>5, <1>6, <3>1 DEF Written
    <3>2. CASE out # <<>>
      <4>1. 1 \in 1 .. Len(out) /\ out'[1] = out[1]
        BY <1>5, <1>6, <3>2
      <4> QED
        BY <1>1, <3>2, <4>1 DEF OutInOrder
    <3> QED
      BY <3>1, <3>2
  <2>2. ASSUME NEW i \in 1 .. Len(out') - 1
        PROVE  out'[i + 1].top = Bottom(out'[i])
    <3>1. CASE i = Len(out)
      BY <1>2, <1>4, <1>5, <1>6, <3>1 DEF Written, Bottom
    <3>2. CASE i # Len(out)
      <4>1. i \in 1 .. Len(out) - 1 /\ i \in 1 .. Len(out) /\ i + 1 \in 1 .. Len(out)
        BY <1>5, <1>6, <3>2
      <4> QED
        BY <1>1, <1>6, <4>1 DEF OutInOrder, Bottom
    <3> QED
      BY <3>1, <3>2
  <2> QED
    BY <1>6, <2>1, <2>2 DEF OutInOrder, Bottom, Section
<1>9. Flushed(b)'
  <2>1. Complete(b)'
    BY <1>1, <1>2 DEF Complete, UnderWay
  <2>2. AllButLast'
    <3> SUFFICES ASSUME NEW i \in 1 .. Len(out') - 1 PROVE out'[i].ok
      BY DEF AllButLast
    <3>1. i \in 1 .. Len(out) /\ out'[i] = out[i]
      BY <1>5, <1>6
    <3> QED
      BY <1>2, <3>1 DEF AllOk
  <2>3. out'[Len(out')].ok = ~write_errno'[b]
    BY <1>1, <1>3, <1>4, <1>6 DEF TypeOK
  <2>4. Holders(b)' = {} /\ Bottom(area'[b]) = Bottom(area[b])
    BY <1>1, <1>2, WorkersStill DEF position
  <2>5. Bottom(area'[b]) = Written' /\ out' # <<>>
    BY <1>6, <1>7, <2>4
  <2> QED
    BY <2>1, <2>2, <2>3, <2>4, <2>5 DEF Flushed, Bottom
<1> QED
  BY <1>2, <1>8, <1>9, BgPhase DEF BgStep

(* The background threads keep the invariant.                                 *)
LEMMA BgInv ==
    ASSUME Inv, NEW b \in Buffers, BgStep(b)
    PROVE  Inv'
<1>1. TypeOK' /\ AreasOK' /\ MainOK' /\ WriterBounds'
  BY BgTypeOK
<1>2. OutInOrder' /\ Phase'
  BY BgGoStep, WriteBeginStep, WriteEndStep DEF BgStep
<1> QED
  BY <1>1, <1>2 DEF Inv

-----------------------------------------------------------------------------
(* The main thread.                                                            *)

(* The phase does not depend on where the main thread waits for the workers,   *)
(* nor on whether a tile is in its buffer or in somebody's hands.              *)
LEMMA PhaseStill ==
    ASSUME Phase, buf \in Buffers,
           UNCHANGED <<position, go, done, flags, bg, stop, out>>,
           \A b \in Buffers : /\ Holders(b)' \subseteq Holders(b)
                              /\ filled'[b] \cup Held(b)' = filled[b] \cup Held(b),
           WritersCounted => WritersCounted',
           \/ main' = main
           \/ /\ main \in {"tick", "progress", "finish", "done"}
              /\ main' \in {"tick", "progress", "finish", "done"}
    PROVE  Phase'
<1>1. /\ UNCHANGED <<buf, x, y, area, go, done, write_errno, kill, bg, stop, out>>
      /\ buf_back' = buf_back /\ buf_back \in Buffers
  BY BackFacts DEF position, flags, buf_back
<1>2. \A b \in Buffers : Holders(b) = {} => Holders(b)' = {}
  OBVIOUS
<1>3. \A b : /\ (Quiet(b)' <=> Quiet(b)) /\ (UnderWay(b)' <=> UnderWay(b))
             /\ (Complete(b)' <=> Complete(b)) /\ Area(b)' = Area(b) /\ (Killed(b)' <=> Killed(b))
  BY <1>1 DEF Quiet, UnderWay, Complete, Area, Bottom, Killed
<1>4. /\ Written' = Written /\ (AllOk' <=> AllOk) /\ (AllButLast' <=> AllButLast)
      /\ Taken' = Taken
  BY <1>1 DEF Written, AllOk, AllButLast, Taken, Area, Bottom
<1>5. \A b \in Buffers : Flushed(b) => Flushed(b)'
  BY <1>1, <1>2, <1>3, <1>4 DEF Flushed, Bottom
<1>6. Front => Front'
  BY <1>1, <1>3, <1>4 DEF Front, Bottom
<1>7. CASE Running
  <2>1. First => First'
    BY <1>1, <1>2, <1>3, <1>6 DEF First
  <2>2. Filling => Filling'
    BY <1>1, <1>5, <1>6 DEF Filling, Bottom
  <2>3. Failed => Failed'
    BY <1>1, <1>3 DEF Failed
  <2>4. Last => Last'
    BY <1>1, <1>2, <1>3, <1>5 DEF Last, Bottom
  <2> QED
    BY <1>1, <1>7, <2>1, <2>2, <2>3, <2>4 DEF Running, Phase
<1>8. CASE Ended
  BY <1>1, <1>2, <1>3, <1>4, <1>8 DEF Ended, Phase
<1> QED
  BY <1>7, <1>8 DEF Phase

(* The caller's waiting for ticks, progress and the end of the workers keeps  *)
(* the invariant.                                                             *)
LEMMA MainWaits ==
    ASSUME Inv, MainTick \/ MainProgress \/ MainFinish
    PROVE  Inv'
<1>1. /\ TypeOK /\ AreasOK /\ MainOK /\ OutInOrder /\ WriterBounds /\ Phase
      /\ Cardinality({t \in Workers : pc[t] = "gone"}) \in Nat
  BY SubsetsFinite DEF Inv
<1>2. /\ UNCHANGED <<position, go, nwrite, done, flags, bg, filled, stop, workers, out>>
      /\ main \in {"tick", "progress", "finish"}
      /\ main' \in {"tick", "progress", "finish", "done"}
      /\ error' \in BOOLEAN /\ tick' \in BOOLEAN /\ result' \in {0, -1}
      /\ finish' \in {0, finish}
      /\ main' = "done" => (result' = -1 <=> error')
  <2>1. CASE MainTick
    BY <1>1, <2>1 DEF MainTick, TypeOK
  <2>2. CASE MainProgress
    BY <1>1, <2>2 DEF MainProgress, TypeOK
  <2>3. CASE MainFinish
    BY <1>1, <2>3 DEF MainFinish, TypeOK
  <2> QED
    BY <2>1, <2>2, <2>3
<1>3. TypeOK'
  BY <1>1, <1>2, SubsetsFinite DEF TypeOK, position, flags, workers
<1>4. AreasOK' /\ OutInOrder'
  BY <1>1, <1>2 DEF AreasOK, OutInOrder, Bottom, position
<1>5. MainOK'
  BY <1>1, <1>2 DEF MainOK, workers
<1>6. WriterBounds'
  BY <1>1, <1>2, WriterBoundsStill
<1>7. Phase'
  <2>1. buf \in Buffers
    BY <1>1 DEF TypeOK
  <2>2. WritersCounted => WritersCounted'
    BY <1>2, WriterBoundsStill
  <2>3. \A b \in Buffers : Holders(b)' = Holders(b) /\ Held(b)' = Held(b)
    BY <1>2, WorkersStill
  <2> QED
    BY <1>1, <1>2, <2>1, <2>2, <2>3, PhaseStill
<1> QED
  BY <1>3, <1>4, <1>5, <1>6, <1>7 DEF Inv

(* The last write is waited for.                                               *)
LEMMA MainDoneInv ==
    ASSUME Inv, MainDone
    PROVE  Inv'
<1>1. /\ TypeOK /\ AreasOK /\ MainOK /\ OutInOrder /\ WriterBounds /\ Phase
      /\ buf \in Buffers /\ buf_back \in Buffers /\ buf # buf_back /\ Buffers = {buf, buf_back}
  BY BackFacts DEF Inv, TypeOK
<1>2. /\ UNCHANGED <<buf, x, y, area, go, nwrite, write_errno, kill, bg, filled, stop, error,
                     tick, finish, workers, result, out>>
      /\ main = "done" /\ main' = "kill" /\ done[buf] > 0
      /\ done' = [done EXCEPT ![buf] = @ - 1]
  BY DEF MainDone, position, flags, pool
<1>3. done' \in [Buffers -> 0 .. 1]
  BY <1>1, <1>2 DEF TypeOK
<1>4. TypeOK'
  BY <1>1, <1>2, <1>3 DEF TypeOK, workers
<1>5. AreasOK' /\ OutInOrder' /\ MainOK'
  BY <1>1, <1>2 DEF AreasOK, OutInOrder, MainOK, Bottom, workers
<1>6. WriterBounds'
  BY <1>1, <1>2, WriterBoundsStill
<1>7. Running /\ Last /\ Complete(buf)
  <2>1. Running
    BY <1>1, <1>2 DEF Phase, Ended
  <2>2. ~Quiet(buf) /\ ~UnderWay(buf)
    BY <1>2 DEF Quiet, UnderWay
  <2>3. Last
    BY <1>1, <2>1, <2>2 DEF Running, First, Filling, Failed, Front
  <2> QED
    BY <2>1, <2>2, <2>3 DEF Last, Flushed
<1>8. /\ Bottom(area[buf]) = Written /\ AllButLast
      /\ Holders(buf) = {} /\ Holders(buf_back) = {}
      /\ Written = Ysize /\ stop /\ \A b \in Buffers : ~kill[b]
      /\ Quiet(buf_back)
  BY <1>7 DEF Last, Flushed, UnderWay, Complete, Running
<1>9. \A b \in Buffers : Holders(b)' = {} /\ Quiet(b)' /\ ~kill'[b]
  <2>1. \A b \in Buffers : Holders(b)' = {}
    BY <1>1, <1>2, <1>8, WorkersStill
  <2>2. Quiet(buf)' /\ Quiet(buf_back)'
    BY <1>1, <1>2, <1>7, <1>8 DEF Quiet, Complete, TypeOK, buf_back
  <2>3. buf' = buf /\ buf_back' = buf_back
    BY <1>2 DEF buf_back
  <2>4. ASSUME NEW b \in Buffers PROVE go'[b] = 0 /\ bg'[b] = "go" /\ done'[b] = 0
    BY <1>1, <2>2, <2>3 DEF Quiet
  <2> QED
    BY <1>2, <1>8, <2>1, <2>4 DEF Quiet
<1>10. Ended'
  <2>1. Written' = Written /\ (AllButLast' <=> AllButLast) /\ buf_back' \in Buffers
    BY <1>1, <1>2 DEF Written, AllButLast, Bottom, buf_back
  <2> QED
    BY <1>2, <1>8, <1>9, <2>1 DEF Ended, Quiet
<1> QED
  BY <1>4, <1>5, <1>6, <1>10 DEF Inv, Phase

(* wbuffer_free keeps the invariant.                                          *)
LEMMA MainEnds ==
    ASSUME Inv, MainJoin \/ \E b \in Buffers : MainKill(b)
    PROVE  Inv'
<1>1. /\ TypeOK /\ AreasOK /\ MainOK /\ OutInOrder /\ WriterBounds /\ Phase
      /\ buf \in Buffers /\ buf_back \in Buffers /\ buf # buf_back /\ Buffers = {buf, buf_back}
  BY BackFacts DEF Inv, TypeOK
<1>2. /\ UNCHANGED <<buf, x, y, area, nwrite, done, write_errno, bg, filled, stop, error,
                     tick, finish, workers, result, out>>
      /\ main \in {"kill", "join"} /\ main' \in {"kill", "join", "returned"}
  BY DEF MainJoin, MainKill, position, flags, pool
<1>3. Ended
  BY <1>1, <1>2 DEF Phase, Running
<1>4. /\ go' \in [Buffers -> 0 .. 2] /\ kill' \in [Buffers -> BOOLEAN]
      /\ \A b \in Buffers : Killed(b)' \/ (~kill'[b] /\ Quiet(b)')
      /\ main' = "kill" => ~kill'[buf_back]
  <2>1. CASE MainJoin
    BY <1>1, <1>2, <1>3, <2>1 DEF MainJoin, Ended, Killed, Quiet, TypeOK, flags
  <2>2. CASE \E b \in Buffers : MainKill(b)
    <3>1. PICK b \in Buffers : MainKill(b)
      BY <2>2
    <3>2. /\ kill' = [kill EXCEPT ![b] = TRUE] /\ go' = [go EXCEPT ![b] = @ + 1]
          /\ main' = "join" /\ main = "kill" /\ b = IF kill[buf] THEN buf_back ELSE buf
      BY <3>1 DEF MainKill
    <3>3. ~kill[b] /\ Quiet(b)
      BY <1>1, <1>3, <3>2 DEF Ended, Killed
    <3>4. Killed(b)'
      BY <1>1, <1>2, <3>2, <3>3 DEF Killed, Quiet, TypeOK
    <3>5. \A c \in Buffers \ {b} : (Killed(c)' <=> Killed(c)) /\ (Quiet(c)' <=> Quiet(c))
                                   /\ kill'[c] = kill[c]
      BY <1>1, <1>2, <3>2 DEF Killed, Quiet, TypeOK
    <3>6. go' \in [Buffers -> 0 .. 2] /\ kill' \in [Buffers -> BOOLEAN]
      BY <1>1, <3>2, <3>3 DEF TypeOK, Quiet
    <3> QED
      BY <1>3, <3>2, <3>4, <3>5, <3>6 DEF Ended
  <2> QED
    BY <1>2, <2>1, <2>2
<1>5. TypeOK'
  BY <1>1, <1>2, <1>4 DEF TypeOK, workers
<1>6. AreasOK' /\ OutInOrder' /\ MainOK'
  BY <1>1, <1>2 DEF AreasOK, OutInOrder, MainOK, Bottom, workers
<1>7. WriterBounds'
  BY <1>1, <1>2, WriterBoundsStill
<1>8. \A b \in Buffers : Holders(b)' = {} /\ done'[b] = 0
  BY <1>2, <1>3, WorkersStill DEF Ended
<1>9. Ended'
  <2>1. Written' = Written /\ (AllButLast' <=> AllButLast) /\ buf_back' = buf_back
    BY <1>2 DEF Written, AllButLast, Bottom, buf_back
  <2> QED
    BY <1>2, <1>3, <1>4, <1>8, <2>1 DEF Ended
<1> QED
  BY <1>5, <1>6, <1>7, <1>9 DEF Inv, Phase

(* The caller keeps the invariant.                                            *)
LEMMA MainInv ==
    ASSUME Inv, MainStep
    PROVE  Inv'
BY MainWaits, MainDoneInv, MainEnds DEF MainStep
-----------------------------------------------------------------------------
(* A worker on its way from one place to the next, or before it has a state.   *)

Walk(t) == Idle(t) \/ StartFails(t) \/ Tick(t) \/ Loop(t) \/ Exit(t)

(* A worker on its way keeps the invariant.                                   *)
LEMMA WalkInv ==
    ASSUME Inv, NEW t \in Workers, Walk(t)
    PROVE  Inv'
<1>1. /\ TypeOK /\ AreasOK /\ MainOK /\ OutInOrder /\ WriterBounds /\ Phase
  BY DEF Inv
<1>2. /\ UNCHANGED <<position, go, nwrite, done, flags, bg, filled, stop, error, pos, wbuf,
                     main, result, out>>
      /\ \E label \in {"unit", "loop", "next", "gone"} : pc' = [pc EXCEPT ![t] = label]
      /\ pc[t] \in {"unit", "loop", "next"}
      /\ \/ thrError' = thrError
         \/ thrError' = [thrError EXCEPT ![t] = TRUE] /\ NeverBegan(t)
      /\ tick' \in BOOLEAN
      /\ \/ finish' = finish /\ pc'[t] # "gone"
         \/ finish' = finish + 1 /\ pc'[t] = "gone"
  <2>1. CASE Idle(t)
    BY <1>1, <2>1 DEF Idle, Goto, TypeOK, pool
  <2>2. CASE StartFails(t)
    BY <1>1, <2>2 DEF StartFails, Allocating, Goto, TypeOK, pool, NeverBegan
  <2>3. CASE Tick(t)
    BY <1>1, <2>3 DEF Tick, Goto, TypeOK
  <2>4. CASE Loop(t)
    BY <1>1, <2>4 DEF Loop, Goto, TypeOK, pool
  <2>5. CASE Exit(t)
    BY <1>1, <2>5 DEF Exit, Goto, TypeOK
  <2> QED
    BY <2>1, <2>2, <2>3, <2>4, <2>5 DEF Walk
<1>3. /\ pc' \in [Workers -> {"unit", "work", "loop", "next", "gone"}]
      /\ thrError' \in [Workers -> BOOLEAN]
      /\ \A u \in Workers : (pc'[u] = "work" <=> pc[u] = "work")
      /\ \A u \in Workers \ {t} : pc'[u] = pc[u]
      /\ \A u \in Workers : NeverBegan(u)' = NeverBegan(u)
      /\ \A u \in Workers : ~NeverBegan(u) => thrError'[u] = thrError[u]
  BY <1>1, <1>2 DEF TypeOK, NeverBegan
<1>4. \A b : Working(b)' = Working(b) /\ Holders(b)' = Holders(b) /\ Held(b)' = Held(b)
  BY <1>2, <1>3 DEF Working, Holders, Held
<1>5. WriterBounds' /\ (WritersCounted => WritersCounted')
  BY <1>1, <1>2, <1>3, <1>4 DEF WriterBounds, WritersCounted
<1>6. MainOK' /\ finish' \in 0 .. Cardinality(Workers)
  <2> DEFINE Gone == {u \in Workers : pc[u] = "gone"}
  <2>1. Gone \in SUBSET Workers /\ t \notin Gone
    BY <1>2
  <2>2. Gone' = IF pc'[t] = "gone" THEN Gone \cup {t} ELSE Gone
    BY <1>2, <1>3
  <2> HIDE DEF Gone
  <2>3. Gone' \in SUBSET Workers
    BY <2>1, <2>2
  <2>4. finish' <= Cardinality(Gone') /\ finish' \in Nat
    <3>1. finish <= Cardinality(Gone) /\ finish \in Nat /\ Cardinality(Gone) \in Nat
      BY <1>1, <2>1, SubsetsFinite DEF MainOK, TypeOK, Gone
    <3>2. Cardinality(Gone \cup {t}) = Cardinality(Gone) + 1
      BY <2>1, OneMore
    <3> QED
      BY <1>2, <2>2, <3>1, <3>2
  <2>5. finish' \in 0 .. Cardinality(Workers)
    BY <2>3, <2>4, SubsetsFinite
  <2> QED
    BY <1>1, <1>2, <2>4, <2>5 DEF MainOK, Gone
<1>7. TypeOK'
  BY <1>1, <1>2, <1>3, <1>6 DEF TypeOK, position, flags
<1>8. AreasOK' /\ OutInOrder'
  BY <1>1, <1>2 DEF AreasOK, OutInOrder, Bottom, position
<1>9. Phase'
  <2>1. buf \in Buffers
    BY <1>1 DEF TypeOK
  <2> QED
    BY <1>1, <1>2, <1>4, <1>5, <2>1, PhaseStill
<1> QED
  BY <1>5, <1>6, <1>7, <1>8, <1>9 DEF Inv

-----------------------------------------------------------------------------
(* A worker on a tile.                                                         *)

(* The semaphore of the writers stays between minus the number of workers and *)
(* zero.                                                                      *)
LEMMA NwriteType ==
    ASSUME WriterBounds', nwrite' \in [Buffers -> Int]
    PROVE  nwrite' \in [Buffers -> -Cardinality(Workers) .. 0]
<1>1. ASSUME NEW b \in Buffers PROVE nwrite'[b] \in -Cardinality(Workers) .. 0
  <2>1. Working(b)' \in SUBSET Workers /\ Holders(b)' \in SUBSET Workers
    BY DEF Working, Holders
  <2>2. /\ Cardinality(Working(b)') \in Nat /\ Cardinality(Holders(b)') \in Nat
        /\ Cardinality(Holders(b)') <= Cardinality(Workers) /\ Cardinality(Workers) \in Nat
    BY <2>1, SubsetsFinite
  <2>3. /\ nwrite'[b] <= -Cardinality(Working(b)') /\ nwrite'[b] >= -Cardinality(Holders(b)')
        /\ nwrite'[b] \in Int
    BY DEF WriterBounds
  <2> QED
    BY <2>2, <2>3
<1> QED
  BY <1>1

(* A worker that has filled its tile keeps the invariant.                     *)
LEMMA WorkInv ==
    ASSUME Inv, NEW t \in Workers, Work(t)
    PROVE  Inv'
<1>1. /\ TypeOK /\ AreasOK /\ MainOK /\ OutInOrder /\ WriterBounds /\ Phase
      /\ wbuf[t] \in Buffers /\ buf \in Buffers
  BY DEF Inv, TypeOK
<1>2. PICK b \in Buffers : b = wbuf[t]
  BY <1>1
<1>3. /\ UNCHANGED <<position, go, done, flags, bg, pool, thrError, pos, wbuf, main, result, out>>
      /\ pc[t] = "work" /\ pc' = [pc EXCEPT ![t] = "loop"]
      /\ filled' = [filled EXCEPT ![b] = @ \cup {pos[t]}]
      /\ nwrite' = [nwrite EXCEPT ![b] = @ + 1]
  BY <1>2 DEF Work, Goto
<1>4. /\ t \in Holders(b) /\ t \in Working(b) /\ ~thrError[t]
      /\ \A c \in Buffers : Working(c) \in SUBSET Workers /\ Holders(c) \in SUBSET Workers
  BY <1>1, <1>2, <1>3 DEF Holders, Working, WriterBounds
<1>5. /\ Working(b)' = Working(b) \ {t} /\ Holders(b)' = Holders(b) \ {t}
      /\ \A c \in Buffers \ {b} : Working(c)' = Working(c) /\ Holders(c)' = Holders(c)
  BY <1>1, <1>2, <1>3, <1>4 DEF Working, Holders, NeverBegan, TypeOK
<1>6. \A c \in Buffers : filled'[c] \cup Held(c)' = filled[c] \cup Held(c)
  <2>1. pos' = pos
    BY <1>3
  <2>2. filled'[b] = filled[b] \cup {pos[t]}
    BY <1>1, <1>3 DEF TypeOK
  <2>3. Held(b)' = {pos[u] : u \in Holders(b) \ {t}}
    BY <1>5, <2>1 DEF Held
  <2>4. filled'[b] \cup Held(b)' = filled[b] \cup Held(b)
    BY <1>4, <2>2, <2>3 DEF Held
  <2>5. \A c \in Buffers \ {b} : filled'[c] = filled[c] /\ Held(c)' = Held(c)
    BY <1>1, <1>3, <1>5, <2>1 DEF TypeOK, Held
  <2> QED
    BY <2>4, <2>5
<1>7. /\ nwrite' \in [Buffers -> Int] /\ nwrite'[b] = nwrite[b] + 1
      /\ \A c \in Buffers \ {b} : nwrite'[c] = nwrite[c]
      /\ \A c \in Buffers : nwrite[c] \in Int
  BY <1>1, <1>3, SubsetsFinite DEF TypeOK
<1>8. /\ Cardinality(Working(b)') = Cardinality(Working(b)) - 1
      /\ Cardinality(Holders(b)') = Cardinality(Holders(b)) - 1
      /\ Cardinality(Working(b)) \in Nat /\ Cardinality(Holders(b)) \in Nat
  BY <1>4, <1>5, OneLess, SubsetsFinite
<1>9. WriterBounds'
  <2>1. \A u \in Workers : pc'[u] = "work" => ~NeverBegan(u)' /\ ~thrError'[u]
    BY <1>1, <1>3 DEF WriterBounds, NeverBegan, TypeOK
  <2>2. \A c \in Buffers : /\ nwrite[c] <= -Cardinality(Working(c))
                           /\ nwrite[c] >= -Cardinality(Holders(c))
    BY <1>1 DEF WriterBounds
  <2>3. /\ nwrite'[b] <= -Cardinality(Working(b)')
        /\ nwrite'[b] >= -Cardinality(Holders(b)')
    BY <1>7, <1>8, <2>2
  <2>4. \A c \in Buffers : /\ nwrite'[c] <= -Cardinality(Working(c)')
                           /\ nwrite'[c] >= -Cardinality(Holders(c)')
    BY <1>5, <1>7, <2>2, <2>3
  <2> QED
    BY <2>1, <2>4 DEF WriterBounds
<1>10. WritersCounted => WritersCounted'
  <2> SUFFICES ASSUME \A c \in Buffers : nwrite[c] = -Cardinality(Holders(c)), NEW c \in Buffers
               PROVE  nwrite'[c] = -Cardinality(Holders(c)')
    BY DEF WritersCounted
  <2>1. CASE c = b
    BY <1>7, <1>8, <2>1
  <2>2. CASE c # b
    BY <1>5, <1>7, <2>2
  <2> QED
    BY <2>1, <2>2
<1>11. TypeOK'
  <2>1. nwrite' \in [Buffers -> -Cardinality(Workers) .. 0]
    BY <1>7, <1>9, NwriteType
  <2>2. filled' \in [Buffers -> SUBSET Tiles]
    <3>1. pos[t] \in Tiles /\ filled[b] \in SUBSET Tiles
      BY <1>1 DEF TypeOK
    <3> QED
      BY <1>1, <1>3, <3>1 DEF TypeOK
  <2>3. pc' \in [Workers -> {"unit", "work", "loop", "next", "gone"}]
    BY <1>1, <1>3 DEF TypeOK
  <2>4. Tiles' = Tiles
    BY DEF Tiles
  <2> QED
    BY <1>1, <1>3, <2>1, <2>2, <2>3, <2>4 DEF TypeOK, position, flags, pool
<1>12. AreasOK' /\ OutInOrder'
  BY <1>1, <1>3 DEF AreasOK, OutInOrder, Bottom, position
<1>13. MainOK'
  <2>1. {u \in Workers : pc'[u] = "gone"} = {u \in Workers : pc[u] = "gone"}
    BY <1>1, <1>3 DEF TypeOK
  <2> QED
    BY <1>1, <1>3, <2>1 DEF MainOK, pool
<1>14. Phase'
  BY <1>1, <1>3, <1>5, <1>6, <1>10, PhaseStill DEF pool
<1> QED
  BY <1>9, <1>11, <1>12, <1>13, <1>14 DEF Inv
(* A worker that failed keeps it: it remains a holder for ever, and nwrite    *)
(* never gets back to 0.                                                      *)
LEMMA WorkFailsInv ==
    ASSUME Inv, NEW t \in Workers, WorkFails(t)
    PROVE  Inv'
<1>1. /\ TypeOK /\ AreasOK /\ MainOK /\ OutInOrder /\ WriterBounds /\ Phase
      /\ wbuf[t] \in Buffers /\ buf \in Buffers
  BY DEF Inv, TypeOK
<1>2. /\ UNCHANGED <<position, go, nwrite, done, flags, bg, filled, pool, pos, wbuf, main,
                     result, out>>
      /\ pc[t] = "work" /\ pc' = [pc EXCEPT ![t] = "loop"]
      /\ thrError' = [thrError EXCEPT ![t] = TRUE]
  BY DEF WorkFails, Goto
<1>3. /\ pc' \in [Workers -> {"unit", "work", "loop", "next", "gone"}]
      /\ thrError' \in [Workers -> BOOLEAN]
      /\ pc'[t] = "loop" /\ thrError'[t]
      /\ \A u \in Workers \ {t} : pc'[u] = pc[u] /\ thrError'[u] = thrError[u]
      /\ \A u \in Workers : NeverBegan(u)' = NeverBegan(u)
  BY <1>1, <1>2 DEF TypeOK, NeverBegan
<1>4. \A c \in Buffers : /\ Working(c)' \in SUBSET Working(c) /\ Working(c) \in SUBSET Workers
                         /\ Holders(c)' = Holders(c) /\ Held(c)' = Held(c)
  BY <1>2, <1>3 DEF Working, Holders, Held
<1>5. WriterBounds' /\ (WritersCounted => WritersCounted')
  <2>1. \A u \in Workers : pc'[u] = "work" => ~NeverBegan(u)' /\ ~thrError'[u]
    BY <1>1, <1>3 DEF WriterBounds
  <2>2. ASSUME NEW c \in Buffers
        PROVE  nwrite'[c] <= -Cardinality(Working(c)') /\ nwrite'[c] >= -Cardinality(Holders(c)')
    <3>1. IsFiniteSet(Working(c)) /\ Cardinality(Working(c)) \in Nat
      BY <1>4, SubsetsFinite
    <3>2. Cardinality(Working(c)') <= Cardinality(Working(c)) /\ Cardinality(Working(c)') \in Nat
      BY <1>4, <3>1, FS_Subset, FS_CardinalityType
    <3>3. /\ nwrite[c] <= -Cardinality(Working(c)) /\ nwrite[c] >= -Cardinality(Holders(c))
          /\ nwrite[c] \in Int /\ nwrite'[c] = nwrite[c]
      BY <1>1, <1>2, SubsetsFinite DEF WriterBounds, TypeOK
    <3> QED
      BY <1>4, <3>1, <3>2, <3>3
  <2> QED
    BY <1>2, <1>4, <2>1, <2>2 DEF WriterBounds, WritersCounted
<1>6. TypeOK'
  BY <1>1, <1>2, <1>3 DEF TypeOK, position, flags, pool
<1>7. AreasOK' /\ OutInOrder'
  BY <1>1, <1>2 DEF AreasOK, OutInOrder, Bottom, position
<1>8. MainOK'
  <2>1. {u \in Workers : pc'[u] = "gone"} = {u \in Workers : pc[u] = "gone"}
    BY <1>2, <1>3
  <2> QED
    BY <1>1, <1>2, <2>1 DEF MainOK, pool
<1>9. Phase'
  BY <1>1, <1>2, <1>4, <1>5, PhaseStill DEF pool
<1> QED
  BY <1>5, <1>6, <1>7, <1>8, <1>9 DEF Inv

-----------------------------------------------------------------------------
(* A worker takes a tile.                                                      *)

(* A worker that takes a tile becomes one of the holders of its buffer, and   *)
(* nobody else changes.                                                       *)
LEMMA TakeTileStep ==
    ASSUME TypeOK, WriterBounds, NEW t \in Workers, pc[t] = "unit", ~thrError[t],
           NEW b \in Buffers, NEW col \in 0 .. Xsize - 1, NEW row \in 0 .. Ysize,
           TakeTile(t, b, col, row), UNCHANGED thrError
    PROVE  /\ WriterBounds' /\ (WritersCounted => WritersCounted')
           /\ Held(b)' = Held(b) \cup {<<col, row>>}
           /\ \A c \in Buffers \ {b} : Held(c)' = Held(c) /\ Holders(c)' = Holders(c)
           /\ nwrite' \in [Buffers -> -Cardinality(Workers) .. 0]
           /\ pc' \in [Workers -> {"unit", "work", "loop", "next", "gone"}]
           /\ pos' \in [Workers -> Tiles] /\ wbuf' \in [Workers -> Buffers]
           /\ {u \in Workers : pc'[u] = "gone"} = {u \in Workers : pc[u] = "gone"}
<1>1. /\ pos' = [pos EXCEPT ![t] = <<col, row>>] /\ wbuf' = [wbuf EXCEPT ![t] = b]
      /\ nwrite' = [nwrite EXCEPT ![b] = @ - 1]
      /\ pc' = [pc EXCEPT ![t] = "work"] /\ thrError' = thrError
  BY DEF TakeTile, Goto
<1>2. /\ pc' \in [Workers -> {"unit", "work", "loop", "next", "gone"}]
      /\ wbuf' \in [Workers -> Buffers]
      /\ pc'[t] = "work" /\ wbuf'[t] = b
      /\ \A u \in Workers \ {t} : pc'[u] = pc[u] /\ wbuf'[u] = wbuf[u]
  BY <1>1 DEF TypeOK
<1>3. /\ pos' \in [Workers -> Tiles]
      /\ pos'[t] = <<col, row>> /\ ~NeverBegan(t)'
      /\ \A u \in Workers \ {t} : pos'[u] = pos[u] /\ NeverBegan(u)' = NeverBegan(u)
  <2>1. <<col, row>> \in Tiles /\ row # None
    BY SinkDiscAssumption DEF Tiles, None
  <2> QED
    BY <1>1, <2>1 DEF TypeOK, NeverBegan
<1>4. \A c \in Buffers : /\ t \notin Holders(c) /\ t \notin Working(c)
                         /\ Holders(c) \in SUBSET Workers /\ Working(c) \in SUBSET Workers
  BY DEF Holders, Working
<1>5. /\ Working(b)' = Working(b) \cup {t} /\ Holders(b)' = Holders(b) \cup {t}
      /\ \A c \in Buffers \ {b} : Working(c)' = Working(c) /\ Holders(c)' = Holders(c)
  BY <1>1, <1>2, <1>3, <1>4 DEF Working, Holders
<1>6. Held(b)' = Held(b) \cup {<<col, row>>}
  <2>1. Held(b)' = {pos'[u] : u \in Holders(b) \cup {t}}
    BY <1>5 DEF Held
  <2>2. \A u \in Holders(b) : pos'[u] = pos[u]
    BY <1>3, <1>4
  <2> QED
    BY <1>3, <2>1, <2>2 DEF Held
<1>7. \A c \in Buffers \ {b} : Held(c)' = Held(c)
  <2> SUFFICES ASSUME NEW c \in Buffers \ {b} PROVE Held(c)' = Held(c)
    OBVIOUS
  <2>1. \A u \in Holders(c) : pos'[u] = pos[u]
    BY <1>3, <1>4
  <2> QED
    BY <1>5, <2>1 DEF Held
<1>8. /\ nwrite' \in [Buffers -> Int] /\ nwrite'[b] = nwrite[b] - 1
      /\ \A c \in Buffers \ {b} : nwrite'[c] = nwrite[c]
      /\ \A c \in Buffers : nwrite[c] \in Int
  BY <1>1, SubsetsFinite DEF TypeOK
<1>9. /\ Cardinality(Working(b)') = Cardinality(Working(b)) + 1
      /\ Cardinality(Holders(b)') = Cardinality(Holders(b)) + 1
      /\ Cardinality(Working(b)) \in Nat /\ Cardinality(Holders(b)) \in Nat
  BY <1>4, <1>5, OneMore, SubsetsFinite
<1>10. WriterBounds'
  <2>1. \A u \in Workers : pc'[u] = "work" => ~NeverBegan(u)' /\ ~thrError'[u]
    BY <1>1, <1>2, <1>3 DEF WriterBounds
  <2>2. \A c \in Buffers : /\ nwrite[c] <= -Cardinality(Working(c))
                           /\ nwrite[c] >= -Cardinality(Holders(c))
    BY DEF WriterBounds
  <2>3. /\ nwrite'[b] <= -Cardinality(Working(b)')
        /\ nwrite'[b] >= -Cardinality(Holders(b)')
    BY <1>8, <1>9, <2>2
  <2>4. \A c \in Buffers : /\ nwrite'[c] <= -Cardinality(Working(c)')
                           /\ nwrite'[c] >= -Cardinality(Holders(c)')
    BY <1>5, <1>8, <2>2, <2>3
  <2> QED
    BY <2>1, <2>4 DEF WriterBounds
<1>11. WritersCounted => WritersCounted'
  <2> SUFFICES ASSUME \A c \in Buffers : nwrite[c] = -Cardinality(Holders(c)), NEW c \in Buffers
               PROVE  nwrite'[c] = -Cardinality(Holders(c)')
    BY DEF WritersCounted
  <2>1. CASE c = b
    BY <1>8, <1>9, <2>1
  <2>2. CASE c # b
    BY <1>5, <1>8, <2>2
  <2> QED
    BY <2>1, <2>2
<1>12. {u \in Workers : pc'[u] = "gone"} = {u \in Workers : pc[u] = "gone"}
  BY <1>2
<1>13. nwrite' \in [Buffers -> -Cardinality(Workers) .. 0]
  BY <1>8, <1>10, NwriteType
<1> QED
  BY <1>2, <1>3, <1>5, <1>6, <1>7, <1>10, <1>11, <1>12, <1>13
(* What the invariant says of the two buffers and of the place in the image.  *)
LEMMA FrontFacts ==
    ASSUME Inv
    PROVE  /\ Ysize \in Nat /\ Xsize \in Nat /\ Xsize > 0
           /\ buf \in Buffers /\ buf_back \in Buffers /\ buf # buf_back /\ Buffers = {buf, buf_back}
           /\ x \in 0 .. Xsize /\ y \in 0 .. Ysize
           /\ \A b \in Buffers : /\ area[b].top \in 0 .. Ysize - 1 /\ area[b].height \in Nat
                                 /\ Bottom(area[b]) \in 0 .. Ysize
           /\ ~stop => Running /\ (First \/ Filling \/ Failed)
<1>1. TypeOK /\ AreasOK /\ Phase
  BY DEF Inv
<1>2. /\ Ysize \in Nat /\ Xsize \in Nat /\ Xsize > 0 /\ nlines \in Nat
  BY SinkDiscAssumption
<1>3. ASSUME NEW b \in Buffers
      PROVE  /\ area[b].top \in 0 .. Ysize - 1 /\ area[b].height \in Nat
             /\ Bottom(area[b]) \in 0 .. Ysize
  <2>1. area[b] \in [top : 0 .. Ysize - 1, height : 0 .. nlines]
    BY <1>1 DEF TypeOK
  <2> QED
    BY <1>1, <1>2, <2>1 DEF AreasOK, Bottom
<1> QED
  BY <1>1, <1>2, <1>3, BackFacts DEF TypeOK, Phase, Running, Ended, Last

(* Taking the next tile of the front buffer keeps the invariant.              *)
LEMMA AllocateInv ==
    ASSUME Inv, NEW t \in Workers, Allocate(t)
    PROVE  Inv'
<1>1. /\ TypeOK /\ AreasOK /\ MainOK /\ OutInOrder /\ WriterBounds /\ Phase
  BY DEF Inv
<1>2. /\ UNCHANGED <<buf, area, go, done, flags, bg, filled, pool, thrError, main, result, out>>
      /\ pc[t] = "unit" /\ ~thrError[t] /\ ~stop
  BY DEF Allocate, Allocating
<1>3. PICK col \in 0 .. Xsize - 1, row \in 0 .. Ysize :
          /\ TakeTile(t, buf, col, row) /\ x' = col + 1 /\ y' = row
          /\ \/ x = col /\ y = row
             \/ x = Xsize /\ col = 0 /\ row = y + 1 /\ row < Bottom(area[buf])
  <2>1. CASE x < Xsize /\ TakeTile(t, buf, x, y)
    <3>1. x \in 0 .. Xsize - 1 /\ y \in 0 .. Ysize
      BY <2>1, FrontFacts
    <3>2. x' = x + 1 /\ y' = y
      BY <2>1 DEF TakeTile
    <3> QED
      BY <2>1, <3>1, <3>2
  <2>2. CASE x >= Xsize /\ y + 1 < Bottom(area[buf]) /\ TakeTile(t, buf, 0, y + 1)
    <3>1. x = Xsize /\ 0 \in 0 .. Xsize - 1 /\ y + 1 \in 0 .. Ysize
      BY <2>2, FrontFacts
    <3>2. x' = 0 + 1 /\ y' = y + 1
      BY <2>2 DEF TakeTile
    <3> QED
      BY <2>2, <3>1, <3>2
  <2> QED
    BY <2>1, <2>2 DEF Allocate
<1>4. /\ WriterBounds' /\ (WritersCounted => WritersCounted')
      /\ Held(buf)' = Held(buf) \cup {<<col, row>>}
      /\ \A c \in Buffers \ {buf} : Held(c)' = Held(c) /\ Holders(c)' = Holders(c)
      /\ nwrite' \in [Buffers -> -Cardinality(Workers) .. 0]
      /\ pc' \in [Workers -> {"unit", "work", "loop", "next", "gone"}]
      /\ pos' \in [Workers -> Tiles] /\ wbuf' \in [Workers -> Buffers]
      /\ {u \in Workers : pc'[u] = "gone"} = {u \in Workers : pc[u] = "gone"}
  BY <1>1, <1>2, <1>3, FrontFacts, TakeTileStep
<1>5. TypeOK'
  <2>1. x' \in 0 .. Xsize /\ y' \in 0 .. Ysize
    BY <1>3, FrontFacts
  <2> QED
    BY <1>1, <1>2, <1>4, <2>1 DEF TypeOK, flags, pool
<1>6. AreasOK' /\ OutInOrder' /\ MainOK'
  BY <1>1, <1>2, <1>4 DEF AreasOK, OutInOrder, Bottom, MainOK, pool
<1>7. /\ buf' = buf /\ buf_back' = buf_back /\ stop' = stop
      /\ buf \in Buffers /\ buf_back \in Buffers \ {buf}
      /\ Running /\ (First \/ Filling \/ Failed)
  BY <1>2, FrontFacts DEF buf_back, pool
<1>8. \A b : /\ (Quiet(b)' <=> Quiet(b)) /\ (UnderWay(b)' <=> UnderWay(b))
             /\ (Complete(b)' <=> Complete(b)) /\ Area(b)' = Area(b)
  BY <1>2 DEF Quiet, UnderWay, Complete, Area, Bottom
<1>9. /\ Written' = Written /\ (AllOk' <=> AllOk) /\ (AllButLast' <=> AllButLast)
  BY <1>2 DEF Written, AllOk, AllButLast, Bottom
<1>10. Front => Front'
  <2> SUFFICES ASSUME Front PROVE Front'
    OBVIOUS
  <2>1. area[buf].top <= row /\ row < Bottom(area[buf])
    BY <1>3, FrontFacts DEF Front
  <2>2. Taken' = Taken \cup {<<col, row>>}
    <3>1. <<col, row>> \in Area(buf)
      BY <1>3, <2>1, FrontFacts DEF Area
    <3>2. Taken' = {p \in Area(buf) : p[2] < row \/ (p[2] = row /\ p[1] < col + 1)}
      BY <1>3, <1>7, <1>8 DEF Taken
    <3>3. ASSUME NEW p \in Area(buf)
          PROVE  /\ p[1] \in 0 .. Xsize - 1 /\ p[2] \in Int
                 /\ p = <<col, row>> <=> p[1] = col /\ p[2] = row
      BY FrontFacts DEF Area
    <3>4. ASSUME NEW p \in Area(buf)
          PROVE  \/ p[2] < row \/ (p[2] = row /\ p[1] < col + 1)
                 <=> \/ p[2] < y \/ (p[2] = y /\ p[1] < x)
                     \/ p = <<col, row>>
      BY <1>3, <3>3, FrontFacts
    <3> QED
      BY <3>1, <3>2, <3>4 DEF Taken
  <2>3. filled'[buf'] \cup Held(buf)' = Taken'
    BY <1>2, <1>4, <1>7, <2>2 DEF Front
  <2>4. Quiet(buf)'
    BY <1>7, <1>8 DEF Front, Quiet
  <2> QED
    BY <1>2, <1>3, <1>4, <1>7, <2>1, <2>3, <2>4 DEF Front, Bottom
<1>11. Phase'
  <2>1. /\ Quiet(buf_back)' <=> Quiet(buf_back)
        /\ Holders(buf_back)' = Holders(buf_back)
    BY <1>4, <1>7, <1>8 DEF Quiet
  <2>2. Flushed(buf_back) => Flushed(buf_back)'
    BY <1>2, <1>4, <1>7, <1>8, <1>9 DEF Flushed, Bottom, flags
  <2>3. First => First'
    BY <1>2, <1>7, <1>10, <2>1 DEF First
  <2>4. Filling => Filling'
    BY <1>2, <1>7, <1>10, <2>2 DEF Filling, Bottom
  <2>5. Failed => Failed'
    BY <1>2, <1>7, <1>8 DEF Failed
  <2> QED
    BY <1>2, <1>7, <2>3, <2>4, <2>5 DEF Running, Phase, flags
<1> QED
  BY <1>4, <1>5, <1>6, <1>11 DEF Inv
-----------------------------------------------------------------------------
(* wbuffer_flush.                                                              *)

(* A flush that finds the previous write failed keeps the invariant.          *)
LEMMA FlushFailsInv ==
    ASSUME Inv, NEW t \in Workers, FlushFails(t)
    PROVE  Inv'
<1>1. /\ TypeOK /\ AreasOK /\ MainOK /\ OutInOrder /\ WriterBounds /\ Phase
  BY DEF Inv
<1>2. /\ UNCHANGED <<buf, area, go, nwrite, flags, bg, filled, pool, pos, wbuf, main, result, out>>
      /\ pc[t] = "unit" /\ pc' = [pc EXCEPT ![t] = "loop"]
      /\ thrError' = [thrError EXCEPT ![t] = TRUE]
      /\ ~stop /\ BufferIsFull /\ PreviousWriteDone /\ PreviousFailed /\ DownDone
      /\ x' = 0 /\ y' = y + 1
  BY DEF FlushFails, Allocating, Goto
<1>3. area[buf].top > 0 /\ done[buf_back] > 0
  BY <1>2 DEF PreviousFailed, PreviousWriteDone
<1>4. Filling /\ Running /\ Complete(buf_back)
  <2>1. ~Quiet(buf_back) /\ ~UnderWay(buf_back)
    BY <1>3 DEF Quiet, UnderWay
  <2> QED
    BY <1>2, <1>3, <2>1, FrontFacts DEF First, Filling, Failed, Flushed
<1>5. /\ done' = [done EXCEPT ![buf_back] = @ - 1] /\ done[buf_back] = 1
      /\ buf_back' = buf_back
  BY <1>2, <1>3, <1>4 DEF DownDone, Complete, buf_back
<1>6. /\ pc' \in [Workers -> {"unit", "work", "loop", "next", "gone"}]
      /\ thrError' \in [Workers -> BOOLEAN]
      /\ pc'[t] = "loop" /\ thrError'[t]
      /\ \A u \in Workers \ {t} : pc'[u] = pc[u] /\ thrError'[u] = thrError[u]
      /\ \A u \in Workers : NeverBegan(u)' = NeverBegan(u)
  BY <1>1, <1>2 DEF TypeOK, NeverBegan
<1>7. \A c \in Buffers : /\ Working(c)' = Working(c) /\ Holders(c) \in SUBSET Holders(c)'
                         /\ Holders(c)' \in SUBSET Workers
  BY <1>2, <1>6 DEF Working, Holders
<1>8. WriterBounds'
  <2>1. \A u \in Workers : pc'[u] = "work" => ~NeverBegan(u)' /\ ~thrError'[u]
    BY <1>1, <1>6 DEF WriterBounds
  <2>2. ASSUME NEW c \in Buffers
        PROVE  nwrite'[c] <= -Cardinality(Working(c)') /\ nwrite'[c] >= -Cardinality(Holders(c)')
    <3>1. IsFiniteSet(Holders(c)') /\ Cardinality(Holders(c)') \in Nat
      BY <1>7, SubsetsFinite
    <3>2. Cardinality(Holders(c)) <= Cardinality(Holders(c)') /\ Cardinality(Holders(c)) \in Nat
      BY <1>7, <3>1, FS_Subset, FS_CardinalityType
    <3>3. /\ nwrite[c] <= -Cardinality(Working(c)) /\ nwrite[c] >= -Cardinality(Holders(c))
          /\ nwrite[c] \in Int /\ nwrite'[c] = nwrite[c]
      BY <1>1, <1>2, SubsetsFinite DEF WriterBounds, TypeOK
    <3> QED
      BY <1>7, <3>1, <3>2, <3>3
  <2> QED
    BY <2>1, <2>2 DEF WriterBounds
<1>9. TypeOK'
  <2>1. y + 1 \in 0 .. Ysize /\ 0 \in 0 .. Xsize
    BY <1>4, FrontFacts DEF Filling, Front
  <2>2. done' \in [Buffers -> 0 .. 1]
    BY <1>1, <1>5, FrontFacts DEF TypeOK
  <2> QED
    BY <1>1, <1>2, <1>6, <2>1, <2>2 DEF TypeOK, flags, pool
<1>10. AreasOK' /\ OutInOrder'
  BY <1>1, <1>2 DEF AreasOK, OutInOrder, Bottom
<1>11. MainOK'
  <2>1. {u \in Workers : pc'[u] = "gone"} = {u \in Workers : pc[u] = "gone"}
    BY <1>2, <1>6
  <2> QED
    BY <1>1, <1>2, <2>1 DEF MainOK, pool
<1>12. Phase'
  <2>1. Quiet(buf) /\ go[buf_back] = 0 /\ bg[buf_back] = "go"
    BY <1>4 DEF Filling, Front, Complete
  <2>2. \A b \in Buffers : Quiet(b)'
    <3>1. done'[buf] = done[buf] /\ done'[buf_back] = 0
      BY <1>1, <1>5, FrontFacts DEF TypeOK
    <3> QED
      BY <1>2, <2>1, <3>1, FrontFacts DEF Quiet
  <2>3. Failed'
    BY <1>2, <1>3, <2>2 DEF Failed, pool
  <2> QED
    BY <1>2, <1>4, <2>3 DEF Running, Phase, flags
<1> QED
  BY <1>8, <1>9, <1>10, <1>11, <1>12 DEF Inv

(* When the front buffer is set writing it is full, and its section is next.   *)
LEMMA FlushFacts ==
    ASSUME Inv, NEW t \in Workers, Flush(t)
    PROVE  /\ pc[t] = "unit" /\ ~thrError[t] /\ ~stop /\ Running
           /\ y + 1 = Bottom(area[buf])
           /\ filled[buf] \cup Held(buf) = Area(buf) /\ area[buf].top = Written /\ AllOk
           /\ Holders(buf_back) = {} /\ WritersCounted
           /\ go[buf] = 0 /\ go[buf_back] = 0 /\ bg[buf] = "go" /\ bg[buf_back] = "go"
           /\ go' \in [Buffers -> 0 .. 2] /\ go'[buf] = 1 /\ go'[buf_back] = 0
           /\ done' \in [Buffers -> 0 .. 1] /\ done'[buf] = 0 /\ done'[buf_back] = 0
<1>1. /\ pc[t] = "unit" /\ ~thrError[t] /\ ~stop /\ BufferIsFull /\ PreviousWriteDone
      /\ ~PreviousFailed /\ DownDone /\ go' = [go EXCEPT ![buf] = @ + 1] /\ TypeOK
  BY DEF Flush, Allocating, Inv
<1>2. Front /\ (\/ First
                \/ Filling /\ area[buf].top > 0 /\ Complete(buf_back) /\ ~write_errno[buf_back])
  <2>1. area[buf].top > 0 => ~Quiet(buf_back) /\ ~UnderWay(buf_back)
    BY <1>1, FrontFacts DEF PreviousWriteDone, Quiet, UnderWay
  <2>2. ~Failed
    BY <2>1, FrontFacts DEF Failed
  <2>3. First \/ Filling
    BY <1>1, <2>2, FrontFacts
  <2> QED
    BY <1>1, <2>1, <2>3 DEF First, Filling, Flushed, PreviousFailed
<1>3. y + 1 = Bottom(area[buf]) /\ x = Xsize
  BY <1>1, <1>2, FrontFacts DEF BufferIsFull, Front
<1>4. Taken = Area(buf)
  <2>1. ASSUME NEW p \in Area(buf) PROVE p[2] < y \/ (p[2] = y /\ p[1] < x)
    <3>1. p[1] \in 0 .. Xsize - 1 /\ p[2] \in area[buf].top .. Bottom(area[buf]) - 1
      BY DEF Area
    <3> QED
      BY <1>3, <3>1, FrontFacts
  <2> QED
    BY <2>1 DEF Taken
<1>5. /\ area[buf].top = Written /\ AllOk /\ Holders(buf_back) = {}
      /\ go[buf_back] = 0 /\ bg[buf_back] = "go"
      /\ done[buf_back] = IF area[buf].top > 0 THEN 1 ELSE 0
  <2>1. CASE First
    BY <2>1 DEF First, Written, AllOk, Quiet
  <2>2. CASE Filling /\ area[buf].top > 0 /\ Complete(buf_back) /\ ~write_errno[buf_back]
    <3>1. /\ Bottom(area[buf_back]) = Written /\ AllButLast /\ out # <<>>
          /\ out[Len(out)].ok /\ Holders(buf_back) = {}
      <4>1. ~UnderWay(buf_back)
        BY <2>2 DEF UnderWay, Complete
      <4>2. out[Len(out)].ok = ~write_errno[buf_back]
        BY <2>2, <4>1 DEF Filling, Flushed
      <4> QED
        BY <2>2, <4>1, <4>2 DEF Filling, Flushed
    <3>2. AllOk
      <4>1. Len(out) \in Nat
        BY LenProperties DEF Inv, OutInOrder
      <4> QED
        BY <3>1, <4>1 DEF AllOk, AllButLast
    <3> QED
      BY <2>2, <3>1, <3>2 DEF Filling, Complete
  <2> QED
    BY <1>2, <2>1, <2>2
<1>6. go[buf] = 0 /\ bg[buf] = "go" /\ done[buf] = 0
  BY <1>2 DEF Front, Quiet
<1>7. go' \in [Buffers -> 0 .. 2] /\ go'[buf] = 1 /\ go'[buf_back] = 0
  BY <1>1, <1>5, <1>6, FrontFacts DEF TypeOK
<1>8. done' \in [Buffers -> 0 .. 1] /\ done'[buf] = 0 /\ done'[buf_back] = 0
  BY <1>1, <1>5, <1>6, FrontFacts DEF TypeOK, DownDone
<1> QED
  BY <1>1, <1>2, <1>3, <1>4, <1>5, <1>6, <1>7, <1>8, FrontFacts DEF Front

(* Setting the last section writing keeps the invariant.                      *)
LEMMA FlushLastInv ==
    ASSUME Inv, NEW t \in Workers, FlushLast(t)
    PROVE  Inv'
<1>1. /\ TypeOK /\ AreasOK /\ MainOK /\ OutInOrder /\ WriterBounds /\ Phase
  BY DEF Inv
<1>2. /\ UNCHANGED <<buf, area, nwrite, flags, bg, filled, error, tick, finish, thrError, pos,
                     wbuf, main, result, out>>
      /\ Flush(t) /\ pc' = [pc EXCEPT ![t] = "loop"] /\ stop'
      /\ stop' \in BOOLEAN /\ x' = 0 /\ y' = y + 1 /\ y + 1 >= Ysize
  BY DEF FlushLast, Goto
<1>3. /\ pc[t] = "unit" /\ ~thrError[t] /\ ~stop /\ Running
      /\ y + 1 = Bottom(area[buf])
      /\ filled[buf] \cup Held(buf) = Area(buf) /\ area[buf].top = Written /\ AllOk
      /\ Holders(buf_back) = {} /\ WritersCounted
      /\ bg[buf] = "go" /\ bg[buf_back] = "go"
      /\ go' \in [Buffers -> 0 .. 2] /\ go'[buf] = 1 /\ go'[buf_back] = 0
      /\ done' \in [Buffers -> 0 .. 1] /\ done'[buf] = 0 /\ done'[buf_back] = 0
  BY <1>2, FlushFacts
<1>4. /\ pc' \in [Workers -> {"unit", "work", "loop", "next", "gone"}]
      /\ pc'[t] = "loop" /\ \A u \in Workers \ {t} : pc'[u] = pc[u]
      /\ \A u \in Workers : NeverBegan(u)' = NeverBegan(u)
  BY <1>1, <1>2 DEF TypeOK, NeverBegan
<1>5. \A c : Working(c)' = Working(c) /\ Holders(c)' = Holders(c) /\ Held(c)' = Held(c)
  BY <1>2, <1>3, <1>4 DEF Working, Holders, Held
<1>6. WriterBounds' /\ WritersCounted'
  <2>1. \A u \in Workers : pc'[u] = "work" => ~NeverBegan(u)' /\ ~thrError'[u]
    BY <1>1, <1>2, <1>4 DEF WriterBounds
  <2> QED
    BY <1>1, <1>2, <1>3, <1>5, <2>1 DEF WriterBounds, WritersCounted
<1>7. TypeOK'
  <2>1. y + 1 \in 0 .. Ysize /\ 0 \in 0 .. Xsize
    BY <1>3, FrontFacts
  <2> QED
    BY <1>1, <1>2, <1>3, <1>4, <2>1 DEF TypeOK, flags
<1>8. AreasOK' /\ OutInOrder'
  BY <1>1, <1>2 DEF AreasOK, OutInOrder, Bottom
<1>9. MainOK'
  <2>1. {u \in Workers : pc'[u] = "gone"} = {u \in Workers : pc[u] = "gone"}
    BY <1>3, <1>4
  <2> QED
    BY <1>1, <1>2, <2>1 DEF MainOK
<1>10. Last'
  <2>1. /\ buf' = buf /\ buf_back' = buf_back
        /\ buf \in Buffers /\ buf_back \in Buffers
        /\ Bottom(area[buf]) = Ysize
    BY <1>2, <1>3, FrontFacts DEF buf_back
  <2>2. UnderWay(buf)' /\ Quiet(buf_back)'
    BY <1>2, <1>3, <2>1 DEF UnderWay, Quiet
  <2>3. /\ Written' = Written /\ (AllOk' <=> AllOk) /\ Area(buf)' = Area(buf)
    BY <1>2 DEF Written, AllOk, Area, Bottom
  <2>4. Flushed(buf)'
    <3>1. filled'[buf] \cup Held(buf)' = Area(buf)'
      BY <1>2, <1>3, <1>5, <2>1, <2>3
    <3>2. bg'[buf] # "writing" /\ area'[buf].top = Written' /\ AllOk'
      BY <1>2, <1>3, <2>1, <2>3
    <3> QED
      BY <2>1, <2>2, <3>1, <3>2 DEF Flushed
  <2> QED
    BY <1>2, <1>3, <1>5, <1>6, <2>1, <2>2, <2>4 DEF Last, Bottom
<1> QED
  BY <1>2, <1>3, <1>6, <1>7, <1>8, <1>9, <1>10 DEF Inv, Running, Phase, flags

(* Setting a section writing and going on in the other buffer keeps the       *)
(* invariant.                                                                 *)
LEMMA FlushAndSwapInv ==
    ASSUME Inv, NEW t \in Workers, FlushAndSwap(t)
    PROVE  Inv'
<1>1. /\ TypeOK /\ AreasOK /\ MainOK /\ OutInOrder /\ WriterBounds /\ Phase
  BY DEF Inv
<1>2. /\ UNCHANGED <<flags, bg, pool, thrError, main, result, out>>
      /\ Flush(t) /\ y + 1 < Ysize
      /\ buf' = buf_back
      /\ area' = [area EXCEPT ![buf_back] = Position(y + 1)]
      /\ filled' = [filled EXCEPT ![buf_back] = {}]
      /\ TakeTile(t, buf_back, 0, y + 1) /\ x' = 1 /\ y' = y + 1
  BY DEF FlushAndSwap, TakeTile
<1>3. /\ pc[t] = "unit" /\ ~thrError[t] /\ ~stop /\ Running
      /\ y + 1 = Bottom(area[buf])
      /\ filled[buf] \cup Held(buf) = Area(buf) /\ area[buf].top = Written /\ AllOk
      /\ Holders(buf_back) = {} /\ WritersCounted
      /\ bg[buf] = "go" /\ bg[buf_back] = "go"
      /\ go' \in [Buffers -> 0 .. 2] /\ go'[buf] = 1 /\ go'[buf_back] = 0
      /\ done' \in [Buffers -> 0 .. 1] /\ done'[buf] = 0 /\ done'[buf_back] = 0
  BY <1>2, FlushFacts
<1>4. PICK f \in Buffers, k \in Buffers : f = buf /\ k = buf_back /\ f # k
  BY FrontFacts
<1>5. /\ y + 1 \in 0 .. Ysize - 1 /\ 0 \in 0 .. Xsize - 1 /\ y \in Nat /\ y + 1 \in 0 .. Ysize
      /\ Xsize \in Nat /\ Ysize \in Nat /\ 1 \in 0 .. Xsize
  BY <1>2, FrontFacts
<1>6. /\ WriterBounds' /\ WritersCounted'
      /\ Held(k)' = Held(k) \cup {<<0, y + 1>>}
      /\ Held(f)' = Held(f) /\ Holders(f)' = Holders(f)
      /\ nwrite' \in [Buffers -> -Cardinality(Workers) .. 0]
      /\ pc' \in [Workers -> {"unit", "work", "loop", "next", "gone"}]
      /\ pos' \in [Workers -> Tiles] /\ wbuf' \in [Workers -> Buffers]
      /\ {u \in Workers : pc'[u] = "gone"} = {u \in Workers : pc[u] = "gone"}
  BY <1>1, <1>2, <1>3, <1>4, <1>5, TakeTileStep
<1>7. /\ Position(y + 1) \in [top : 0 .. Ysize - 1, height : 0 .. nlines]
      /\ Position(y + 1).top = y + 1 /\ Position(y + 1).height > 0
      /\ Bottom(Position(y + 1)) <= Ysize
  BY <1>5, PositionFacts
<1>8. /\ area' \in [Buffers -> [top : 0 .. Ysize - 1, height : 0 .. nlines]]
      /\ area'[k] = Position(y + 1) /\ area'[f] = area[f]
      /\ filled' \in [Buffers -> SUBSET Tiles] /\ filled'[k] = {} /\ filled'[f] = filled[f]
  BY <1>1, <1>2, <1>4, <1>7 DEF TypeOK
<1>9. /\ buf' = k /\ buf_back' = f /\ Buffers = {f, k}
  BY <1>2, <1>4 DEF buf_back, Buffers
<1>10. TypeOK'
  BY <1>1, <1>2, <1>3, <1>5, <1>6, <1>8, <1>9 DEF TypeOK, flags, pool
<1>11. AreasOK'
  BY <1>1, <1>7, <1>8, <1>9 DEF AreasOK, Bottom
<1>12. OutInOrder' /\ MainOK'
  BY <1>1, <1>2, <1>6 DEF OutInOrder, Bottom, MainOK, pool
<1>13. Flushed(f)'
  <2>1. UnderWay(f)'
    BY <1>2, <1>3, <1>4 DEF UnderWay
  <2>2. /\ Written' = Written /\ (AllOk' <=> AllOk) /\ Area(f)' = Area(f)
    BY <1>2, <1>8 DEF Written, AllOk, Area, Bottom
  <2>3. area'[f].top = Written' /\ filled'[f] \cup Held(f)' = Area(f)' /\ AllOk'
    BY <1>3, <1>4, <1>6, <1>8, <2>2
  <2>4. bg'[f] # "writing"
    BY <1>2, <1>3, <1>4
  <2> QED
    BY <2>1, <2>3, <2>4 DEF Flushed
<1>14. filled'[k] \cup Held(k)' = Taken'
  <2>1. Held(k) = {}
    BY <1>3, <1>4 DEF Held
  <2>2. Area(k)' = (0 .. Xsize - 1) \X (y + 1 .. Bottom(Position(y + 1)) - 1)
    BY <1>7, <1>8 DEF Area
  <2>3. Bottom(Position(y + 1)) \in Int /\ y + 1 < Bottom(Position(y + 1))
    BY <1>5, <1>7, SinkDiscAssumption DEF Bottom
  <2>4. Taken' = {p \in Area(k)' : p[2] < y + 1 \/ (p[2] = y + 1 /\ p[1] < 1)}
    BY <1>2, <1>9 DEF Taken
  <2>5. <<0, y + 1>> \in Area(k)'
    BY <1>5, <2>2, <2>3
  <2>6. ASSUME NEW p \in Area(k)'
        PROVE  p[2] < y + 1 \/ (p[2] = y + 1 /\ p[1] < 1) <=> p = <<0, y + 1>>
    <3>1. /\ p[1] \in 0 .. Xsize - 1 /\ p[2] \in y + 1 .. Bottom(Position(y + 1)) - 1
          /\ p = <<0, y + 1>> <=> p[1] = 0 /\ p[2] = y + 1
      BY <2>2
    <3> QED
      BY <1>5, <2>3, <3>1
  <2>7. Taken' = {<<0, y + 1>>}
    BY <2>4, <2>5, <2>6
  <2> QED
    BY <1>6, <1>8, <2>1, <2>7
<1>15. Front'
  <2>1. Quiet(k)'
    BY <1>2, <1>3, <1>4 DEF Quiet
  <2>2. y + 1 < Bottom(Position(y + 1))
    BY <1>5, <1>7, SinkDiscAssumption DEF Bottom
  <2>3. ~stop' /\ y' = y + 1
    BY <1>2, <1>3 DEF pool
  <2>4. area'[k].top <= y' /\ y' < Bottom(area'[k])
    BY <1>5, <1>7, <1>8, <2>2, <2>3
  <2> QED
    BY <1>6, <1>9, <1>14, <2>1, <2>3, <2>4 DEF Front, Bottom
<1>16. Filling'
  <2>1. area'[k].top > 0 /\ Bottom(area'[f]) = area'[k].top
    BY <1>3, <1>4, <1>5, <1>7, <1>8
  <2> QED
    BY <1>9, <1>13, <1>15, <2>1 DEF Filling, Bottom
<1> QED
  BY <1>2, <1>3, <1>6, <1>10, <1>11, <1>12, <1>16 DEF Inv, Running, Phase, flags
-----------------------------------------------------------------------------

(* Every step of the program keeps the invariant.                             *)
LEMMA InvStep == Inv /\ [Next]_vars => Inv'
<1> SUFFICES ASSUME Inv, [Next]_vars PROVE Inv'
  OBVIOUS
<1>1. CASE UNCHANGED vars
  <2>1. UNCHANGED <<position, go, nwrite, done, flags, bg, filled, pool, workers, main, result, out>>
    BY <1>1 DEF vars, position, flags, pool, workers
  <2>2. /\ TypeOK /\ AreasOK /\ MainOK /\ OutInOrder /\ WriterBounds /\ Phase /\ buf \in Buffers
    BY DEF Inv, TypeOK
  <2>3. TypeOK' /\ AreasOK' /\ MainOK' /\ OutInOrder'
    BY <2>1, <2>2 DEF TypeOK, AreasOK, MainOK, OutInOrder, Bottom, position, flags, pool, workers
  <2>4. WriterBounds' /\ (WritersCounted => WritersCounted')
    BY <2>1, <2>2, WriterBoundsStill
  <2>5. \A b \in Buffers : Holders(b)' = Holders(b) /\ Held(b)' = Held(b)
    BY <2>1, WorkersStill
  <2>6. Phase'
    BY <2>1, <2>2, <2>4, <2>5, PhaseStill DEF pool
  <2> QED
    BY <2>3, <2>4, <2>6 DEF Inv
<1>2. ASSUME NEW t \in Workers, WorkerStep(t) PROVE Inv'
  <2>1. CASE Walk(t)
    BY <2>1, WalkInv
  <2>2. CASE Allocate(t)
    BY <2>2, AllocateInv
  <2>3. CASE FlushFails(t)
    BY <2>3, FlushFailsInv
  <2>4. CASE FlushLast(t)
    BY <2>4, FlushLastInv
  <2>5. CASE FlushAndSwap(t)
    BY <2>5, FlushAndSwapInv
  <2>6. CASE Work(t)
    BY <2>6, WorkInv
  <2>7. CASE WorkFails(t)
    BY <2>7, WorkFailsInv
  <2> QED
    BY <1>2, <2>1, <2>2, <2>3, <2>4, <2>5, <2>6, <2>7 DEF WorkerStep, Walk
<1>3. ASSUME NEW b \in Buffers, BgStep(b) PROVE Inv'
  BY <1>3, BgInv
<1>4. CASE MainStep
  BY <1>4, MainInv
<1>5. CASE Stopped
  BY <1>1, <1>5 DEF Stopped
<1> QED
  BY <1>1, <1>2, <1>3, <1>4, <1>5 DEF Next

(* The invariant holds in every reachable state.                              *)
LEMMA AlwaysInv == Spec => []Inv
BY InitInv, InvStep, PTL DEF Spec

-----------------------------------------------------------------------------

(* Type correctness: no semaphore of the two buffers goes beyond what the      *)
(* protocol of wbuffer_flush and wbuffer_write_thread gives it, and no more    *)
(* workers are counted on a buffer than there are.                             *)
THEOREM TypeCorrect == Spec => []TypeOK
<1>1. Inv => TypeOK
  BY DEF Inv
<1> QED
  BY <1>1, AlwaysInv, PTL

(* Whatever fails, the sections come to write_fn from the top down without a   *)
(* gap or an overlap, and from one thread at a time.                           *)
THEOREM TopToBottom == Spec => []SectionsInOrder
<1>1. Inv => SectionsInOrder
  <2> SUFFICES ASSUME Inv PROVE SectionsInOrder
    OBVIOUS
  <2>1. ASSUME NEW b \in Buffers, bg[b] = "writing"
        PROVE  area[b].top = Written /\ bg[1 - b] # "writing"
    <3>1. 1 - b \in Buffers /\ 1 - b # b
      BY DEF Buffers
    <3>2. area[b].top = Written /\ ((~stop /\ b = buf_back) \/ (stop /\ b = buf))
      BY <2>1, WhoWrites
    <3>3. bg[1 - b] = "writing" => (~stop /\ 1 - b = buf_back) \/ (stop /\ 1 - b = buf)
      BY <3>1, WhoWrites
    <3> QED
      BY <3>1, <3>2, <3>3
  <2> QED
    BY <2>1 DEF Inv, OutInOrder, SectionsInOrder
<1> QED
  BY <1>1, AlwaysInv, PTL

(* A section is written only when each of its tiles has been filled, and no    *)
(* worker fills or moves its buffer meanwhile.                                 *)
THEOREM CompleteWhenWritten == Spec => []OnlyCompleteSections
<1>1. Inv => OnlyCompleteSections
  <2> SUFFICES ASSUME Inv, NEW b \in Buffers, bg[b] = "writing"
               PROVE  /\ filled[b] = (0 .. Xsize - 1) \X (area[b].top .. Bottom(area[b]) - 1)
                      /\ \A t \in Workers : pc[t] = "work" => wbuf[t] # b
    BY DEF OnlyCompleteSections
  <2>1. filled[b] \cup Held(b) = Area(b) /\ Holders(b) = {}
    BY WhoWrites
  <2>2. filled[b] = Area(b)
    BY <2>1 DEF Held
  <2>3. \A t \in Workers : pc[t] = "work" => wbuf[t] # b
    BY <2>1 DEF Holders, Inv, WriterBounds
  <2> QED
    BY <2>2, <2>3 DEF Area
<1> QED
  BY <1>1, AlwaysInv, PTL

(* vips_sink_disc comes back only after the last row was passed to write_fn,   *)
(* no worker that had begun has failed, and no write but perhaps the last.     *)
THEOREM BackWithTheImage == Spec => []ComesBackOnlyWithTheImage
<1>1. Inv => ComesBackOnlyWithTheImage
  <2> SUFFICES ASSUME Inv, main = "returned"
               PROVE  /\ Written = Ysize
                      /\ \A t \in Workers : thrError[t] => NeverBegan(t)
                      /\ \A i \in 1 .. Len(out) - 1 : out[i].ok
                      /\ stop
    BY DEF ComesBackOnlyWithTheImage
  <2>1. Ended
    BY DEF Inv, Phase, Running
  <2>2. \A t \in Workers : thrError[t] => NeverBegan(t)
    <3> SUFFICES ASSUME NEW t \in Workers, thrError[t], ~NeverBegan(t) PROVE FALSE
      OBVIOUS
    <3>1. wbuf[t] \in Buffers
      BY DEF Inv, TypeOK
    <3>2. t \in Holders(wbuf[t])
      BY DEF Holders
    <3> QED
      BY <2>1, <3>1, <3>2 DEF Ended
  <2> QED
    BY <2>1, <2>2 DEF Ended, AllButLast, Inv, MainOK
<1> QED
  BY <1>1, AlwaysInv, PTL
=============================================================================
