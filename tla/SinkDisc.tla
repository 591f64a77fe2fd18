------------------------------ MODULE SinkDisc ------------------------------
(* vips_sink_disc (iofuncs/sinkdisc.c) on a threadpool (threadpool.c).  The    *)
(* workers fill one buffer with tiles while the background thread of the other *)
(* writes it; the buffers change places when the front one is full.  The main  *)
(* thread waits for ticks, then for all workers, then for the last write.      *)
(*   Coordinates count tiles.  The allocate lock makes wbuffer_allocate_fn one *)
(* step, for only a background thread can let it go on where it waits.  One    *)
(* thread waits at each semaphore, so that a signal is never lost on another.  *)
(*   Filling a tile, writing a section, starting a worker and the progress     *)
(* callback may fail; memory for the buffers does not run out.                 *)
EXTENDS Integers, Sequences, FiniteSets, FiniteSetsExt

CONSTANTS Workers,
          Xsize, Ysize,     \* of the image
          nlines            \* how many rows a buffer has

Buffers == {0, 1}
None == 0 - 1               \* no row: a worker that has no state yet

ASSUME SinkDiscAssumption ==
    /\ IsFiniteSet(Workers) /\ Workers # {}
    /\ Xsize \in Nat \ {0} /\ Ysize \in Nat \ {0} /\ nlines \in Nat \ {0}

VARIABLES buf,                  \* write->buf; buf_back is the other one
          x, y,                 \* the position in buf
          area,                 \* the rows of each buffer
          go, nwrite, done,     \* its semaphores
          write_errno, kill,    \* its flags
          bg,                   \* where its thread is
          filled,               \* the tiles that lie in it
          stop, error,          \* the pool's
          tick, finish,         \* its semaphores; of tick, whether it is up
          pc,                   \* where each worker is
          thrError,             \* each VipsThread's error
          pos, wbuf,            \* each worker's tile and its buffer
          main, result,         \* where the main thread is, and what it is to return
          out                   \* the sections passed to write_fn

vars == <<buf, x, y, area, go, nwrite, done, write_errno, kill, bg, filled, stop, error,
          tick, finish, pc, thrError, pos, wbuf, main, result, out>>
position == <<buf, x, y, area>>
flags    == <<write_errno, kill>>
pool     == <<stop, error, tick, finish>>
workers  == <<pc, thrError, pos, wbuf>>

buf_back == 1 - buf
Bottom(a) == a.top + a.height

(* wbuffer_position clips the area at the end of the image.                    *)
Position(top) == [top |-> top, height |-> Min({nlines, Ysize - top})]

Init ==
    /\ buf = 0 /\ x = 0 /\ y = 0
    /\ area = [b \in Buffers |-> IF b = 0 THEN Position(0) ELSE [top |-> 0, height |-> 0]]
    /\ go = [b \in Buffers |-> 0]
    /\ nwrite = [b \in Buffers |-> 0]
    /\ done = [b \in Buffers |-> 0]
    /\ write_errno = [b \in Buffers |-> FALSE]
    /\ kill = [b \in Buffers |-> FALSE]
    /\ bg = [b \in Buffers |-> "go"]
    /\ filled = [b \in Buffers |-> {}]
    /\ stop = FALSE /\ error = FALSE /\ tick = FALSE /\ finish = 0
    /\ pc = [t \in Workers |-> "unit"]
    /\ thrError = [t \in Workers |-> FALSE]
    /\ pos = [t \in Workers |-> <<0, None>>]
    /\ wbuf = [t \in Workers |-> 0]
    /\ main = "tick" /\ result = 0
    /\ out = <<>>

-----------------------------------------------------------------------------
(* vips_thread_work_unit: the allocation.                                      *)

Goto(t, label) == pc' = [pc EXCEPT ![t] = label]

(* There is nothing to do: this thread has failed, or all is allocated.        *)
Idle(t) ==
    /\ pc[t] = "unit"
    /\ thrError[t] \/ stop
    /\ Goto(t, "loop")
    /\ UNCHANGED <<position, go, nwrite, done, flags, bg, filled, pool, thrError, pos, wbuf,
                   main, result, out>>

Allocating(t) == pc[t] = "unit" /\ ~thrError[t] /\ ~stop

(* vips_thread_allocate builds the thread's state when it is first called.     *)
StartFails(t) ==
    /\ Allocating(t)
    /\ pos[t][2] = None
    /\ thrError' = [thrError EXCEPT ![t] = TRUE]
    /\ Goto(t, "loop")
    /\ UNCHANGED <<position, go, nwrite, done, flags, bg, filled, pool, pos, wbuf, main,
                   result, out>>

(* Mutant: the writer of the buffer is not told that somebody works on it.     *)
TakeTile_free(t, b, col, row) ==
    /\ pos' = [pos EXCEPT ![t] = <<col, row>>]
    /\ wbuf' = [wbuf EXCEPT ![t] = b]
    /\ UNCHANGED nwrite
    /\ x' = col + 1 /\ y' = row
    /\ Goto(t, "work")

(* The thread gets the tile at (col, row) and is one writer more on its buffer. *)
TakeTile(t, b, col, row) ==
    /\ pos' = [pos EXCEPT ![t] = <<col, row>>]
    /\ wbuf' = [wbuf EXCEPT ![t] = b]
    /\ nwrite' = [nwrite EXCEPT ![b] = @ - 1]
    /\ x' = col + 1 /\ y' = row
    /\ Goto(t, "work")

(* wbuffer_allocate_fn: a tile of this row or of the next one of the buffer.   *)
Allocate(t) ==
    /\ Allocating(t)
    /\ \/ x < Xsize /\ TakeTile(t, buf, x, y)
       \/ x >= Xsize /\ y + 1 < Bottom(area[buf]) /\ TakeTile(t, buf, 0, y + 1)
    /\ UNCHANGED <<buf, area, go, done, flags, bg, filled, pool, thrError, main, result, out>>

BufferIsFull == x >= Xsize /\ y + 1 >= Bottom(area[buf])

(* wbuffer_flush waits for the other buffer's write, but for the first one.    *)
PreviousWriteDone == area[buf].top > 0 => done[buf_back] > 0

DownDone == done' = IF area[buf].top > 0 THEN [done EXCEPT ![buf_back] = @ - 1] ELSE done

PreviousFailed == area[buf].top > 0 /\ write_errno[buf_back]

(* The write failed.  The position has moved on all the same.                  *)
FlushFails(t) ==
    /\ Allocating(t) /\ BufferIsFull
    /\ PreviousWriteDone /\ PreviousFailed
    /\ DownDone
    /\ x' = 0 /\ y' = y + 1
    /\ thrError' = [thrError EXCEPT ![t] = TRUE]
    /\ Goto(t, "loop")
    /\ UNCHANGED <<buf, area, go, nwrite, flags, bg, filled, pool, pos, wbuf, main, result, out>>

(* Mutant: the front buffer is set writing at once.                            *)
Flush_at_once(t) ==
    /\ Allocating(t) /\ BufferIsFull
    /\ go' = [go EXCEPT ![buf] = @ + 1]
    /\ UNCHANGED done

(* The front buffer is set writing.                                            *)
Flush(t) ==
    /\ Allocating(t) /\ BufferIsFull
    /\ PreviousWriteDone /\ ~PreviousFailed
    /\ DownDone
    /\ go' = [go EXCEPT ![buf] = @ + 1]

(* It was the last one ...                                                     *)
FlushLast(t) ==
    /\ Flush(t)
    /\ y + 1 >= Ysize
    /\ x' = 0 /\ y' = y + 1
    /\ stop' = TRUE
    /\ Goto(t, "loop")
    /\ UNCHANGED <<buf, area, nwrite, flags, bg, filled, error, tick, finish, thrError, pos,
                   wbuf, main, result, out>>

(* ... or the buffers change places, and the new one goes on below.  No        *)
(* failure of wbuffer_position is left to return from: its assertion looks     *)
(* into the buffer that im_region_buffer did not get.                          *)
FlushAndSwap(t) ==
    /\ Flush(t)
    /\ y + 1 < Ysize
    /\ buf' = buf_back
    /\ area' = [area EXCEPT ![buf_back] = Position(y + 1)]
    /\ filled' = [filled EXCEPT ![buf_back] = {}]
    /\ TakeTile(t, buf_back, 0, y + 1)
    /\ UNCHANGED <<flags, bg, pool, thrError, main, result, out>>

-----------------------------------------------------------------------------
(* The work, and the end of a worker's loop.                                   *)

InArea(b, row) == area[b].top <= row /\ row < Bottom(area[b])

(* Mutant: the writer is never told that the tile is there.                    *)
Work_stay(t) ==
    /\ pc[t] = "work"
    /\ InArea(wbuf[t], pos[t][2])
    /\ filled' = [filled EXCEPT ![wbuf[t]] = @ \cup {pos[t]}]
    /\ UNCHANGED nwrite
    /\ Goto(t, "loop")
    /\ UNCHANGED <<position, go, done, flags, bg, pool, thrError, pos, wbuf, main, result, out>>

(* wbuffer_work_fn: the tile is filled and there is one writer less.           *)
Work(t) ==
    /\ pc[t] = "work"
    /\ InArea(wbuf[t], pos[t][2])
    /\ filled' = [filled EXCEPT ![wbuf[t]] = @ \cup {pos[t]}]
    /\ nwrite' = [nwrite EXCEPT ![wbuf[t]] = @ + 1]
    /\ Goto(t, "loop")
    /\ UNCHANGED <<position, go, done, flags, bg, pool, thrError, pos, wbuf, main, result, out>>

(* im_prepare_to fails, as it does for a tile outside of the buffer.           *)
WorkFails(t) ==
    /\ pc[t] = "work"
    /\ thrError' = [thrError EXCEPT ![t] = TRUE]
    /\ Goto(t, "loop")
    /\ UNCHANGED <<position, go, nwrite, done, flags, bg, filled, pool, pos, wbuf, main, result, out>>

(* Mutant: a worker that is to stop does not tick.                             *)
Tick_running(t) ==
    /\ pc[t] = "loop"
    /\ tick' = (tick \/ ~(stop \/ error))
    /\ Goto(t, "next")
    /\ UNCHANGED <<position, go, nwrite, done, flags, bg, filled, stop, error, finish, thrError,
                   pos, wbuf, main, result, out>>

(* "Always tick, even if we are stopping, so the main thread will wake up for  *)
(* exit."                                                                      *)
Tick(t) ==
    /\ pc[t] = "loop"
    /\ tick' = TRUE
    /\ Goto(t, "next")
    /\ UNCHANGED <<position, go, nwrite, done, flags, bg, filled, stop, error, finish, thrError,
                   pos, wbuf, main, result, out>>

Loop(t) ==
    /\ pc[t] = "next"
    /\ ~(stop \/ error)
    /\ Goto(t, "unit")
    /\ UNCHANGED <<position, go, nwrite, done, flags, bg, filled, pool, thrError, pos, wbuf,
                   main, result, out>>

Exit(t) ==
    /\ pc[t] = "next"
    /\ stop \/ error
    /\ finish' = finish + 1
    /\ Goto(t, "gone")
    /\ UNCHANGED <<position, go, nwrite, done, flags, bg, filled, stop, error, tick, thrError,
                   pos, wbuf, main, result, out>>

-----------------------------------------------------------------------------
(* wbuffer_write_thread                                                        *)

BgGoto(b, label) == bg' = [bg EXCEPT ![b] = label]

BgGo(b) ==
    /\ bg[b] = "go"
    /\ go[b] > 0
    /\ go' = [go EXCEPT ![b] = @ - 1]
    /\ BgGoto(b, IF kill[b] THEN "gone" ELSE "nwrite")
    /\ UNCHANGED <<position, nwrite, done, flags, filled, pool, workers, main, result, out>>

(* The last worker has left the buffer.                                        *)
WriteBegin(b) ==
    /\ bg[b] = "nwrite"
    /\ nwrite[b] >= 0
    /\ BgGoto(b, "writing")
    /\ UNCHANGED <<position, go, nwrite, done, flags, filled, pool, workers, main, result, out>>

(* write_fn returns and done goes up.                                          *)
WriteEnd(b) ==
    /\ bg[b] = "writing"
    /\ \E failed \in BOOLEAN :
          /\ write_errno' = [write_errno EXCEPT ![b] = failed]
          /\ out' = Append(out, [top |-> area[b].top, height |-> area[b].height, ok |-> ~failed])
    /\ done' = [done EXCEPT ![b] = @ + 1]
    /\ BgGoto(b, "go")
    /\ UNCHANGED <<position, go, nwrite, kill, filled, pool, workers, main, result>>

-----------------------------------------------------------------------------
(* The main thread: vips_threadpool_run, then the rest of vips_sink_disc.      *)

MainTick ==
    /\ main = "tick"
    /\ tick
    /\ tick' = FALSE
    /\ main' = IF stop \/ error THEN "finish" ELSE "progress"
    /\ UNCHANGED <<position, go, nwrite, done, flags, bg, filled, stop, error, finish, workers,
                   result, out>>

(* wbuffer_progress_fn may ask for an end.                                     *)
MainProgress ==
    /\ main = "progress"
    /\ \E failed \in BOOLEAN :
          /\ error' = failed
          /\ main' = IF stop \/ failed THEN "finish" ELSE "tick"
    /\ UNCHANGED <<position, go, nwrite, done, flags, bg, filled, stop, tick, finish, workers,
                   result, out>>

MainFinish ==
    /\ main = "finish"
    /\ finish = Cardinality(Workers)
    /\ finish' = 0
    /\ result' = IF error THEN 0 - 1 ELSE 0
    /\ main' = "done"
    /\ UNCHANGED <<position, go, nwrite, done, flags, bg, filled, stop, error, tick, workers, out>>

(* Mutant: the buffers are freed without waiting for the last write.           *)
MainDone_skip ==
    /\ main = "done"
    /\ main' = "kill"
    /\ UNCHANGED <<position, go, nwrite, done, flags, bg, filled, pool, workers, result, out>>

MainDone ==
    /\ main = "done"
    /\ done[buf] > 0
    /\ done' = [done EXCEPT ![buf] = @ - 1]
    /\ main' = "kill"
    /\ UNCHANGED <<position, go, nwrite, flags, bg, filled, pool, workers, result, out>>

(* wbuffer_free, of buf and then of buf_back: the thread is told to exit ...   *)
MainKill(b) ==
    /\ main = "kill"
    /\ b = IF kill[buf] THEN buf_back ELSE buf
    /\ kill' = [kill EXCEPT ![b] = TRUE]
    /\ go' = [go EXCEPT ![b] = @ + 1]
    /\ main' = "join"
    /\ UNCHANGED <<position, nwrite, done, write_errno, bg, filled, pool, workers, result, out>>

(* ... and joined.                                                             *)
MainJoin ==
    /\ main = "join"
    /\ bg[IF kill[buf_back] THEN buf_back ELSE buf] = "gone"
    /\ main' = IF kill[buf_back] THEN "returned" ELSE "kill"
    /\ UNCHANGED <<position, go, nwrite, done, flags, bg, filled, pool, workers, result, out>>

-----------------------------------------------------------------------------

WorkerStep(t) ==
    \/ Idle(t) \/ StartFails(t) \/ Allocate(t) \/ FlushFails(t) \/ FlushLast(t)
    \/ FlushAndSwap(t) \/ Work(t) \/ WorkFails(t) \/ Tick(t) \/ Loop(t) \/ Exit(t)

BgStep(b) == BgGo(b) \/ WriteBegin(b) \/ WriteEnd(b)

MainStep ==
    \/ MainTick \/ MainProgress \/ MainFinish \/ MainDone \/ MainJoin
    \/ \E b \in Buffers : MainKill(b)

(* vips_sink_disc has returned, or waits for ever after an error: see          *)
(* ComesBackOnlyWithTheImage.                                                  *)
Stopped ==
    /\ \/ main = "returned"
       \/ main \in {"tick", "finish", "done"} /\ ((\E t \in Workers : thrError[t]) \/ error)
    /\ UNCHANGED vars

Next ==
    \/ \E t \in Workers : WorkerStep(t)
    \/ \E b \in Buffers : BgStep(b)
    \/ MainStep
    \/ Stopped

Spec == Init /\ [][Next]_vars

(* The scheduler runs every thread that can run.                               *)
FairSpec ==
    /\ Spec
    /\ \A t \in Workers : WF_vars(WorkerStep(t))
    /\ \A b \in Buffers : WF_vars(BgStep(b))
    /\ WF_vars(MainStep)

-----------------------------------------------------------------------------
(* Properties.                                                                 *)

Tiles == (0 .. Xsize - 1) \X (None .. Ysize)

(* Every variable keeps its type; no buffer counts more writers than there are *)
(* workers that have not left it.                                              *)
TypeOK ==
    /\ buf \in Buffers /\ x \in 0 .. Xsize /\ y \in 0 .. Ysize
    /\ area \in [Buffers -> [top : 0 .. Ysize - 1, height : 0 .. nlines]]
    /\ go \in [Buffers -> 0 .. 2] /\ done \in [Buffers -> 0 .. 1]
    /\ nwrite \in [Buffers -> -Cardinality(Workers) .. 0]
    /\ write_errno \in [Buffers -> BOOLEAN] /\ kill \in [Buffers -> BOOLEAN]
    /\ bg \in [Buffers -> {"go", "nwrite", "writing", "gone"}]
    /\ filled \in [Buffers -> SUBSET Tiles]
    /\ stop \in BOOLEAN /\ error \in BOOLEAN /\ tick \in BOOLEAN
    /\ finish \in 0 .. Cardinality(Workers)
    /\ pc \in [Workers -> {"unit", "work", "loop", "next", "gone"}]
    /\ thrError \in [Workers -> BOOLEAN]
    /\ pos \in [Workers -> Tiles] /\ wbuf \in [Workers -> Buffers]
    /\ main \in {"tick", "progress", "finish", "done", "kill", "join", "returned"}
    /\ result \in {0, -1}

(* The first row that has not been passed to write_fn.                         *)
Written == IF out = <<>> THEN 0 ELSE Bottom(out[Len(out)])

(* "write_fn is always called single-threaded, it's always given image         *)
(* sections in top-to-bottom order, and there are never any gaps": whatever    *)
(* fails.                                                                      *)
SectionsInOrder ==
    /\ out # <<>> => out[1].top = 0
    /\ \A i \in 1 .. Len(out) - 1 : out[i + 1].top = Bottom(out[i])
    /\ \A b \in Buffers : bg[b] = "writing" => area[b].top = Written /\ bg[1 - b] # "writing"

(* A section is written when all of its tiles are there, and nobody works on   *)
(* its buffer or moves it meanwhile.                                           *)
OnlyCompleteSections ==
    \A b \in Buffers : bg[b] = "writing" =>
        /\ filled[b] = (0 .. Xsize - 1) \X (area[b].top .. Bottom(area[b]) - 1)
        /\ \A t \in Workers : pc[t] = "work" => wbuf[t] # b

(* vips_sink_disc comes back only when the whole image was passed to write_fn: *)
(* the last tile was allocated, no worker has failed that had a state, and of  *)
(* the writes only the last can have failed.                                   *)
NeverBegan(t) == pos[t][2] = None
ComesBackOnlyWithTheImage ==
    main = "returned" =>
        /\ Written = Ysize
        /\ \A t \in Workers : thrError[t] => NeverBegan(t)
        /\ \A i \in 1 .. Len(out) - 1 : out[i].ok
        /\ stop

(* "Returns: 0 on success, -1 on error" (sinkdisc.c:501): the caller that gets *)
(* 0 has all of the image written.                                             *)
SuccessMeansWritten ==
    main = "returned" /\ result = 0 => Written = Ysize /\ \A i \in DOMAIN out : out[i].ok

(* It comes back if a worker is left, those that failed never began, nobody    *)
(* asks for an end too early, and no write fails but the last.                 *)
NothingFails ==
    /\ \E t \in Workers : ~thrError[t]
    /\ \A t \in Workers : thrError[t] => NeverBegan(t)
    /\ error => stop
    /\ \A i \in 1 .. Len(out) : Bottom(out[i]) < Ysize => out[i].ok
ComesBack == []NothingFails => <>(main = "returned")
=============================================================================
