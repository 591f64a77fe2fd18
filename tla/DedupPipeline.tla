--------------------------- MODULE DedupPipeline ---------------------------
(* The parallel encoder of dedup (dedup/src/encoder.c with ENABLE_PTHREADS):  *)
(*                                                                            *)
(*   Fragment -> FragmentRefine* -> Deduplicate* -> Compress* -> Reorder      *)
(*                                       \----- duplicates -----/             *)
(*                                                                            *)
(* One Fragment and one Reorder thread, and NThreads threads in each stage    *)
(* between them.  These threads form groups of ThreadsPerQueue; every group   *)
(* has its own refine, deduplicate, compress and reorder queue.  A call of    *)
(* queue_enqueue, queue_dequeue or queue_terminate is one step, as DedupQueue *)
(* justifies, and so is each stage's work on one chunk between its queues.    *)
EXTENDS DedupStream, DedupDecoder, FiniteSetsExt

CONSTANTS NThreads,         \* conf->nthreads
          ThreadsPerQueue,  \* MAX_THREADS_PER_QUEUE
          QueueSize,        \* QUEUE_SIZE
          Batch,            \* ITEM_PER_FETCH, ITEM_PER_INSERT and their like
          InitialSlots,     \* chunks_per_anchor_max when Reorder starts
          NoChunk

ASSUME PipelineAssumption ==
    /\ NThreads \in Nat \ {0}
    /\ ThreadsPerQueue \in Nat \ {0}
    /\ QueueSize \in Nat \ {0}
    /\ Batch \in Nat \ {0}
    /\ InitialSlots \in Nat \ {0}
    /\ NoChunk \notin Chunks

Tids == 0 .. NThreads - 1
nqueues == (NThreads \div ThreadsPerQueue)
           + (IF NThreads % ThreadsPerQueue # 0 THEN 1 ELSE 0)
Groups == 0 .. nqueues - 1

(* Mutant: the last group is taken to be as large as the others.              *)
GroupSize_full(g) == ThreadsPerQueue

(* The number of threads that work on the queues of group g.                  *)
GroupSize(g) == IF g < nqueues - 1 \/ NThreads % ThreadsPerQueue = 0
                THEN ThreadsPerQueue
                ELSE NThreads % ThreadsPerQueue

Pools == {"refine", "dedup", "compress"}
Stages == Pools \cup {"reorder"}
Workers == Pools \X Tids
Stage(w) == w[1]
qid(w) == w[2] \div ThreadsPerQueue

(* A queue is named by the stage that reads it and by its group.              *)
Queues == Stages \X Groups
nProducers(q) == IF q[1] = "refine" THEN 1 ELSE GroupSize(q[2])
InQueue(w) == <<Stage(w), qid(w)>>

(* Where each stage sends chunks to, in the order in which its shutdown       *)
(* drains the send buffers, and the queue it terminates at the end.           *)
Destinations(s) == CASE s = "refine"   -> <<"dedup">>
                     [] s = "dedup"    -> <<"compress", "reorder">>
                     [] s = "compress" -> <<"reorder">>
Terminates(s) == Destinations(s)[1]

Contents == {ContentOf(c) : c \in Chunks}

VARIABLES
    que,          \* per queue: its contents; coarse chunks in a refine queue
    nTerminated,  \* per queue
    fragPc,       \* Fragment: "read", "terminate", "done"
    anchorcount,  \* Fragment: the next l1num
    fragQid,      \* Fragment: the queue to use next, or to terminate next
    pc,           \* per worker: "work", "drain", "done"
    recv,         \* per worker: recv_buf
    send,         \* per worker and destination: the send buffer
    chcount,      \* per refine thread: fine chunks cut from the coarse chunk
                  \* at the head of recv, which leaves recv with its last piece
    cache,        \* the hash table: per contents the chunk entered for them
    original,     \* per chunk: compressed_data_ref; a unique chunk itself
    state,        \* per chunk: header.state
    refs,         \* mcb->i of the buffer the input was read into
    rpc,          \* Reorder: where it is
    rqid, tried,  \* Reorder: the queue to try next, and how many were closed
    rrecv,        \* Reorder: recv_buf
    inHand,       \* Reorder: the chunk being written
    chunks_per_anchor,      \* Reorder: the number of chunks, once known
    chunks_per_anchor_max,  \* Reorder: the slots of that array
    T,            \* Reorder: the chunks cached in the search tree
    out, next     \* Reorder: the archive and the sequence number it waits for

fragVars == <<fragPc, anchorcount, fragQid>>
workVars == <<pc, recv, send, chcount>>
chunkVars == <<cache, original, state, refs>>
reorderVars == <<rpc, rqid, tried, rrecv, inHand,
                 chunks_per_anchor, chunks_per_anchor_max, T>>
pipeVars == <<que, nTerminated, fragVars, workVars, chunkVars, reorderVars, out, next>>

IsFull(q) == Len(que[q]) = QueueSize

(* Mutant: off by one, the last producer is not waited for.                   *)
isTerminated_early(q) == nTerminated[q] >= nProducers(q) - 1

isTerminated(q) == nTerminated[q] = nProducers(q)

Init ==
    /\ que = [q \in Queues |-> << >>]
    /\ nTerminated = [q \in Queues |-> 0]
    /\ fragPc = "read" /\ anchorcount = 0 /\ fragQid = 0
    /\ pc = [w \in Workers |-> "work"]
    /\ recv = [w \in Workers |-> << >>]
    /\ send = [w \in Workers |-> [d \in Stages |-> << >>]]
    /\ chcount = [t \in Tids |-> 0]
    /\ cache = [x \in Contents |-> NoChunk]
    /\ original = [c \in Chunks |-> NoChunk]
    /\ state = [c \in Chunks |-> "UNCOMPRESSED"]
    /\ refs = 1
    /\ rpc = "fetch" /\ rqid = 0 /\ tried = 0 /\ rrecv = << >> /\ inHand = NoChunk
    /\ chunks_per_anchor = [n \in Anchors |-> 0]
    /\ chunks_per_anchor_max = InitialSlots
    /\ T = {}
    /\ out = << >> /\ next = First

-----------------------------------------------------------------------------
(* mbuffer.c: every chunk's uncompressed data is a window on the buffer the   *)
(* input was read into.  A split makes one more reference, mbuffer_free drops *)
(* one and releases the buffer with the last.                                 *)
(* Mutant: a split does not count its reference.                              *)
mbuffer_split_uncounted == UNCHANGED refs

mbuffer_split == refs' = refs + 1

mbuffer_free == refs' = refs - 1

(* Fragment: cuts the input into coarse chunks, numbers them and deals them   *)
(* out to the refine queues, one at a time (ANCHOR_DATA_PER_INSERT is 1) and  *)
(* round-robin; then it terminates every refine queue.                        *)

FragmentSend ==
    /\ fragPc = "read"
    /\ anchorcount \in Anchors
    /\ ~IsFull(<<"refine", fragQid>>)
    /\ que' = [que EXCEPT ![<<"refine", fragQid>>] = Append(@, anchorcount)]
    /\ anchorcount' = anchorcount + 1
    /\ fragQid' = (fragQid + 1) % nqueues
    /\ IF anchorcount + 1 \in Anchors THEN mbuffer_split ELSE UNCHANGED refs
    /\ UNCHANGED <<nTerminated, fragPc, workVars, cache, original, state, reorderVars, out, next>>

(* The end of the input; a buffer that nothing was read into is freed.        *)
FragmentEnd ==
    /\ fragPc = "read"
    /\ anchorcount \notin Anchors
    /\ fragPc' = "terminate"
    /\ fragQid' = 0
    /\ IF anchorcount = 0 THEN mbuffer_free ELSE UNCHANGED refs
    /\ UNCHANGED <<que, nTerminated, anchorcount, workVars, cache, original, state,
                   reorderVars, out, next>>

(* Mutant: <= in the loop over the queues.                                    *)
FragmentTerminate_one_more ==
    /\ fragPc = "terminate"
    /\ nTerminated' = [nTerminated EXCEPT ![<<"refine", fragQid>>] = @ + 1]
    /\ fragPc' = IF fragQid = nqueues THEN "done" ELSE "terminate"
    /\ fragQid' = fragQid + 1
    /\ UNCHANGED <<que, anchorcount, workVars, chunkVars, reorderVars, out, next>>

FragmentTerminate ==
    /\ fragPc = "terminate"
    /\ nTerminated' = [nTerminated EXCEPT ![<<"refine", fragQid>>] = @ + 1]
    /\ fragPc' = IF fragQid + 1 = nqueues THEN "done" ELSE "terminate"
    /\ fragQid' = fragQid + 1
    /\ UNCHANGED <<que, anchorcount, workVars, chunkVars, reorderVars, out, next>>

-----------------------------------------------------------------------------
(* The loop the three thread pools share: fetch a batch when recv_buf is      *)
(* empty, work on one chunk, hand a send buffer over when it is full; after   *)
(* the -1 of queue_dequeue drain the send buffers and terminate the next      *)
(* stage's queue.                                                             *)

FullBuffer(w, d) == Len(send[w][d]) = Batch

Ready(w) == pc[w] = "work" /\ \A d \in Stages : ~FullBuffer(w, d)

(* queue_enqueue to the destination d is the next thing worker w does.        *)
MustEnqueue(w, d) ==
    \/ pc[w] = "work" /\ FullBuffer(w, d)
    \/ /\ pc[w] = "drain" /\ send[w][d] # << >>
       /\ d = "reorder" => send[w]["compress"] = << >>

(* Mutant: off by one, the last chunk of the batch stays in the send buffer.  *)
Enqueue_keeps_last(w, d) ==
    LET q == <<d, qid(w)>>
        n == Min({Batch, Len(send[w][d]), QueueSize - Len(que[q])})
    IN /\ MustEnqueue(w, d)
       /\ ~IsFull(q)
       /\ que' = [que EXCEPT ![q] = @ \o SubSeq(send[w][d], 1, n)]
       /\ send' = [send EXCEPT ![w][d] = SubSeq(@, n, Len(@))]
       /\ UNCHANGED <<nTerminated, fragVars, pc, recv, chcount, chunkVars, reorderVars, out, next>>

Enqueue(w, d) ==
    LET q == <<d, qid(w)>>
        n == Min({Batch, Len(send[w][d]), QueueSize - Len(que[q])})
    IN /\ MustEnqueue(w, d)
       /\ ~IsFull(q)
       /\ que' = [que EXCEPT ![q] = @ \o SubSeq(send[w][d], 1, n)]
       /\ send' = [send EXCEPT ![w][d] = SubSeq(@, n + 1, Len(@))]
       /\ UNCHANGED <<nTerminated, fragVars, pc, recv, chcount, chunkVars, reorderVars, out, next>>

Dequeue(w) ==
    LET q == InQueue(w)
        n == Min({Batch, Len(que[q])})
    IN /\ Ready(w) /\ recv[w] = << >>
       /\ \/ /\ que[q] # << >>
             /\ recv' = [recv EXCEPT ![w] = SubSeq(que[q], 1, n)]
             /\ que' = [que EXCEPT ![q] = SubSeq(@, n + 1, Len(@))]
             /\ UNCHANGED pc
          \/ /\ que[q] = << >> /\ isTerminated(q)
             /\ pc' = [pc EXCEPT ![w] = "drain"]
             /\ UNCHANGED <<recv, que>>
       /\ UNCHANGED <<nTerminated, fragVars, send, chcount, chunkVars, reorderVars, out, next>>

Shutdown(w) ==
    /\ pc[w] = "drain"
    /\ \A d \in Stages : send[w][d] = << >>
    /\ nTerminated' = [nTerminated EXCEPT ![<<Terminates(Stage(w)), qid(w)>>] = @ + 1]
    /\ pc' = [pc EXCEPT ![w] = "done"]
    /\ UNCHANGED <<que, fragVars, recv, send, chcount, chunkVars, reorderVars, out, next>>

-----------------------------------------------------------------------------
(* The kernels of the three pools.                                            *)

(* FragmentRefine: the next fine chunk is cut off the coarse chunk and gets   *)
(* its l2num; the coarse chunk is used up with its last piece.                *)
Refine(t) ==
    LET w == <<"refine", t>> IN
    /\ Ready(w) /\ recv[w] # << >>
    /\ LET a == Head(recv[w])
           isLast == chcount[t] = NPieces(a) - 1
       IN /\ send' = [send EXCEPT ![w]["dedup"] = Append(@, <<a, chcount[t]>>)]
          /\ chcount' = [chcount EXCEPT ![t] = IF isLast THEN 0 ELSE @ + 1]
          /\ recv' = IF isLast THEN [recv EXCEPT ![w] = Tail(@)] ELSE recv
          /\ IF isLast THEN UNCHANGED refs ELSE mbuffer_split
    /\ UNCHANGED <<que, nTerminated, fragVars, pc, cache, original, state, reorderVars, out, next>>

isLastL2Chunk(c) == c[2] = NPieces(c[1]) - 1

(* Mutant: a hit replaces the entry of the hash table.                        *)
Deduplicate_replaces(t) ==
    LET w == <<"dedup", t>> IN
    /\ Ready(w) /\ recv[w] # << >>
    /\ LET c == Head(recv[w])
           x == ContentOf(c)
           unique == cache[x] = NoChunk
       IN /\ cache' = [cache EXCEPT ![x] = c]
          /\ original' = [original EXCEPT ![c] = IF unique THEN c ELSE cache[x]]
          /\ send' = [send EXCEPT ![w][IF unique THEN "compress" ELSE "reorder"] = Append(@, c)]
          /\ IF unique THEN UNCHANGED refs ELSE mbuffer_free
    /\ recv' = [recv EXCEPT ![w] = Tail(@)]
    /\ UNCHANGED <<que, nTerminated, fragVars, pc, chcount, state, reorderVars, out, next>>

(* sub_Deduplicate, under the lock of the hash bucket: the first chunk with   *)
(* these contents is entered and goes on to be compressed, a later one        *)
(* refers to it and goes straight to Reorder.                                 *)
Deduplicate(t) ==
    LET w == <<"dedup", t>> IN
    /\ Ready(w) /\ recv[w] # << >>
    /\ LET c == Head(recv[w])
           x == ContentOf(c)
           unique == cache[x] = NoChunk
       IN /\ cache' = IF unique THEN [cache EXCEPT ![x] = c] ELSE cache
          /\ original' = [original EXCEPT ![c] = cache'[x]]
          /\ send' = [send EXCEPT ![w][IF unique THEN "compress" ELSE "reorder"] = Append(@, c)]
          /\ IF unique THEN UNCHANGED refs ELSE mbuffer_free
    /\ recv' = [recv EXCEPT ![w] = Tail(@)]
    /\ UNCHANGED <<que, nTerminated, fragVars, pc, chcount, state, reorderVars, out, next>>

(* sub_Compress, under the lock of the chunk.                                 *)
Compress(t) ==
    LET w == <<"compress", t>> IN
    /\ Ready(w) /\ recv[w] # << >>
    /\ LET c == Head(recv[w])
       IN /\ state' = [state EXCEPT ![c] = "COMPRESSED"]
          /\ send' = [send EXCEPT ![w]["reorder"] = Append(@, c)]
    /\ recv' = [recv EXCEPT ![w] = Tail(@)]
    /\ mbuffer_free
    /\ UNCHANGED <<que, nTerminated, fragVars, pc, chcount, cache, original, reorderVars, out, next>>
-----------------------------------------------------------------------------
(* Reorder: one thread, all groups.                                           *)

(* One turn of the round-robin loop over the reorder queues: it blocks on a   *)
(* queue that is empty and open, and ends when a queue gave something or all  *)
(* of them said -1 in a row.                                                  *)
(* Mutant: the first queue that is closed ends the loop.                      *)
ReorderDequeue_first_closed ==
    LET q == <<"reorder", rqid>>
        n == Min({Batch, Len(que[q])})
    IN /\ rpc = "fetch"
       /\ rqid' = (rqid + 1) % nqueues
       /\ \/ /\ que[q] # << >>
             /\ rrecv' = SubSeq(que[q], 1, n)
             /\ que' = [que EXCEPT ![q] = SubSeq(@, n + 1, Len(@))]
             /\ rpc' = "take"
          \/ /\ que[q] = << >> /\ isTerminated(q)
             /\ rpc' = "flush"
             /\ UNCHANGED <<que, rrecv>>
       /\ UNCHANGED <<nTerminated, fragVars, workVars, chunkVars, tried, inHand,
                      chunks_per_anchor, chunks_per_anchor_max, T, out, next>>

ReorderDequeue ==
    LET q == <<"reorder", rqid>>
        n == Min({Batch, Len(que[q])})
    IN /\ rpc = "fetch"
       /\ rqid' = (rqid + 1) % nqueues
       /\ \/ /\ que[q] # << >>
             /\ rrecv' = SubSeq(que[q], 1, n)
             /\ que' = [que EXCEPT ![q] = SubSeq(@, n + 1, Len(@))]
             /\ tried' = 0
             /\ rpc' = "take"
          \/ /\ que[q] = << >> /\ isTerminated(q)
             /\ tried' = (tried + 1) % nqueues
             /\ rpc' = IF tried + 1 = nqueues THEN "flush" ELSE "fetch"
             /\ UNCHANGED <<que, rrecv>>
       /\ UNCHANGED <<nTerminated, fragVars, workVars, chunkVars, inHand,
                      chunks_per_anchor, chunks_per_anchor_max, T, out, next>>

(* Mutant: the array of anchors is never enlarged.                            *)
Slots_fixed(c) == chunks_per_anchor_max

(* "Double size of sequence number array if necessary".                       *)
Slots(c) == IF c[1] >= chunks_per_anchor_max THEN 2 * chunks_per_anchor_max
                                             ELSE chunks_per_anchor_max

(* Mutant: only the anchor is compared with the one Reorder waits for.        *)
InTurn_anchor(c) == c[1] = next[1]

(* sequence_eq                                                                *)
InTurn(c) == c = next

Continue(buf) == IF buf = << >> THEN "fetch" ELSE "take"

(* The next chunk of recv_buf: the array of anchors is doubled if the chunk's *)
(* anchor is beyond it, the last chunk of an anchor tells how many there are, *)
(* and a chunk out of turn is cached.                                         *)
ReorderTake ==
    /\ rpc = "take"
    /\ LET c == Head(rrecv)
       IN /\ chunks_per_anchor_max' = Slots(c)
          /\ chunks_per_anchor' = IF isLastL2Chunk(c)
                                  THEN [chunks_per_anchor EXCEPT ![c[1]] = c[2] + 1]
                                  ELSE chunks_per_anchor
          /\ \/ ~InTurn(c) /\ T' = T \cup {c} /\ rpc' = Continue(Tail(rrecv)) /\ UNCHANGED inHand
             \/ InTurn(c) /\ inHand' = c /\ rpc' = "write" /\ UNCHANGED T
    /\ rrecv' = Tail(rrecv)
    /\ UNCHANGED <<que, nTerminated, fragVars, workVars, chunkVars, rqid, tried, out, next>>

(* The search tree of heaps: TreeFindMin gives the anchor, FindMin the chunk. *)
FindMin(S) == CHOOSE c \in S : \A d \in S : c = d \/ Before(c, d)

(* sequence_inc_l2, then sequence_inc_l1 when the anchor is known to be over. *)
Advance(c) ==
    IF chunks_per_anchor[c[1]] # 0 /\ c[2] + 1 = chunks_per_anchor[c[1]]
    THEN <<c[1] + 1, 0>>
    ELSE <<c[1], c[2] + 1>>

(* Mutant: every duplicate gets a fingerprint, written or not.                *)
WriteChunk_by_flag(c) ==
    LET o == original[c] IN
    /\ state[o] # "UNCOMPRESSED"
    /\ out' = Append(out, IF o = c THEN Data(ContentOf(o)) ELSE Fingerprint(ContentOf(o)))
    /\ state' = [state EXCEPT ![o] = "FLUSHED"]
    /\ next' = Advance(next)

(* write_chunk_to_file: a duplicate stands for its original; wait until that  *)
(* is compressed; write its data the first time and its SHA1 sum after that.  *)
WriteChunk(c) ==
    LET o == original[c] IN
    /\ state[o] # "UNCOMPRESSED"
    /\ out' = Append(out, IF state[o] = "COMPRESSED" THEN Data(ContentOf(o))
                                                     ELSE Fingerprint(ContentOf(o)))
    /\ state' = [state EXCEPT ![o] = "FLUSHED"]
    /\ next' = Advance(next)

(* Write the chunk in hand, then go on with the cache while it has the next.  *)
(* ("flushWrite" is the same write in the loop of ReorderFlush, which takes   *)
(* its chunks from the cache itself.)                                         *)
ReorderWrite ==
    /\ rpc \in {"write", "flushWrite"}
    /\ WriteChunk(inHand)
    /\ IF rpc = "write" /\ T # {} /\ FindMin(T) = next'
       THEN inHand' = next' /\ T' = T \ {next'} /\ UNCHANGED rpc
       ELSE /\ inHand' = NoChunk
            /\ rpc' = IF rpc = "write" THEN Continue(rrecv) ELSE "flush"
            /\ UNCHANGED T
    /\ UNCHANGED <<que, nTerminated, fragVars, workVars, cache, original, refs, rqid, tried,
                   rrecv, chunks_per_anchor, chunks_per_anchor_max>>

(* After the last queue closed, what is left in the cache must be in turn:    *)
(* "L1/L2 sequence number mismatch" ends the program otherwise.               *)
ReorderFlush ==
    /\ rpc = "flush"
    /\ rpc' = IF T = {} THEN "done" ELSE IF FindMin(T) = next THEN "flushWrite" ELSE "mismatch"
    /\ inHand' = IF rpc' = "flushWrite" THEN next ELSE NoChunk
    /\ T' = T \ {inHand'}
    /\ UNCHANGED <<que, nTerminated, fragVars, workVars, chunkVars, rqid, tried, rrecv,
                   chunks_per_anchor, chunks_per_anchor_max, out, next>>

-----------------------------------------------------------------------------

AllDone == fragPc = "done" /\ (\A w \in Workers : pc[w] = "done") /\ rpc = "done"

(* Every pthread_join has returned.                                           *)
Finished == AllDone /\ UNCHANGED pipeVars

(* Where the threads are not blocked: in queue_enqueue on a full queue, in    *)
(* queue_dequeue on one that is empty and open, or in write_chunk_to_file on  *)
(* an original that is not compressed yet.                                    *)
FragmentCanStep ==
    \/ fragPc = "read" /\ (anchorcount \in Anchors => ~IsFull(<<"refine", fragQid>>))
    \/ fragPc = "terminate"

WorkerCanStep(w) ==
    \/ \E d \in Stages : MustEnqueue(w, d) /\ ~IsFull(<<d, qid(w)>>)
    \/ Ready(w) /\ (recv[w] # << >> \/ que[InQueue(w)] # << >> \/ isTerminated(InQueue(w)))
    \/ pc[w] = "drain" /\ \A d \in Stages : send[w][d] = << >>

ReorderCanStep ==
    \/ rpc \in {"take", "flush"}
    \/ rpc = "fetch" /\ (que[<<"reorder", rqid>>] # << >> \/ isTerminated(<<"reorder", rqid>>))
    \/ rpc \in {"write", "flushWrite"} /\ state[original[inHand]] # "UNCOMPRESSED"

(* Every thread that has not returned is blocked, for good.                   *)
Stuck ==
    ~AllDone /\ ~FragmentCanStep /\ (\A w \in Workers : ~WorkerCanStep(w)) /\ ~ReorderCanStep

Standstill == Stuck /\ UNCHANGED pipeVars

FragmentStep == FragmentSend \/ FragmentEnd \/ FragmentTerminate

Kernel(w) ==
    \/ Stage(w) = "refine" /\ Refine(w[2])
    \/ Stage(w) = "dedup" /\ Deduplicate(w[2])
    \/ Stage(w) = "compress" /\ Compress(w[2])

WorkerStep(w) ==
    \/ \E d \in Stages : Enqueue(w, d)
    \/ Dequeue(w) \/ Shutdown(w) \/ Kernel(w)

ReorderStep ==
    ReorderDequeue \/ ReorderTake \/ ReorderWrite \/ ReorderFlush

Step == FragmentStep \/ (\E w \in Workers : WorkerStep(w)) \/ ReorderStep

Next == Step \/ Finished \/ Standstill

Spec == Init /\ [][Next]_pipeVars

(* The scheduler does not stop while some thread can take a step.  No thread  *)
(* needs more than that, because no run is infinite: there is nothing here    *)
(* that a thread could do over and over while another waits.                  *)
FairSpec == Spec /\ WF_pipeVars(Step)

-----------------------------------------------------------------------------
(* Properties.                                                                *)

(* Every variable keeps its type; the queues keep to their size and no queue  *)
(* is terminated more often than it has producers.                            *)
TypeOK ==
    /\ DOMAIN que = Queues /\ DOMAIN nTerminated = Queues
    /\ \A q \in Queues : /\ que[q] \in Seq(IF q[1] = "refine" THEN Anchors ELSE Chunks)
                         /\ Len(que[q]) <= QueueSize
                         /\ nTerminated[q] \in 0 .. nProducers(q)
    /\ fragPc \in {"read", "terminate", "done"}
    /\ anchorcount \in 0 .. Len(Input)
    /\ fragQid \in 0 .. nqueues
    /\ pc \in [Workers -> {"work", "drain", "done"}]
    /\ DOMAIN recv = Workers
    /\ \A w \in Workers : recv[w] \in Seq(IF Stage(w) = "refine" THEN Anchors ELSE Chunks)
    /\ send \in [Workers -> [Stages -> Seq(Chunks)]]
    /\ chcount \in [Tids -> Nat]
    /\ cache \in [Contents -> Chunks \cup {NoChunk}]
    /\ original \in [Chunks -> Chunks \cup {NoChunk}]
    /\ state \in [Chunks -> {"UNCOMPRESSED", "COMPRESSED", "FLUSHED"}]
    /\ refs \in Nat
    /\ rpc \in {"fetch", "take", "write", "flush", "flushWrite", "mismatch", "done"}
    /\ rqid \in Groups /\ tried \in Groups
    /\ rrecv \in Seq(Chunks)
    /\ inHand \in Chunks \cup {NoChunk}
    /\ chunks_per_anchor \in [Anchors -> Nat]
    /\ chunks_per_anchor_max \in Nat
    /\ T \subseteq Chunks

(* The assertions in the stages hold: queue_enqueue never meets a terminated  *)
(* queue (Deduplicate sends to the reorder queue without being one of the     *)
(* producers it counts), sub_Compress never meets a chunk twice, and no       *)
(* anchor's last chunk comes twice.                                           *)
Assertions ==
    /\ \A w \in Workers, d \in Stages : MustEnqueue(w, d) => ~isTerminated(<<d, qid(w)>>)
    /\ \A t \in Tids : LET w == <<"compress", t>> IN
           Ready(w) /\ recv[w] # << >> => state[Head(recv[w])] = "UNCOMPRESSED"
    /\ rpc = "take" /\ isLastL2Chunk(Head(rrecv)) => chunks_per_anchor[Head(rrecv)[1]] = 0

(* When every reorder queue has closed, the cache of Reorder is empty: no     *)
(* chunk is left behind, and its final flush loop, with the two ways it has   *)
(* to give up, never has anything to do.                                      *)
NothingLeftBehind == rpc \in {"flush", "done"} => T = {} /\ next \notin Chunks

(* A duplicate refers to a chunk that is an original itself and that no later *)
(* stage has let go: a chunk that Reorder frees after writing it is never     *)
(* one that others refer to or that the hash table still finds.               *)
FreedChunksAreUnreachable ==
    \A c \in Chunks :
        Before(c, next) /\ original[c] # c
            => /\ \A x \in Contents : cache[x] # c
               /\ \A d \in Chunks : original[d] # c

(* The buffer the input was read into is released when, and only when, the    *)
(* last of the chunks that are windows on it has been compressed or found to  *)
(* be a duplicate: no stage ever works on released memory, and it is not      *)
(* leaked.  (An empty input has no chunks, and its buffer goes at once.)      *)
NeedsItsData(c) == original[c] \in {c, NoChunk} /\ state[c] = "UNCOMPRESSED"
BufferLivesAsLongAsItsChunks ==
    Input # << >> => (refs = 0 <=> \A c \in Chunks : ~NeedsItsData(c))

(* The archive is that of the serial program, record by record, whatever the  *)
(* interleaving: chunks in input order, data before every fingerprint.        *)
Archive == INSTANCE DedupArchive
ImplementsArchive == Archive!Spec

(* What has been written decodes to the beginning of the input: the decoder   *)
(* (decoder.c) never meets a fingerprint before its data, at any moment.      *)
RestoresInput ==
    LET d == Decode(out) IN
    ~d.stopped /\ d.text = SubSeq(FlattenSeq(Input), 1, Len(out))

(* "Double size of sequence number array if necessary" (encoder.c:1673): a    *)
(* chunk's anchor has its slot in the array when Reorder goes on with it.     *)
(* The array is doubled once, whatever the distance, so this needs an input   *)
(* whose chunks never arrive further ahead than that.                         *)
EveryAnchorHasASlot ==
    \A c \in Chunks :
        c \in T \/ c = inHand \/ Before(c, next) => c[1] < chunks_per_anchor_max

(* With queues that hold the whole input every stage returns.                 *)
EveryStageReturns == <>AllDone

(* With smaller queues the pipeline can come to a standstill, because Reorder *)
(* takes its queues in turn and waits for originals while its queues fill up; *)
(* but only in these ways.  A group is held up when Fragment, which alone can *)
(* feed it, is blocked on the full refine queue of another group, whose       *)
(* reorder queue is full.  Either Reorder is blocked on the empty queue of a  *)
(* group that is held up; or it waits for an original to be compressed, and   *)
(* the reorder queue of this original's group is full, or that group is held  *)
(* up with the original in a send buffer that only more input would fill.     *)
HeldUp(g) == /\ fragPc = "read" /\ fragQid # g
             /\ IsFull(<<"refine", fragQid>>) /\ IsFull(<<"reorder", fragQid>>)
StuckOnlyBehindAFullQueue ==
    Stuck =>
        \/ rpc = "fetch" /\ que[<<"reorder", rqid>>] = << >> /\ HeldUp(rqid)
        \/ /\ rpc = "write" /\ state[original[inHand]] = "UNCOMPRESSED"
           /\ LET g == original[inHand][1] % nqueues
              IN IsFull(<<"reorder", g>>) \/ HeldUp(g)
=============================================================================
