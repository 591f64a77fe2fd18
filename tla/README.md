# Verification of the PARSEC suite for RISC-V

This directory holds TLA+ models of the concurrent parts of the PARSEC
benchmarks in `src/`, the TLC configurations that check them on small instances,
and TLAPS proofs of their main safety properties for every value of the
constants. PARSEC is a collection of independent programs; what makes them hard
is not their numerics but their threads: pipelines over bounded queues,
hand-written barriers, work stealing, lock-free swaps, worker pools. The models
keep that control and abstract the data.

## 1. Inventory of the system

`src/build.sh` builds twelve programs (blackscholes, bodytrack, canneal, dedup,
facesim, ferret, fluidanimate, freqmine, streamcluster, swaptions, vips, x264) in
a pthreads or an OpenMP version, `src/run.sh` runs them; `raytrace` is in the
tree too. They share no code at run time except `parsec_hooks` (timing output).

| component | state it keeps | operations | what is hard |
|---|---|---|---|
| **dedup, stage queues** (`dedup/src/queue.[ch]`) | ring buffer, `nTerminated`, mutex, `notEmpty`, `notFull` | `queue_enqueue`, `queue_dequeue` (batches), `queue_terminate` | one signal per batch, termination by the last producer, index wrap-around |
| **dedup, encoder** (`encoder.c`, `mbuffer.c`, `dedupdef.h`) | four queues per group of threads, hash table, `header.state` of each chunk, search tree and `chunks_per_anchor` in Reorder, reference count of the input buffer | five stages: Fragment, FragmentRefine, Deduplicate, Compress, Reorder | order of the archive, duplicates that overtake originals, shutdown of the stages, release of chunks and buffers |
| **dedup, decoder** (`decoder.c`) | hash table of the chunks seen | `Decode` | relies on data coming before its fingerprints |
| **ferret** (`ferret/src/src/queue.c`, `benchmark/ferret-pthreads.c`) | queues with `end_count` | six stages, thread pools | termination, capacity |
| **parsec_barrier** (`streamcluster/src`, `fluidanimate/src`) | `n`, `is_arrival_phase`, mutex, condition | init, wait, destroy | reuse of the barrier, the spinning variant |
| **streamcluster** (`streamcluster.cpp`) | static flags of `pspeedy`, `pFL`, `pgain` | rounds between barriers | shared statics read without a lock |
| **fluidanimate** (`pthreads.cpp`) | cells with a mutex per border cell | phases between barriers | two threads on one border cell |
| **facesim** (`facesim/src/TaskQ/lib`) | a queue per thread, `threadCount`, two conditions | enqueue a task or a grid, run, steal, `taskQWait`, `taskQEnd` | unlocked tests in `signalTasks` and before a theft, waits without loops |
| **bodytrack, worker pool** (`TrackingBenchmark/threads`, `TrackingModelPthread.cpp`, `ParticleFilterPthread.h`) | command, condition variables with tickets, barriers, ticket dispensers | `SendCmd`, `RecvCmd`, `AckCmd`, `Exec`, `JoinAll` | workers that are late for a command, division of the work |
| **bodytrack, image loader** (`AsyncIO.cpp`) | buffer of image sets, two conditions | `Run`, `GetNextImageSet` | lost wakeups |
| **canneal** (`AtomicPtr.h`, `annealer_thread.cpp`) | atomic location pointers, `keep_going` flag | swap of two locations, steps with a barrier | atomic swap without locks, agreement on the last step |
| **vips** (`libvips/iofuncs`: `sinkdisc.c`, `threadpool.c`, `semaphore.c`) | semaphores, two write buffers, thread pool | allocate, work, background write, progress | buffers that change places while workers fill them, errors of workers and of writes |
| **x264** (`common/frame.c`, `encoder/encoder.c`) | `i_lines_completed`, reference counts of frames | broadcast, wait, frame threads | rows read before they are ready |
| **raytrace** (`RTTL/common/RTThread.cxx`) | tasks of server and client threads | suspend, resume, schedule | hand-over |
| blackscholes, swaptions, freqmine | none shared | data-parallel loops | nothing beyond the final join |

Interaction is by shared memory under mutexes and condition variables throughout;
no program persists anything it reads back after a crash, and none sends messages.
So the hazards (listed at their lines in `PROJECT.json`) are interleavings,
atomicity, lost signals, shutdown protocols and bounded resources.

What makes each component correct: *queue*: a bounded FIFO that forgets no
sleeper and closes once; *encoder*: the archive of the serial program for every
schedule, memory released exactly when nobody needs it, every stage returns;
*decoder*: never meets a fingerprint before its data; *barrier*: nobody passes
use k before all have arrived there, whatever the speed of the threads; *task
queue*: `taskQWait` returns only when every task has run, each once; *worker
pool*: every worker runs every command once, and `SendCmd` returns after that;
*loader*: the tracker gets every frame; *swap*: an exchange of two locations, as if
nothing came in between; *background writer*: sections reach the file in order and
complete, and the call comes back.

## 2. Modules

| module | models | with |
|---|---|---|
| `RingBuffer` | `ringbuffer_t` of `queue.h`: operators on the C structure, indices included | `DedupQueueProofs` (its lemmas) |
| `DedupQueue` | `queue.c` used as the stages use it, one element moved per step | `MCDedupQueue`, `DedupQueueProofs` |
| `BoundedQueue` | what a queue promises: a bounded FIFO closed by its producers (abstract) | refined by `DedupQueue` |
| `DedupStream` | chunks of the input, their two-level sequence numbers, the record types | used by the dedup modules below |
| `DedupArchive` | the archive of the serial program (abstract) | refined by `DedupPipeline` |
| `DedupPipeline` | the pthreads encoder: all stages, groups, queues, shutdown | `MCDedupPipeline`, `LineTheorems` (lemmas), `DedupPipelineProofs` |
| `DedupDecoder` | `Decode` as a recursive function over the records | used by `DedupPipeline` |
| `AbstractBarrier` | what a reusable barrier promises (abstract) | refined by `ParsecBarrier` |
| `ParsecBarrier` | `parsec_barrier.cpp`, the same file in streamcluster and fluidanimate | `MCParsecBarrier`, `ParsecBarrierProofs` |
| `TaskQ` | facesim's task queues: `taskQDistCommon.c` with `taskQDistFixed.c` | `MCTaskQ`, `LineTheorems` (lemmas), `TaskQProofs` |
| `Condition` | bodytrack's condition variable: operators on its two counters | used by the next two |
| `WorkerGroup` | bodytrack's pool of workers and how its kernels divide their work | `MCWorkerGroup`, `WorkerGroupProofs` |
| `AsyncIO` | bodytrack's image loader | `MCAsyncIO` |
| `AtomicSwap` | what a swap promises: two locations change places (abstract) | refined by `Canneal` |
| `Canneal` | `annealer_thread.cpp` over the pointers of `AtomicPtr.h` | `MCCanneal`, `CannealProofs` |
| `SinkDisc` | `vips_sink_disc` on `vips_threadpool_run`, over `im_semaphore` | `MCSinkDisc`, `SinkDiscProofs` |

**DedupQueue.** `buf`, `nTerminated` and `mutex` are the fields of `queue_t`; `pc`
says where each thread is; the sets of threads in `pthread_cond_wait` are derived
from `pc` (`notEmpty`, `notFull`). `priv` is the private ring buffer every stage
keeps (`send_buf`, `recv_buf`), `i` the loop counter inside the critical section.
`EnqueueLock`, `EnqueueMove`, `EnqueueReturn` are the three parts of
`queue_enqueue` (and likewise for `queue_dequeue`); a critical section is several
steps, and other threads run their private parts in between. A thread that was
signalled takes the mutex again like any other, so another thread can be first.
`SpuriousWakeup` is what POSIX allows. `Produce`, `EndOfInput`, `Consume` are what
the loops of the stages do around the calls.

**DedupPipeline.** A call on a queue is one step; that is what `DedupQueue` shows
it to be worth. The queues are `<<stage that reads it, group>>`. `Enqueue`,
`Dequeue` and `Shutdown` are the loop the three pools have in common; `Refine`,
`Deduplicate` and `Compress` are their kernels, one chunk per step, because the
kernels work under the lock of a hash bucket or of a chunk. `ReorderDequeue` is
one turn of the round-robin loop, `ReorderTake`, `ReorderWrite` and `ReorderFlush`
the rest of `Reorder`. `cache`, `original` and `state` are the hash table entry,
`compressed_data_ref` and `header.state`; `refs` is `mcb->i` of the input buffer, which
`FragmentEnd` gives back at once if there was nothing to read (`encoder.c:1285`).
The input is a constant: a sequence of coarse chunks, each a sequence of contents;
two chunks with equal contents are a repetition. Where the cuts fall is a matter of
`rabin.c` and left out, and so is reading an input larger than one buffer. A
chunk and its SHA1 sum are both identified with its contents.

**ParsecBarrier.** `n`, `is_arrival_phase` and `master` have the names of the code;
`pc` is where a thread is, `passed` and `serial` record what its calls have
returned. The code holds the mutex from each lock to the next unlock or wait, so a
step is such a stretch: `AwaitArrivalPhase` (test the flag at the entry, poll or
sleep), `Arrive` (count in, then wait), `ArriveLast` (count in, turn the phase, count
out again), `AwaitDeparturePhase`, `Leave`. A thread that polls does so without the
mutex, but whatever it reads there, it locks and tests again; polling is thus a delay
before the next step, and one bounded by `SPIN_COUNTER_MAX`. Both loops of a use sleep
on one condition variable, and `Broadcast` wakes all of them.

**TaskQ.** `queue` is the `TaskQList` of each queue, tail first; `owner` the mutex of a
queue that a thief holds while it waits for the second one. All other critical sections
are one step, and every test made without a mutex is a step of its own: the one of
`signalTasks` (`SignalTasksTest`), the one before a theft (`QuickCheck`). Main (thread 0)
enqueues through `AddTask` and `AddTaskGrid` and begins a region with `BeginWait`; tasks
enqueue others through `AddChild`. `OwnEmpty`, `StealNothing`, `WaitForTasks`,
`WaitForEnd` and `EndWait` are where threads find no more work and are counted in.
`threadsPerTaskQ` is `TaskQThreadsPerQueue`, `Children` what the tasks enqueue. An element of
`Tasks` is one call of `taskQEnqueueTask`, or one tile of a grid, and not a function that could be
called twice: `TaskIdentity`, which TLC and the proofs assume, says that it is enqueued from one
place. `enqueueGridRec` is the recursion of that name, with a set of `Stretches` as its result.

**Condition, WorkerGroup.** A `threads::Condition` keeps `nWaiting` and
`nWakeupTickets` beside the pthread condition; `Condition` gives what `NotifyOne`,
`NotifyAll` and the parts of `Wait` do to them. In `WorkerGroup` all calls are made under
`workDispatch`, so a critical section is a step. `ArriveAt` is `pthread_barrier_wait`, as
the build configures `Barrier.cpp`; the three barriers differ in who takes part and where
they go. The boss sends the commands of a script, as `CreateEdgeMap` and the particle filter
do, and then `JoinAll`. `ExecPrepare` to `ExecEnd` are the kernels: rank 0 resets the
dispenser, `GetTicket` draws, `Work` processes the items of a ticket. `done` counts
how often each item was processed and `executed` how many commands each worker ran.

**AsyncIO** uses the same condition without a mutex that covers the tests of the buffer, so
its steps are single accesses: `TestTicket` and `Sleep` are apart, and a notification may
come between. The image buffer changes under `mDataLock`; its size is read without it and
taken to be read atomically.

**Canneal.** `loc` holds `present_loc` of each element; 0 is `ATOMIC_NULL`. A step is one
atomic load, compare-and-set or store. `First` and `Last` are the two elements of a swap in
the order of their addresses, and `GetFirst`, `CasFirst` (checkout), `GetLast`, `CasLast`
(the exchange) and `Checkin` its accesses. Which elements are chosen and whether a
move pays is random in the code and nondeterministic here; `CostA`, `Accept` and
`Reject` keep that the cost routine has to wait at a null pointer. `KeepGoing`, `Stop` and
`Converged` are `keep_going` with its separate read and write of the global flag, `EndStep`
the barrier.

**SinkDisc.** `buf` is the front buffer, `area`, `go`, `nwrite`, `done`, `write_errno` and
`kill` are the fields of each `WriteBuffer`, `bg` where its background thread is; `stop`,
`error`, `tick` and `finish` are the pool's. `Allocate`, `FlushAndSwap`, `FlushLast` and
`FlushFails` are the ways through `wbuffer_allocate_fn`, which the pool calls under its
allocate lock; `Work`, `Tick`, `Loop`, `Exit` the rest of a worker's loop; `BgGo`,
`WriteBegin`, `WriteEnd` the background writer; `MainTick` to `MainJoin` the caller.
Coordinates count tiles. `filled` and `out` record which tiles lie in a buffer and what was
passed to `write_fn`. Starting a worker, filling a tile, writing a section and the progress
callback may each fail, any number of times.

## 3. Runs

| run | instance | shows |
|---|---|---|
| `dedup_queue` | 2 producers of 3 elements, 2 consumers, queue of 2, batches of 2 | types, the assertion of `queue_enqueue`, no empty batch, nobody stranded, refinement of `BoundedQueue`, every thread returns |
| `dedup_pipeline` | 3 threads per stage in groups of 2 and 1; 4 chunks in 3 coarse ones, two repetitions; queues of 4, batches of 2 | types, the assertions of the stages, nothing left in Reorder, freed chunks unreachable, input buffer released exactly in time, the decoder restores the input from every prefix, refinement of `DedupArchive`, every stage returns |
| `dedup_pipeline_tight` | 2 groups of 1 thread, queues of 1, batches of 2, 19 chunks in 9 coarse ones | every standstill is one of the three kinds described below |
| `parsec_barrier` | 3 threads, 4 uses, polling on | types and the counter, no sleeper is missed, one serial thread per use, refinement of `AbstractBarrier`, every use ends |
| `taskq` | main and 2 workers with a queue each; a batch of 3 tasks with a child and a grandchild, then a grid of 4 | types, a task is in one place and run once, `taskQWait` returns only when everything has run, every thread leaves unless two workers steal from each other for ever |
| `worker_group` | 3 workers; two scripts of 3 commands; 4 rows, 3 particles, work units of 2; spurious wakeups | types, commands in step, tickets only for waiters, each item processed once, all joined |
| `canneal` | 2 threads, 3 elements, 2 moves a step; one step, or to convergence | types, one owner of each null pointer, refinement of `AtomicSwap`, who can be stranded at the barrier, nobody spins for ever |
| `vips_sink` | 2 workers, image of 2 by 5 tiles in buffers of 2 rows; workers, tiles, writes and the progress callback may fail | types, sections in order and complete, `vips_sink_disc` comes back with the whole image only, and it does if nothing fails before the last write |
| `worker_group_gradient` (violation) | as `worker_group`, the commands of two images | finding 2 |
| `async_io` (violation) | 4 frames, buffer of 2 | finding 3 |
| `dedup_slots` (violation) | as `dedup_pipeline`, array of 1 slot | finding 1 |
| `vips_sink_result` (violation) | as `vips_sink` | finding 4 |

Bounds. In `dedup_queue` three elements per producer against a queue of two and
batches of two make every ring buffer wrap, split batches between calls, put two
threads to sleep on one condition, and leave a remainder to drain. In
`dedup_pipeline` two groups are the least in which groups can overtake each other,
and their sizes differ because the size of the last group is computed apart. The
input repeats contents inside one group and across the two, so a duplicate can
arrive before and after its original in Reorder. Its queues hold the whole input
(as `QUEUE_SIZE` = 1024 * 1024 does for inputs of usual size), and therefore it
terminates; the array of anchors starts with two slots, enough for three anchors after
one doubling. `dedup_pipeline_tight` is the other case: queues so small that they
fill up. Standing still is what that run is about, so `Stuck` says for every thread that it
cannot take a step, `Standstill` is the stuttering step in such a state, and the deadlock
check shows that there is no other state without a step. Its send buffers are larger than its
queues, so that a chunk can be kept back in one. Each of the three kinds occurs in it, and its
chunks are so unevenly spread that every schedule ends in one of them. In `parsec_barrier` two threads cannot show much: with three, one is back at
the entry, polling or asleep, while a second leaves and the third still sleeps inside the
previous use. Two uses let a fast thread lap the others once; four let the flag turn
over twice between a thread's look at it and its next step. Polling is on since
`parsec_barrier.hpp:29` defines `ENABLE_SPIN_BARRIER`.

In `taskq` the child makes a task appear while threads are already counted in, and its
own child one while they have been woken; a grid of four tasks over three queues gives one
queue two, so that there is something to steal. In `worker_group` three workers are the least
in which one is late at a barrier while another draws the ticket of the third; work units of 2
leave the last ticket cut off, and after each command the same condition and
barriers are used again. Convergence in `canneal` can take any number of steps in the
code; `MaxSteps` bounds in how many a good move can be made, so that the run is finite, and one
such step is enough for a thread to go on while the other does not. Three elements give
pairs that are equal, reversed, and overlapping. In `vips_sink` two workers can be in the
two buffers at once, three sections use one buffer twice, and the last is cut off.
`async_io` stops when the tracker has all frames or both threads sleep; deadlock is not checked there
because its property is about that.

Standstill. With full queues the encoder can stop for good, in three ways and no other. A
group is *held up* when Fragment, which would have to feed it, blocks on another group whose
queues are full up to Reorder (`HeldUp`). Reorder blocks on the empty reorder queue of a group
that is held up; or it waits for an original to be compressed while the threads of that
original's group block on their full reorder queue; or the original's group is held up and
the original lies in a send buffer that is not full, so that only more input or the shutdown
would bring it to `Compress`. `QUEUE_SIZE` and the batch limits make it remote, not
impossible: it takes at least as many chunks of one group outstanding as a reorder queue holds.
`NoOtherStandstill` (section 5) is the first statement for all sizes, and `NoStandstillWithRoom`
the last.

Fairness. `DedupQueue` assumes weak fairness of every thread's next step: the
scheduler runs a thread that can run. It assumes none of spurious wakeups, so a
lost signal is never repaired by one. Weak fairness at the mutex suffices since runs
are finite. `DedupPipeline` assumes only that some thread that can take a step
does; its behaviours are finite too. `ParsecBarrier` assumes weak fairness of every
thread's next step, again none of spurious wakeups. Its spurious wakeups make endless
behaviours possible (a sleeper that wakes and sleeps again), but in none of them is the
step of another thread put off for ever.
`WorkerGroup`, `Canneal`, `SinkDisc`, `AsyncIO` and `TaskQ` assume weak fairness of every thread,
none of spurious wakeups. In `TaskQ` that leaves a livelock: with one task left, two workers can
take it from each other's queue for ever, each losing it before it gets round to its own
queue (`taskQDistFixed.c:31-49`). It is not assumed away: `EveryoneLeaves` says that all
threads leave or that two workers of different queues steal for ever (`Livelock`), and this is
then the only way not to leave; without the second part TLC finds it violated. On
real processors it is a matter of a few rounds. `TaskQ` has no spurious wakeups
because the code waits with `if` or with nothing at all (`taskQDistCommon.c:79`, `:109`); what it
promises when `pthread_cond_wait` returns early is not claimed.

Mutants. Each property of a passing run is broken by a mutant kept in the module
right before the definition it mutates (`..._late_wrap`, `..._if`, ...): a
signal too few, an off-by-one, a buffer not drained, a reference not counted.

## 4. Findings

1. **`chunks_per_anchor` is doubled at most once** (`encoder.c:1673-1683`). The comment
   says "Double size of sequence number array if necessary", and the code doubles once
   and indexes with `l1num`. A first chunk with `l1num` >= 2 * size is out of bounds.
   With the real numbers: 1024 slots, and one refine thread fetches up to 10000 coarse
   chunks in one call, so two threads of one group can work that far apart. Coarse chunks
   are at least 2 MB, so this takes an input of more than 4 GB; the run scales the array
   down to one slot instead.
2. **The gradient leaves out rows from the second image on**
   (`TrackingModelPthread.cpp:188`). The dispenser is reset with the increment only and keeps
   the start value of the column filter before it, `kernelSize / 2`. The first image is
   complete, all later ones begin three rows too low; the serial version does them all.
3. **Loader and tracker can both fall asleep for good** (`AsyncIO.cpp:71-72`, `:87-98`). Neither
   holds the other's mutex when it tests the buffer and notifies. A notification
   between the test of the tickets and `pthread_cond_wait` wakes nobody, and its ticket makes
   every later `NotifyOne` believe that the sleeper has been called already.
4. **`vips_sink_disc` returns 0 when the last write fails** (`sinkdisc.c:533`). "Returns: 0 on
   success, -1 on error" (`:501`). A failed write is kept in `write_errno`, at which the
   next `wbuffer_flush` looks (`:273`). After the last section there is no next one: the caller waits
   for the write, frees the buffers and returns what `vips_threadpool_run` returned, which
   knows nothing of it. `SuccessMeansWritten` is the caller's side of the doc line, and it is violated.

Seen while modelling, and either stated by a property of a passing run or outside
of the models:

- canneal, run to convergence (`number_temp_steps` = -1): the threads read and clear
  `keep_going`'s flag without agreement (`annealer_thread.cpp:138-139`). One that read it up is at the
  barrier one step later, where those that read it down never come.
  `OnlyConvergenceStrands` says that this is the only way; a fixed number of steps is safe.
- canneal, `AtomicPtr.h:293`: the guard is spelled `ENABLE_TRHEADS`, so `Checkin` is a
  plain store instead of one with release semantics. The model takes memory to be sequentially
  consistent and does not show what that allows.
- vips: a worker's failure stays in `thr->error` (`threadpool.c:508-526`); nothing sets
  `pool->error` from it. `vips_sink_disc` therefore never returns -1 for a failed tile or
  write. A failed tile never leaves its buffer, whose background writer waits for it; a failed
  write is noticed by the next flush, which gives up before `up(go)`; the caller waits for
  `done` or for ticks. If the progress callback fails before the last tile is allocated, the caller
  waits at `sinkdisc.c:533` for a write that was never started. `ComesBackOnlyWithTheImage` says
  that it does not come back in these cases, `ComesBack` that it does when none of this happens: it
  is conditional and promises nothing in them. The stuttering step `Stopped` marks these ends.
- dedup under `ENABLE_OMP`: refinement tasks of different coarse chunks are unordered, so a
  fingerprint can be written before its data, against the comment at `encoder.c:314`. `dedup/build.sh:1-4`
  calls this version not supported and builds the pthreads one; it is not modelled.

## 5. Proofs

`DedupQueueProofs` begins with `RingBuffer`: for every size and every position of the indices, a
new buffer is empty and an empty buffer is not full. `InsertLemma` and `RemoveLemma` keep the
type and the set of elements; `InsertContents` and `RemoveContents` are about their order: as a
sequence, the contents of a buffer get the inserted element at their end, and lose
their head, which is the front that was read. Then it proves about `DedupQueue`, for all finite disjoint nonempty sets of
producers and consumers and all positive sizes (the assumptions named in the module):

- `TypeCorrect`: `Spec => []TypeOK`
- `NoEnqueueAfterTermination`: `Spec => []EnqueueOnOpenQueue`, the assertion at `queue.c:88`
- `NoEmptyBatch`: `Spec => []BatchesAreNotEmpty`, the callers' `assert(r>=1)`
- `NoElementIsStranded`, `NoProducerIsStranded`: one signal per batch is enough
- `QueueIsFifo`: `Spec => ImplementsFifo`, the refinement of `BoundedQueue`.

The inductive invariant is

    Inv == TypeOK /\ MutexInv /\ TerminatedInv /\ BuffersInv /\ ProducersInv /\ ConsumersInv

`MutexInv`: the owner of the mutex is the one thread inside a critical section.
`TerminatedInv`: `nTerminated` is the number of producers that are done; it relates a
counter to a set, so its preservation by `Terminate` is an argument about cardinality.
`BuffersInv`: the slots between tail and head hold elements, not junk; without it
neither `ringbuffer_remove` nor the type of `received` could be proved. `ProducersInv`
and `ConsumersInv`: what a thread knows at its place in the code (a producer at
`enqueue` has something to hand over, one at `enqMove` with `i = 0` has found room).
The two signal properties and "nobody sleeps on a closed queue" are inductive together,
relative to `Inv` (`SignalInv`). Each action has its lemma; the theorems combine them.

The refinement maps each ring buffer to its contents, a sequence. What an insertion and a
removal do to it is `InsertContents` and `RemoveContents`, so that the proof never looks at an
index again: `EnqueueMove` is `Put`, `DequeueMove` is `Take`, and locking, signals and sleep are
no steps of the FIFO. `Terminate` is `Close` because a producer that gets there has emptied its
private buffer (`Drained`).

`ParsecBarrierProofs` proves all the safety of `ParsecBarrier`, for every finite nonempty
set of threads, every number of uses, and with and without polling:

- `TypeCorrect`: `Spec => []TypeOK`, which includes `n = Cardinality(Inside)`
- `NobodyOversleeps`: `Spec => []SleepersHaveAReason`
- `UniqueSerialThread`: `Spec => []OneSerialThread`
- `IsABarrier`: `Spec => ImplementsBarrier`, the refinement of `AbstractBarrier`.

    Inv == TypeOK /\ SleepersHaveAReason /\ PhaseInv /\ InsideInv /\ SerialInv

`PhaseInv` is what the two phases are for: in an arrival phase all threads have passed
equally often and one is missing; in a departure phase those outside are one use ahead of
those inside, and somebody is inside. The refinement needs it: `Leave` is a `Pass` of the
abstract barrier because everybody outside is ahead. That `n + 1 >= max` finds all the
other threads inside is an argument about cardinality (`LastLemma`). `SerialInv` looks
ahead: a thread inside with `master` set will be the serial thread of its use, and a use
in which somebody has arrived has exactly one.

`CannealProofs` proves about `Canneal`, for every finite nonempty set of threads, at least
two elements, and any number of moves and steps:

- `TypeCorrect`: `Spec => []TypeOK`
- `ExclusiveCheckout`: `Spec => []OneOwner`
- `SwapIsAtomic`: `Spec => ImplementsSwap`, the refinement of `AtomicSwap`
- `StrandedByConvergence`: `Spec => []OnlyConvergenceStrands`.

    IInv == TypeOK /\ LocalsOK /\ OneOwner

`LocalsOK` says what a thread's locals hold between its accesses: a value that was read is
not null. That alone keeps a compare-and-set from succeeding at an element somebody
else has checked out, and makes `OneOwner` inductive: a null pointer belongs to the one thread
that holds it as its first element. The refinement maps a checked-out element to the
location its owner keeps in its locals. `CasFirst` and `Checkin` then change nothing, and
`CasLast` is the exchange. It compares values, not versions: an element may have moved away and
come back between the load and the compare-and-set. The proof shows that this does no
harm, because `valFirst` belongs to an element that nobody else can touch meanwhile.

`StrandedByConvergence` has an invariant of its own. `LevelInv`: all threads are in the same
temperature step (`Level`), those that have returned included, where one at the barrier has
counted that step already; and with a fixed number of steps one that still works has not
done them all, one that has returned has. So a thread at the barrier is exactly one step ahead of one that
has returned, and with a fixed number of steps these two cannot be.

`WorkerGroupProofs` proves about `WorkerGroup`, for every finite nonempty set of workers,
every set of scripts, every height, kernel size and number of particles, and every positive work unit:

- `TypeCorrect`: `Spec => []TypeOK`
- `CommandsInStep`: `Spec => []InStep`
- `TicketsForWaiters`: `Spec => []TicketsAreForWaiters`
- `ItemsOnce`: `Spec => []EveryItemOnce`.

    Inv == TypeOK /\ Typed /\ Phase /\ Progress /\ Ranks /\ CondOK /\ Division

`Phase` is the round of the protocol: the pool is `Idle` between two calls of `SendCmd`; then
`Running` until the last worker has come to `workDoneBarrier`, `Acked` until the master
has taken the command back, `Ready` until everybody has come to `poolReadyBarrier`, and finally
`Joined`. `PhaseOf` reads the phase off the place of one thread; without it no
step of a single worker says anything about the others. `Progress` ties the counts of
executed commands and each worker's own `cmd` to the phase. `CondOK` is inductive only because a
command is taken back after everybody has acknowledged it, so that nobody waits then. `Ranks` says that
once somebody has started somebody has rank 0, so somebody has prepared the dispenser when
`workInit` opens. `Division` describes the range in two halves, before that
barrier (nothing is processed) and after it (the units at work are disjoint, and an item is
processed exactly if it was handed out and is not at work); at `workDoneBarrier` everything
has been handed out. Each barrier has a lemma (`DoneBarrier`, `InitBarrier`,
`ReadyBarrier`): who is not the last to come waits, and the last finds everybody else there,
which is an argument about cardinality (`AllButOne`).

`SinkDiscProofs` proves all the safety of `SinkDisc`, for every finite nonempty set of
workers and all sizes of the image and of its buffers, with failures of workers that start, of tiles,
of writes and of the progress callback:

- `TypeCorrect`: `Spec => []TypeOK`
- `TopToBottom`: `Spec => []SectionsInOrder`
- `CompleteWhenWritten`: `Spec => []OnlyCompleteSections`
- `BackWithTheImage`: `Spec => []ComesBackOnlyWithTheImage`.

    Inv == TypeOK /\ AreasOK /\ MainOK /\ OutInOrder /\ WriterBounds /\ Phase

`Phase` is where the double buffering stands: `First` (the first buffer fills), `Filling` (the
front buffer fills while the back one is `Flushed`, that is being written or written), `Failed`
(a write failed and a flush has noticed), `Last` (all tiles are allocated), `Ended` (the caller
releases the buffers). `Flushed` says what the semaphores are for: while `done` is down, every
tile of the area is there or in the hands of a worker, and once the writer has got past `nwrite`
nobody holds one. That is the count of the holders: `nwrite[b]` is minus the number of workers
with a tile of `b` (`WritersCounted`), those that failed for ever included. A worker that fails in
`wbuffer_flush` counts there and has no tile, so after a failed write only the bounds
(`WriterBounds`) are left, and only they are part of every phase.

`LineTheorems` is about elements that stand in lines at a set of places and are handed on from
the head of one line to the end of another, alone or several at once: nothing is lost,
nothing is doubled (`HandOn`, `Passing`), and it is known which elements are in a
group of places afterwards (`HandOnAmong`, `PassingAmong`). The pipeline's queues and the private
buffers of its threads are such places, and so are the task queues of facesim, where a thread takes
from the other end what it runs itself (`LeavingLast`). It is also about values computed one
after the other, as loops and recursive functions do: that such a sequence of values exists
(`StepByStep`) and is the only one (`OneOnly`). Both are induction, done as an argument about
the least number for which the statement fails (`LeastLemma`, from the library's theorem on
well-founded relations, which takes a set), since the induction theorems of the library take an
operator.

`DedupPipelineProofs` proves about `DedupPipeline`, for every input (the empty one too), any number
of threads and groups and all sizes of queues and batches:

- `TypeCorrect`: `Spec => []TypeOK`
- `StageAssertions`: `Spec => []Assertions`
- `NothingIsLeftBehind`: `Spec => []NothingLeftBehind`
- `FreedIsForgotten`: `Spec => []FreedChunksAreUnreachable`
- `BufferIsReleased`: `Spec => []BufferLivesAsLongAsItsChunks`
- `NoOtherStandstill`: `Spec => []StuckOnlyBehindAFullQueue`
- `NoStandstillWithRoom`: `Spec => []~Stuck`, if each reorder queue has room for the chunks of its group
- `ArchiveIsTheSerialOne`: `Spec => ImplementsArchive`, the refinement of `DedupArchive`
- `DecodesToTheInput`: `Spec => []RestoresInput`.

    IInv == ControlInv /\ DataInv /\ RefsInv /\ CompressedInv /\ GroupInv

`ControlInv` is about the threads. Every coarse chunk and every fine one is in exactly one place:
unread, in a line, in a thread's hands, in Reorder's tree, or written (`AnchorInv`, `ChunkInv`).
`ShutdownInv`: `nTerminated` of a queue is the number of its producers that are done, and a thread
that has left its loop has found its queue empty and terminated, which then stays so; with
`SendInv` (chunks leave a stage only for later ones) no chunk meets a closed queue. `SequenceInv`
relates `chunks_per_anchor` and `next` to what has arrived. `TurnInv` is for the round-robin of
`Reorder`: the queues that said -1 in a row are the last `tried` ones before `rqid`, so when `tried`
gets to the number of groups all are closed. Then nothing is in a line any more, and the tree is
empty because its least chunk would be `next` (`EndInv`); that a set of chunks has a least one
(`FindMinLemma`) is induction over data, and comes from the library's theorem on well-founded
relations, which takes a set.

`DataInv` is about the chunks. The hash table finds originals only, a chunk refers to the one
the table has for its contents, an original is `FLUSHED` exactly if some chunk with its
contents is written, and a chunk's place tells how much has happened to it. So whichever copy
Reorder comes to first is written as data, and every later one as a fingerprint, no matter
which copy Deduplicate met first: this is the refinement. `RefsInv` counts the
references to the input buffer: `refs` is the number of chunks that still need their data and have
been cut, plus the coarse chunks not yet split, each counted at its last fine chunk, which takes its
reference over. `Unread` is the buffer of an empty input. This clause made the
model more precise: an empty input has no last chunk to release the buffer, so `FragmentEnd`
has to, as `encoder.c:1285` does.

The last two parts are there for the standstill. `CompressedInv`: an original that has got past
`Compress` is no longer `UNCOMPRESSED`, so one that Reorder waits for is still on its way there.
`GroupInv`: a chunk stays in the queues and threads of the group its coarse chunk was dealt to.
In a standstill every worker has returned, starves on an empty queue, or is jammed behind a full one
(`BlockedLemma`); so if the reorder queue of a group has room, everything before it is empty, stage
by stage (`RoomLemma`), and if the group is not finished either, Fragment itself is blocked, on another
group that is full to the end (`HeldUpLemma`). `Reorder` cannot have returned before the others
(`ReorderIsLast`), and the three ways are what is left. For `NoStandstillWithRoom`, in each of them
a reorder queue is full while some chunk of its group has not got there: the original in question,
or the first chunk of a coarse one in a full refine queue (`UncutHead`). The other chunks of the
group are too few to fill it (`MissingChunk`, an argument about cardinality). The condition speaks
of the constants only. It cannot be dropped: `dedup_pipeline_tight` reaches `Standstill`.

For the decoder, the archive is compared with the input at every moment, not only at the end.
`Decode` is one step per record (`DecodeNext`), and `TextBefore[c]` is the text that comes before
chunk `c`. `DecoderInv` says that what has been decoded so far is the text before `next`, and that
the decoder has seen exactly the contents of the chunks before it; so a fingerprint, which
Reorder writes for contents that are written already, is always found. That the text before a
chunk is a beginning of the whole input, which is a flattened sequence of sequences, is
`TextLemma`, `FlattenLemma` and `TextBegins`, again over sequences computed step by step.

`TaskQProofs` proves all the safety of `TaskQ`, for any number of threads and of threads per
queue, any batches of tasks and grids, and any tasks that they enqueue:

- `TypeCorrect`: `Spec => []TypeOK`
- `OneTaskInOnePlace`: `Spec => []OneTaskOnePlace`
- `WaitIsForAll`: `Spec => WaitCompletes`.

    IInv == SharedTypes /\ LocalTypes /\ TaskInv /\ RegionInv
            /\ BatchInv /\ CountInv /\ PlaceInv /\ WatchInv

`RegionInv`: the workers sleep while main fills the queues, and nobody works outside a parallel
region. `BatchInv`: what main has yet to enqueue is the end of the batch. `CountInv`:
`threadCount` is the number of threads asleep, main among them, except while main
fills the queues, when it is the number of all threads. `PlaceInv`: the queued tasks, the running
ones and those that were run are disjoint, and together they are what main and the tasks have
enqueued so far. `WatchInv` is why `taskQWait` may come back: as long as a queue holds a task,
somebody looks there before it goes to sleep. That is a worker that has not begun its round of the
other queues, or one whose round has yet to come to that queue (`Ahead`), or, for queue 0, main
(`Looks`). A task that moves between two queues is moved by a thief that has it in its own queue
afterwards. So when all are counted in, no queue holds a task and nobody runs one.

A grid is dealt out by recursion on the number of queues. `SharesLemma` says that no
two shares overlap or go to the same queue and that together they are the whole grid. It is
induction over the number of queues, again by `LeastLemma`. `AssignLemma` draws the
conclusion for the queues: `AssignTasks` puts every tile into exactly one.

## 6. Checked but not proved, and what is left out

Only model-checked: liveness, which the proof system does not reach (`EveryThreadReturns`,
`EveryStageReturns`, `EveryUseEnds`, `EveryoneLeaves`, `PoolIsJoined`, `ComesBack`). Every other
property of a passing run is a theorem. Of the liveness of the encoder, `NoStandstillWithRoom` is
the part that is a safety property: something can always be done until all have returned.
Nothing is proved about `AsyncIO`, whose run shows a violation.

Left out of the dedup models: failures of `malloc`, `read` and `write`, which end the
program (`EXIT_TRACE`); the hash table's buckets, the heap and the search tree as
data structures; compression; statistics. An empty input gives an empty archive; it is not
an instance of a run.

Left out of the barrier model: error codes of the pthread functions, which valid objects
do not return, and `parsec_barrier_destroy`, called when the threads are joined.

Left out of the other models: in `TaskQ` grids of more than one dimension, which
`THREAD_POOL` does not make, the fixed capacity of a queue (65536 entries, unchecked), and
statistics; in `WorkerGroup` `Barrier`'s branch without pthread barriers, which is not
built, and `SynchQueue`, which nothing uses; in `Canneal` `TrySwap` and the other `Try`
operations, which nothing calls, weak memory, and the routing cost; in `SinkDisc`
`sinkscreen.c`, running out of threads before the first tile, and running out of memory for a
buffer at any time: when `wbuffer_position` cannot get one after the buffers have changed places
(`sinkdisc.c:377`), its assertion at `:323` reads through the null pointer that `im_region_buffer` has
left before the error can be returned, so the -1 of `:378` is not reached unless assertions are
compiled out; in `AsyncIO` what `LoadSet` reads.

Not modelled, with the reasons in `PROJECT.json`: ferret's queue is dedup's without
batches; streamcluster's rounds and fluidanimate's cells follow from floating-point data, their
barrier is `ParsecBarrier`; x264's frame threads wait in a loop for a counter that only
grows; raytrace is not among the programs built by default. Most of the tree is
numeric kernels, image operations, generated bindings and vendored headers (`vips/src/swig`,
`CImg.h`, `glext_win.h`, facesim's physics, x264's transforms): sequential code over floating-point
or pixel data, with no control that a model checker could explore. The models cover the
code that coordinates threads, a small part of the lines of the suite.

## 7. Plan

Every safety property of a passing run is a theorem, for every value of the constants. What
could be added: absence of a standstill, proved as for the encoder, for the other components
whose `EveryThreadReturns` and the like TLC checks; models of ferret's stages and of x264's frame
threads; the parts of the vips thread pool that `sinkdisc.c` does not use.
