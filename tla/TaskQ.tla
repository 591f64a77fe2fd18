------------------------------- MODULE TaskQ -------------------------------
(* The task queues of facesim (TaskQ/lib, built with TASKQ_DIST_FIXED) under  *)
(* the calls of THREAD_POOL_ALAMERE.cpp.  The main thread, number 0, fills    *)
(* the queues while the workers sleep, and taskQWait has all threads empty    *)
(* them: each its own queue first, then those of others.  A task may enqueue  *)
(* tasks itself.  Nothing but sync.threadCount says that everybody is done:   *)
(* threads count themselves in when they find no more work, and whoever       *)
(* enqueues during the parallel region resets the count.                      *)
(*   A stretch under one mutex is one step; a thief holds the mutexes of two  *)
(* queues, so taking the first of them is a step of its own, and so is every  *)
(* test that the code makes without a mutex.  The waits of the code are in no *)
(* loop: pthread_cond_wait is taken to return only when it is signalled.      *)
EXTENDS Integers, FiniteSets, Sequences

CONSTANTS numThreads,        \* taskQInit's argument
          threadsPerTaskQ,   \* TaskQThreadsPerQueue
          Batches,           \* what main enqueues before each taskQWait: its
                             \* tasks, and whether it is one taskQEnqueueGrid
          Children           \* per task: the tasks that it enqueues

Threads   == 0 .. numThreads - 1
numTaskQs == (numThreads + threadsPerTaskQ - 1) \div threadsPerTaskQ
Queues    == 0 .. numTaskQs - 1
Tasks     == DOMAIN Children
MAX_STEAL == 8

ASSUME TaskQAssumption ==
    /\ numThreads \in Nat \ {0} /\ threadsPerTaskQ \in Nat \ {0}
    /\ Batches \in Seq([grid : BOOLEAN, tasks : Seq(Tasks)])
    /\ Children \in [Tasks -> SUBSET Tasks]

NONE == -1

(* A task stands for one call of taskQEnqueueTask, or one tile of a grid, and *)
(* so it is enqueued from one place.                                          *)
ASSUME TaskIdentity ==
    /\ NONE \notin Tasks
    /\ \A b, c \in DOMAIN Batches :
          \A i \in DOMAIN Batches[b].tasks, j \in DOMAIN Batches[c].tasks :
             Batches[b].tasks[i] = Batches[c].tasks[j] => b = c /\ i = j
    /\ \A b \in DOMAIN Batches : \A i \in DOMAIN Batches[b].tasks, k \in Tasks :
          Batches[b].tasks[i] \notin Children[k]
    /\ \A k, l \in Tasks : k # l => Children[k] \cap Children[l] = {}

myQ(t) == t \div threadsPerTaskQ

VARIABLES queue,            \* the TaskQList of each queue, tail first, head last
          owner,            \* who keeps the mutex of a queue between two steps
          threadCount,      \* sync.threadCount
          parallelRegion, noMoreTasks, nextQ,
          pc,               \* where each thread is
          victim,           \* stealTasks' i
          stole,            \* has main made the one steal of this round?
          task, todo,       \* the task a thread runs, what it has yet to enqueue
          batch,            \* how often main has begun to fill the queues
          pending,          \* the tasks of this batch that main has to enqueue
          ran               \* how often each task has been run to its end

vars == <<queue, owner, threadCount, parallelRegion, noMoreTasks, nextQ, pc,
          victim, stole, task, todo, batch, pending, ran>>
shared == <<queue, owner, nextQ, parallelRegion, noMoreTasks>>
main   == <<batch, pending>>
local  == <<victim, stole, task, todo>>

Init ==
    /\ queue = [q \in Queues |-> <<>>]
    /\ owner = [q \in Queues |-> NONE]
    /\ threadCount = 0
    /\ parallelRegion = FALSE /\ noMoreTasks = FALSE /\ nextQ = 0
    /\ pc = [t \in Threads |-> IF t = 0 THEN "waitForEnd" ELSE "waitForTasks"]
    /\ victim = [t \in Threads |-> 0]
    /\ stole = FALSE
    /\ task = [t \in Threads |-> NONE]
    /\ todo = [t \in Threads |-> {}]
    /\ batch = 0 /\ pending = <<>>
    /\ ran = [k \in Tasks |-> 0]

Goto(t, label) == pc' = [pc EXCEPT ![t] = label]

-----------------------------------------------------------------------------
(* sync: the two condition variables and the count.                           *)

(* pthread_cond_broadcast of the conditions in which a thread sleeps at one   *)
(* of the labels; t goes on at label.                                         *)
Broadcast(t, label, labels) ==
    pc' = [u \in Threads |-> CASE u = t -> label
                               [] u # t /\ pc[u] \in labels ->
                                    IF pc[u] = "tasksDone" THEN "ended" ELSE "awake"
                               [] OTHER -> pc[u]]

(* waitForTasks up to its wait.                                               *)
WaitForTasks(t) ==
    /\ pc[t] = "waitForTasks"
    /\ threadCount' = threadCount + 1
    /\ IF threadCount' = numThreads
       THEN Broadcast(t, "taskAvail", {"tasksDone"})
       ELSE Goto(t, "taskAvail")
    /\ UNCHANGED <<shared, main, local, ran>>

(* A worker wakes up in waitForTasks: it returns for good, or goes to work.   *)
Resume(t) ==
    /\ pc[t] = "awake"
    /\ Goto(t, IF noMoreTasks THEN "exited" ELSE "own")
    /\ UNCHANGED <<shared, main, local, threadCount, ran>>

AfterSignal(t) == CASE task[t] # NONE -> "run"
                    [] task[t] = NONE /\ noMoreTasks -> "exited"
                    [] OTHER -> "own"

(* signalTasks tests the count before it takes the mutex.                     *)
SignalTasksTest(t) ==
    /\ pc[t] = "signalTasks"
    /\ Goto(t, IF threadCount # 0 THEN "reset" ELSE AfterSignal(t))
    /\ UNCHANGED <<shared, main, local, threadCount, ran>>

(* Mutant: the threads are woken but the count is kept.                       *)
SignalTasks_keep(t) ==
    /\ pc[t] = "reset"
    /\ Broadcast(t, AfterSignal(t), {"taskAvail", "tasksDone"})
    /\ UNCHANGED <<shared, main, local, threadCount, ran>>

SignalTasks(t) ==
    /\ pc[t] = "reset"
    /\ threadCount' = 0
    /\ Broadcast(t, AfterSignal(t), {"taskAvail", "tasksDone"})
    /\ UNCHANGED <<shared, main, local, ran>>

(* waitForEnd up to its return or its wait.                                   *)
WaitForEnd ==
    /\ pc[0] = "waitForEnd"
    /\ threadCount' = threadCount + 1
    /\ Goto(0, IF threadCount' # numThreads THEN "tasksDone" ELSE "ended")
    /\ UNCHANGED <<shared, main, local, ran>>

(* The end of waitForEnd.  taskQInit, the first to call it, ignores what it   *)
(* returns; taskQWait tries again until everybody is counted.  Then main goes *)
(* on to fill the queues once more, or to end.                                *)
EndWait ==
    /\ pc[0] = "ended"
    /\ IF parallelRegion /\ threadCount # numThreads
       THEN /\ Goto(0, "own")
            /\ stole' = FALSE
            /\ UNCHANGED <<batch, pending, parallelRegion>>
       ELSE /\ parallelRegion' = FALSE
            /\ batch' = batch + 1
            /\ IF batch < Len(Batches)
               THEN Goto(0, "enqueue") /\ pending' = Batches[batch + 1].tasks
               ELSE Goto(0, "taskQEnd") /\ UNCHANGED pending
            /\ UNCHANGED stole
    /\ UNCHANGED <<queue, owner, nextQ, noMoreTasks, victim, task, todo, threadCount, ran>>

-----------------------------------------------------------------------------
(* The main thread outside of the parallel region.                            *)

Put(q, ks) == queue' = [queue EXCEPT ![q] = @ \o ks]

(* The queue for a task of the thread id; main deals its tasks out in turn.   *)
PickQueue(id) == IF parallelRegion THEN myQ(id) ELSE nextQ

(* enqueueGridRec in one dimension: which queue gets which stretch of the     *)
(* grid.  The recursion halves a stretch and the queues from start on that    *)
(* are to share it, until either is one.                                      *)
Stretches == [lo : Nat, hi : Nat, start : Nat, total : 1 .. numTaskQs]

Middle(s) == s.lo + (s.hi - s.lo) \div 2
FirstHalf(s) == [lo |-> s.lo, hi |-> Middle(s), start |-> s.start, total |-> s.total \div 2]
SecondHalf(s) == [lo |-> Middle(s), hi |-> s.hi, start |-> s.start + s.total \div 2,
                  total |-> s.total - s.total \div 2]

enqueueGridRec[s \in Stretches] ==
    IF s.total = 1 \/ s.hi - s.lo = 1
    THEN {s}
    ELSE enqueueGridRec[FirstHalf(s)] \cup enqueueGridRec[SecondHalf(s)]

Shares == enqueueGridRec[[lo |-> 0, hi |-> Len(pending), start |-> 0, total |-> numTaskQs]]

(* assignTasks: the tasks of the grid that go to a queue.                     *)
AssignTasks(q) ==
    IF \E s \in Shares : s.start = q
    THEN LET s == CHOOSE s \in Shares : s.start = q IN SubSeq(pending, s.lo + 1, s.hi)
    ELSE <<>>

(* taskQEnqueueTask1 from main.                                               *)
AddTask ==
    /\ pc[0] = "enqueue"
    /\ pending # <<>> /\ ~Batches[batch].grid
    /\ owner[PickQueue(0)] = NONE
    /\ Put(PickQueue(0), <<Head(pending)>>)
    /\ nextQ' = IF nextQ + 1 >= numTaskQs THEN 0 ELSE nextQ + 1
    /\ pending' = Tail(pending)
    /\ UNCHANGED <<owner, threadCount, parallelRegion, noMoreTasks, pc, local, batch, ran>>

(* taskQEnqueueGrid, which only main calls, and not in a parallel region.     *)
AddTaskGrid ==
    /\ pc[0] = "enqueue"
    /\ pending # <<>> /\ Batches[batch].grid
    /\ \A q \in Queues : owner[q] = NONE
    /\ queue' = [q \in Queues |-> queue[q] \o AssignTasks(q)]
    /\ pending' = <<>>
    /\ UNCHANGED <<owner, threadCount, parallelRegion, noMoreTasks, nextQ, pc, local, batch, ran>>

(* Wait_For_Completion: taskQWait begins.                                     *)
BeginWait ==
    /\ pc[0] = "enqueue" /\ pending = <<>>
    /\ parallelRegion' = TRUE
    /\ stole' = FALSE
    /\ Goto(0, "signalTasks")
    /\ UNCHANGED <<queue, owner, threadCount, noMoreTasks, nextQ, victim, task, todo, main, ran>>

(* ~THREAD_POOL: taskQEnd joins nobody.                                       *)
TaskQEnd ==
    /\ pc[0] = "taskQEnd"
    /\ noMoreTasks' = TRUE
    /\ Goto(0, "signalTasks")
    /\ UNCHANGED <<queue, owner, threadCount, parallelRegion, nextQ, local, main, ran>>

-----------------------------------------------------------------------------
(* doOwnTasks and the tasks.                                                  *)

Last(s) == s[Len(s)]

(* getATaskFromHead finds a task, which is then called.                       *)
GetTask(t) ==
    /\ pc[t] = "own"
    /\ owner[myQ(t)] = NONE
    /\ queue[myQ(t)] # <<>>
    /\ LET k == Last(queue[myQ(t)])
       IN /\ queue' = [queue EXCEPT ![myQ(t)] = SubSeq(@, 1, Len(@) - 1)]
          /\ task' = [task EXCEPT ![t] = k]
          /\ todo' = [todo EXCEPT ![t] = Children[k]]
    /\ Goto(t, "run")
    /\ UNCHANGED <<owner, threadCount, parallelRegion, noMoreTasks, nextQ, victim, stole, main, ran>>

(* Mutant: main does not look for tasks again after it has stolen.            *)
OwnEmpty_main(t) ==
    /\ pc[t] = "own"
    /\ owner[myQ(t)] = NONE
    /\ IF t = 0 /\ stole THEN TRUE ELSE queue[myQ(t)] = <<>>
    /\ IF t = 0 /\ stole
       THEN Goto(t, "waitForEnd") /\ UNCHANGED <<victim, stole>>
       ELSE /\ Goto(t, "steal")
            /\ victim' = [victim EXCEPT ![t] = (myQ(t) + 1) % numTaskQs]
            /\ stole' = IF t = 0 THEN TRUE ELSE stole
    /\ UNCHANGED <<shared, threadCount, task, todo, main, ran>>

(* It finds none: a worker steals; main steals once in a round of taskQWait,  *)
(* and then waits for the end.                                                *)
OwnEmpty(t) ==
    /\ pc[t] = "own"
    /\ owner[myQ(t)] = NONE
    /\ queue[myQ(t)] = <<>>
    /\ IF t = 0 /\ stole
       THEN Goto(t, "waitForEnd") /\ UNCHANGED <<victim, stole>>
       ELSE /\ Goto(t, "steal")
            /\ victim' = [victim EXCEPT ![t] = (myQ(t) + 1) % numTaskQs]
            /\ stole' = (stole \/ t = 0)
    /\ UNCHANGED <<shared, threadCount, task, todo, main, ran>>

(* taskQEnqueueTask1 from a task: the queue is that of the thread id it       *)
(* gives, its own (taskQ.h) or, through THREAD_POOL::Add_Task, always 0.      *)
AddChild(t) ==
    /\ pc[t] = "run"
    /\ \E k \in todo[t], id \in {0, t} :
          /\ owner[PickQueue(id)] = NONE
          /\ Put(PickQueue(id), <<k>>)
          /\ todo' = [todo EXCEPT ![t] = @ \ {k}]
    /\ Goto(t, "signalTasks")
    /\ UNCHANGED <<owner, threadCount, parallelRegion, noMoreTasks, nextQ, victim, stole, task, main, ran>>

EndTask(t) ==
    /\ pc[t] = "run" /\ todo[t] = {}
    /\ ran' = [ran EXCEPT ![task[t]] = @ + 1]
    /\ task' = [task EXCEPT ![t] = NONE]
    /\ Goto(t, "own")
    /\ UNCHANGED <<shared, threadCount, victim, stole, todo, main>>

-----------------------------------------------------------------------------
(* stealTasks.                                                                *)

NextVictim(t) == victim' = [victim EXCEPT ![t] = (@ + 1) % numTaskQs]

(* The round is over: a worker has found no work, main looks at its own queue *)
(* once more.                                                                 *)
StealNothing(t) ==
    /\ pc[t] = "steal"
    /\ victim[t] = myQ(t)
    /\ Goto(t, IF t = 0 THEN "own" ELSE "waitForTasks")
    /\ UNCHANGED <<shared, threadCount, local, main, ran>>

(* stealTasksSpecialized looks at the other queue without its mutex.          *)
QuickCheck(t) ==
    /\ pc[t] = "steal"
    /\ victim[t] # myQ(t)
    /\ IF queue[victim[t]] = <<>>
       THEN NextVictim(t) /\ UNCHANGED pc
       ELSE Goto(t, "lock") /\ UNCHANGED victim
    /\ UNCHANGED <<shared, threadCount, stole, task, todo, main, ran>>

(* Mutant: a thief takes the mutex of its own queue first.                    *)
FirstLock_own(t) == myQ(t)

FirstLock(t) == IF myQ(t) < victim[t] THEN myQ(t) ELSE victim[t]

SecondLock(t) == IF FirstLock(t) = myQ(t) THEN victim[t] ELSE myQ(t)

(* The two mutexes are taken in the order of the queues' addresses.           *)
LockFirst(t) ==
    /\ pc[t] = "lock"
    /\ owner[FirstLock(t)] = NONE
    /\ owner' = [owner EXCEPT ![FirstLock(t)] = t]
    /\ Goto(t, "move")
    /\ UNCHANGED <<queue, nextQ, parallelRegion, noMoreTasks, threadCount, local, main, ran>>

(* calculateNumSteal                                                          *)
NumSteal(available) ==
    LET half == IF available = 1 THEN 1 ELSE available \div 2
    IN IF half > MAX_STEAL THEN MAX_STEAL ELSE half

(* moveEntriesFromTailToHead                                                  *)
MoveEntries(from, to, n) ==
    [queue EXCEPT ![from] = SubSeq(@, n + 1, Len(@)), ![to] = @ \o SubSeq(queue[from], 1, n)]

(* Mutant: the stolen entries stay in the queue that they are copied from.    *)
Steal_copy(t) ==
    /\ pc[t] = "move"
    /\ owner[SecondLock(t)] = NONE
    /\ LET src == queue[victim[t]]
           n == NumSteal(Len(src))
       IN IF src = <<>>
          THEN NextVictim(t) /\ Goto(t, "steal") /\ UNCHANGED queue
          ELSE /\ queue' = [queue EXCEPT ![myQ(t)] = @ \o SubSeq(src, 1, n)]
               /\ Goto(t, "own")
               /\ UNCHANGED victim
    /\ owner' = [owner EXCEPT ![FirstLock(t)] = NONE]
    /\ UNCHANGED <<nextQ, parallelRegion, noMoreTasks, threadCount, stole, task, todo, main, ran>>

(* With both, the thief moves entries from the tail of the other queue to the *)
(* head of its own, unless somebody else has been faster.                     *)
Steal(t) ==
    /\ pc[t] = "move"
    /\ owner[SecondLock(t)] = NONE
    /\ LET src == queue[victim[t]]
           n == NumSteal(Len(src))
       IN IF src = <<>>
          THEN NextVictim(t) /\ Goto(t, "steal") /\ UNCHANGED queue
          ELSE /\ queue' = MoveEntries(victim[t], myQ(t), n)
               /\ Goto(t, "own")
               /\ UNCHANGED victim
    /\ owner' = [owner EXCEPT ![FirstLock(t)] = NONE]
    /\ UNCHANGED <<nextQ, parallelRegion, noMoreTasks, threadCount, stole, task, todo, main, ran>>

-----------------------------------------------------------------------------

Exited == \A t \in Threads : pc[t] = "exited"
Finished == Exited /\ UNCHANGED vars

MainStep == WaitForEnd \/ EndWait \/ AddTask \/ AddTaskGrid \/ BeginWait \/ TaskQEnd

PoolStep(t) ==
    \/ WaitForTasks(t) \/ Resume(t) \/ SignalTasksTest(t) \/ SignalTasks(t)
    \/ GetTask(t) \/ OwnEmpty(t) \/ AddChild(t) \/ EndTask(t)
    \/ StealNothing(t) \/ QuickCheck(t) \/ LockFirst(t) \/ Steal(t)

Next == MainStep \/ (\E t \in Threads : PoolStep(t)) \/ Finished

Spec == Init /\ [][Next]_vars

(* The scheduler runs every thread that can run.  No more is assumed: of two   *)
(* threads that can take a task neither is sure to be the one that gets it.   *)
FairSpec == /\ Spec /\ WF_vars(MainStep)
            /\ \A t \in Threads : WF_vars(PoolStep(t))

-----------------------------------------------------------------------------
(* Properties.                                                                *)

InQueue(k, q) == {i \in DOMAIN queue[q] : queue[q][i] = k}

(* Every variable keeps its type.                                             *)
TypeOK ==
    /\ \A q \in Queues : queue[q] \in Seq(Tasks)
    /\ owner \in [Queues -> Threads \cup {NONE}]
    /\ threadCount \in 0 .. numThreads
    /\ parallelRegion \in BOOLEAN /\ noMoreTasks \in BOOLEAN /\ stole \in BOOLEAN
    /\ nextQ \in Queues /\ victim \in [Threads -> Queues]
    /\ task \in [Threads -> Tasks \cup {NONE}]
    /\ todo \in [Threads -> SUBSET Tasks]
    /\ batch \in 0 .. Len(Batches) + 1
    /\ \A t \in Threads :
          pc[t] \in {"own", "run", "signalTasks", "reset", "steal", "lock", "move", "exited"}
                    \cup IF t = 0 THEN {"waitForEnd", "tasksDone", "ended", "enqueue", "taskQEnd"}
                                  ELSE {"waitForTasks", "taskAvail", "awake"}

(* taskQ.h:104: when taskQWait returns, every task that has been enqueued,    *)
(* by main or by a task, has been completed, and no queue holds another.      *)
Complete == /\ \A q \in Queues : queue[q] = <<>>
            /\ \A t \in Threads : task[t] = NONE
            /\ \A b \in 1 .. batch : \A i \in DOMAIN Batches[b].tasks :
                  ran[Batches[b].tasks[i]] = 1
            /\ \A k \in Tasks : ran[k] > 0 => \A c \in Children[k] : ran[c] = 1
WaitCompletes ==
    [][parallelRegion /\ ~parallelRegion' => Complete]_vars

(* However often it is stolen, a task is in one place: in one slot of one     *)
(* queue, or with the thread that runs it, or it has been run; it is never    *)
(* run twice.                                                                 *)
OneTaskOnePlace ==
    \A k \in Tasks :
        Cardinality({t \in Threads : task[t] = k}) + ran[k]
        + Cardinality(UNION {{q} \X InQueue(k, q) : q \in Queues}) <= 1

(* Every taskQWait returns, and after taskQEnd the workers leave, unless two   *)
(* workers of different queues go on stealing for ever, each losing the task  *)
(* to the other before it has come round to doOwnTasks: the one livelock that *)
(* stealTasks and doOwnTasks leave open.                                      *)
Theft(t) == Steal(t) /\ queue[victim[t]] # <<>>
Livelock ==
    \E t, u \in Threads \ {0} : /\ myQ(t) < myQ(u)
                                /\ []<><<Theft(t)>>_vars
                                /\ []<><<Theft(u)>>_vars
EveryoneLeaves == <>Exited \/ Livelock
=============================================================================
