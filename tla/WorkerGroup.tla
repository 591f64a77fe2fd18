---------------------------- MODULE WorkerGroup ----------------------------
(* The worker pool of bodytrack (threads/WorkerGroup.cpp) and the kernels     *)
(* that its commands run (TrackingModelPthread.cpp, ParticleFilterPthread.h). *)
(* One thread, the boss, writes a command where the workers wait for one and  *)
(* meets them at a barrier when it is done.  In a command the workers share   *)
(* out a range by the tickets of a dispenser, which the worker of rank 0 sets *)
(* before all of them pass a barrier of their own.                            *)
(*   A critical section is one step.  The barriers are pthread_barrier_t:     *)
(* nobody leaves one before all have come, and one leaves it as master.       *)
EXTENDS Integers, Sequences, FiniteSets, Condition

CONSTANTS Workers,
          Scripts,      \* the sequences of commands the boss may send
          Height,       \* of an image
          KernelSize,   \* of the filter, odd
          Particles,    \* how many there are
          WorkUnit,     \* the WORKUNIT_SIZE of each command
          Boss, IDLE, SHUTDOWN

Commands == {"FILTERROW", "FILTERCOLUMN", "GRADIENT", "PARTICLEWEIGHTS", "NEWPARTICLES"}

ASSUME WorkerGroupAssumption ==
    /\ IsFiniteSet(Workers) /\ Workers # {} /\ Boss \notin Workers
    /\ IDLE \notin Commands /\ SHUTDOWN \notin Commands /\ IDLE # SHUTDOWN
    /\ Scripts \subseteq Seq(Commands)
    /\ Height \in Nat /\ Particles \in Nat /\ KernelSize \in Nat
    /\ WorkUnit \in [Commands -> Nat \ {0}]

VARIABLES script,          \* what is left for the boss to send, SHUTDOWN last
          cmd,             \* the shared command
          cond,            \* workAvailable
          pc,              \* where each thread is
          rank, counter,   \* Run's rank of each worker, and the counter it is drawn from
          got,             \* Run's cmd of each worker
          disp,            \* the dispensers: loopTickets, particleTickets
          ticket,          \* Exec's ticket of each worker
          sent,            \* how many commands the boss has sent
          executed,        \* how many commands each worker has executed
          done             \* how often each item of this command was processed

vars == <<script, cmd, cond, pc, rank, counter, got, disp, ticket, sent, executed, done>>

Nobody == -1

Dispensers == {"loop", "particle"}
Items == 0 .. Height + Particles

Init ==
    /\ \E s \in Scripts : script = s \o <<SHUTDOWN>>
    /\ cmd = IDLE
    /\ cond = NewCondition
    /\ pc = [t \in Workers \cup {Boss} |-> IF t = Boss THEN "sending" ELSE "start"]
    /\ rank = [w \in Workers |-> Nobody] /\ counter = 0
    /\ got = [w \in Workers |-> IDLE]
    /\ disp = [d \in Dispensers |-> [init |-> 0, inc |-> 1, value |-> 0]]
    /\ ticket = [w \in Workers |-> 0]
    /\ sent = 0
    /\ executed = [w \in Workers |-> 0]
    /\ done = [i \in Items |-> 0]

-----------------------------------------------------------------------------
(* Barriers.                                                                  *)

Waiting(label) == {t \in DOMAIN pc : pc[t] = label}

NWorkers == Cardinality(Workers)

(* Where a thread goes from workDoneBarrier, poolReadyBarrier and workInit.   *)
After(label, t, master) ==
    CASE label = "inDone" -> IF master THEN "master" ELSE "ready"
      [] label = "inInit" -> "ticket"
      [] label = "inReady" -> IF t = Boss THEN "sending"
                              ELSE IF got[t] = SHUTDOWN THEN "exited" ELSE "recv"

(* t comes to the barrier of n threads in which a thread waits at label.  The *)
(* last to come lets everybody leave, one of them as master.                  *)
ArriveAt(t, label, n) ==
    IF Cardinality(Waiting(label)) + 1 < n
    THEN pc' = [pc EXCEPT ![t] = label]
    ELSE \E master \in Waiting(label) \cup {t} :
             pc' = [u \in DOMAIN pc |-> IF u = t \/ pc[u] = label
                                        THEN After(label, u, u = master) ELSE pc[u]]

-----------------------------------------------------------------------------
(* The boss.                                                                  *)

(* Mutant: the command is set and one worker is notified.                     *)
SendInternalCmd_one(c) ==
    /\ cmd' = c
    /\ cond' = NotifyOne(cond)
    /\ \E w \in Workers : pc' = [pc EXCEPT ![Boss] = "sent",
                                           ![w] = IF @ = "asleep" THEN "woken" ELSE @]

SendInternalCmd(c) ==
    /\ cmd' = c
    /\ cond' = NotifyAll(cond)
    /\ pc' = [t \in DOMAIN pc |->
                 IF t = Boss THEN "sent"
                 ELSE IF pc[t] = "asleep" /\ Slack(cond) > 0 THEN "woken" ELSE pc[t]]

(* SendCmd, which CreateEdgeMap, GaussianBlurPthread, CalcWeights and          *)
(* GenerateNewParticles call, and JoinAll.                                    *)
Send ==
    /\ pc[Boss] = "sending" /\ script # <<>>
    /\ SendInternalCmd(Head(script))
    /\ script' = Tail(script)
    /\ sent' = sent + 1
    /\ done' = [i \in Items |-> 0]
    /\ UNCHANGED <<rank, counter, got, disp, ticket, executed>>

BossReady ==
    /\ pc[Boss] = "sent"
    /\ ArriveAt(Boss, "inReady", NWorkers + 1)
    /\ UNCHANGED <<script, cmd, cond, rank, counter, got, disp, ticket, sent, executed, done>>

(* ThreadGroup::JoinAll                                                       *)
Join ==
    /\ pc[Boss] = "sending" /\ script = <<>>
    /\ \A w \in Workers : pc[w] = "exited"
    /\ pc' = [pc EXCEPT ![Boss] = "joined"]
    /\ UNCHANGED <<script, cmd, cond, rank, counter, got, disp, ticket, sent, executed, done>>

-----------------------------------------------------------------------------
(* The workers' main loop.                                                    *)

Goto(w, label) == pc' = [pc EXCEPT ![w] = label]

(* Run: the worker draws its rank.                                            *)
Start(w) ==
    /\ pc[w] = "start"
    /\ rank' = [rank EXCEPT ![w] = counter]
    /\ counter' = counter + 1
    /\ Goto(w, "recv")
    /\ UNCHANGED <<script, cmd, cond, got, disp, ticket, sent, executed, done>>

(* RecvCmd: no command yet.  Condition::Wait finds no ticket, and sleeps; or  *)
(* it finds one, and the worker tests cmd again.                              *)
RecvWait(w) ==
    /\ pc[w] = "recv"
    /\ cmd = IDLE
    /\ IF HasTicket(Counted(cond))
       THEN cond' = TakeTicket(Counted(cond)) /\ UNCHANGED pc
       ELSE cond' = Counted(cond) /\ Goto(w, "asleep")
    /\ UNCHANGED <<script, cmd, rank, counter, got, disp, ticket, sent, executed, done>>

(* pthread_cond_wait returns, notified or not; a worker without a ticket goes *)
(* back to sleep.                                                             *)
SpuriousWakeup(w) ==
    /\ pc[w] = "asleep"
    /\ Goto(w, "woken")
    /\ UNCHANGED <<script, cmd, cond, rank, counter, got, disp, ticket, sent, executed, done>>

RecvWoken(w) ==
    /\ pc[w] = "woken"
    /\ IF HasTicket(cond)
       THEN cond' = TakeTicket(cond) /\ Goto(w, "recv")
       ELSE UNCHANGED cond /\ Goto(w, "asleep")
    /\ UNCHANGED <<script, cmd, rank, counter, got, disp, ticket, sent, executed, done>>

RecvCmd(w) ==
    /\ pc[w] = "recv"
    /\ cmd # IDLE
    /\ got' = [got EXCEPT ![w] = cmd]
    /\ Goto(w, IF cmd = SHUTDOWN THEN "ack" ELSE "exec")
    /\ UNCHANGED <<script, cmd, cond, rank, counter, disp, ticket, sent, executed, done>>

(* AckCmd: everybody has executed the command ...                             *)
AckDone(w) ==
    /\ pc[w] = "ack"
    /\ ArriveAt(w, "inDone", NWorkers)
    /\ UNCHANGED <<script, cmd, cond, rank, counter, got, disp, ticket, sent, executed, done>>

(* Mutant: the master leaves the command where it is.                         *)
AckIdle_skip(w) ==
    /\ pc[w] = "master"
    /\ Goto(w, "ready")
    /\ UNCHANGED <<script, cmd, cond, rank, counter, got, disp, ticket, sent, executed, done>>

(* ... the master takes it back ...                                           *)
AckIdle(w) ==
    /\ pc[w] = "master"
    /\ cmd' = IDLE
    /\ Goto(w, "ready")
    /\ UNCHANGED <<script, cond, rank, counter, got, disp, ticket, sent, executed, done>>

(* ... and the pool is ready for the next one, when the boss has come too.    *)
AckReady(w) ==
    /\ pc[w] = "ready"
    /\ ArriveAt(w, "inReady", NWorkers + 1)
    /\ UNCHANGED <<script, cmd, cond, rank, counter, got, disp, ticket, sent, executed, done>>

-----------------------------------------------------------------------------
(* Exec: the kernels.                                                         *)

Dispenser(c) == IF c \in {"PARTICLEWEIGHTS", "NEWPARTICLES"} THEN "particle" ELSE "loop"

(* The end of the range, and what rank 0 makes the dispenser begin with: the  *)
(* resetDispenser of one argument sets the increment and keeps init.          *)
Limit(c) == CASE c = "FILTERROW" -> Height
              [] c = "FILTERCOLUMN" -> Height - KernelSize \div 2
              [] c = "GRADIENT" -> Height - 2
              [] OTHER -> Particles

First(c) == CASE c = "FILTERROW" -> 0
              [] c = "FILTERCOLUMN" -> KernelSize \div 2
              [] OTHER -> disp[Dispenser(c)].init

Prepared(w) ==
    disp' = [disp EXCEPT ![Dispenser(got[w])] =
                [init |-> First(got[w]), inc |-> WorkUnit[got[w]], value |-> First(got[w])]]

(* Rank 0 prepares the dispenser before it comes to the barrier workInit.     *)
ExecPrepare(w) ==
    /\ pc[w] = "exec"
    /\ IF rank[w] = 0 THEN Prepared(w) ELSE UNCHANGED disp
    /\ Goto(w, "init")
    /\ UNCHANGED <<script, cmd, cond, rank, counter, got, ticket, sent, executed, done>>

(* Mutant: there is no barrier between the reset and the first ticket.        *)
ExecInit_none(w) ==
    /\ pc[w] = "init"
    /\ Goto(w, "ticket")
    /\ UNCHANGED <<script, cmd, cond, rank, counter, got, disp, ticket, sent, executed, done>>

ExecInit(w) ==
    /\ pc[w] = "init"
    /\ ArriveAt(w, "inInit", NWorkers)
    /\ UNCHANGED <<script, cmd, cond, rank, counter, got, disp, ticket, sent, executed, done>>

(* getTicket                                                                  *)
GetTicket(w) ==
    LET d == Dispenser(got[w])
    IN /\ pc[w] = "ticket"
       /\ ticket' = [ticket EXCEPT ![w] = disp[d].value]
       /\ disp' = [disp EXCEPT ![d].value = @ + disp[d].inc]
       /\ Goto(w, "work")
       /\ UNCHANGED <<script, cmd, cond, rank, counter, got, sent, executed, done>>

Unit(w) == {i \in Items : /\ ticket[w] <= i /\ i < Limit(got[w])
                          /\ i < ticket[w] + WorkUnit[got[w]]}

(* The items of one ticket.                                                   *)
Work(w) ==
    /\ pc[w] = "work"
    /\ ticket[w] < Limit(got[w])
    /\ done' = [i \in Items |-> IF i \in Unit(w) THEN done[i] + 1 ELSE done[i]]
    /\ Goto(w, "ticket")
    /\ UNCHANGED <<script, cmd, cond, rank, counter, got, disp, ticket, sent, executed>>

ExecEnd(w) ==
    /\ pc[w] = "work"
    /\ ticket[w] >= Limit(got[w])
    /\ Goto(w, "ack")
    /\ executed' = [executed EXCEPT ![w] = @ + 1]
    /\ UNCHANGED <<script, cmd, cond, rank, counter, got, disp, ticket, sent, done>>

-----------------------------------------------------------------------------

AllDone == pc[Boss] = "joined"
Finished == AllDone /\ UNCHANGED vars

BossStep == Send \/ BossReady \/ Join

WorkerStep(w) ==
    \/ Start(w) \/ RecvWait(w) \/ RecvWoken(w) \/ RecvCmd(w)
    \/ ExecPrepare(w) \/ ExecInit(w) \/ GetTicket(w) \/ Work(w) \/ ExecEnd(w)
    \/ AckDone(w) \/ AckIdle(w) \/ AckReady(w)

Next == BossStep \/ (\E w \in Workers : WorkerStep(w) \/ SpuriousWakeup(w)) \/ Finished

Spec == Init /\ [][Next]_vars

(* The scheduler runs every thread that can run.                              *)
FairSpec == Spec /\ WF_vars(BossStep) /\ \A w \in Workers : WF_vars(WorkerStep(w))

-----------------------------------------------------------------------------
(* Properties.                                                                *)

InKernel == {"exec", "init", "inInit", "ticket", "work"}

(* Every variable keeps its type.                                             *)
TypeOK ==
    /\ cmd \in Commands \cup {IDLE, SHUTDOWN}
    /\ cond \in [nWaiting : 0 .. NWorkers, nWakeupTickets : 0 .. NWorkers]
    /\ \A w \in Workers :
          pc[w] \in InKernel \cup {"start", "recv", "asleep", "woken", "ack", "inDone",
                                   "master", "ready", "inReady", "exited"}
    /\ pc[Boss] \in {"sending", "sent", "inReady", "joined"}
    /\ rank \in [Workers -> 0 .. NWorkers - 1 \cup {Nobody}] /\ counter \in 0 .. NWorkers
    /\ got \in [Workers -> Commands \cup {IDLE, SHUTDOWN}]
    /\ disp \in [Dispensers -> [init : Nat, inc : Nat, value : Nat]]
    /\ ticket \in [Workers -> Nat]
    /\ executed \in [Workers -> 0 .. sent]

(* A worker executes each command once and none of an earlier one: when       *)
(* SendCmd returns everybody has executed all commands, and before it returns *)
(* nobody is back for the next one.                                           *)
InStep ==
    /\ \A w \in Workers : pc[w] \in InKernel => executed[w] = sent - 1 /\ got[w] = cmd
    /\ pc[Boss] = "sending" /\ script # <<>> => \A w \in Workers : executed[w] = sent

(* Tickets of the condition are only out while a command is: nobody who waits *)
(* for the next command finds one of the last, and each is for one who waits. *)
TicketsAreForWaiters ==
    /\ cond.nWaiting = Cardinality({w \in Workers : pc[w] \in {"asleep", "woken"}})
    /\ cond.nWakeupTickets <= Cardinality({w \in Workers : pc[w] = "woken"})
    /\ cmd = IDLE => cond.nWakeupTickets = 0

(* The items of a command's range, which begins where rank 0 made it begin.   *)
(* When SendCmd returns each of them has been processed once; at no time has  *)
(* one been processed twice, nor anything outside of the range.               *)
LastCommand == script # <<>> /\ sent > 0 /\ pc[Boss] = "sending"
EveryItemOnce ==
    /\ \A i \in Items : done[i] <= 1
    /\ LastCommand => \A w \in Workers : \A i \in Items :
          done[i] = IF disp[Dispenser(got[w])].init <= i /\ i < Limit(got[w]) THEN 1 ELSE 0

(* The gradient of an image is taken in all of its rows but the first and the *)
(* last (row i + 1 for item i), as TrackingModel.cpp does.                    *)
GradientOfEveryRow ==
    LastCommand => \A w \in Workers : got[w] = "GRADIENT" =>
        \A i \in 0 .. Height - 3 : done[i] = 1

(* All commands come to their end and the pool is joined.                     *)
PoolIsJoined == <>AllDone
=============================================================================
