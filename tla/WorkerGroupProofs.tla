------------------------- MODULE WorkerGroupProofs -------------------------
(* The safety of WorkerGroup for any number of workers, any scripts, and any  *)
(* ranges and work units: the workers stay in step, the tickets of the        *)
(* condition are for those who wait, and every item is processed once.        *)
EXTENDS WorkerGroup, FiniteSetTheorems, SequenceTheorems, TLAPS

WorkerPlaces == InKernel \cup {"start", "recv", "asleep", "woken", "ack", "inDone",
                               "master", "ready", "inReady", "exited"}
BossPlaces == {"sending", "sent", "inReady", "joined"}
Pre  == {"start", "recv", "asleep", "woken"}
Post == {"ack", "inDone", "master", "ready", "inReady"}

(* What TypeOK leaves out, and that SHUTDOWN is sent last.                    *)
Typed ==
    /\ pc \in [Workers \cup {Boss} -> WorkerPlaces \cup BossPlaces]
    /\ sent \in Nat /\ done \in [Items -> 0 .. 1]
    /\ script \in Seq(Commands \cup {SHUTDOWN})
    /\ \A i \in 1 .. Len(script) : script[i] = SHUTDOWN <=> i = Len(script)

-----------------------------------------------------------------------------
(* One round of the protocol.                                                 *)

Out == pc[Boss] \in {"sent", "inReady"}

Idle == /\ pc[Boss] = "sending" /\ cmd = IDLE
        /\ script # <<>> => \A w \in Workers : pc[w] \in Pre
        /\ script = <<>> => \A w \in Workers : pc[w] = "exited"

Running == /\ Out /\ cmd # IDLE
           /\ \A w \in Workers : pc[w] \in Pre \cup InKernel \cup {"ack", "inDone"}
           /\ \E w \in Workers : pc[w] # "inDone"

Acked == /\ Out /\ cmd # IDLE
         /\ \E m \in Workers : /\ pc[m] = "master"
                               /\ \A w \in Workers \ {m} : pc[w] \in {"ready", "inReady"}

Ready == /\ Out /\ cmd = IDLE
         /\ \A w \in Workers : pc[w] \in {"ready", "inReady"}
         /\ \E t \in Workers \cup {Boss} : pc[t] # "inReady"

Joined == /\ pc[Boss] = "joined" /\ cmd = IDLE /\ script = <<>>
          /\ \A w \in Workers : pc[w] = "exited"

Phase == Idle \/ Running \/ Acked \/ Ready \/ Joined

(* What a worker has executed at each place, and which command it has got.    *)
Progress ==
    /\ Out => sent > 0
    /\ cmd # IDLE => (cmd = SHUTDOWN <=> script = <<>>)
    /\ \A w \in Workers :
        /\ pc[w] \in Pre => executed[w] = IF Out THEN sent - 1 ELSE sent
        /\ pc[w] \in InKernel => executed[w] = sent - 1 /\ got[w] = cmd /\ cmd \in Commands
        /\ pc[w] \in Post =>
              /\ executed[w] = IF script = <<>> THEN sent - 1 ELSE sent
              /\ got[w] # IDLE /\ (got[w] = SHUTDOWN <=> script = <<>>)
              /\ cmd # IDLE => got[w] = cmd
    /\ cmd = IDLE /\ sent > 0 =>
          /\ \A w, u \in Workers : got[w] = got[u]
          /\ script # <<>> => \A w \in Workers : got[w] \in Commands

(* The ranks: once somebody has started somebody has rank 0.                  *)
Started == {w \in Workers : pc[w] # "start"}
Ranks ==
    /\ counter = Cardinality(Started)
    /\ Started # {} => \E w \in Started : rank[w] = 0

-----------------------------------------------------------------------------
(* The items.                                                                 *)

D == disp[Dispenser(cmd)]

(* Before the barrier workInit nothing is processed; rank 0 leaves a fresh    *)
(* dispenser behind.                                                          *)
Before ==
    /\ \A w \in Workers : pc[w] \in Pre \cup {"exec", "init", "inInit"}
    /\ \A i \in Items : done[i] = 0
    /\ \A w \in Workers : pc[w] \in {"init", "inInit"} /\ rank[w] = 0 =>
                              D.inc = WorkUnit[cmd] /\ D.value = D.init

(* After it the units that were handed out do not overlap; what was processed *)
(* is what was handed out and is not at work.                                 *)
During ==
    /\ \A w \in Workers : pc[w] \in {"ticket", "work", "ack", "inDone"}
    /\ D.inc = WorkUnit[cmd] /\ D.init <= D.value
    /\ \A w \in Workers : pc[w] = "work" => D.init <= ticket[w] /\ ticket[w] + D.inc <= D.value
    /\ \A w, u \in Workers : pc[w] = "work" /\ pc[u] = "work" /\ w # u =>
            ticket[w] + D.inc <= ticket[u] \/ ticket[u] + D.inc <= ticket[w]
    /\ \A i \in Items :
          done[i] = IF /\ D.init <= i /\ i < D.value /\ i < Limit(cmd)
                       /\ \A w \in Workers : pc[w] = "work" => i \notin Unit(w)
                    THEN 1 ELSE 0
    /\ \A w \in Workers : pc[w] \in {"ack", "inDone"} => Limit(cmd) <= D.value

Processed(c) ==
    \A i \in Items : done[i] = IF disp[Dispenser(c)].init <= i /\ i < Limit(c) THEN 1 ELSE 0

Division ==
    /\ Running /\ cmd # SHUTDOWN => Before \/ During
    /\ ~Running /\ sent > 0 /\ script # <<>> => \A w \in Workers : Processed(got[w])

(* TicketsAreForWaiters in terms of named sets.                               *)
Waiters == {w \in Workers : pc[w] \in {"asleep", "woken"}}
Woken   == {w \in Workers : pc[w] = "woken"}
CondOK ==
    /\ cond \in [nWaiting : 0 .. NWorkers, nWakeupTickets : 0 .. NWorkers]
    /\ cond.nWaiting = Cardinality(Waiters)
    /\ cond.nWakeupTickets <= Cardinality(Woken)
    /\ cmd = IDLE => cond.nWakeupTickets = 0

Inv == TypeOK /\ Typed /\ Phase /\ Progress /\ Ranks /\ CondOK /\ Division

-----------------------------------------------------------------------------
(* Sets of threads.                                                           *)

(* There are finitely many workers and at least one.                          *)
LEMMA WorkersFinite == IsFiniteSet(Workers) /\ NWorkers \in Nat /\ NWorkers > 0
<1>1. IsFiniteSet(Workers) /\ Workers # {}
  BY WorkerGroupAssumption
<1> QED
  BY <1>1, FS_CardinalityType, FS_EmptySet DEF NWorkers

(* The boss makes one more.                                                   *)
LEMMA AllFinite ==
    /\ IsFiniteSet(Workers \cup {Boss})
    /\ Cardinality(Workers \cup {Boss}) = NWorkers + 1
BY WorkersFinite, WorkerGroupAssumption, FS_AddElement DEF NWorkers

(* A set without t counts one less than all exactly if nobody else is missing. *)
LEMMA AllButOne ==
    ASSUME NEW S, IsFiniteSet(S), NEW T \in SUBSET S, NEW t \in S \ T
    PROVE  /\ Cardinality(T) + 1 < Cardinality(S) => \E u \in S \ T : u # t
           /\ ~(Cardinality(T) + 1 < Cardinality(S)) => T = S \ {t}
<1>1. /\ IsFiniteSet(S \ {t}) /\ Cardinality(S \ {t}) = Cardinality(S) - 1
      /\ Cardinality(S) \in Nat
  BY FS_RemoveElement, FS_CardinalityType
<1>2. T \in SUBSET (S \ {t})
  OBVIOUS
<1>3. /\ IsFiniteSet(T) /\ Cardinality(T) \in Nat
      /\ Cardinality(T) <= Cardinality(S \ {t})
      /\ Cardinality(S \ {t}) = Cardinality(T) => S \ {t} = T
  BY <1>1, <1>2, FS_Subset, FS_CardinalityType
<1>4. CASE T = S \ {t}
  BY <1>1, <1>4
<1>5. CASE T # S \ {t}
  <2>1. \E u \in S \ T : u # t
    BY <1>2, <1>5
  <2>2. Cardinality(T) # Cardinality(S \ {t})
    BY <1>3, <1>5
  <2> QED
    BY <1>1, <1>3, <2>1, <2>2
<1> QED
  BY <1>4, <1>5

-----------------------------------------------------------------------------
(* The three barriers: a thread that is not the last waits; the last lets all *)
(* the others go on.                                                          *)

(* workDoneBarrier: who is not the last waits; the last lets all go, one of   *)
(* them as the master.                                                        *)
LEMMA DoneBarrier ==
    ASSUME TypeOK, Typed, NEW w \in Workers, pc[w] = "ack", ArriveAt(w, "inDone", NWorkers)
    PROVE  \/ /\ pc' = [pc EXCEPT ![w] = "inDone"]
              /\ \E u \in Workers : u # w /\ pc[u] # "inDone"
           \/ /\ \A u \in Workers : u # w => pc[u] = "inDone"
              /\ \E m \in Workers :
                    pc' = [u \in Workers \cup {Boss} |->
                              IF u = Boss THEN pc[u] ELSE IF u = m THEN "master" ELSE "ready"]
<1> DEFINE T == Waiting("inDone")
<1>1. DOMAIN pc = Workers \cup {Boss} /\ pc[Boss] # "inDone"
  BY DEF Typed, TypeOK
<1>2. T \in SUBSET Workers /\ w \in Workers \ T
  BY <1>1 DEF Waiting
<1>3. CASE Cardinality(T) + 1 < NWorkers
  <2>1. PICK u \in Workers \ T : u # w
    BY <1>2, <1>3, WorkersFinite, AllButOne DEF NWorkers
  <2> QED
    BY <1>1, <1>3, <2>1 DEF ArriveAt, Waiting
<1>4. CASE ~(Cardinality(T) + 1 < NWorkers)
  <2>1. T = Workers \ {w}
    BY <1>2, <1>4, WorkersFinite, AllButOne DEF NWorkers
  <2>2. PICK m \in T \cup {w} :
            pc' = [u \in DOMAIN pc |-> IF u = w \/ pc[u] = "inDone"
                                       THEN After("inDone", u, u = m) ELSE pc[u]]
    BY <1>4 DEF ArriveAt
  <2>3. \A u \in Workers : u # w => pc[u] = "inDone"
    BY <2>1 DEF Waiting
  <2>4. \A u : After("inDone", u, u = m) = IF u = m THEN "master" ELSE "ready"
    BY DEF After
  <2>5. pc' = [u \in Workers \cup {Boss} |->
                  IF u = Boss THEN pc[u] ELSE IF u = m THEN "master" ELSE "ready"]
    BY <1>1, <2>2, <2>3, <2>4, WorkerGroupAssumption
  <2>6. m \in Workers
    BY <1>2, <2>2
  <2> QED
    BY <2>3, <2>5, <2>6
<1> QED
  BY <1>3, <1>4

(* workInit: who is not the last waits; the last lets all workers draw        *)
(* tickets.                                                                   *)
LEMMA InitBarrier ==
    ASSUME TypeOK, Typed, NEW w \in Workers, pc[w] = "init", ArriveAt(w, "inInit", NWorkers)
    PROVE  \/ pc' = [pc EXCEPT ![w] = "inInit"]
           \/ /\ \A u \in Workers : u # w => pc[u] = "inInit"
              /\ pc' = [u \in Workers \cup {Boss} |-> IF u = Boss THEN pc[u] ELSE "ticket"]
<1> DEFINE T == Waiting("inInit")
<1>1. DOMAIN pc = Workers \cup {Boss} /\ pc[Boss] # "inInit"
  BY DEF Typed, TypeOK
<1>2. T \in SUBSET Workers /\ w \in Workers \ T
  BY <1>1 DEF Waiting
<1>3. CASE Cardinality(T) + 1 < NWorkers
  BY <1>3 DEF ArriveAt
<1>4. CASE ~(Cardinality(T) + 1 < NWorkers)
  <2>1. T = Workers \ {w}
    BY <1>2, <1>4, WorkersFinite, AllButOne DEF NWorkers
  <2>2. PICK m \in T \cup {w} :
            pc' = [u \in DOMAIN pc |-> IF u = w \/ pc[u] = "inInit"
                                       THEN After("inInit", u, u = m) ELSE pc[u]]
    BY <1>4 DEF ArriveAt
  <2>3. \A u \in Workers : u # w => pc[u] = "inInit"
    BY <2>1 DEF Waiting
  <2>4. \A u : After("inInit", u, u = m) = "ticket"
    BY DEF After
  <2>5. pc' = [u \in Workers \cup {Boss} |-> IF u = Boss THEN pc[u] ELSE "ticket"]
    BY <1>1, <2>2, <2>3, <2>4, WorkerGroupAssumption
  <2> QED
    BY <2>3, <2>5
<1> QED
  BY <1>3, <1>4

(* poolReadyBarrier, where the boss takes part: who is not the last waits,    *)
(* the last lets all go.                                                      *)
LEMMA ReadyBarrier ==
    ASSUME TypeOK, Typed, NEW t \in Workers \cup {Boss}, pc[t] # "inReady",
           ArriveAt(t, "inReady", NWorkers + 1)
    PROVE  \/ /\ pc' = [pc EXCEPT ![t] = "inReady"]
              /\ \E u \in Workers \cup {Boss} : u # t /\ pc[u] # "inReady"
           \/ /\ \A u \in Workers \cup {Boss} : u # t => pc[u] = "inReady"
              /\ pc' = [u \in Workers \cup {Boss} |->
                           IF u = Boss THEN "sending"
                           ELSE IF got[u] = SHUTDOWN THEN "exited" ELSE "recv"]
<1> DEFINE T == Waiting("inReady")  S == Workers \cup {Boss}
<1>1. DOMAIN pc = S
  BY DEF Typed
<1>2. T \in SUBSET S /\ t \in S \ T
  BY <1>1 DEF Waiting
<1>3. CASE Cardinality(T) + 1 < NWorkers + 1
  <2>1. PICK u \in S \ T : u # t
    BY <1>2, <1>3, AllFinite, AllButOne
  <2> QED
    BY <1>1, <1>3, <2>1 DEF ArriveAt, Waiting
<1>4. CASE ~(Cardinality(T) + 1 < NWorkers + 1)
  <2>1. T = S \ {t}
    BY <1>2, <1>4, AllFinite, AllButOne
  <2>2. PICK m \in T \cup {t} :
            pc' = [u \in DOMAIN pc |-> IF u = t \/ pc[u] = "inReady"
                                       THEN After("inReady", u, u = m) ELSE pc[u]]
    BY <1>4 DEF ArriveAt
  <2>3. \A u \in S : u # t => pc[u] = "inReady"
    BY <2>1 DEF Waiting
  <2>4. \A u : After("inReady", u, u = m) = IF u = Boss THEN "sending"
                                            ELSE IF got[u] = SHUTDOWN THEN "exited" ELSE "recv"
    BY DEF After
  <2>5. pc' = [u \in S |-> IF u = Boss THEN "sending"
                           ELSE IF got[u] = SHUTDOWN THEN "exited" ELSE "recv"]
    BY <1>1, <2>2, <2>3, <2>4
  <2> QED
    BY <2>3, <2>5
<1> QED
  BY <1>3, <1>4

-----------------------------------------------------------------------------
(* The invariant holds at the start.                                          *)

(* The invariant holds when the threads have been started.                    *)
LEMMA InitInv == Init => Inv
<1>1. SUFFICES ASSUME Init PROVE Inv
  OBVIOUS
<1> USE WorkerGroupAssumption
<1>2. PICK s \in Scripts : script = s \o <<SHUTDOWN>>
  BY <1>1 DEF Init
<1>3. s \in Seq(Commands)
  BY <1>2
<1>4. /\ script \in Seq(Commands \cup {SHUTDOWN}) /\ script # <<>>
      /\ \A i \in 1 .. Len(script) : script[i] = SHUTDOWN <=> i = Len(script)
  BY <1>2, <1>3
<1>5. Waiters = {} /\ Woken = {} /\ Started = {}
  BY <1>1 DEF Init, Started, Waiters, Woken
<1>6. CondOK /\ Ranks
  BY <1>1, <1>5, FS_EmptySet, WorkersFinite DEF Init, CondOK, NewCondition, Ranks
<1>7. \A w \in Workers : pc[w] = "start"
  BY <1>1 DEF Init
<1>8. pc[Boss] = "sending" /\ cmd = IDLE /\ sent = 0
  BY <1>1 DEF Init
<1>9. TypeOK
  BY <1>1, <1>7, <1>8, WorkersFinite DEF Init, TypeOK, NewCondition, Nobody
<1>10. Typed
  BY <1>1, <1>4 DEF Init, Typed, WorkerPlaces, BossPlaces
<1>11. Phase /\ Progress /\ Division
  BY <1>1, <1>4, <1>7, <1>8 DEF Init, Phase, Idle, Progress, Out, Division, Running, Pre, Post, InKernel
<1> QED
  BY <1>6, <1>9, <1>10, <1>11 DEF Inv

-----------------------------------------------------------------------------
(* The condition.                                                             *)

(* Those who wait at the condition, and those of them that were called, can   *)
(* be counted.                                                                *)
LEMMA WaitersFinite ==
    /\ IsFiniteSet(Waiters) /\ Cardinality(Waiters) \in 0 .. NWorkers
    /\ IsFiniteSet(Woken) /\ Cardinality(Woken) \in 0 .. NWorkers
<1>1. Waiters \in SUBSET Workers /\ Woken \in SUBSET Workers
  BY DEF Waiters, Woken
<1> QED
  BY <1>1, WorkersFinite, FS_Subset, FS_CardinalityType DEF NWorkers

(* A step that neither wakes a thread nor puts one to sleep.                  *)
LEMMA QuietStep ==
    ASSUME Inv, UNCHANGED cond, cmd' = IDLE => cmd = IDLE,
           \A w \in Workers : /\ pc'[w] = "asleep" <=> pc[w] = "asleep"
                              /\ pc'[w] = "woken" <=> pc[w] = "woken"
    PROVE  CondOK'
<1>1. Waiters' = Waiters /\ Woken' = Woken
  BY DEF Waiters, Woken
<1> QED
  BY <1>1 DEF Inv, CondOK

(* While a command is out, and only then, is there a ticket; so a waiting     *)
(* thread that has found none waits for this command.                         *)
LEMMA CondStep == Inv /\ [Next]_vars => CondOK'
<1>1. SUFFICES ASSUME Inv, [Next]_vars PROVE CondOK'
  OBVIOUS
<1> USE WorkerGroupAssumption
<1>2. TypeOK /\ Typed /\ Phase /\ CondOK
  BY <1>1 DEF Inv
<1>3. /\ cond.nWaiting = Cardinality(Waiters) /\ cond.nWakeupTickets <= Cardinality(Woken)
      /\ cmd = IDLE => cond.nWakeupTickets = 0
      /\ cond.nWaiting \in 0 .. NWorkers /\ cond.nWakeupTickets \in 0 .. NWorkers
      /\ NWorkers \in Nat
      /\ cond = [nWaiting |-> cond.nWaiting, nWakeupTickets |-> cond.nWakeupTickets]
  BY <1>2, WorkersFinite DEF CondOK
<1>4. DOMAIN pc = Workers \cup {Boss}
  BY <1>2 DEF Typed
<1>5. CASE Send
  <2>1. /\ cmd = IDLE /\ cmd' # IDLE
    <3>1. cmd = IDLE
      BY <1>2, <1>5 DEF Send, Phase, Idle, Running, Acked, Ready, Joined, Out
    <3>2. script[1] \in Commands \cup {SHUTDOWN} /\ cmd' = script[1]
      BY <1>2, <1>5 DEF Send, SendInternalCmd, Typed
    <3> QED
      BY <3>1, <3>2
  <2>2. cond.nWakeupTickets = 0
    BY <1>3, <2>1
  <2>3. CASE cond.nWaiting = 0
    <3>1. cond' = cond /\ Slack(cond) = 0
      BY <1>5, <2>2, <2>3 DEF Send, SendInternalCmd, NotifyAll, Slack
    <3>2. \A w \in Workers : pc'[w] = pc[w]
      BY <1>4, <1>5, <3>1 DEF Send, SendInternalCmd
    <3> QED
      BY <1>1, <2>1, <3>1, <3>2, QuietStep
  <2>4. CASE cond.nWaiting # 0
    <3>1. Slack(cond) > 0
      BY <1>3, <2>2, <2>4 DEF Slack
    <3>2. cond' = [cond EXCEPT !.nWakeupTickets = cond.nWaiting]
      BY <1>5, <3>1 DEF Send, SendInternalCmd, NotifyAll
    <3>3. \A w \in Workers : pc'[w] = IF pc[w] = "asleep" THEN "woken" ELSE pc[w]
      BY <1>4, <1>5, <3>1 DEF Send, SendInternalCmd
    <3>4. Waiters' = Waiters /\ Woken' = Waiters
      BY <3>3 DEF Waiters, Woken
    <3> QED
      BY <1>3, <2>1, <3>2, <3>4 DEF CondOK
  <2> QED
    BY <2>3, <2>4
<1>6. CASE BossReady
  <2>1. \A w \in Workers : /\ pc'[w] = "asleep" <=> pc[w] = "asleep"
                           /\ pc'[w] = "woken" <=> pc[w] = "woken"
    BY <1>2, <1>4, <1>6, ReadyBarrier DEF BossReady
  <2> QED
    BY <1>1, <1>6, <2>1, QuietStep DEF BossReady
<1>7. CASE Join
  BY <1>1, <1>4, <1>7, QuietStep DEF Join
<1>8. ASSUME NEW w \in Workers, WorkerStep(w) \/ SpuriousWakeup(w) PROVE CondOK'
  <2>1. CASE Start(w) \/ RecvCmd(w) \/ ExecPrepare(w) \/ GetTicket(w) \/ Work(w) \/ ExecEnd(w)
    <3>1. /\ UNCHANGED <<cmd, cond>> /\ pc[w] \notin {"asleep", "woken"}
          /\ \E place \in {"recv", "ack", "exec", "init", "work", "ticket"} : Goto(w, place)
      BY <2>1 DEF Start, RecvCmd, ExecPrepare, GetTicket, Work, ExecEnd
    <3> QED
      BY <1>1, <1>4, <3>1, QuietStep DEF Goto
  <2>2. CASE RecvWait(w)
    <3>1. ~HasTicket(Counted(cond)) /\ pc[w] = "recv"
      BY <1>3, <2>2 DEF RecvWait, HasTicket, Counted
    <3>2. cond' = Counted(cond) /\ pc' = [pc EXCEPT ![w] = "asleep"] /\ cmd' = cmd /\ cmd = IDLE
      BY <2>2, <3>1 DEF RecvWait, Goto
    <3>3. Waiters' = Waiters \cup {w} /\ w \notin Waiters /\ Woken' = Woken
      BY <1>4, <3>1, <3>2 DEF Waiters, Woken
    <3>4. Cardinality(Waiters') = Cardinality(Waiters) + 1
      BY <3>3, WaitersFinite, FS_AddElement
    <3>5. Waiters' \in SUBSET Workers
      BY DEF Waiters
    <3>6. Cardinality(Waiters') <= NWorkers
      BY <3>5, WorkersFinite, FS_Subset DEF NWorkers
    <3> QED
      BY <1>3, <3>2, <3>3, <3>4, <3>6 DEF CondOK, Counted
  <2>3. CASE SpuriousWakeup(w)
    <3>1. pc[w] = "asleep" /\ pc' = [pc EXCEPT ![w] = "woken"] /\ UNCHANGED <<cmd, cond>>
      BY <2>3 DEF SpuriousWakeup, Goto
    <3>2. Waiters' = Waiters /\ Woken' = Woken \cup {w} /\ w \notin Woken
      BY <1>4, <3>1 DEF Waiters, Woken
    <3>3. Cardinality(Woken') = Cardinality(Woken) + 1
      BY <3>2, WaitersFinite, FS_AddElement
    <3> QED
      BY <1>2, <1>3, <3>1, <3>2, <3>3, WaitersFinite DEF CondOK
  <2>4. CASE RecvWoken(w) /\ HasTicket(cond)
    <3>1. /\ cond' = TakeTicket(cond) /\ pc[w] = "woken" /\ pc' = [pc EXCEPT ![w] = "recv"]
          /\ cmd' = cmd
      BY <2>4 DEF RecvWoken, Goto
    <3>2. Waiters' = Waiters \ {w} /\ w \in Waiters /\ Woken' = Woken \ {w} /\ w \in Woken
      BY <1>4, <3>1 DEF Waiters, Woken
    <3>3. /\ Cardinality(Woken') = Cardinality(Woken) - 1
          /\ Cardinality(Waiters') = Cardinality(Waiters) - 1
      BY <3>2, WaitersFinite, FS_RemoveElement
    <3>4. cond.nWakeupTickets > 0 /\ Cardinality(Woken) \in Nat
      BY <1>3, <2>4, WaitersFinite DEF HasTicket
    <3>5. Cardinality(Waiters') \in Nat /\ Cardinality(Woken') \in Nat
      BY <3>2, WaitersFinite, FS_RemoveElement, FS_CardinalityType
    <3>6. cond' = [nWaiting |-> cond.nWaiting - 1, nWakeupTickets |-> cond.nWakeupTickets - 1]
      BY <1>3, <3>1 DEF TakeTicket
    <3>7. cond.nWaiting - 1 \in 0 .. NWorkers /\ cond.nWakeupTickets - 1 \in 0 .. NWorkers
      BY <1>3, <3>3, <3>4, <3>5, WaitersFinite
    <3>8. cond.nWakeupTickets - 1 <= Cardinality(Woken')
      BY <1>3, <3>3, <3>4
    <3> QED
      BY <1>3, <3>1, <3>3, <3>6, <3>7, <3>8 DEF CondOK
  <2>5. CASE RecvWoken(w) /\ ~HasTicket(cond)
    <3>1. /\ UNCHANGED <<cond, cmd>> /\ pc[w] = "woken" /\ pc' = [pc EXCEPT ![w] = "asleep"]
          /\ cond.nWakeupTickets = 0
      BY <2>5 DEF RecvWoken, Goto, HasTicket
    <3>2. Waiters' = Waiters /\ Woken' = Woken \ {w} /\ w \in Woken
      BY <1>4, <3>1 DEF Waiters, Woken
    <3>3. Cardinality(Woken') \in Nat
      BY <3>2, WaitersFinite, FS_RemoveElement, FS_CardinalityType
    <3> QED
      BY <1>2, <1>3, <3>1, <3>2, <3>3 DEF CondOK
  <2>6. CASE ExecInit(w)
    <3>1. pc[w] = "init" /\ ArriveAt(w, "inInit", NWorkers) /\ UNCHANGED <<cmd, cond>>
      BY <2>6 DEF ExecInit
    <3>2. \A u \in Workers : /\ pc'[u] = "asleep" <=> pc[u] = "asleep"
                             /\ pc'[u] = "woken" <=> pc[u] = "woken"
      BY <1>2, <1>4, <3>1, InitBarrier
    <3> QED
      BY <1>1, <3>1, <3>2, QuietStep
  <2>7. CASE AckDone(w)
    <3>1. pc[w] = "ack" /\ ArriveAt(w, "inDone", NWorkers) /\ UNCHANGED <<cmd, cond>>
      BY <2>7 DEF AckDone
    <3>2. \A u \in Workers : /\ pc'[u] = "asleep" <=> pc[u] = "asleep"
                             /\ pc'[u] = "woken" <=> pc[u] = "woken"
      BY <1>2, <1>4, <3>1, DoneBarrier
    <3> QED
      BY <1>1, <3>1, <3>2, QuietStep
  <2>8. CASE AckIdle(w)
    <3>1. pc[w] = "master" /\ pc' = [pc EXCEPT ![w] = "ready"] /\ UNCHANGED cond
      BY <2>8 DEF AckIdle, Goto
    <3>2. \A u \in Workers : pc[u] \in {"master", "ready", "inReady"}
      BY <1>2, <3>1 DEF Phase, Idle, Running, Acked, Ready, Joined, Pre, InKernel
    <3>3. Waiters = {} /\ Woken = {} /\ Waiters' = {} /\ Woken' = {}
      BY <1>4, <3>1, <3>2 DEF Waiters, Woken
    <3>4. Cardinality(Woken) = 0
      BY <3>3, FS_EmptySet
    <3> QED
      BY <1>2, <1>3, <3>1, <3>3, <3>4 DEF CondOK
  <2>9. CASE AckReady(w)
    <3>1. pc[w] = "ready" /\ ArriveAt(w, "inReady", NWorkers + 1) /\ UNCHANGED <<cmd, cond>>
      BY <2>9 DEF AckReady
    <3>2. \A u \in Workers : /\ pc'[u] = "asleep" <=> pc[u] = "asleep"
                             /\ pc'[u] = "woken" <=> pc[u] = "woken"
      BY <1>2, <1>4, <3>1, ReadyBarrier
    <3> QED
      BY <1>1, <3>1, <3>2, QuietStep
  <2> QED
    BY <1>8, <2>1, <2>2, <2>3, <2>4, <2>5, <2>6, <2>7, <2>8, <2>9 DEF WorkerStep
<1>9. CASE UNCHANGED vars
  BY <1>1, <1>9, QuietStep DEF vars
<1> QED
  BY <1>1, <1>5, <1>6, <1>7, <1>8, <1>9 DEF Next, BossStep, Finished

-----------------------------------------------------------------------------
(* The ranks.                                                                 *)

RanksOK == Ranks /\ counter \in 0 .. NWorkers
           /\ rank \in [Workers -> 0 .. NWorkers - 1 \cup {Nobody}]

(* A step in which nobody starts.                                             *)
LEMMA NobodyStarts ==
    ASSUME Inv, UNCHANGED <<rank, counter>>,
           \A w \in Workers : pc'[w] = "start" <=> pc[w] = "start"
    PROVE  RanksOK'
<1>1. Started' = Started
  BY DEF Started
<1> QED
  BY <1>1 DEF Inv, Ranks, RanksOK, TypeOK

(* A worker that starts keeps the ranks distinct.                             *)
LEMMA StartStep ==
    ASSUME Inv, NEW w \in Workers, Start(w)
    PROVE  RanksOK'
<1>1. /\ pc[w] = "start" /\ pc' = [pc EXCEPT ![w] = "recv"]
      /\ counter' = counter + 1 /\ rank' = [rank EXCEPT ![w] = counter]
  BY DEF Start, Goto
<1>2. DOMAIN pc = Workers \cup {Boss} /\ rank \in [Workers -> 0 .. NWorkers - 1 \cup {Nobody}]
      /\ counter \in 0 .. NWorkers
  BY DEF Inv, Typed, TypeOK
<1>3. Started' = Started \cup {w} /\ w \notin Started
  BY <1>1, <1>2 DEF Started
<1>4. Started \in SUBSET Workers /\ Started' \in SUBSET Workers
  BY DEF Started
<1>5. IsFiniteSet(Started)
  BY <1>4, WorkersFinite, FS_Subset
<1>6. counter = Cardinality(Started) /\ Cardinality(Started') = Cardinality(Started) + 1
  BY <1>3, <1>5, FS_AddElement DEF Inv, Ranks
<1>7. Cardinality(Started') <= NWorkers
  BY <1>4, WorkersFinite, FS_Subset DEF NWorkers
<1>8. \E v \in Started' : rank'[v] = 0
  <2>1. CASE Started = {}
    BY <1>1, <1>2, <1>3, <1>6, <2>1, FS_EmptySet
  <2>2. CASE Started # {}
    <3>1. PICK v \in Started : rank[v] = 0
      BY <2>2 DEF Inv, Ranks
    <3> QED
      BY <1>1, <1>2, <1>3, <1>4, <3>1
  <2> QED
    BY <2>1, <2>2
<1> QED
  BY <1>1, <1>2, <1>6, <1>7, <1>8, WorkersFinite DEF RanksOK, Ranks

(* Every step keeps the ranks.                                                *)
LEMMA RankStep == Inv /\ [Next]_vars => RanksOK'
<1>1. SUFFICES ASSUME Inv, [Next]_vars PROVE RanksOK'
  OBVIOUS
<1> USE WorkerGroupAssumption
<1>2. TypeOK /\ Typed
  BY <1>1 DEF Inv
<1>3. DOMAIN pc = Workers \cup {Boss}
  BY <1>2 DEF Typed
<1>4. CASE Send
  BY <1>1, <1>3, <1>4, NobodyStarts DEF Send, SendInternalCmd
<1>5. CASE BossReady
  <2>1. \A u \in Workers : pc'[u] = "start" <=> pc[u] = "start"
    BY <1>2, <1>3, <1>5, ReadyBarrier DEF BossReady
  <2> QED
    BY <1>1, <1>5, <2>1, NobodyStarts DEF BossReady
<1>6. CASE Join
  BY <1>1, <1>3, <1>6, NobodyStarts DEF Join
<1>7. ASSUME NEW w \in Workers, WorkerStep(w) \/ SpuriousWakeup(w) PROVE RanksOK'
  <2>1. CASE Start(w)
    BY <1>1, <2>1, StartStep
  <2>2. CASE \/ RecvWait(w) \/ RecvWoken(w) \/ SpuriousWakeup(w) \/ RecvCmd(w) \/ ExecPrepare(w)
             \/ GetTicket(w) \/ Work(w) \/ ExecEnd(w) \/ AckIdle(w)
    <3>1. /\ UNCHANGED <<rank, counter>> /\ pc[w] # "start"
          /\ \/ UNCHANGED pc
             \/ \E place \in WorkerPlaces \ {"start"} : pc' = [pc EXCEPT ![w] = place]
      BY <2>2 DEF RecvWait, RecvWoken, SpuriousWakeup, RecvCmd, ExecPrepare, GetTicket, Work,
                  ExecEnd, AckIdle, Goto, WorkerPlaces, InKernel
    <3> QED
      BY <1>1, <1>3, <3>1, NobodyStarts
  <2>3. CASE ExecInit(w)
    <3>1. \A u \in Workers : pc'[u] = "start" <=> pc[u] = "start"
      BY <1>2, <1>3, <2>3, InitBarrier DEF ExecInit
    <3> QED
      BY <1>1, <2>3, <3>1, NobodyStarts DEF ExecInit
  <2>4. CASE AckDone(w)
    <3>1. \A u \in Workers : pc'[u] = "start" <=> pc[u] = "start"
      BY <1>2, <1>3, <2>4, DoneBarrier DEF AckDone
    <3> QED
      BY <1>1, <2>4, <3>1, NobodyStarts DEF AckDone
  <2>5. CASE AckReady(w)
    <3>1. \A u \in Workers : pc'[u] = "start" <=> pc[u] = "start"
      BY <1>2, <1>3, <2>5, ReadyBarrier DEF AckReady
    <3> QED
      BY <1>1, <2>5, <3>1, NobodyStarts DEF AckReady
  <2> QED
    BY <1>7, <2>1, <2>2, <2>3, <2>4, <2>5 DEF WorkerStep
<1>8. CASE UNCHANGED vars
  BY <1>1, <1>8, NobodyStarts DEF vars
<1> QED
  BY <1>1, <1>4, <1>5, <1>6, <1>7, <1>8 DEF Next, BossStep, Finished

-----------------------------------------------------------------------------
(* The round.                                                                 *)

(* Where a thread is tells which phase it is.                                 *)
LEMMA PhaseOf ==
    ASSUME Inv
    PROVE  /\ pc[Boss] = "sending" => Idle
           /\ pc[Boss] = "sent" => Running \/ Acked \/ Ready
           /\ \A w \in Workers :
                 /\ pc[w] \in Pre => (Idle /\ script # <<>>) \/ Running
                 /\ pc[w] \in InKernel \cup {"ack", "inDone"} => Running
                 /\ pc[w] = "master" => Acked
                 /\ pc[w] \in {"ready", "inReady"} => Acked \/ Ready
BY DEF Inv, Phase, Idle, Running, Acked, Ready, Joined, Out, Pre, InKernel

(* The first element and the rest of a sequence.                              *)
LEMMA HeadAndTail ==
    ASSUME NEW S, NEW s \in Seq(S), s # <<>>
    PROVE  /\ s[1] \in S /\ Tail(s) \in Seq(S)
           /\ Len(s) \in Nat /\ Len(s) > 0 /\ Len(Tail(s)) = Len(s) - 1
           /\ \A i \in 1 .. Len(Tail(s)) : Tail(s)[i] = s[i + 1]
           /\ Tail(s) = <<>> <=> Len(s) = 1
<1>1. Len(s) \in Nat \ {0} /\ s[1] \in S
  BY EmptySeq, ElementOfSeq
<1>2. /\ Tail(s) \in Seq(S) /\ Len(Tail(s)) = Len(s) - 1
      /\ \A i \in 1 .. Len(Tail(s)) : Tail(s)[i] = s[i + 1]
  BY HeadTailProperties
<1>3. Tail(s) = <<>> <=> Len(Tail(s)) = 0
  BY <1>2, EmptySeq
<1> QED
  BY <1>1, <1>2, <1>3

(* SendCmd is called between two rounds and takes the next command of the     *)
(* script.                                                                    *)
LEMMA SentCommand ==
    ASSUME Inv, Send
    PROVE  /\ Idle /\ script # <<>> /\ cmd' = script[1] /\ cmd' # IDLE
           /\ cmd' \in Commands \cup {SHUTDOWN}
           /\ script' \in Seq(Commands \cup {SHUTDOWN})
           /\ \A i \in 1 .. Len(script') : script'[i] = SHUTDOWN <=> i = Len(script')
           /\ cmd' = SHUTDOWN <=> script' = <<>>
           /\ pc'[Boss] = "sent"
           /\ \A w \in Workers : pc'[w] = IF pc[w] = "asleep" /\ Slack(cond) > 0
                                          THEN "woken" ELSE pc[w]
<1>1. Idle /\ script # <<>> /\ cmd' = script[1] /\ script' = Tail(script)
  BY PhaseOf DEF Send, SendInternalCmd
<1>2. /\ script \in Seq(Commands \cup {SHUTDOWN})
      /\ \A i \in 1 .. Len(script) : script[i] = SHUTDOWN <=> i = Len(script)
  BY DEF Inv, Typed
<1>3. /\ cmd' \in Commands \cup {SHUTDOWN} /\ script' \in Seq(Commands \cup {SHUTDOWN})
      /\ Len(script) \in Nat /\ Len(script) > 0 /\ Len(script') = Len(script) - 1
      /\ \A i \in 1 .. Len(script') : script'[i] = script[i + 1]
      /\ script' = <<>> <=> Len(script) = 1
  BY <1>1, <1>2, HeadAndTail
<1>4. \A i \in 1 .. Len(script') : script'[i] = SHUTDOWN <=> i = Len(script')
  <2>1. SUFFICES ASSUME NEW i \in 1 .. Len(script') PROVE script'[i] = SHUTDOWN <=> i = Len(script')
    OBVIOUS
  <2>2. i + 1 \in 1 .. Len(script) /\ (i + 1 = Len(script) <=> i = Len(script'))
    BY <1>3
  <2> QED
    BY <1>2, <1>3, <2>2
<1>5. cmd' # IDLE
  BY <1>3, WorkerGroupAssumption
<1>6. cmd' = SHUTDOWN <=> script' = <<>>
  <2>1. 1 \in 1 .. Len(script)
    BY <1>3
  <2> QED
    BY <1>1, <1>2, <1>3, <2>1
<1>7. /\ pc'[Boss] = "sent"
      /\ \A w \in Workers : pc'[w] = IF pc[w] = "asleep" /\ Slack(cond) > 0
                                     THEN "woken" ELSE pc[w]
  BY WorkerGroupAssumption DEF Send, SendInternalCmd, Inv, Typed
<1> QED
  BY <1>1, <1>3, <1>4, <1>5, <1>6, <1>7

(* When all have come to poolReadyBarrier the pool is idle again, or exits.   *)
LEMMA PoolReady ==
    ASSUME Inv, NEW t \in Workers \cup {Boss},
           t = Boss => pc[t] = "sent", t # Boss => pc[t] = "ready",
           \A u \in Workers \cup {Boss} : u # t => pc[u] = "inReady",
           pc' = [u \in Workers \cup {Boss} |->
                     IF u = Boss THEN "sending" ELSE IF got[u] = SHUTDOWN THEN "exited" ELSE "recv"]
    PROVE  /\ Ready
           /\ pc'[Boss] = "sending"
           /\ \A w \in Workers : pc'[w] = IF script = <<>> THEN "exited" ELSE "recv"
<1> USE WorkerGroupAssumption
<1>1. \A w \in Workers : pc[w] \in {"ready", "inReady"}
  OBVIOUS
<1>2. Ready
  <2>1. PICK w \in Workers : TRUE
    OBVIOUS
  <2>2. Acked \/ Ready
    BY <1>1, <2>1, PhaseOf
  <2> QED
    BY <1>1, <2>2 DEF Acked
<1>3. \A w \in Workers : got[w] = SHUTDOWN <=> script = <<>>
  BY <1>1 DEF Inv, Progress, Post
<1> QED
  BY <1>2, <1>3

(* Every step keeps the pool in one of the phases of a round.                 *)
LEMMA PhaseStep == Inv /\ [Next]_vars => Phase'
<1>1. SUFFICES ASSUME Inv, [Next]_vars PROVE Phase'
  OBVIOUS
<1> USE WorkerGroupAssumption
<1>2. TypeOK /\ Typed /\ Phase
  BY <1>1 DEF Inv
<1>3. DOMAIN pc = Workers \cup {Boss}
  BY <1>2 DEF Typed
<1>4. CASE Send
  <2>1. Running'
    BY <1>1, <1>4, SentCommand DEF Idle, Running, Out, Pre, InKernel
  <2> QED
    BY <2>1 DEF Phase
<1>5. CASE BossReady
  <2>1. pc[Boss] = "sent" /\ ArriveAt(Boss, "inReady", NWorkers + 1) /\ UNCHANGED <<cmd, script, got>>
    BY <1>5 DEF BossReady
  <2>2. CASE /\ pc' = [pc EXCEPT ![Boss] = "inReady"]
             /\ \E u \in Workers \cup {Boss} : u # Boss /\ pc[u] # "inReady"
    <3>1. Running \/ Acked \/ Ready
      BY <1>1, <2>1, PhaseOf
    <3>2. Out' /\ \A w \in Workers : pc'[w] = pc[w]
      BY <1>3, <2>2 DEF Out
    <3> QED
      BY <2>1, <2>2, <3>1, <3>2 DEF Phase, Running, Acked, Ready
  <2>3. CASE /\ \A u \in Workers \cup {Boss} : u # Boss => pc[u] = "inReady"
             /\ pc' = [u \in Workers \cup {Boss} |->
                         IF u = Boss THEN "sending"
                         ELSE IF got[u] = SHUTDOWN THEN "exited" ELSE "recv"]
    BY <1>1, <2>1, <2>3, PoolReady DEF Phase, Idle, Ready, Pre
  <2> QED
    BY <1>2, <2>1, <2>2, <2>3, ReadyBarrier
<1>6. CASE Join
  BY <1>1, <1>3, <1>6, PhaseOf DEF Join, Phase, Idle, Joined
<1>7. ASSUME NEW w \in Workers, WorkerStep(w) \/ SpuriousWakeup(w) PROVE Phase'
  <2>1. CASE Start(w) \/ RecvWait(w) \/ RecvWoken(w) \/ SpuriousWakeup(w)
    <3>1. /\ UNCHANGED <<cmd, script>> /\ pc[w] \in Pre
          /\ \/ UNCHANGED pc
             \/ \E place \in Pre : pc' = [pc EXCEPT ![w] = place]
      BY <2>1 DEF Start, RecvWait, RecvWoken, SpuriousWakeup, Goto, Pre
    <3>2. (Idle /\ script # <<>>) \/ Running
      BY <1>1, <3>1, PhaseOf
    <3>3. /\ pc'[Boss] = pc[Boss] /\ pc'[w] \in Pre
          /\ \A u \in Workers : u # w => pc'[u] = pc[u]
      BY <1>3, <3>1
    <3> QED
      BY <3>1, <3>2, <3>3 DEF Phase, Idle, Running, Out, Pre
  <2>2. CASE RecvCmd(w) \/ ExecPrepare(w) \/ GetTicket(w) \/ Work(w) \/ ExecEnd(w)
    <3>1. /\ UNCHANGED <<cmd, script>> /\ pc[w] \in Pre \cup InKernel /\ (pc[w] \in Pre => cmd # IDLE)
          /\ \E place \in InKernel \cup {"ack"} : pc' = [pc EXCEPT ![w] = place]
      BY <2>2 DEF RecvCmd, ExecPrepare, GetTicket, Work, ExecEnd, Goto, Pre, InKernel
    <3>2. Running
      BY <1>1, <3>1, PhaseOf DEF Idle
    <3>3. /\ pc'[Boss] = pc[Boss] /\ pc'[w] \in InKernel \cup {"ack"}
          /\ \A u \in Workers : u # w => pc'[u] = pc[u]
      BY <1>3, <3>1
    <3> QED
      BY <3>1, <3>2, <3>3 DEF Phase, Running, Out, InKernel
  <2>3. CASE ExecInit(w)
    <3>1. pc[w] = "init" /\ ArriveAt(w, "inInit", NWorkers) /\ UNCHANGED <<cmd, script>>
      BY <2>3 DEF ExecInit
    <3>2. Running
      BY <1>1, <3>1, PhaseOf DEF InKernel
    <3>3. /\ pc'[Boss] = pc[Boss] /\ pc'[w] \in InKernel
          /\ \A u \in Workers : pc'[u] = pc[u] \/ pc'[u] \in InKernel
      BY <1>2, <1>3, <3>1, InitBarrier DEF InKernel
    <3> QED
      BY <3>1, <3>2, <3>3 DEF Phase, Running, Out, InKernel
  <2>4. CASE AckDone(w)
    <3>1. pc[w] = "ack" /\ ArriveAt(w, "inDone", NWorkers) /\ UNCHANGED <<cmd, script>>
      BY <2>4 DEF AckDone
    <3>2. Running
      BY <1>1, <3>1, PhaseOf
    <3>3. CASE /\ pc' = [pc EXCEPT ![w] = "inDone"]
               /\ \E u \in Workers : u # w /\ pc[u] # "inDone"
      BY <1>3, <3>1, <3>2, <3>3 DEF Phase, Running, Out
    <3>4. CASE /\ \A u \in Workers : u # w => pc[u] = "inDone"
               /\ \E m \in Workers :
                    pc' = [u \in Workers \cup {Boss} |->
                              IF u = Boss THEN pc[u] ELSE IF u = m THEN "master" ELSE "ready"]
      BY <3>1, <3>2, <3>4 DEF Phase, Running, Acked, Out
    <3> QED
      BY <1>2, <3>1, <3>3, <3>4, DoneBarrier
  <2>5. CASE AckIdle(w)
    <3>1. pc[w] = "master" /\ pc' = [pc EXCEPT ![w] = "ready"] /\ cmd' = IDLE
      BY <2>5 DEF AckIdle, Goto
    <3>2. Acked
      BY <1>1, <3>1, PhaseOf
    <3> QED
      BY <1>3, <3>1, <3>2 DEF Phase, Acked, Ready, Out
  <2>6. CASE AckReady(w)
    <3>1. /\ pc[w] = "ready" /\ ArriveAt(w, "inReady", NWorkers + 1)
          /\ UNCHANGED <<cmd, script, got>>
      BY <2>6 DEF AckReady
    <3>2. CASE /\ pc' = [pc EXCEPT ![w] = "inReady"]
               /\ \E u \in Workers \cup {Boss} : u # w /\ pc[u] # "inReady"
      <4>1. Acked \/ Ready
        BY <1>1, <3>1, PhaseOf
      <4>2. CASE Acked
        <5>1. PICK m \in Workers : /\ pc[m] = "master"
                                   /\ \A v \in Workers \ {m} : pc[v] \in {"ready", "inReady"}
          BY <4>2 DEF Acked
        <5>2. pc'[m] = "master" /\ \A v \in Workers \ {m} : pc'[v] \in {"ready", "inReady"}
          BY <1>3, <3>1, <3>2, <5>1
        <5>3. Out' /\ cmd' # IDLE
          BY <1>3, <3>1, <3>2, <4>2 DEF Acked, Out
        <5> QED
          BY <5>2, <5>3 DEF Phase, Acked
      <4>3. CASE Ready
        BY <1>3, <3>1, <3>2, <4>3 DEF Phase, Ready, Out
      <4> QED
        BY <4>1, <4>2, <4>3
    <3>3. CASE /\ \A u \in Workers \cup {Boss} : u # w => pc[u] = "inReady"
               /\ pc' = [u \in Workers \cup {Boss} |->
                           IF u = Boss THEN "sending"
                           ELSE IF got[u] = SHUTDOWN THEN "exited" ELSE "recv"]
      BY <1>1, <3>1, <3>3, PoolReady DEF Phase, Idle, Ready, Pre
    <3> QED
      BY <1>2, <3>1, <3>2, <3>3, ReadyBarrier
  <2> QED
    BY <1>7, <2>1, <2>2, <2>3, <2>4, <2>5, <2>6 DEF WorkerStep
<1>8. CASE UNCHANGED vars
  BY <1>2, <1>8 DEF vars, Phase, Idle, Running, Acked, Ready, Joined, Out
<1> QED
  BY <1>1, <1>4, <1>5, <1>6, <1>7, <1>8 DEF Next, BossStep, Finished

-----------------------------------------------------------------------------
(* The types.                                                                 *)

(* Where the range of a command ends.                                         *)
LEMMA LimitType ==
    ASSUME NEW c
    PROVE  Limit(c) \in Int /\ Limit(c) <= Height + Particles
<1> USE WorkerGroupAssumption
<1>1. /\ KernelSize \div 2 \in Nat /\ Height \in Int /\ Height - 2 \in Int /\ Particles \in Int
      /\ Height - KernelSize \div 2 \in Int
      /\ Height <= Height + Particles /\ Particles <= Height + Particles
      /\ Height - 2 <= Height + Particles /\ Height - KernelSize \div 2 <= Height + Particles
  OBVIOUS
<1>2. \/ Limit(c) = Height \/ Limit(c) = Height - KernelSize \div 2
      \/ Limit(c) = Height - 2 \/ Limit(c) = Particles
  BY Zenon DEF Limit
<1> QED
  BY <1>1, <1>2

(* Where the range of a command begins.                                       *)
LEMMA FirstType ==
    ASSUME TypeOK, NEW c \in Commands
    PROVE  First(c) \in Nat
<1>1. Dispenser(c) \in Dispensers
  BY DEF Dispenser, Dispensers
<1>2. disp[Dispenser(c)].init \in Nat
  BY <1>1 DEF TypeOK
<1>3. KernelSize \div 2 \in Nat
  BY WorkerGroupAssumption
<1>4. First(c) = 0 \/ First(c) = KernelSize \div 2 \/ First(c) = disp[Dispenser(c)].init
  BY Zenon DEF First
<1> QED
  BY <1>2, <1>3, <1>4

(* Where the threads can be.                                                  *)
PlacesOK ==
    /\ pc \in [Workers \cup {Boss} -> WorkerPlaces \cup BossPlaces]
    /\ \A w \in Workers : pc[w] \in WorkerPlaces
    /\ pc[Boss] \in BossPlaces

(* Every thread stays at one of its places in the code.                       *)
LEMMA PlacesStep == Inv /\ [Next]_vars => PlacesOK'
<1>1. SUFFICES ASSUME Inv, [Next]_vars PROVE PlacesOK'
  OBVIOUS
<1> USE WorkerGroupAssumption
<1>2. TypeOK /\ Typed
  BY <1>1 DEF Inv
<1>3. PlacesOK
  BY <1>2 DEF TypeOK, Typed, PlacesOK, WorkerPlaces, BossPlaces
<1>4. CASE Send
  BY <1>3, <1>4 DEF Send, SendInternalCmd, PlacesOK, WorkerPlaces, BossPlaces
<1>5. CASE BossReady
  BY <1>2, <1>3, <1>5, ReadyBarrier DEF BossReady, PlacesOK, WorkerPlaces, BossPlaces
<1>6. CASE Join
  BY <1>3, <1>6 DEF Join, PlacesOK, WorkerPlaces, BossPlaces
<1>7. ASSUME NEW w \in Workers, WorkerStep(w) \/ SpuriousWakeup(w) PROVE PlacesOK'
  <2>1. CASE \/ Start(w) \/ RecvWait(w) \/ RecvWoken(w) \/ SpuriousWakeup(w) \/ RecvCmd(w)
             \/ ExecPrepare(w) \/ GetTicket(w) \/ Work(w) \/ ExecEnd(w) \/ AckIdle(w)
    <3>1. UNCHANGED pc \/ \E place \in WorkerPlaces : pc' = [pc EXCEPT ![w] = place]
      BY <2>1 DEF Start, RecvWait, RecvWoken, SpuriousWakeup, RecvCmd, ExecPrepare, GetTicket,
                  Work, ExecEnd, AckIdle, Goto, WorkerPlaces, InKernel
    <3> QED
      BY <1>3, <3>1 DEF PlacesOK
  <2>2. CASE ExecInit(w)
    BY <1>2, <1>3, <2>2, InitBarrier DEF ExecInit, PlacesOK, WorkerPlaces, InKernel
  <2>3. CASE AckDone(w)
    BY <1>2, <1>3, <2>3, DoneBarrier DEF AckDone, PlacesOK, WorkerPlaces
  <2>4. CASE AckReady(w)
    BY <1>2, <1>3, <2>4, ReadyBarrier DEF AckReady, PlacesOK, WorkerPlaces, BossPlaces
  <2> QED
    BY <1>7, <2>1, <2>2, <2>3, <2>4 DEF WorkerStep
<1>8. CASE UNCHANGED vars
  BY <1>3, <1>8 DEF vars, PlacesOK
<1> QED
  BY <1>1, <1>4, <1>5, <1>6, <1>7, <1>8 DEF Next, BossStep, Finished

(* The types of what is not the condition, a place, a rank or an item.        *)
DataOK ==
    /\ cmd \in Commands \cup {IDLE, SHUTDOWN}
    /\ got \in [Workers -> Commands \cup {IDLE, SHUTDOWN}]
    /\ disp \in [Dispensers -> [init : Nat, inc : Nat, value : Nat]]
    /\ ticket \in [Workers -> Nat]
    /\ executed \in [Workers -> 0 .. sent]
    /\ sent \in Nat
    /\ script \in Seq(Commands \cup {SHUTDOWN})
    /\ \A i \in 1 .. Len(script) : script[i] = SHUTDOWN <=> i = Len(script)

(* Every step keeps the types of the data of a command.                       *)
LEMMA DataStep == Inv /\ [Next]_vars => DataOK'
<1>1. SUFFICES ASSUME Inv, [Next]_vars PROVE DataOK'
  OBVIOUS
<1> USE WorkerGroupAssumption
<1>2. TypeOK /\ Progress
  BY <1>1 DEF Inv
<1>3. DataOK
  BY <1>1 DEF Inv, TypeOK, Typed, DataOK
<1>4. CASE Send
  <2>1. /\ cmd' \in Commands \cup {IDLE, SHUTDOWN}
        /\ script' \in Seq(Commands \cup {SHUTDOWN})
        /\ \A i \in 1 .. Len(script') : script'[i] = SHUTDOWN <=> i = Len(script')
    BY <1>1, <1>4, SentCommand
  <2>2. sent' = sent + 1 /\ UNCHANGED <<got, disp, ticket, executed>>
    BY <1>4 DEF Send
  <2>3. sent' \in Nat /\ executed' \in [Workers -> 0 .. sent']
    BY <1>3, <2>2 DEF DataOK
  <2> QED
    BY <1>3, <2>1, <2>2, <2>3 DEF DataOK
<1>5. CASE BossReady \/ Join
  BY <1>3, <1>5 DEF BossReady, Join, DataOK
<1>6. ASSUME NEW w \in Workers, WorkerStep(w) \/ SpuriousWakeup(w) PROVE DataOK'
  <2>1. CASE \/ Start(w) \/ RecvWait(w) \/ RecvWoken(w) \/ SpuriousWakeup(w) \/ Work(w)
             \/ ExecInit(w) \/ AckDone(w) \/ AckReady(w)
    <3>1. UNCHANGED <<cmd, got, disp, ticket, executed, sent, script>>
      BY <2>1 DEF Start, RecvWait, RecvWoken, SpuriousWakeup, Work, ExecInit, AckDone, AckReady
    <3> QED
      BY <1>3, <3>1 DEF DataOK
  <2>2. CASE RecvCmd(w)
    BY <1>3, <2>2 DEF RecvCmd, DataOK
  <2>3. CASE ExecPrepare(w)
    <3>1. got[w] \in Commands /\ Dispenser(got[w]) \in Dispensers
      BY <1>2, <2>3 DEF ExecPrepare, Progress, InKernel, Dispenser, Dispensers
    <3>2. First(got[w]) \in Nat /\ WorkUnit[got[w]] \in Nat
      BY <1>2, <3>1, FirstType
    <3>3. disp' \in [Dispensers -> [init : Nat, inc : Nat, value : Nat]]
      <4> DEFINE r == [init |-> First(got[w]), inc |-> WorkUnit[got[w]], value |-> First(got[w])]
      <4>1. r \in [init : Nat, inc : Nat, value : Nat]
        BY <3>2
      <4>2. UNCHANGED disp \/ disp' = [disp EXCEPT ![Dispenser(got[w])] = r]
        BY <2>3 DEF ExecPrepare, Prepared
      <4> HIDE DEF r
      <4> QED
        BY <1>3, <3>1, <4>1, <4>2 DEF DataOK
    <3>4. UNCHANGED <<cmd, got, ticket, executed, sent, script>>
      BY <2>3 DEF ExecPrepare
    <3> QED
      BY <1>3, <3>3, <3>4 DEF DataOK
  <2>4. CASE GetTicket(w)
    <3> DEFINE d == Dispenser(got[w])
    <3>1. d \in Dispensers
      BY DEF Dispenser, Dispensers
    <3>2. /\ ticket' = [ticket EXCEPT ![w] = disp[d].value]
          /\ disp' = [disp EXCEPT ![d].value = disp[d].value + disp[d].inc]
          /\ UNCHANGED <<cmd, got, executed, sent, script>>
      BY <2>4 DEF GetTicket
    <3>3. disp[d] \in [init : Nat, inc : Nat, value : Nat]
      BY <1>3, <3>1 DEF DataOK
    <3>4. ticket' \in [Workers -> Nat]
      BY <1>3, <3>2, <3>3 DEF DataOK
    <3>5. disp' \in [Dispensers -> [init : Nat, inc : Nat, value : Nat]]
      <4>1. PICK r : r = [disp[d] EXCEPT !.value = disp[d].value + disp[d].inc]
        OBVIOUS
      <4>2. r \in [init : Nat, inc : Nat, value : Nat]
        BY <3>3, <4>1
      <4>3. disp' = [disp EXCEPT ![d] = r]
        BY <3>2, <4>1
      <4> HIDE DEF d
      <4> QED
        BY <1>3, <3>1, <4>2, <4>3 DEF DataOK
    <3> QED
      BY <1>3, <3>2, <3>4, <3>5 DEF DataOK
  <2>5. CASE ExecEnd(w)
    <3>1. executed[w] = sent - 1 /\ sent \in Nat /\ executed[w] \in Nat
      BY <1>2, <1>3, <2>5 DEF ExecEnd, Progress, InKernel, DataOK
    <3> QED
      BY <1>3, <2>5, <3>1 DEF ExecEnd, DataOK
  <2>6. CASE AckIdle(w)
    BY <1>3, <2>6 DEF AckIdle, DataOK
  <2> QED
    BY <1>6, <2>1, <2>2, <2>3, <2>4, <2>5, <2>6 DEF WorkerStep
<1>7. CASE UNCHANGED vars
  BY <1>3, <1>7 DEF vars, DataOK
<1> QED
  BY <1>1, <1>4, <1>5, <1>6, <1>7 DEF Next, BossStep, Finished

-----------------------------------------------------------------------------
(* Each command is executed once by everybody.                                *)

(* Every step keeps count of what each worker has executed.                   *)
LEMMA ProgressStep == Inv /\ [Next]_vars => Progress'
<1>1. SUFFICES ASSUME Inv, [Next]_vars PROVE Progress'
  OBVIOUS
<1> USE WorkerGroupAssumption
<1>2. TypeOK /\ Typed /\ Progress /\ DataOK
  BY <1>1 DEF Inv, TypeOK, Typed, DataOK
<1>3. DOMAIN pc = Workers \cup {Boss} /\ sent \in Nat
  BY <1>2 DEF Typed
<1>4. CASE Send
  <2>1. /\ Idle /\ script # <<>> /\ cmd' # IDLE /\ (cmd' = SHUTDOWN <=> script' = <<>>)
        /\ Out' /\ sent' = sent + 1 /\ UNCHANGED <<got, executed>>
        /\ \A w \in Workers : pc[w] \in Pre /\ pc'[w] \in Pre
    BY <1>1, <1>4, SentCommand DEF Idle, Out, Send, Pre
  <2>2. \A w \in Workers : executed[w] = sent
    BY <1>2, <2>1 DEF Progress, Idle, Out
  <2> QED
    BY <1>3, <2>1, <2>2 DEF Progress, Pre, Post, InKernel
<1>5. CASE BossReady
  <2>1. /\ pc[Boss] = "sent" /\ ArriveAt(Boss, "inReady", NWorkers + 1)
        /\ UNCHANGED <<cmd, script, got, sent, executed>>
    BY <1>5 DEF BossReady
  <2>2. CASE pc' = [pc EXCEPT ![Boss] = "inReady"]
    <3>1. (Out' <=> Out) /\ \A w \in Workers : pc'[w] = pc[w]
      BY <1>3, <2>1, <2>2 DEF Out
    <3> QED
      BY <1>2, <2>1, <3>1 DEF Progress
  <2>3. CASE /\ \A u \in Workers \cup {Boss} : u # Boss => pc[u] = "inReady"
             /\ pc' = [u \in Workers \cup {Boss} |->
                         IF u = Boss THEN "sending"
                         ELSE IF got[u] = SHUTDOWN THEN "exited" ELSE "recv"]
    <3>1. /\ Ready /\ pc'[Boss] = "sending"
          /\ \A w \in Workers : pc'[w] = IF script = <<>> THEN "exited" ELSE "recv"
      BY <1>1, <2>1, <2>3, PoolReady
    <3>2. \A w \in Workers : executed[w] = IF script = <<>> THEN sent - 1 ELSE sent
      BY <1>2, <2>3 DEF Progress, Post
    <3> QED
      BY <1>2, <2>1, <3>1, <3>2 DEF Progress, Ready, Out, Pre, Post, InKernel
  <2> QED
    BY <1>2, <2>1, <2>2, <2>3, ReadyBarrier
<1>6. CASE Join
  <2>1. \A w \in Workers : pc'[w] = pc[w]
    BY <1>3, <1>6 DEF Join
  <2>2. ~Out /\ ~Out' /\ UNCHANGED <<cmd, script, got, sent, executed>>
    BY <1>3, <1>6 DEF Join, Out
  <2> QED
    BY <1>2, <2>1, <2>2 DEF Progress
<1>7. ASSUME NEW w \in Workers, WorkerStep(w) \/ SpuriousWakeup(w) PROVE Progress'
  <2>1. CASE Start(w) \/ RecvWait(w) \/ RecvWoken(w) \/ SpuriousWakeup(w)
    <3>1. /\ UNCHANGED <<cmd, script, got, sent, executed>> /\ pc[w] \in Pre
          /\ \/ UNCHANGED pc
             \/ \E place \in Pre : pc' = [pc EXCEPT ![w] = place]
      BY <2>1 DEF Start, RecvWait, RecvWoken, SpuriousWakeup, Goto, Pre
    <3>2. /\ pc'[Boss] = pc[Boss] /\ pc'[w] \in Pre
          /\ \A u \in Workers : u # w => pc'[u] = pc[u]
      BY <1>3, <3>1
    <3> QED
      BY <1>2, <3>1, <3>2 DEF Progress, Out, Pre, Post, InKernel
  <2>2. CASE RecvCmd(w)
    <3>1. /\ pc[w] = "recv" /\ cmd # IDLE /\ got' = [got EXCEPT ![w] = cmd]
          /\ pc' = [pc EXCEPT ![w] = IF cmd = SHUTDOWN THEN "ack" ELSE "exec"]
          /\ UNCHANGED <<cmd, script, sent, executed>>
      BY <2>2 DEF RecvCmd, Goto
    <3>2. /\ pc'[Boss] = pc[Boss] /\ pc'[w] = IF cmd = SHUTDOWN THEN "ack" ELSE "exec"
          /\ \A u \in Workers : u # w => pc'[u] = pc[u] /\ got'[u] = got[u]
          /\ got'[w] = cmd
      BY <1>2, <1>3, <3>1 DEF DataOK
    <3>3. Out /\ Running
      BY <1>1, <3>1, PhaseOf DEF Pre, Idle, Running
    <3>4. executed[w] = sent - 1 /\ cmd \in Commands \cup {SHUTDOWN}
      BY <1>2, <3>1, <3>3 DEF Progress, Pre, DataOK
    <3> QED
      BY <1>2, <3>1, <3>2, <3>3, <3>4 DEF Progress, Out, Pre, Post, InKernel
  <2>3. CASE ExecPrepare(w) \/ GetTicket(w) \/ Work(w)
    <3>1. /\ UNCHANGED <<cmd, script, got, sent, executed>> /\ pc[w] \in InKernel
          /\ \E place \in InKernel : pc' = [pc EXCEPT ![w] = place]
      BY <2>3 DEF ExecPrepare, GetTicket, Work, Goto, InKernel
    <3>2. /\ pc'[Boss] = pc[Boss] /\ pc'[w] \in InKernel
          /\ \A u \in Workers : u # w => pc'[u] = pc[u]
      BY <1>3, <3>1
    <3> QED
      BY <1>2, <3>1, <3>2 DEF Progress, Out, Pre, Post, InKernel
  <2>4. CASE ExecInit(w)
    <3>1. /\ pc[w] = "init" /\ ArriveAt(w, "inInit", NWorkers)
          /\ UNCHANGED <<cmd, script, got, sent, executed>>
      BY <2>4 DEF ExecInit
    <3>2. /\ pc'[Boss] = pc[Boss]
          /\ \A u \in Workers : pc'[u] = pc[u] \/ (pc[u] \in InKernel /\ pc'[u] \in InKernel)
      <4>1. CASE pc' = [pc EXCEPT ![w] = "inInit"]
        BY <1>3, <3>1, <4>1 DEF InKernel
      <4>2. CASE /\ \A u \in Workers : u # w => pc[u] = "inInit"
                 /\ pc' = [u \in Workers \cup {Boss} |-> IF u = Boss THEN pc[u] ELSE "ticket"]
        BY <3>1, <4>2 DEF InKernel
      <4> QED
        BY <1>2, <3>1, <4>1, <4>2, InitBarrier
    <3> QED
      BY <1>2, <3>1, <3>2 DEF Progress, Out, Pre, Post, InKernel
  <2>5. CASE ExecEnd(w)
    <3>1. /\ pc[w] = "work" /\ pc' = [pc EXCEPT ![w] = "ack"]
          /\ executed' = [executed EXCEPT ![w] = executed[w] + 1]
          /\ UNCHANGED <<cmd, script, got, sent>>
      BY <2>5 DEF ExecEnd, Goto
    <3>2. /\ pc'[Boss] = pc[Boss] /\ pc'[w] = "ack" /\ executed'[w] = executed[w] + 1
          /\ \A u \in Workers : u # w => pc'[u] = pc[u] /\ executed'[u] = executed[u]
      BY <1>2, <1>3, <3>1 DEF DataOK
    <3>3. executed[w] = sent - 1 /\ got[w] = cmd /\ cmd \in Commands /\ script # <<>>
      BY <1>2, <3>1 DEF Progress, InKernel
    <3>4. executed'[w] = sent
      BY <1>3, <3>2, <3>3
    <3> QED
      BY <1>2, <3>1, <3>2, <3>3, <3>4 DEF Progress, Out, Pre, Post, InKernel
  <2>6. CASE AckDone(w)
    <3>1. /\ pc[w] = "ack" /\ ArriveAt(w, "inDone", NWorkers)
          /\ UNCHANGED <<cmd, script, got, sent, executed>>
      BY <2>6 DEF AckDone
    <3>2. /\ pc'[Boss] = pc[Boss]
          /\ \A u \in Workers : pc'[u] = pc[u] \/ (pc[u] \in Post /\ pc'[u] \in Post)
      <4>1. CASE pc' = [pc EXCEPT ![w] = "inDone"]
        BY <1>3, <3>1, <4>1 DEF Post
      <4>2. CASE /\ \A u \in Workers : u # w => pc[u] = "inDone"
                 /\ \E m \in Workers :
                      pc' = [u \in Workers \cup {Boss} |->
                                IF u = Boss THEN pc[u] ELSE IF u = m THEN "master" ELSE "ready"]
        BY <3>1, <4>2 DEF Post
      <4> QED
        BY <1>2, <3>1, <4>1, <4>2, DoneBarrier
    <3> QED
      BY <1>2, <3>1, <3>2 DEF Progress, Out, Pre, Post, InKernel
  <2>7. CASE AckIdle(w)
    <3>1. /\ pc[w] = "master" /\ pc' = [pc EXCEPT ![w] = "ready"] /\ cmd' = IDLE
          /\ UNCHANGED <<script, got, sent, executed>>
      BY <2>7 DEF AckIdle, Goto
    <3>2. Acked
      BY <1>1, <3>1, PhaseOf
    <3>3. /\ pc'[Boss] = pc[Boss] /\ cmd # IDLE
          /\ \A u \in Workers : pc[u] \in Post /\ pc'[u] \in {"ready", "inReady"}
      BY <1>3, <3>1, <3>2 DEF Acked, Post
    <3>4. \A u \in Workers : got[u] = cmd
      BY <1>2, <3>3 DEF Progress
    <3>5. script # <<>> => cmd \in Commands
      BY <1>2, <3>3 DEF Progress, DataOK
    <3> QED
      BY <1>2, <3>1, <3>3, <3>4, <3>5 DEF Progress, Out, Pre, Post, InKernel
  <2>8. CASE AckReady(w)
    <3>1. /\ pc[w] = "ready" /\ ArriveAt(w, "inReady", NWorkers + 1)
          /\ UNCHANGED <<cmd, script, got, sent, executed>>
      BY <2>8 DEF AckReady
    <3>2. CASE pc' = [pc EXCEPT ![w] = "inReady"]
      <4>1. /\ pc'[Boss] = pc[Boss] /\ pc'[w] = "inReady"
            /\ \A u \in Workers : u # w => pc'[u] = pc[u]
        BY <1>3, <3>2
      <4> QED
        BY <1>2, <3>1, <4>1 DEF Progress, Out, Pre, Post, InKernel
    <3>3. CASE /\ \A u \in Workers \cup {Boss} : u # w => pc[u] = "inReady"
               /\ pc' = [u \in Workers \cup {Boss} |->
                           IF u = Boss THEN "sending"
                           ELSE IF got[u] = SHUTDOWN THEN "exited" ELSE "recv"]
      <4>1. /\ Ready /\ pc'[Boss] = "sending"
            /\ \A v \in Workers : pc'[v] = IF script = <<>> THEN "exited" ELSE "recv"
        BY <1>1, <3>1, <3>3, PoolReady
      <4>2. \A v \in Workers : executed[v] = IF script = <<>> THEN sent - 1 ELSE sent
        BY <1>2, <3>1, <3>3 DEF Progress, Post
      <4> QED
        BY <1>2, <3>1, <4>1, <4>2 DEF Progress, Ready, Out, Pre, Post, InKernel
    <3> QED
      BY <1>2, <3>1, <3>2, <3>3, ReadyBarrier
  <2> QED
    BY <1>7, <2>1, <2>2, <2>3, <2>4, <2>5, <2>6, <2>7, <2>8 DEF WorkerStep
<1>8. CASE UNCHANGED vars
  BY <1>2, <1>8 DEF vars, Progress, Out
<1> QED
  BY <1>1, <1>4, <1>5, <1>6, <1>7, <1>8 DEF Next, BossStep, Finished

-----------------------------------------------------------------------------
(* The division of the range.                                                 *)

DivisionOK == Division /\ done \in [Items -> 0 .. 1]

(* What holds while some worker is inside a kernel.                           *)
LEMMA InTheKernel ==
    ASSUME Inv, NEW w \in Workers, pc[w] \in InKernel
    PROVE  /\ Running /\ cmd \in Commands /\ cmd # SHUTDOWN
           /\ \A u \in Workers : pc[u] \in InKernel => got[u] = cmd
           /\ Dispenser(cmd) \in Dispensers
           /\ disp \in [Dispensers -> [init : Nat, inc : Nat, value : Nat]]
           /\ D \in [init : Nat, inc : Nat, value : Nat]
           /\ ticket \in [Workers -> Nat] /\ WorkUnit[cmd] \in Nat \ {0}
           /\ pc[w] \in {"exec", "init", "inInit"} => Before
           /\ pc[w] \in {"ticket", "work"} => During
<1> USE WorkerGroupAssumption
<1>1. cmd \in Commands /\ \A u \in Workers : pc[u] \in InKernel => got[u] = cmd
  BY DEF Inv, Progress
<1>2. Running
  BY PhaseOf
<1>3. Dispenser(cmd) \in Dispensers
  BY DEF Dispenser, Dispensers
<1>4. /\ disp \in [Dispensers -> [init : Nat, inc : Nat, value : Nat]]
      /\ D \in [init : Nat, inc : Nat, value : Nat] /\ ticket \in [Workers -> Nat]
  BY <1>3 DEF Inv, TypeOK, D
<1>5. Before \/ During
  BY <1>1, <1>2 DEF Inv, Division
<1>6. /\ pc[w] \in {"exec", "init", "inInit"} => Before
      /\ pc[w] \in {"ticket", "work"} => During
  BY <1>5 DEF Before, During, Pre
<1> QED
  BY <1>1, <1>2, <1>3, <1>4, <1>6

(* A thread on its way to the kernel changes nothing that counts.             *)
LEMMA OnTheWay ==
    ASSUME Inv, NEW w \in Workers, Before, Running, cmd # SHUTDOWN, cmd' = cmd,
           UNCHANGED <<disp, done>>, pc'[w] \in Pre \cup {"exec"},
           \A u \in Workers \ {w} : pc'[u] = pc[u] /\ rank'[u] = rank[u]
    PROVE  Before'
<1>1. D' = D
  BY DEF D
<1> QED
  BY <1>1 DEF Before, Pre

(* Resetting the dispenser, with nothing processed yet.                       *)
LEMMA PrepareDivision ==
    ASSUME Inv, NEW w \in Workers, ExecPrepare(w)
    PROVE  Before' /\ UNCHANGED done
<1> DEFINE r == [init |-> First(cmd), inc |-> WorkUnit[cmd], value |-> First(cmd)]
<1>1. pc[w] = "exec" /\ pc[w] \in InKernel /\ UNCHANGED <<cmd, rank, done>>
  BY DEF ExecPrepare, InKernel
<1>2. /\ Before /\ cmd \in Commands /\ got[w] = cmd /\ Dispenser(cmd) \in Dispensers
      /\ DOMAIN disp = Dispensers
  BY <1>1, InTheKernel
<1>3. pc'[w] = "init" /\ \A u \in Workers : u # w => pc'[u] = pc[u]
  BY DEF Inv, Typed, ExecPrepare, Goto
<1>4. IF rank[w] = 0 THEN disp' = [disp EXCEPT ![Dispenser(cmd)] = r] ELSE disp' = disp
  BY <1>2 DEF ExecPrepare, Prepared
<1>5. IF rank[w] = 0 THEN disp'[Dispenser(cmd)] = r ELSE disp'[Dispenser(cmd)] = D
  <2> HIDE DEF r
  <2> QED
    BY <1>2, <1>4 DEF D
<1>6. IF rank[w] = 0 THEN D' = r ELSE D' = D
  BY <1>1, <1>5 DEF D
<1>7. r.inc = WorkUnit[cmd] /\ r.value = r.init
  OBVIOUS
<1>8. \A u \in Workers : pc'[u] \in {"init", "inInit"} /\ rank'[u] = 0 =>
                            D'.inc = WorkUnit[cmd'] /\ D'.value = D'.init
  <2> HIDE DEF r
  <2> QED
    BY <1>1, <1>2, <1>3, <1>6, <1>7 DEF Before
<1> QED
  BY <1>1, <1>2, <1>3, <1>8 DEF Before

(* The barrier between the reset of the dispenser and the first ticket.       *)
LEMMA InitDivision ==
    ASSUME Inv, NEW w \in Workers, ExecInit(w)
    PROVE  (Before' \/ During') /\ UNCHANGED done
<1> USE WorkerGroupAssumption
<1>1. /\ pc[w] = "init" /\ pc[w] \in InKernel /\ ArriveAt(w, "inInit", NWorkers)
      /\ UNCHANGED <<cmd, rank, disp, done, ticket, got>>
  BY DEF ExecInit, InKernel
<1>2. Before /\ cmd \in Commands /\ D \in [init : Nat, inc : Nat, value : Nat]
  BY <1>1, InTheKernel
<1>3. D' = D
  BY <1>1 DEF D
<1>4. CASE pc' = [pc EXCEPT ![w] = "inInit"]
  <2>1. pc'[w] = "inInit" /\ \A u \in Workers : u # w => pc'[u] = pc[u]
    BY <1>4 DEF Inv, Typed
  <2> QED
    BY <1>1, <1>2, <1>3, <2>1 DEF Before
<1>5. CASE /\ \A u \in Workers : u # w => pc[u] = "inInit"
           /\ pc' = [u \in Workers \cup {Boss} |-> IF u = Boss THEN pc[u] ELSE "ticket"]
  <2>1. \A u \in Workers : pc[u] \in {"init", "inInit"} /\ pc'[u] = "ticket"
    BY <1>1, <1>5
  <2>2. w \in Started
    BY <2>1 DEF Started
  <2>3. \E u \in Workers : rank[u] = 0
    BY <2>2 DEF Inv, Ranks, Started
  <2>4. D.inc = WorkUnit[cmd] /\ D.value = D.init
    BY <1>2, <2>1, <2>3 DEF Before
  <2>5. \A i \in Items : done[i] = 0 /\ ~(D.init <= i /\ i < D.value)
    BY <1>2, <2>4 DEF Before, Items
  <2> QED
    BY <1>1, <1>2, <1>3, <2>1, <2>4, <2>5 DEF During
<1> QED
  BY <1>1, <1>4, <1>5, InitBarrier DEF Inv

(* Drawing a ticket hands out the next unit, disjoint from those at work.     *)
LEMMA TicketDivision ==
    ASSUME Inv, NEW w \in Workers, GetTicket(w)
    PROVE  During' /\ UNCHANGED done
<1>1. pc[w] = "ticket" /\ pc[w] \in InKernel /\ UNCHANGED <<cmd, got, done>>
  BY DEF GetTicket, InKernel
<1>2. /\ During /\ cmd \in Commands /\ got[w] = cmd /\ Dispenser(cmd) \in Dispensers
      /\ disp \in [Dispensers -> [init : Nat, inc : Nat, value : Nat]]
      /\ D \in [init : Nat, inc : Nat, value : Nat]
      /\ ticket \in [Workers -> Nat] /\ WorkUnit[cmd] \in Nat \ {0}
      /\ \A u \in Workers : pc[u] \in InKernel => got[u] = cmd
  BY <1>1, InTheKernel
<1>3. pc'[w] = "work" /\ \A u \in Workers : u # w => pc'[u] = pc[u]
  BY DEF Inv, Typed, GetTicket, Goto
<1>4. /\ D' = [D EXCEPT !.value = D.value + D.inc]
      /\ ticket'[w] = D.value /\ \A u \in Workers : u # w => ticket'[u] = ticket[u]
  BY <1>1, <1>2 DEF GetTicket, D
<1>5. /\ D'.init = D.init /\ D'.inc = D.inc /\ D'.value = D.value + D.inc
      /\ D.init \in Nat /\ D.inc \in Nat /\ D.value \in Nat
      /\ D.inc = WorkUnit[cmd] /\ D.init <= D.value
  BY <1>2, <1>4 DEF During
<1>6. \A u \in Workers : pc[u] = "work" => got[u] = cmd /\ ticket[u] \in Nat
  BY <1>2 DEF InKernel
<1>7. \A u \in Workers : pc'[u] = "work" =>
          D'.init <= ticket'[u] /\ ticket'[u] + D'.inc <= D'.value
  BY <1>2, <1>3, <1>4, <1>5, <1>6 DEF During
<1>8. \A v, u \in Workers : pc'[v] = "work" /\ pc'[u] = "work" /\ v # u =>
          ticket'[v] + D'.inc <= ticket'[u] \/ ticket'[u] + D'.inc <= ticket'[v]
  BY <1>2, <1>3, <1>4, <1>5, <1>6 DEF During
<1>9. ASSUME NEW i \in Items
      PROVE  done'[i] = IF /\ D'.init <= i /\ i < D'.value /\ i < Limit(cmd')
                           /\ \A u \in Workers : pc'[u] = "work" => i \notin Unit(u)'
                        THEN 1 ELSE 0
  <2>1. i \in Int /\ Limit(cmd) \in Int
    BY WorkerGroupAssumption, LimitType DEF Items
  <2>2. \A u \in Workers : u # w => Unit(u)' = Unit(u)
    BY <1>1, <1>4 DEF Unit
  <2>3. i \in Unit(w)' <=> D.value <= i /\ i < Limit(cmd) /\ i < D.value + D.inc
    BY <1>1, <1>2, <1>4, <1>5 DEF Unit
  <2>4. D.value <= i => \A u \in Workers : pc[u] = "work" => i \notin Unit(u)
    BY <1>2, <1>5, <1>6, <2>1 DEF During, Unit
  <2>5. done[i] = IF /\ D.init <= i /\ i < D.value /\ i < Limit(cmd)
                     /\ \A u \in Workers : pc[u] = "work" => i \notin Unit(u)
                  THEN 1 ELSE 0
    BY <1>2 DEF During
  <2>6. (\A u \in Workers : pc'[u] = "work" => i \notin Unit(u)')
          <=> /\ i \notin Unit(w)'
              /\ \A u \in Workers : pc[u] = "work" => i \notin Unit(u)
    BY <1>1, <1>3, <2>2
  <2>7. CASE D.value <= i
    BY <1>1, <1>5, <2>1, <2>3, <2>4, <2>5, <2>6, <2>7
  <2>8. CASE i < D.value
    BY <1>1, <1>5, <2>1, <2>3, <2>5, <2>6, <2>8
  <2> QED
    BY <1>5, <2>1, <2>7, <2>8
<1>10. \A u \in Workers : pc'[u] \in {"ack", "inDone"} => Limit(cmd') <= D'.value
  <2>1. Limit(cmd) \in Int
    BY LimitType
  <2> QED
    BY <1>1, <1>2, <1>3, <1>5, <2>1 DEF During
<1>11. \A u \in Workers : pc'[u] \in {"ticket", "work", "ack", "inDone"}
  BY <1>2, <1>3 DEF During
<1>12. D'.inc = WorkUnit[cmd'] /\ D'.init <= D'.value
  BY <1>1, <1>5
<1> QED
  BY <1>1, <1>7, <1>8, <1>9, <1>10, <1>11, <1>12 DEF During

(* Processing a unit: none of its items was processed before.                 *)
LEMMA WorkDivision ==
    ASSUME Inv, NEW w \in Workers, Work(w)
    PROVE  During' /\ done' \in [Items -> 0 .. 1]
<1>1. pc[w] = "work" /\ pc[w] \in InKernel /\ UNCHANGED <<cmd, got, disp, ticket>>
  BY DEF Work, InKernel
<1>2. /\ During /\ got[w] = cmd /\ D \in [init : Nat, inc : Nat, value : Nat]
      /\ ticket \in [Workers -> Nat]
      /\ \A u \in Workers : pc[u] \in InKernel => got[u] = cmd
  BY <1>1, InTheKernel
<1>3. pc'[w] = "ticket" /\ \A u \in Workers : u # w => pc'[u] = pc[u]
  BY DEF Inv, Typed, Work, Goto
<1>4. D' = D
  BY <1>1 DEF D
<1>5. \A u \in Workers : Unit(u)' = Unit(u)
  BY <1>1 DEF Unit
<1>6. D.inc = WorkUnit[cmd] /\ D.init \in Nat /\ D.inc \in Nat /\ D.value \in Nat
  BY <1>2 DEF During
<1>7. ASSUME NEW i \in Items
      PROVE  /\ done'[i] = IF /\ D'.init <= i /\ i < D'.value /\ i < Limit(cmd')
                              /\ \A u \in Workers : pc'[u] = "work" => i \notin Unit(u)'
                           THEN 1 ELSE 0
             /\ done'[i] = IF i \in Unit(w) THEN done[i] + 1 ELSE done[i]
  <2>1. i \in Int /\ Limit(cmd) \in Int
    BY WorkerGroupAssumption, LimitType DEF Items
  <2>2. done[i] = IF /\ D.init <= i /\ i < D.value /\ i < Limit(cmd)
                     /\ \A u \in Workers : pc[u] = "work" => i \notin Unit(u)
                  THEN 1 ELSE 0
    BY <1>2 DEF During
  <2>3. done'[i] = IF i \in Unit(w) THEN done[i] + 1 ELSE done[i]
    BY DEF Work
  <2>4. (\A u \in Workers : pc'[u] = "work" => i \notin Unit(u)')
          <=> \A u \in Workers \ {w} : pc[u] = "work" => i \notin Unit(u)
    BY <1>3, <1>5
  <2>5. CASE i \in Unit(w)
    <3>1. D.init <= i /\ i < D.value /\ i < Limit(cmd)
      BY <1>1, <1>2, <1>6, <2>1, <2>5 DEF During, Unit
    <3>2. \A u \in Workers \ {w} : pc[u] = "work" => i \notin Unit(u)
      <4>1. SUFFICES ASSUME NEW u \in Workers \ {w}, pc[u] = "work", i \in Unit(u) PROVE FALSE
        OBVIOUS
      <4>2. got[u] = cmd /\ ticket[u] \in Nat /\ ticket[w] \in Nat
        BY <1>2, <4>1 DEF InKernel
      <4>3. ticket[w] + D.inc <= ticket[u] \/ ticket[u] + D.inc <= ticket[w]
        BY <1>1, <1>2, <4>1 DEF During
      <4> QED
        BY <1>2, <1>6, <2>1, <2>5, <4>1, <4>2, <4>3 DEF Unit
    <3>3. done[i] = 0
      BY <1>1, <2>2, <2>5
    <3> QED
      BY <1>1, <1>4, <2>3, <2>4, <2>5, <3>1, <3>2, <3>3
  <2>6. CASE i \notin Unit(w)
    <3>1. (\A u \in Workers : pc[u] = "work" => i \notin Unit(u))
            <=> \A u \in Workers \ {w} : pc[u] = "work" => i \notin Unit(u)
      BY <2>6
    <3> QED
      BY <1>1, <1>4, <2>2, <2>3, <2>4, <2>6, <3>1
  <2> QED
    BY <2>5, <2>6
<1>8. done' \in [Items -> 0 .. 1]
  <2>1. \A i \in Items : done'[i] \in 0 .. 1
    BY <1>7
  <2>2. done' = [i \in Items |-> IF i \in Unit(w) THEN done[i] + 1 ELSE done[i]]
    BY DEF Work
  <2> QED
    BY <2>1, <2>2
<1>9. /\ \A u \in Workers : pc'[u] \in {"ticket", "work", "ack", "inDone"}
      /\ \A u \in Workers : pc'[u] = "work" => pc[u] = "work"
      /\ \A u \in Workers : pc'[u] \in {"ack", "inDone"} => pc[u] \in {"ack", "inDone"}
  BY <1>2, <1>3 DEF During
<1>10. ticket' = ticket /\ cmd' = cmd
  BY <1>1
<1> QED
  BY <1>2, <1>4, <1>7, <1>8, <1>9, <1>10 DEF During

(* Leaving the kernel when the dispenser is exhausted.                        *)
LEMMA EndDivision ==
    ASSUME Inv, NEW w \in Workers, ExecEnd(w)
    PROVE  During' /\ UNCHANGED done
<1>1. /\ pc[w] = "work" /\ pc[w] \in InKernel /\ UNCHANGED <<cmd, got, disp, ticket, done>>
      /\ Limit(got[w]) <= ticket[w]
  <2>1. Limit(got[w]) \in Int /\ ticket[w] \in Nat
    BY LimitType DEF Inv, TypeOK
  <2> QED
    BY <2>1 DEF ExecEnd, InKernel
<1>2. /\ During /\ got[w] = cmd /\ D \in [init : Nat, inc : Nat, value : Nat]
      /\ ticket[w] \in Nat
  BY <1>1, InTheKernel
<1>3. pc'[w] = "ack" /\ \A u \in Workers : u # w => pc'[u] = pc[u]
  BY DEF Inv, Typed, ExecEnd, Goto
<1>4. D' = D /\ \A u \in Workers : Unit(u)' = Unit(u)
  BY <1>1 DEF D, Unit
<1>5. Unit(w) = {} /\ Limit(cmd) <= D.value
  <2>1. Limit(cmd) \in Int /\ Items \subseteq Int
    BY WorkerGroupAssumption, LimitType DEF Items
  <2>2. ticket[w] + D.inc <= D.value /\ D.inc \in Nat /\ D.value \in Nat
    BY <1>1, <1>2 DEF During
  <2>3. Limit(cmd) <= ticket[w]
    BY <1>1, <1>2
  <2>4. \A i \in Items : ~(ticket[w] <= i /\ i < Limit(cmd))
    <3>1. SUFFICES ASSUME NEW i \in Items, ticket[w] <= i, i < Limit(cmd) PROVE FALSE
      OBVIOUS
    <3>2. i \in Int /\ ticket[w] \in Int
      BY <1>2, <2>1
    <3> QED
      BY <2>1, <2>3, <3>1, <3>2
  <2>5. Unit(w) = {}
    BY <1>2, <2>4 DEF Unit
  <2>6. Limit(cmd) <= D.value
    BY <1>2, <2>1, <2>2, <2>3
  <2> QED
    BY <2>5, <2>6
<1>6. \A i \in Items :
          (\A u \in Workers : pc'[u] = "work" => i \notin Unit(u)')
            <=> \A u \in Workers : pc[u] = "work" => i \notin Unit(u)
  BY <1>3, <1>4, <1>5
<1>7. ticket' = ticket /\ cmd' = cmd /\ done' = done
  BY <1>1
<1> QED
  BY <1>2, <1>3, <1>4, <1>5, <1>6, <1>7 DEF During

(* When the last worker acknowledges, every item has been handed out and      *)
(* processed.                                                                 *)
LEMMA DoneDivision ==
    ASSUME Inv, NEW w \in Workers, AckDone(w)
    PROVE  Division'
<1> USE WorkerGroupAssumption
<1>1. /\ pc[w] = "ack" /\ ArriveAt(w, "inDone", NWorkers)
      /\ UNCHANGED <<cmd, got, script, sent, disp, ticket, done>>
  BY DEF AckDone
<1>2. Running
  BY <1>1, PhaseOf
<1>3. CASE cmd = SHUTDOWN
  <2>1. script' = <<>> /\ cmd' = SHUTDOWN
    BY <1>1, <1>2, <1>3 DEF Inv, Progress, Running
  <2> QED
    BY <2>1 DEF Division
<1>4. CASE cmd # SHUTDOWN
  <2>1. During
    BY <1>1, <1>2, <1>4 DEF Inv, Division, Before, Pre
  <2>2. D' = D /\ \A u \in Workers : Unit(u)' = Unit(u)
    BY <1>1 DEF D, Unit
  <2>3. CASE /\ pc' = [pc EXCEPT ![w] = "inDone"]
             /\ \E u \in Workers : u # w /\ pc[u] # "inDone"
    <3>1. pc'[w] = "inDone" /\ \A u \in Workers \cup {Boss} : u # w => pc'[u] = pc[u]
      BY <2>3 DEF Inv, Typed
    <3>2. During'
      <4>1. \A i \in Items :
                (\A u \in Workers : pc'[u] = "work" => i \notin Unit(u)')
                  <=> \A u \in Workers : pc[u] = "work" => i \notin Unit(u)
        BY <1>1, <2>2, <3>1
      <4> QED
        BY <1>1, <2>1, <2>2, <3>1, <4>1 DEF During
    <3>3. Running'
      BY <1>1, <1>2, <2>3, <3>1 DEF Running, Out
    <3> QED
      BY <3>2, <3>3 DEF Division
  <2>4. CASE /\ \A u \in Workers : u # w => pc[u] = "inDone"
             /\ \E m \in Workers :
                   pc' = [u \in Workers \cup {Boss} |->
                             IF u = Boss THEN pc[u] ELSE IF u = m THEN "master" ELSE "ready"]
    <3>1. ~Running'
      BY <2>4 DEF Running, Pre, InKernel
    <3>2. \A u \in Workers : pc[u] \in {"ack", "inDone"} /\ got[u] = cmd
      BY <1>1, <1>2, <2>4 DEF Inv, Progress, Post, Running
    <3>3. Limit(cmd) <= D.value /\ Limit(cmd) \in Int /\ D.value \in Nat /\ Items \subseteq Int
      <4>1. Dispenser(cmd) \in Dispensers
        BY DEF Dispenser, Dispensers
      <4>2. D.value \in Nat
        BY <4>1 DEF D, Inv, TypeOK
      <4> QED
        BY <1>1, <2>1, <4>2, LimitType DEF During, Items
    <3>4. \A i \in Items : done[i] = IF D.init <= i /\ i < Limit(cmd) THEN 1 ELSE 0
      BY <2>1, <3>2, <3>3 DEF During
    <3>5. \A u \in Workers : Processed(got[u])'
      BY <1>1, <3>2, <3>4 DEF Processed, D
    <3> QED
      BY <3>1, <3>5 DEF Division
  <2> QED
    BY <1>1, <2>3, <2>4, DoneBarrier DEF Inv
<1> QED
  BY <1>3, <1>4

(* Between the commands the last one stays processed.                         *)
LEMMA StaysProcessed ==
    ASSUME Inv, ~Running, ~Running', UNCHANGED <<got, disp, done, sent, script>>
    PROVE  Division'
BY DEF Inv, Division, Processed

(* A step of a worker inside the round leaves the pool running.               *)
LEMMA StillRunning ==
    ASSUME Running, pc'[Boss] = pc[Boss], cmd' = cmd,
           \A u \in Workers : pc'[u] = pc[u] \/ pc'[u] \in Pre \cup InKernel \cup {"ack"}
    PROVE  Running'
BY DEF Running, Out, Pre, InKernel

(* Every step keeps the division of the work.                                 *)
LEMMA DivisionStep == Inv /\ [Next]_vars => DivisionOK'
<1>1. SUFFICES ASSUME Inv, [Next]_vars PROVE DivisionOK'
  OBVIOUS
<1> USE WorkerGroupAssumption
<1>2. TypeOK /\ Typed /\ Division /\ done \in [Items -> 0 .. 1]
  BY <1>1 DEF Inv, Typed
<1>3. DOMAIN pc = Workers \cup {Boss}
  BY <1>2 DEF Typed
<1>4. CASE Send
  <2>1. Idle /\ script # <<>> /\ cmd' # IDLE /\ Out' /\ done' = [i \in Items |-> 0]
    BY <1>1, <1>4, SentCommand DEF Send, Out
  <2>2. \A w \in Workers : pc'[w] \in Pre
    BY <1>1, <1>4, <2>1, SentCommand DEF Idle, Pre
  <2>3. Before' /\ Running'
    BY <2>1, <2>2 DEF Before, Running, Pre, InKernel
  <2> QED
    BY <2>1, <2>3 DEF Division, DivisionOK
<1>5. CASE BossReady
  <2>1. /\ pc[Boss] = "sent" /\ ArriveAt(Boss, "inReady", NWorkers + 1)
        /\ UNCHANGED <<cmd, got, script, sent, disp, ticket, rank, done>>
    BY <1>5 DEF BossReady
  <2>2. CASE pc' = [pc EXCEPT ![Boss] = "inReady"]
    <3>1. (Out' <=> Out) /\ \A w \in Workers : pc'[w] = pc[w]
      BY <1>3, <2>1, <2>2 DEF Out
    <3>2. Running' <=> Running
      BY <2>1, <3>1 DEF Running
    <3>3. D' = D /\ \A w \in Workers : Unit(w)' = Unit(w)
      BY <2>1 DEF D, Unit
    <3>4. (Before => Before') /\ (During => During')
      BY <2>1, <3>1, <3>3 DEF Before, During
    <3> QED
      BY <1>2, <2>1, <3>2, <3>4 DEF Division, DivisionOK, Processed
  <2>3. CASE /\ \A u \in Workers \cup {Boss} : u # Boss => pc[u] = "inReady"
             /\ pc' = [u \in Workers \cup {Boss} |->
                         IF u = Boss THEN "sending"
                         ELSE IF got[u] = SHUTDOWN THEN "exited" ELSE "recv"]
    <3>1. ~Running /\ ~Running'
      BY <2>3 DEF Running, Out, Pre, InKernel
    <3> QED
      BY <1>1, <1>2, <2>1, <3>1, StaysProcessed DEF DivisionOK
  <2> QED
    BY <1>2, <2>1, <2>2, <2>3, ReadyBarrier
<1>6. CASE Join
  <2>1. ~Running /\ ~Running' /\ UNCHANGED <<got, disp, done, sent, script>>
    BY <1>3, <1>6 DEF Join, Running, Out
  <2> QED
    BY <1>1, <1>2, <2>1, StaysProcessed DEF DivisionOK
<1>7. ASSUME NEW w \in Workers, WorkerStep(w) \/ SpuriousWakeup(w) PROVE DivisionOK'
  <2>1. CASE Start(w) \/ RecvWait(w) \/ RecvWoken(w) \/ SpuriousWakeup(w) \/ RecvCmd(w)
    <3>1. /\ pc[w] \in Pre /\ UNCHANGED <<cmd, script, sent, disp, done>>
          /\ \/ UNCHANGED pc /\ UNCHANGED got
             \/ (\E place \in Pre : pc' = [pc EXCEPT ![w] = place]) /\ UNCHANGED got
             \/ /\ pc' = [pc EXCEPT ![w] = IF cmd = SHUTDOWN THEN "ack" ELSE "exec"]
                /\ cmd # IDLE
      BY <2>1 DEF Start, RecvWait, RecvWoken, SpuriousWakeup, RecvCmd, Goto, Pre
    <3>2. /\ pc'[Boss] = pc[Boss] /\ \A u \in Workers : u # w => pc'[u] = pc[u]
          /\ pc'[w] \in Pre \cup {"ack", "exec"}
          /\ cmd # SHUTDOWN => pc'[w] \in Pre \cup {"exec"}
      BY <1>3, <3>1
    <3>3. \A u \in Workers \ {w} : rank'[u] = rank[u]
      BY <1>2, <2>1 DEF Start, RecvWait, RecvWoken, SpuriousWakeup, RecvCmd, TypeOK
    <3>4. CASE Running
      <4>1. Running'
        BY <3>1, <3>2, <3>4, StillRunning DEF InKernel
      <4>2. CASE cmd = SHUTDOWN
        BY <1>2, <3>1, <4>1, <4>2 DEF Division, DivisionOK
      <4>3. CASE cmd # SHUTDOWN
        <5>1. Before
          BY <1>2, <3>1, <3>4, <4>3 DEF Division, During, Pre
        <5>2. Before'
          BY <1>1, <3>1, <3>2, <3>3, <3>4, <4>3, <5>1, OnTheWay
        <5> QED
          BY <1>2, <3>1, <4>1, <5>2 DEF Division, DivisionOK
      <4> QED
        BY <4>2, <4>3
    <3>5. CASE ~Running
      <4>1. pc[Boss] = "sending" /\ cmd = IDLE
        BY <1>1, <3>1, <3>5, PhaseOf DEF Idle
      <4>2. ~Running' /\ UNCHANGED got
        BY <3>1, <3>2, <4>1 DEF Running
      <4> QED
        BY <1>1, <1>2, <3>1, <3>5, <4>2, StaysProcessed DEF DivisionOK
    <3> QED
      BY <3>4, <3>5
  <2>2. CASE ExecPrepare(w) \/ ExecInit(w) \/ GetTicket(w) \/ Work(w) \/ ExecEnd(w)
    <3>1. (Before' \/ During') /\ done' \in [Items -> 0 .. 1]
      BY <1>1, <1>2, <2>2, PrepareDivision, InitDivision, TicketDivision, WorkDivision, EndDivision
    <3>2. pc[w] \in InKernel /\ UNCHANGED cmd
      BY <2>2 DEF ExecPrepare, ExecInit, GetTicket, Work, ExecEnd, InKernel
    <3>3. Running
      BY <1>1, <3>2, PhaseOf
    <3>4. /\ pc'[Boss] = pc[Boss]
          /\ \A u \in Workers : pc'[u] = pc[u] \/ pc'[u] \in Pre \cup InKernel \cup {"ack"}
      <4>1. CASE ExecInit(w)
        <5>1. \/ pc' = [pc EXCEPT ![w] = "inInit"]
              \/ pc' = [u \in Workers \cup {Boss} |-> IF u = Boss THEN pc[u] ELSE "ticket"]
          BY <1>2, <4>1, InitBarrier DEF ExecInit
        <5> QED
          BY <1>3, <5>1 DEF InKernel
      <4>2. CASE ExecPrepare(w) \/ GetTicket(w) \/ Work(w) \/ ExecEnd(w)
        <5>1. \E place \in InKernel \cup {"ack"} : pc' = [pc EXCEPT ![w] = place]
          BY <4>2 DEF ExecPrepare, GetTicket, Work, ExecEnd, Goto, InKernel
        <5> QED
          BY <1>3, <5>1
      <4> QED
        BY <2>2, <4>1, <4>2
    <3>5. Running'
      BY <3>2, <3>3, <3>4, StillRunning
    <3> QED
      BY <3>1, <3>5 DEF Division, DivisionOK
  <2>3. CASE AckDone(w)
    <3>1. UNCHANGED done
      BY <2>3 DEF AckDone
    <3> QED
      BY <1>1, <1>2, <2>3, <3>1, DoneDivision DEF DivisionOK
  <2>4. CASE AckIdle(w)
    <3>1. ~Running /\ ~Running' /\ UNCHANGED <<got, disp, done, sent, script>>
      BY <2>4 DEF AckIdle, Running, Pre, InKernel
    <3> QED
      BY <1>1, <1>2, <3>1, StaysProcessed DEF DivisionOK
  <2>5. CASE AckReady(w)
    <3>1. /\ pc[w] = "ready" /\ ArriveAt(w, "inReady", NWorkers + 1)
          /\ UNCHANGED <<got, disp, done, sent, script>>
      BY <2>5 DEF AckReady
    <3>2. ~Running
      BY <3>1 DEF Running, Pre, InKernel
    <3>3. pc'[w] = "inReady" \/ pc'[Boss] = "sending"
      BY <1>2, <1>3, <3>1, ReadyBarrier
    <3>4. ~Running'
      BY <3>3 DEF Running, Out, Pre, InKernel
    <3> QED
      BY <1>1, <1>2, <3>1, <3>2, <3>4, StaysProcessed DEF DivisionOK
  <2> QED
    BY <1>7, <2>1, <2>2, <2>3, <2>4, <2>5 DEF WorkerStep
<1>8. CASE UNCHANGED vars
  <2>1. D' = D /\ \A w \in Workers : Unit(w)' = Unit(w)
    BY <1>8 DEF vars, D, Unit
  <2>2. (Running' <=> Running) /\ (Before => Before') /\ (During => During')
    BY <1>8, <2>1 DEF vars, Running, Out, Before, During
  <2> QED
    BY <1>2, <1>8, <2>2 DEF vars, Division, DivisionOK, Processed
<1> QED
  BY <1>1, <1>4, <1>5, <1>6, <1>7, <1>8 DEF Next, BossStep, Finished

-----------------------------------------------------------------------------
(* The theorems.                                                              *)

(* Every step keeps the invariant.                                            *)
LEMMA InvStep == Inv /\ [Next]_vars => Inv'
<1>1. SUFFICES ASSUME Inv, [Next]_vars PROVE Inv'
  OBVIOUS
<1>2. /\ CondOK' /\ RanksOK' /\ Phase' /\ PlacesOK' /\ DataOK' /\ Progress' /\ DivisionOK'
  BY <1>1, CondStep, RankStep, PhaseStep, PlacesStep, DataStep, ProgressStep, DivisionStep
<1>3. TypeOK'
  BY <1>2 DEF TypeOK, CondOK, RanksOK, PlacesOK, DataOK, WorkerPlaces, BossPlaces
<1>4. Typed'
  BY <1>2 DEF Typed, PlacesOK, DataOK, DivisionOK
<1> QED
  BY <1>2, <1>3, <1>4 DEF Inv, RanksOK, DivisionOK

(* The invariant of the pool: the phases of a round, what each worker has     *)
(* executed, the tickets of the condition, and the division of the range.     *)
THEOREM Invariance == Spec => []Inv
<1>1. Init => Inv
  BY InitInv
<1>2. Inv /\ [Next]_vars => Inv'
  BY InvStep
<1> QED
  BY <1>1, <1>2, PTL DEF Spec

(* Every variable of the pool keeps its type.                                 *)
THEOREM TypeCorrect == Spec => []TypeOK
<1>1. Inv => TypeOK
  BY DEF Inv
<1> QED
  BY <1>1, Invariance, PTL

(* A worker executes each command once and none of an earlier one: the two    *)
(* barriers of AckCmd keep the workers and the boss in step.                  *)
THEOREM CommandsInStep == Spec => []InStep
<1>1. Inv => InStep
  <2>1. SUFFICES ASSUME Inv PROVE InStep
    OBVIOUS
  <2>2. ASSUME pc[Boss] = "sending", script # <<>>, NEW w \in Workers
        PROVE  executed[w] = sent
    <3>1. pc[w] \in Pre /\ ~Out
      BY <2>1, <2>2, PhaseOf DEF Idle, Out
    <3> QED
      BY <2>1, <3>1 DEF Inv, Progress
  <2> QED
    BY <2>1, <2>2 DEF Inv, Progress, InStep
<1> QED
  BY <1>1, Invariance, PTL

(* The tickets of Condition are for the workers that wait, and none outlives  *)
(* the command that it was issued for.                                        *)
THEOREM TicketsForWaiters == Spec => []TicketsAreForWaiters
<1>1. Inv => TicketsAreForWaiters
  BY DEF Inv, CondOK, TicketsAreForWaiters, Waiters, Woken
<1> QED
  BY <1>1, Invariance, PTL

(* The tickets of the dispenser divide the range: every item is processed,    *)
(* and none twice, for any number of workers, range and work unit.            *)
THEOREM ItemsOnce == Spec => []EveryItemOnce
<1>1. Inv => EveryItemOnce
  <2>1. SUFFICES ASSUME Inv PROVE EveryItemOnce
    OBVIOUS
  <2>2. \A i \in Items : done[i] <= 1
    BY <2>1 DEF Inv, Typed
  <2>3. ASSUME LastCommand, NEW w \in Workers PROVE Processed(got[w])
    <3>1. ~Running
      BY <2>3 DEF LastCommand, Running, Out
    <3> QED
      BY <2>1, <2>3, <3>1 DEF Inv, Division, LastCommand
  <2> QED
    BY <2>2, <2>3 DEF EveryItemOnce, Processed
<1> QED
  BY <1>1, Invariance, PTL
=============================================================================
