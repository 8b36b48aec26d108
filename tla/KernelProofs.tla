---------------------------- MODULE KernelProofs ----------------------------
(***************************************************************************)
(* Theorems about the scheduler, for any finite set of tasks, any          *)
(* assignment of priorities, any boot sequence and any behaviour of the    *)
(* tasks that does not post to the running task itself.  And about the     *)
(* whole kernel: the main loop, with the timers and the autostrs, drives   *)
(* the scheduler only in ways that Scheduler allows, so that what is shown *)
(* of the scheduler holds of the system; and no wake-up is lost.           *)
(***************************************************************************)
EXTENDS Kernel, LinkedListFacts

(* The inductive invariant: the shape of the queues is preserved only      *)
(* together with the fact that task_set_ready never meets the running task *)
(* in a state other than RUNNING.                                          *)
SchedInv == TypeOK /\ RunningHoldsCpu /\ QueueShape

-----------------------------------------------------------------------------
(* Priorities partition the tasks.                                         *)
LEMMA PrioType == \A t \in Task : PrioOf(t) \in Prio
  BY DEF PrioOf, Prio

LEMMA BootType ==
  /\ BootList \in Seq(Task)
  /\ \A i \in 1..Len(BootList) : BootList[i] \in Task
<1>1. BootList \in Seq(Task)
  BY SchedulerAssumption, ConcatProperties DEF BootList
<1> QED
  BY <1>1

(* task_set_ready keeps the types.                                         *)
LEMMA SetReadyType ==
  ASSUME TypeOK, NEW t \in Task, SetReady(t)
  PROVE  /\ first' \in [Prio -> Task \cup {Null}]
         /\ last' \in [Prio -> Task \cup {Null}]
         /\ next' \in [Task -> Task \cup {Null}]
         /\ status' \in [Task -> Status]
<1>1. CASE status[t] = "READY" /\ UNCHANGED queueVars
  BY <1>1 DEF queueVars, TypeOK
<1>2. CASE Enqueue(t)
  <2>1. PrioOf(t) \in Prio
    BY PrioType
  <2>2. first' \in [Prio -> Task \cup {Null}] /\ last' \in [Prio -> Task \cup {Null}]
    BY <1>2, <2>1 DEF Enqueue, HeadAfterAppend, TypeOK
  <2>3. next' \in [Task -> Task \cup {Null}]
    BY <1>2, <2>1 DEF Enqueue, NextAfterAppend, TypeOK
  <2>4. status' \in [Task -> Status]
    BY <1>2 DEF Enqueue, TypeOK, Status
  <2> QED
    BY <2>2, <2>3, <2>4
<1> QED
  BY <1>1, <1>2 DEF SetReady

(* Returning from pt keeps the types.                                      *)
LEMMA AdvanceType ==
  ASSUME TypeOK, cpu # Null, first[PrioOf(cpu)] \in Task, Advance
  PROVE  /\ first' \in [Prio -> Task \cup {Null}]
         /\ last' \in [Prio -> Task \cup {Null}]
         /\ cpu' \in Task \cup {Null}
  BY PrioType DEF Advance, TypeOK, Prio

(* The running task heads its queue.                                       *)
LEMMA RunningIsHead ==
  ASSUME TypeOK, QueueShape, cpu # Null
  PROVE  cpu \in Task /\ first[PrioOf(cpu)] = cpu
<1>1. cpu \in Task /\ PrioOf(cpu) \in Prio
  BY PrioType DEF TypeOK
<1>2. PICK q \in TaskSeqs : IsQueue(PrioOf(cpu), q)
  BY <1>1 DEF QueueShape
<1> QED
  BY <1>1, <1>2 DEF IsQueue, IsList, Linked

-----------------------------------------------------------------------------
(* Linking a task that is in no queue keeps both queues well formed: its   *)
(* own grows at the end, the other one is not touched.                     *)
LEMMA EnqueueAppends ==
  ASSUME TypeOK, QueueShape, NEW t \in Task,
         status[t] \notin {"READY", "RUNNING"},
         Enqueue(t), UNCHANGED cpu
  PROVE  /\ \A q \in TaskSeqs : IsQueue(PrioOf(t), q)
             => Append(q, t) \in TaskSeqs /\ IsQueue(PrioOf(t), Append(q, t))'
         /\ \A o \in Prio \ {PrioOf(t)}, q \in TaskSeqs :
             IsQueue(o, q) => IsQueue(o, q)'
<1> DEFINE p == PrioOf(t)
<1>1. p \in Prio /\ IsFiniteSet(Task) /\ Null \notin Task
  BY PrioType, SchedulerAssumption
<1>2. /\ first'[p] = HeadAfterAppend(first[p], Null, t)
      /\ last'[p] = t
      /\ next' = NextAfterAppend(first[p], last[p], next, Null, t)
      /\ \A o \in Prio \ {p} : first'[o] = first[o] /\ last'[o] = last[o]
  BY <1>1 DEF Enqueue, TypeOK
<1>3. \A o \in Prio : Members(o)' = IF o = p THEN Members(o) \cup {t} ELSE Members(o)
  BY DEF Enqueue, TypeOK, Members, Status
<1>4. \A o \in Prio : t \notin Members(o)
  BY DEF Members
<1>5. next \in [Task -> Task \cup {Null}]
  BY DEF TypeOK
<1>6. ASSUME NEW own \in TaskSeqs, IsQueue(p, own)
      PROVE  Append(own, t) \in TaskSeqs /\ IsQueue(p, Append(own, t))'
  <2>1. /\ IsList(Task, own, first[p], last[p], next, Null)
        /\ own \in DistinctSeqs(Task) /\ Nodes(own) = Members(p)
        /\ t \notin Nodes(own)
        /\ cpu # Null /\ PrioOf(cpu) = p => own # <<>> /\ own[1] = cpu
    BY <1>1, <1>4, <1>6 DEF IsQueue, TaskSeqs
  <2>2. IsList(Task, Append(own, t), first'[p], last'[p], next', Null)
    <3> HIDE DEF p
    <3>1. IsList(Task, Append(own, t), HeadAfterAppend(first[p], Null, t), t,
                 NextAfterAppend(first[p], last[p], next, Null, t), Null)
      BY <1>1, <1>5, <2>1, AppendToList
    <3> QED
      BY <1>2, <3>1
  <2>3. /\ Nodes(Append(own, t)) = Members(p)'
        /\ Append(own, t) \in TaskSeqs
        /\ cpu # Null /\ PrioOf(cpu) = p
             => Append(own, t) # <<>> /\ Append(own, t)[1] = cpu
    BY <1>1, <1>3, <2>1, <2>2, AppendNodes DEF IsList, TaskSeqs
  <2> HIDE DEF p
  <2> QED
    BY <2>2, <2>3 DEF IsQueue, PrioOf
<1>7. first[p] # Null => last[p] \in Members(p)
  <2>1. PICK own \in TaskSeqs : IsQueue(p, own)
    BY <1>1 DEF QueueShape
  <2>2. own \in Seq(Task)
    BY <1>1, DistinctSeqsDef DEF TaskSeqs
  <2>3. first[p] # Null => own # <<>>
    BY <2>1 DEF IsQueue, IsList, Linked
  <2>4. own # <<>> => last[p] \in Nodes(own)
    BY <2>1, <2>2 DEF IsQueue, IsList, EndsAt, Nodes
  <2> QED
    BY <2>1, <2>3, <2>4 DEF IsQueue
<1>8. ASSUME NEW o \in Prio, o # p, NEW q \in TaskSeqs, IsQueue(o, q)
      PROVE  IsQueue(o, q)'
  <2>1. ASSUME NEW x \in Nodes(q) PROVE next'[x] = next[x]
    <3>1. x \in Members(o) /\ x \in Task /\ x # t
      BY <1>4, <1>8 DEF IsQueue, Members
    <3>2. first[p] # Null => x # last[p]
      BY <1>7, <1>8, <3>1 DEF Members
    <3> QED
      BY <1>2, <1>5, <3>1, <3>2 DEF NextAfterAppend
  <2>2. IsList(Task, q, first[o], last[o], next', Null)
    <3>1. IsList(Task, q, first[o], last[o], next, Null)
      BY <1>8 DEF IsQueue
    <3> QED
      BY <1>1, <2>1, <3>1, FrameList
  <2>3. first'[o] = first[o] /\ last'[o] = last[o] /\ Members(o)' = Members(o)
    BY <1>2, <1>3, <1>8
  <2> QED
    BY <1>8, <2>2, <2>3 DEF IsQueue
<1> QED
  BY <1>6, <1>8

(* Returning to the scheduler drops the running task from the head of its  *)
(* queue and leaves the other queue as it was.                             *)
LEMMA AdvanceDropsHead ==
  ASSUME TypeOK, QueueShape, RunningHoldsCpu, cpu # Null, Advance,
         NEW s \in {"YIELDED", "INACTIVE"},
         status' = [status EXCEPT ![cpu] = s], UNCHANGED next,
         NEW o \in Prio, NEW q \in TaskSeqs, IsQueue(o, q)
  PROVE  IF PrioOf(cpu) = o
         THEN q # <<>> /\ Tail(q) \in TaskSeqs /\ IsQueue(o, Tail(q))'
         ELSE IsQueue(o, q)'
<1>0. PICK p \in Prio : p = PrioOf(cpu)
  BY PrioType, RunningIsHead
<1>1. /\ IsFiniteSet(Task) /\ Null \notin Task
      /\ cpu \in Task /\ first[p] = cpu
  BY <1>0, SchedulerAssumption, RunningIsHead
<1>2. /\ first'[p] = next[cpu]
      /\ o # p => first'[o] = first[o]
      /\ last'[o] = last[o] \/ first'[o] = Null
      /\ cpu' = Null
  BY <1>0, <1>1 DEF Advance, TypeOK, Prio
<1>3. Members(o)' = Members(o) \ {cpu}
  BY <1>1 DEF Members, TypeOK, Status
<1>4. ASSUME NEW r \in TaskSeqs, IsList(Task, r, first'[o], last[o], next, Null)
      PROVE  IsList(Task, r, first'[o], last'[o], next', Null)
  <2>1. CASE last'[o] = last[o]
    BY <1>4, <2>1
  <2>2. CASE first'[o] = Null
    <3>1. r \in Seq(Task)
      BY <1>1, DistinctSeqsDef DEF TaskSeqs
    <3>2. r # <<>> => r[1] \in Task
      BY <3>1
    <3>3. r = <<>>
      BY <1>1, <1>4, <2>2, <3>2 DEF IsList, Linked
    <3> QED
      BY <1>4, <3>3 DEF IsList, EndsAt
  <2> QED
    BY <1>2, <2>1, <2>2
<1>5. CASE p = o
  <2>1. q # <<>> /\ IsList(Task, q, first[p], last[p], next, Null)
    BY <1>0, <1>5 DEF IsQueue
  <2>2. /\ IsList(Task, Tail(q), next[first[p]], last[p], next, Null)
        /\ Nodes(Tail(q)) = Nodes(q) \ {first[p]}
    BY <1>1, <2>1, DropHead
  <2>3. Tail(q) \in TaskSeqs
    BY <2>2 DEF IsList, TaskSeqs
  <2>4. IsList(Task, Tail(q), first'[o], last'[o], next', Null)
    BY <1>1, <1>2, <1>4, <1>5, <2>2, <2>3
  <2>5. Nodes(Tail(q)) = Members(o)'
    BY <1>1, <1>3, <1>5, <2>2 DEF IsQueue
  <2> QED
    BY <1>0, <1>2, <1>5, <2>1, <2>3, <2>4, <2>5 DEF IsQueue
<1>6. CASE p # o
  <2>1. IsList(Task, q, first'[o], last'[o], next', Null)
    BY <1>2, <1>4, <1>6 DEF IsQueue
  <2>2. Nodes(q) = Members(o)'
    BY <1>0, <1>3, <1>6 DEF IsQueue, Members
  <2> QED
    BY <1>0, <1>2, <1>6, <2>1, <2>2 DEF IsQueue
<1> QED
  BY <1>5, <1>6

(* Giving the CPU to the head of a queue changes no queue.                 *)
LEMMA DispatchKeepsQueues ==
  ASSUME TypeOK, QueueShape, RunningHoldsCpu, NEW p \in Prio, Dispatch(p)
  PROVE  /\ RunningHoldsCpu'
         /\ first[p] \in Task /\ PrioOf(first[p]) = p
         /\ \A o \in Prio, q \in TaskSeqs : IsQueue(o, q) => IsQueue(o, q)'
<1>1. IsFiniteSet(Task) /\ Null \notin Task
  BY SchedulerAssumption
<1>2. first[p] \in Task /\ PrioOf(first[p]) = p /\ status[first[p]] = "READY"
  <2>1. PICK q \in TaskSeqs : IsQueue(p, q)
    BY DEF QueueShape
  <2>2. q # <<>> /\ first[p] = q[1] /\ first[p] # Null
    BY <2>1 DEF IsQueue, IsList, Linked, Dispatch
  <2>3. first[p] \in Nodes(q)
    BY <1>1, <2>2, DistinctSeqsDef DEF Nodes, TaskSeqs
  <2>4. first[p] \in Members(p)
    BY <2>1, <2>3 DEF IsQueue
  <2> QED
    BY <2>2, <2>4 DEF Members, RunningHoldsCpu, Dispatch
<1>3. RunningHoldsCpu'
  BY <1>1, <1>2 DEF RunningHoldsCpu, Dispatch, TypeOK
<1>4. \A o \in Prio : Members(o)' = Members(o)
  BY <1>2 DEF Members, Dispatch, TypeOK
<1>5. ASSUME NEW o \in Prio, NEW q \in TaskSeqs, IsQueue(o, q)
      PROVE  IsQueue(o, q)'
  <2>1. cpu' = first[p] /\ UNCHANGED <<first, last, next>>
    BY DEF Dispatch
  <2>2. PrioOf(cpu') = o => q # <<>> /\ q[1] = cpu'
    BY <1>1, <1>2, <1>5, <2>1 DEF IsQueue, IsList, Linked
  <2> QED
    BY <1>4, <1>5, <2>1, <2>2 DEF IsQueue
<1> QED
  BY <1>2, <1>3, <1>5

-----------------------------------------------------------------------------
(* Waking a task that does not run keeps the invariant about the queues.   *)
LEMMA SetReadyKeepsShape ==
  ASSUME TypeOK, QueueShape, RunningHoldsCpu, NEW t \in Task, t # cpu,
         SetReady(t), UNCHANGED cpu
  PROVE  QueueShape' /\ RunningHoldsCpu'
<1>1. CASE status[t] = "READY" /\ UNCHANGED queueVars
  <2>1. UNCHANGED <<first, last, next, status, cpu>>
    BY <1>1 DEF queueVars
  <2> QED
    BY <2>1 DEF QueueShape, IsQueue, Members, RunningHoldsCpu
<1>2. CASE status[t] # "READY" /\ Enqueue(t)
  <2>1. status[t] \notin {"READY", "RUNNING"}
    BY <1>2 DEF RunningHoldsCpu
  <2>2. QueueShape'
    BY <1>2, <2>1, EnqueueAppends, PrioType DEF QueueShape
  <2>3. RunningHoldsCpu'
    BY <1>2 DEF RunningHoldsCpu, Enqueue, TypeOK
  <2> QED
    BY <2>2, <2>3
<1> QED
  BY <1>1, <1>2 DEF SetReady

(* The types of a step that wakes a task and rewrites its message.         *)
LEMMA SetReadyKeepsType ==
  ASSUME TypeOK, NEW t \in Task, SetReady(t), UNCHANGED <<pc, cpu>>,
         msg' \in [Task -> Message], booted' \in 0..Len(BootList)
  PROVE  TypeOK'
  BY SetReadyType DEF TypeOK

LEMMA InitSched == Init => SchedInv
<1> SUFFICES ASSUME Init PROVE SchedInv
  OBVIOUS
<1>1. TypeOK
  <2>1. Len(BootList) \in Nat
    BY BootType
  <2> QED
    BY <2>1 DEF Init, TypeOK, Status, Message, NoMessage
<1>2. RunningHoldsCpu
  BY SchedulerAssumption DEF Init, RunningHoldsCpu
<1>3. ASSUME NEW p \in Prio PROVE \E q \in TaskSeqs : IsQueue(p, q)
  <2>1. Members(p) = {} /\ first[p] = Null /\ cpu = Null
    BY DEF Init, Members
  <2>2. IsQueue(p, <<>>) /\ <<>> \in TaskSeqs
    BY <2>1, SchedulerAssumption, EmptyList DEF IsQueue, IsList, TaskSeqs
  <2> QED
    BY <2>2
<1> QED
  BY <1>1, <1>2, <1>3 DEF SchedInv, QueueShape

(* One step per action of the scheduler.                                   *)
LEMMA NextSched ==
  ASSUME SelfPost = FALSE, SchedInv, [Next]_vars
  PROVE  SchedInv'
<1> USE DEF SchedInv
<1>1. CASE Boot
  <2> DEFINE t == BootList[booted + 1]
  <2>1. t \in Task /\ booted + 1 \in 0..Len(BootList)
    BY <1>1, BootType DEF Boot, Booting, TypeOK
  <2>2. SetReady(t) /\ UNCHANGED <<pc, cpu>> /\ cpu = Null
    BY <1>1 DEF Boot
  <2>3. msg' \in [Task -> Message] /\ booted' \in 0..Len(BootList)
    BY <1>1, <2>1 DEF Boot, TypeOK, Message, NoMessage
  <2> HIDE DEF t
  <2>4. t # cpu
    BY <2>1, <2>2, SchedulerAssumption
  <2> QED
    BY <2>1, <2>2, <2>3, <2>4, SetReadyKeepsShape, SetReadyKeepsType
<1>2. ASSUME NEW t \in Task, Wake(t) PROVE SchedInv'
  <2>1. SetReady(t) /\ UNCHANGED <<pc, msg, cpu, booted>> /\ t # cpu
    BY <1>2, SchedulerAssumption DEF Wake
  <2>2. msg' \in [Task -> Message] /\ booted' \in 0..Len(BootList)
    BY <2>1 DEF TypeOK
  <2> QED
    BY <2>1, <2>2, SetReadyKeepsShape, SetReadyKeepsType
<1>3. ASSUME NEW t \in NetTask, NetWake(t) PROVE SchedInv'
  <2>1. t \in Task
    BY SchedulerAssumption
  <2>2. SetReady(t) /\ UNCHANGED <<pc, cpu, booted>> /\ t # cpu
    BY <1>3, <2>1, SchedulerAssumption DEF NetWake
  <2>3. msg' \in [Task -> Message] /\ booted' \in 0..Len(BootList)
    BY <1>3, <2>1 DEF NetWake, TypeOK, Message, Source
  <2> QED
    BY <2>1, <2>2, <2>3, SetReadyKeepsShape, SetReadyKeepsType
<1>4. ASSUME NEW p \in Prio, Dispatch(p) PROVE SchedInv'
  <2>1. TypeOK'
    BY <1>4 DEF Dispatch, TypeOK, Status
  <2> QED
    BY <1>4, <2>1, DispatchKeepsQueues DEF QueueShape
<1>5. ASSUME NEW t \in Task, NEW d \in Data, Post(t, d) PROVE SchedInv'
  <2>1. SetReady(t) /\ UNCHANGED <<pc, cpu, booted>> /\ t # cpu
    BY <1>5 DEF Post
  <2>2. msg' \in [Task -> Message] /\ booted' \in 0..Len(BootList)
    BY <1>5 DEF Post, TypeOK, Message, Source
  <2> QED
    BY <2>1, <2>2, SetReadyKeepsShape, SetReadyKeepsType
<1>6. ASSUME NEW s \in Source, Consume(s) PROVE SchedInv'
  <2>1. UNCHANGED <<first, last, next, status, pc, cpu, booted>> /\ cpu \in Task
    BY <1>6 DEF Consume, queueVars, TypeOK
  <2>2. msg' \in [Task -> Message]
    BY <1>6, <2>1 DEF Consume, TypeOK, Message
  <2>3. TypeOK'
    BY <2>1, <2>2 DEF TypeOK
  <2> QED
    BY <2>1, <2>3 DEF QueueShape, IsQueue, Members, RunningHoldsCpu
<1>7. ASSUME NEW s \in {"YIELDED", "INACTIVE"}, NEW l \in {"begin", "resume"},
             cpu # Null, status' = [status EXCEPT ![cpu] = s],
             pc' = [pc EXCEPT ![cpu] = l], Advance, UNCHANGED <<next, msg, booted>>
      PROVE  SchedInv'
  <2>1. cpu \in Task /\ first[PrioOf(cpu)] = cpu
    BY <1>7, RunningIsHead
  <2>2. /\ first' \in [Prio -> Task \cup {Null}]
        /\ last' \in [Prio -> Task \cup {Null}]
        /\ cpu' \in Task \cup {Null}
    BY <1>7, <2>1, AdvanceType
  <2>3. TypeOK'
    BY <1>7, <2>1, <2>2 DEF TypeOK, Status
  <2>4. RunningHoldsCpu'
    BY <1>7, <2>1, SchedulerAssumption DEF RunningHoldsCpu, TypeOK, Advance
  <2>5. QueueShape'
    BY <1>7, AdvanceDropsHead DEF QueueShape
  <2> QED
    BY <2>3, <2>4, <2>5
<1>8. CASE Yield
  BY <1>7, <1>8 DEF Yield
<1>9. CASE End
  BY <1>7, <1>9 DEF End
<1>10. CASE UNCHANGED vars
  BY <1>10 DEF vars, TypeOK, QueueShape, IsQueue, Members, RunningHoldsCpu
<1> QED
  BY <1>1, <1>2, <1>3, <1>4, <1>5, <1>6, <1>8, <1>9, <1>10 DEF Next

(* The invariant holds in every state of every system whose tasks do not   *)
(* post to themselves.                                                     *)
THEOREM SchedulerInvariant ==
  ASSUME SelfPost = FALSE
  PROVE  Spec => []SchedInv
<1>1. SchedInv /\ [Next]_vars => SchedInv'
  BY NextSched
<1> QED
  BY <1>1, InitSched, PTL DEF Spec

(* Every variable of the scheduler keeps its type.                         *)
THEOREM TypeCorrect ==
  ASSUME SelfPost = FALSE
  PROVE  Spec => []TypeOK
<1>1. SchedInv => TypeOK
  BY DEF SchedInv
<1> QED
  BY <1>1, SchedulerInvariant, PTL

(* The pointers of sch.cpp always stand for two well formed queues that    *)
(* hold exactly the READY tasks behind the running one.                    *)
THEOREM QueuesAreWellFormed ==
  ASSUME SelfPost = FALSE
  PROVE  Spec => [](QueueShape /\ RunningHoldsCpu)
<1>1. SchedInv => QueueShape /\ RunningHoldsCpu
  BY DEF SchedInv
<1> QED
  BY <1>1, SchedulerInvariant, PTL

(* A waiting task keeps every flag in its message: flags are cleared only  *)
(* by the task itself, which then runs and does not wait.                  *)
LEMMA FlagsKept ==
  ASSUME SchedInv, [Next]_vars, NEW t \in Task, status[t] = "READY", ~Booting
  PROVE  msg[t].src \subseteq msg'[t].src
<1> USE DEF SchedInv
<1>1. msg \in [Task -> Message] /\ t # cpu
  BY DEF TypeOK, RunningHoldsCpu
<1>2. ASSUME NEW u \in NetTask, NetWake(u) PROVE msg[t].src \subseteq msg'[t].src
  BY <1>1, <1>2 DEF NetWake, Message
<1>3. ASSUME NEW u \in Task, NEW d \in Data, Post(u, d)
      PROVE  msg[t].src \subseteq msg'[t].src
  BY <1>1, <1>3 DEF Post, Message
<1>4. ASSUME NEW s \in Source, Consume(s) PROVE msg'[t] = msg[t]
  BY <1>1, <1>4 DEF Consume
<1>5. CASE UNCHANGED msg
  BY <1>5
<1> QED
  BY <1>2, <1>3, <1>4, <1>5 DEF Next, Boot, Wake, Dispatch, Yield, End, vars

(* What several senders tell a waiting task adds up.                       *)
THEOREM FlagsAddUp ==
  ASSUME SelfPost = FALSE
  PROVE  Spec => FlagsAccumulate
<1>1. SchedInv /\ [Next]_vars
        => [\A t \in Task : status[t] = "READY" /\ ~Booting
                              => msg[t].src \subseteq msg'[t].src]_vars
  BY FlagsKept
<1> QED
  BY <1>1, SchedulerInvariant, PTL DEF Spec, FlagsAccumulate

-----------------------------------------------------------------------------
(* The refinement mapping.  A list is determined by its pointers, so the   *)
(* CHOOSE in AbsQueue finds the one sequence a queue stands for.           *)
LEMMA ListFromIs ==
  ASSUME NEW q, NEW hd, NEW tl, NEW nx, IsList(Task, q, hd, tl, nx, Null)
  PROVE  ListFrom(TaskSeqs, hd, nx, Null) = q
<1> DEFINE r == ListFrom(TaskSeqs, hd, nx, Null)
<1>1. q \in TaskSeqs /\ Linked(q, hd, nx, Null)
  BY DEF IsList, TaskSeqs
<1>2. r \in TaskSeqs /\ Linked(r, hd, nx, Null)
  BY <1>1 DEF ListFrom
<1> HIDE DEF r
<1> QED
  BY <1>1, <1>2, SchedulerAssumption, ListIsUnique DEF TaskSeqs, r

(* What the abstract queue of a priority is, before and after a step.      *)
LEMMA AbsQueueIs ==
  ASSUME NEW p \in Prio, NEW q, IsQueue(p, q)
  PROVE  AbsQueue[p] = IF cpu # Null /\ PrioOf(cpu) = p THEN Tail(q) ELSE q
<1>1. ListFrom(TaskSeqs, first[p], next, Null) = q
  BY ListFromIs DEF IsQueue
<1> QED
  BY <1>1 DEF AbsQueue

LEMMA AbsQueueIsNext ==
  ASSUME NEW p \in Prio, NEW q, IsQueue(p, q)'
  PROVE  AbsQueue'[p] = IF cpu' # Null /\ PrioOf(cpu') = p THEN Tail(q) ELSE q
<1>1. ListFrom(TaskSeqs, first'[p], next', Null) = q
  BY ListFromIs DEF IsQueue
<1>2. AbsQueue' =
        [o \in Prio |->
           LET r == ListFrom(TaskSeqs, first'[o], next', Null) IN
           IF cpu' # Null /\ PrioOf(cpu') = o THEN Tail(r) ELSE r]
  BY DEF AbsQueue, PrioOf
<1> QED
  BY <1>1, <1>2

(* Waking a task is a step of the abstract queue, or nothing.              *)
LEMMA SetReadyEnters ==
  ASSUME SchedInv, NEW t \in Task, t # cpu, SetReady(t), UNCHANGED cpu
  PROVE  RQ!Enter(t) \/ UNCHANGED <<AbsQueue, cpu>>
<1>1. CASE status[t] = "READY" /\ UNCHANGED queueVars
  BY <1>1 DEF queueVars, AbsQueue
<1>2. CASE status[t] # "READY" /\ Enqueue(t)
  <2> DEFINE p == PrioOf(t)
  <2>1. p \in Prio /\ status[t] \notin {"READY", "RUNNING"} /\ IsFiniteSet(Task)
    BY <1>2, PrioType, SchedulerAssumption DEF SchedInv, RunningHoldsCpu
  <2>2. PICK q \in TaskSeqs : IsQueue(p, q)
    BY <2>1 DEF SchedInv, QueueShape
  <2>3. IsQueue(p, Append(q, t))'
    BY <1>2, <2>1, <2>2, EnqueueAppends DEF SchedInv
  <2>4. q \in Seq(Task)
    BY <2>1, DistinctSeqsDef DEF TaskSeqs
  <2>5. AbsQueue[p] = IF cpu # Null /\ PrioOf(cpu) = p THEN Tail(q) ELSE q
    BY <2>1, <2>2, AbsQueueIs
  <2>6. AbsQueue'[p] = IF cpu # Null /\ PrioOf(cpu) = p
                       THEN Tail(Append(q, t)) ELSE Append(q, t)
    BY <2>1, <2>3, AbsQueueIsNext
  <2>7. cpu # Null /\ PrioOf(cpu) = p => q # <<>>
    BY <2>2 DEF IsQueue
  <2>8. AbsQueue'[p] = Append(AbsQueue[p], t)
    <3>1. q # <<>> => Tail(Append(q, t)) = Append(Tail(q), t)
      BY <2>4, HeadTailAppend
    <3> QED
      BY <2>5, <2>6, <2>7, <3>1
  <2>9. t \notin Nodes(AbsQueue[p])
    <3>1. t \notin Nodes(q)
      BY <2>1, <2>2 DEF IsQueue, Members
    <3>2. q # <<>> => Nodes(Tail(q)) \subseteq Nodes(q)
      BY <2>4 DEF Nodes
    <3> QED
      BY <2>5, <2>7, <3>1, <3>2
  <2>10. ASSUME NEW o \in Prio, o # p PROVE AbsQueue'[o] = AbsQueue[o]
    <3>1. PICK r \in TaskSeqs : IsQueue(o, r)
      BY DEF SchedInv, QueueShape
    <3>2. IsQueue(o, r)'
      BY <1>2, <2>1, <2>10, <3>1, EnqueueAppends DEF SchedInv
    <3> QED
      BY <3>1, <3>2, AbsQueueIs, AbsQueueIsNext
  <2>11. AbsQueue' = [AbsQueue EXCEPT ![p] = Append(@, t)]
    <3>1. AbsQueue = [o \in Prio |-> AbsQueue[o]]
      BY DEF AbsQueue
    <3>2. AbsQueue' = [o \in Prio |-> AbsQueue'[o]]
      BY DEF AbsQueue
    <3> QED
      BY <2>1, <2>8, <2>10, <3>1, <3>2
  <2> QED
    BY <2>9, <2>11 DEF RQ!Enter, RQ!PrioOf, RQ!Nodes, Nodes, PrioOf
<1> QED
  BY <1>1, <1>2 DEF SetReady

(* Dispatch hands the CPU to the head of the abstract queue.               *)
LEMMA DispatchGrants ==
  ASSUME SchedInv, NEW p \in Prio, Dispatch(p)
  PROVE  RQ!Grant(p)
<1>1. /\ cpu = Null /\ cpu' = first[p] /\ first[p] \in Task
      /\ PrioOf(first[p]) = p /\ IsFiniteSet(Task) /\ Null \notin Task
      /\ p = "normal" => first["preem"] = Null
  BY DispatchKeepsQueues, SchedulerAssumption DEF SchedInv, Dispatch
<1>2. ASSUME NEW o \in Prio, NEW q \in TaskSeqs, IsQueue(o, q)
      PROVE  /\ AbsQueue[o] = q
             /\ AbsQueue'[o] = IF o = p THEN Tail(q) ELSE q
             /\ first[o] = IF q = <<>> THEN Null ELSE q[1]
  <2>1. IsQueue(o, q)'
    BY <1>2, DispatchKeepsQueues DEF SchedInv
  <2>2. AbsQueue[o] = q
    BY <1>1, <1>2, AbsQueueIs
  <2>3. AbsQueue'[o] = IF o = p THEN Tail(q) ELSE q
    BY <1>1, <2>1, AbsQueueIsNext
  <2> QED
    BY <1>2, <2>2, <2>3 DEF IsQueue, IsList, Linked
<1>3. \A o \in Prio : \E q \in TaskSeqs : IsQueue(o, q)
  BY DEF SchedInv, QueueShape
<1>4. AbsQueue[p] # <<>> /\ cpu' = Head(AbsQueue[p])
  BY <1>1, <1>2, <1>3
<1>5. p = "normal" => AbsQueue["preem"] = <<>>
  <2>1. PICK q \in TaskSeqs : IsQueue("preem", q)
    BY <1>3 DEF Prio
  <2>2. q \in Seq(Task)
    BY <1>1, DistinctSeqsDef DEF TaskSeqs
  <2>3. q # <<>> => q[1] # Null
    BY <1>1, <2>2
  <2> QED
    BY <1>1, <1>2, <2>1, <2>3 DEF Prio
<1>6. AbsQueue' = [AbsQueue EXCEPT ![p] = Tail(@)]
  <2>1. \A o \in Prio : AbsQueue'[o] = IF o = p THEN Tail(AbsQueue[o]) ELSE AbsQueue[o]
    BY <1>2, <1>3
  <2>2. AbsQueue = [o \in Prio |-> AbsQueue[o]]
    BY DEF AbsQueue
  <2>3. AbsQueue' = [o \in Prio |-> AbsQueue'[o]]
    BY DEF AbsQueue
  <2> QED
    BY <2>1, <2>2, <2>3
<1> QED
  BY <1>1, <1>4, <1>5, <1>6 DEF RQ!Grant

(* Yield and End release the abstract CPU and move no waiting task.        *)
LEMMA AdvanceReleases ==
  ASSUME SchedInv, cpu # Null, Advance, NEW s \in {"YIELDED", "INACTIVE"},
         status' = [status EXCEPT ![cpu] = s], UNCHANGED next
  PROVE  RQ!Release
<1>1. cpu' = Null
  BY DEF Advance
<1>2. ASSUME NEW o \in Prio PROVE AbsQueue'[o] = AbsQueue[o]
  <2>1. PICK q \in TaskSeqs : IsQueue(o, q)
    BY DEF SchedInv, QueueShape
  <2>2. IF PrioOf(cpu) = o THEN IsQueue(o, Tail(q))' ELSE IsQueue(o, q)'
    BY <2>1, AdvanceDropsHead DEF SchedInv
  <2> QED
    BY <1>1, <2>1, <2>2, AbsQueueIs, AbsQueueIsNext
<1>3. AbsQueue' = AbsQueue
  <2>1. AbsQueue = [o \in Prio |-> AbsQueue[o]]
    BY DEF AbsQueue
  <2>2. AbsQueue' = [o \in Prio |-> AbsQueue'[o]]
    BY DEF AbsQueue
  <2> QED
    BY <1>2, <2>1, <2>2
<1> QED
  BY <1>1, <1>3 DEF RQ!Release

LEMMA InitRefines == Init => RQ!AQInit
<1> SUFFICES ASSUME Init PROVE RQ!AQInit
  OBVIOUS
<1>1. ASSUME NEW p \in Prio PROVE AbsQueue[p] = <<>>
  <2>1. Members(p) = {} /\ first[p] = Null /\ cpu = Null
    BY <1>1 DEF Init, Members
  <2>2. IsQueue(p, <<>>)
    BY <2>1, SchedulerAssumption, EmptyList DEF IsQueue, IsList
  <2> QED
    BY <2>1, <2>2, AbsQueueIs
<1>2. AbsQueue = [p \in Prio |-> AbsQueue[p]]
  BY DEF AbsQueue
<1> QED
  BY <1>1, <1>2 DEF RQ!AQInit, RQ!Prio, Prio, Init

LEMMA NextRefines ==
  ASSUME SelfPost = FALSE, SchedInv, [Next]_vars
  PROVE  [RQ!AQNext]_(RQ!aqVars)
<1> USE DEF RQ!AQNext, RQ!aqVars
<1>1. ASSUME NEW t \in Task, t # cpu, SetReady(t), UNCHANGED cpu
      PROVE  [RQ!AQNext]_(RQ!aqVars)
  BY <1>1, SetReadyEnters
<1>2. CASE Boot
  <2>1. BootList[booted + 1] \in Task /\ cpu = Null
    BY <1>2, BootType DEF Boot, Booting, SchedInv, TypeOK
  <2>2. SetReady(BootList[booted + 1]) /\ UNCHANGED cpu
    BY <1>2 DEF Boot
  <2> QED
    BY <1>1, <2>1, <2>2, SchedulerAssumption
<1>3. ASSUME NEW t \in Task, Wake(t) PROVE [RQ!AQNext]_(RQ!aqVars)
  BY <1>1, <1>3, SchedulerAssumption DEF Wake
<1>4. ASSUME NEW t \in NetTask, NetWake(t) PROVE [RQ!AQNext]_(RQ!aqVars)
  BY <1>1, <1>4, SchedulerAssumption DEF NetWake
<1>5. ASSUME NEW p \in Prio, Dispatch(p) PROVE [RQ!AQNext]_(RQ!aqVars)
  BY <1>5, DispatchGrants DEF RQ!Prio, Prio
<1>6. ASSUME NEW t \in Task, NEW d \in Data, Post(t, d)
      PROVE  [RQ!AQNext]_(RQ!aqVars)
  BY <1>1, <1>6 DEF Post
<1>7. ASSUME NEW s \in Source, Consume(s) PROVE [RQ!AQNext]_(RQ!aqVars)
  BY <1>7 DEF Consume, queueVars, AbsQueue
<1>8. CASE Yield
  BY <1>8, AdvanceReleases DEF Yield
<1>9. CASE End
  BY <1>9, AdvanceReleases DEF End
<1>10. CASE UNCHANGED vars
  BY <1>10 DEF vars, AbsQueue
<1> QED
  BY <1>2, <1>3, <1>4, <1>5, <1>6, <1>7, <1>8, <1>9, <1>10 DEF Next

(* The scheduler implements the two FIFO queues.                           *)
THEOREM SchedulerImplementsReadyQueue ==
  ASSUME SelfPost = FALSE
  PROVE  Spec => ImplementsReadyQueue
<1>1. SchedInv /\ [Next]_vars => [RQ!AQNext]_(RQ!aqVars)
  BY NextRefines
<1> QED
  BY <1>1, InitRefines, SchedulerInvariant, PTL
  DEF Spec, ImplementsReadyQueue, RQ!AQSpec

-----------------------------------------------------------------------------
(* The kernel.                                                             *)

(* What is proved of the timers and of the autostrs by themselves.         *)
TP == INSTANCE TimersProofs WITH Nil <- Null, Redeclare <- Restart

(* The discipline of the main loop: tasks run only inside task_runing, and *)
(* nothing wakes one before the boot sequence is over.                     *)
LoopControl ==
  /\ loc # "boot" => ~Booting
  /\ cpu # Null => loc = "run"

(* The two scans stand on a node whose owner they may wake.                *)
ScanPointers ==
  /\ timer_list \in Timer \cup {Null} /\ timer_index \in Timer \cup {Null}
  /\ tnext \in [Timer -> Timer \cup {Null}]
  /\ autostr_list \in Autostr \cup {Null} /\ autostr_index \in Autostr \cup {Null}
  /\ anext \in [Autostr -> Autostr \cup {Null}]
  /\ scanning => timer_index \in Timer
  /\ visiting => autostr_index \in Autostr

LoopInv == LoopControl /\ ScanPointers

-----------------------------------------------------------------------------
LEMMA InitLoop == KernelInit => LoopInv
  BY DEF KernelInit, Init, T!Init, A!AutoInit, LoopInv, LoopControl, ScanPointers

(* The three places where the loop wakes tasks.                            *)
LEMMA LoopWakes ==
  ASSUME LoopInv, loc \in {"timer", "auto"}, NEW t \in Task, WakeFromLoop(t),
         UNCHANGED <<pc, msg, cpu, booted>>
  PROVE  Wake(t)
  BY DEF LoopInv, LoopControl, WakeFromLoop, Wake

(* The steps that leave the scheduler alone.                               *)
LEMMA QuietSteps ==
  ASSUME TimerBegin \/ TimerSkip \/ AutoBegin \/ AutoPass \/ NetTickReturns
         \/ Idle \/ Awake \/ TaskTimer \/ TaskAuto \/ Clock
  PROVE  UNCHANGED vars
  BY DEF TimerBegin, TimerSkip, AutoBegin, AutoPass, NetTickReturns, Idle,
         Awake, TaskTimer, TaskAuto, Clock

(* Each step of the system is a step of the scheduler or does not touch it.*)
LEMMA StepRefines ==
  ASSUME LoopInv, [KernelNext]_kernelVars
  PROVE  [Next]_vars
<1>1. CASE KernelBoot
  BY <1>1 DEF KernelBoot, Next
<1>2. CASE TimerFire
  <2>1. timer_index \in Timer
    BY <1>2 DEF TimerFire, T!Fire, LoopInv, ScanPointers
  <2>2. Owner[timer_index] \in Task
    BY <2>1, KernelAssumption
  <2>3. Wake(Owner[timer_index])
    BY <1>2, <2>2, LoopWakes DEF TimerFire
  <2> QED
    BY <2>2, <2>3 DEF Next
<1>3. CASE AutoActivate
  <2>1. autostr_index \in Autostr
    BY <1>3 DEF AutoActivate, A!Activate, LoopInv, ScanPointers
  <2>2. Owner[autostr_index] \in Task
    BY <2>1, KernelAssumption
  <2>3. Wake(Owner[autostr_index])
    BY <1>3, <2>2, LoopWakes DEF AutoActivate
  <2> QED
    BY <2>2, <2>3 DEF Next
<1>4. ASSUME NEW t \in NetTask, NetTickWakes(t) PROVE Next
  BY <1>4 DEF NetTickWakes, Next
<1>5. CASE RunTask
  BY <1>5 DEF RunTask, Next
<1>6. CASE Return
  BY <1>6 DEF Return, Next
<1>7. CASE TaskMessage
  BY <1>7 DEF TaskMessage, Next
<1>8. CASE TimerBegin \/ TimerSkip \/ AutoBegin \/ AutoPass \/ NetTickReturns
           \/ Idle \/ Awake \/ TaskTimer \/ TaskAuto \/ Clock
  BY <1>8, QuietSteps
<1>9. CASE UNCHANGED kernelVars
  BY <1>9 DEF kernelVars
<1> QED
  BY <1>1, <1>2, <1>3, <1>4, <1>5, <1>6, <1>7, <1>8, <1>9 DEF KernelNext, Loop

(* The discipline of the loop is kept.                                     *)
LEMMA ControlKept ==
  ASSUME LoopInv, [KernelNext]_kernelVars
  PROVE  LoopControl'
<1> USE DEF LoopInv, LoopControl
<1>1. CASE KernelBoot
  BY <1>1 DEF KernelBoot, Boot, Booting, Top
<1>2. CASE TimerFire \/ AutoActivate
  BY <1>2 DEF TimerFire, AutoActivate, AfterTimer, Booting
<1>3. ASSUME NEW t \in NetTask, NetTickWakes(t) PROVE LoopControl'
  BY <1>3 DEF NetTickWakes, NetWake, Booting
<1>4. CASE RunTask
  BY <1>4 DEF RunTask, Dispatch, Booting
<1>5. CASE Return
  <2>1. cpu # Null /\ cpu' = Null /\ UNCHANGED booted /\ loc' = Top
    BY <1>5 DEF Return, Yield, End, Advance
  <2> QED
    BY <2>1 DEF Booting, Top
<1>6. CASE TaskMessage
  BY <1>6 DEF TaskMessage, Post, Consume, Booting
<1>7. CASE TimerBegin \/ TimerSkip \/ AutoBegin \/ AutoPass \/ NetTickReturns
           \/ Idle \/ Awake \/ TaskTimer \/ TaskAuto \/ Clock
  <2>1. UNCHANGED <<cpu, booted>>
    BY <1>7, QuietSteps DEF vars
  <2>2. loc' = loc \/ (cpu = Null /\ loc # "boot" /\ loc' # "boot")
    BY <1>7 DEF TimerBegin, TimerSkip, AutoBegin, AutoPass, NetTickReturns,
       Idle, Awake, TaskTimer, TaskAuto, Clock, AfterTimer, AfterIdle
  <2> QED
    BY <2>1, <2>2 DEF Booting
<1>8. CASE UNCHANGED kernelVars
  BY <1>8 DEF kernelVars, vars, Booting
<1> QED
  BY <1>1, <1>2, <1>3, <1>4, <1>5, <1>6, <1>7, <1>8 DEF KernelNext, Loop

LEMMA PointersKept ==
  ASSUME LoopInv, [KernelNext]_kernelVars
  PROVE  ScanPointers'
<1> USE DEF LoopInv, ScanPointers
<1>1. ASSUME UNCHANGED <<timerVars, autoVars>> PROVE ScanPointers'
  BY <1>1 DEF timerVars, autoVars
<1>2. ASSUME UNCHANGED autoVars, T!StartScan PROVE ScanPointers'
  BY <1>2 DEF autoVars, T!StartScan
<1>3. ASSUME UNCHANGED autoVars, scanning, T!Step PROVE ScanPointers'
  BY <1>3 DEF autoVars, T!Step
<1>4. ASSUME UNCHANGED timerVars, A!StartVisit PROVE ScanPointers'
  BY <1>4 DEF timerVars, A!StartVisit
<1>5. ASSUME UNCHANGED timerVars, visiting, A!AutoStep PROVE ScanPointers'
  BY <1>5 DEF timerVars, A!AutoStep
<1>6. CASE KernelBoot \/ NetTickReturns \/ RunTask \/ Return \/ Idle \/ Awake
           \/ TaskMessage \/ \E t \in NetTask : NetTickWakes(t)
  BY <1>1, <1>6 DEF KernelBoot, NetTickReturns, RunTask, Return, Idle, Awake,
     TaskMessage, NetTickWakes
<1>7. CASE TimerBegin
  BY <1>1, <1>2, <1>7 DEF TimerBegin
<1>8. CASE TimerFire \/ TimerSkip
  BY <1>3, <1>8 DEF TimerFire, TimerSkip, T!Fire, T!Skip
<1>9. CASE AutoBegin
  BY <1>1, <1>4, <1>9 DEF AutoBegin
<1>10. CASE AutoActivate \/ AutoPass
  BY <1>5, <1>10 DEF AutoActivate, AutoPass, A!Activate, A!Pass
<1>11. CASE TaskTimer
  <2>1. UNCHANGED autoVars
    BY <1>11 DEF TaskTimer
  <2>2. ASSUME NEW tm \in Timer, T!Set(tm) PROVE ScanPointers'
    BY <2>1, <2>2 DEF autoVars, T!Set, T!HeadAfterAppend, T!NextAfterAppend,
       HeadAfterAppend, NextAfterAppend
  <2>3. ASSUME NEW tm \in Timer, T!Reset(tm) \/ T!Disable(tm) PROVE ScanPointers'
    BY <2>1, <2>3 DEF autoVars, T!Reset, T!Disable, T!listVars
  <2> QED
    BY <1>11, <2>2, <2>3 DEF TaskTimer
<1>12. CASE TaskAuto
  <2>1. UNCHANGED timerVars
    BY <1>12 DEF TaskAuto
  <2>2. ASSUME NEW a \in Autostr, A!Declare(a) PROVE ScanPointers'
    BY <2>1, <2>2 DEF timerVars, A!Declare, A!HeadAfterAppend, A!NextAfterAppend,
       HeadAfterAppend, NextAfterAppend
  <2>3. ASSUME NEW a \in Autostr, NEW up \in BOOLEAN, A!Switch(a, up)
        PROVE  ScanPointers'
    BY <2>1, <2>3 DEF timerVars, A!Switch
  <2> QED
    BY <1>12, <2>2, <2>3 DEF TaskAuto
<1>13. CASE Clock
  BY <1>13 DEF Clock, autoVars, T!Tick, T!listVars
<1>14. CASE UNCHANGED kernelVars
  BY <1>1, <1>14 DEF kernelVars
<1> QED
  BY <1>6, <1>7, <1>8, <1>9, <1>10, <1>11, <1>12, <1>13, <1>14
     DEF KernelNext, Loop

(* Whatever the main loop, the timers, the autostrs, the network and the   *)
(* tasks do, the scheduler sees only steps of its own specification.       *)
THEOREM KernelImplementsScheduler == KernelSpec => ImplementsScheduler
<1>1. LoopInv /\ [KernelNext]_kernelVars => LoopInv' /\ [Next]_vars
  BY ControlKept, PointersKept, StepRefines DEF LoopInv
<1>2. KernelInit => Init
  BY DEF KernelInit
<1> QED
  BY <1>1, <1>2, InitLoop, PTL DEF KernelSpec, ImplementsScheduler, Spec

-----------------------------------------------------------------------------
(* A step of the scheduler takes a task out of READY only by running it.   *)
LEMMA ReadyUntilRun ==
  ASSUME SchedInv, [Next]_vars, NEW t \in Task, status[t] = "READY"
  PROVE  status'[t] = "READY" \/ (cpu = Null /\ cpu' = t)
<1> USE DEF SchedInv
<1>1. ASSUME NEW u \in Task, SetReady(u) PROVE status'[t] = "READY"
  BY <1>1 DEF SetReady, Enqueue, queueVars, TypeOK
<1>2. CASE Boot
  <2>1. BootList[booted + 1] \in Task
    BY <1>2, BootType DEF Boot, Booting, TypeOK
  <2> QED
    BY <1>1, <1>2, <2>1 DEF Boot
<1>3. CASE \E u \in Task : Wake(u)
  BY <1>1, <1>3 DEF Wake
<1>4. CASE \E u \in NetTask : NetWake(u)
  BY <1>1, <1>4, SchedulerAssumption DEF NetWake
<1>5. CASE \E p \in Prio : Dispatch(p)
  BY <1>5 DEF Dispatch, TypeOK
<1>6. CASE \E u \in Task, d \in Data : Post(u, d)
  BY <1>1, <1>6 DEF Post
<1>7. CASE Yield \/ End
  <2>1. t # cpu
    BY DEF RunningHoldsCpu
  <2> QED
    BY <1>7, <2>1 DEF Yield, End, TypeOK
<1>8. CASE (\E s \in Source : Consume(s)) \/ UNCHANGED vars
  BY <1>8 DEF Consume, queueVars, vars
<1> QED
  BY <1>2, <1>3, <1>4, <1>5, <1>6, <1>7, <1>8 DEF Next

WakeInv == NoWakeUpIsLost /\ woken \subseteq Task

LEMMA NextWake ==
  ASSUME SchedInv, LoopInv, WakeInv, [KernelNext]_kernelVars
  PROVE  WakeInv'
<1> USE DEF WakeInv
<1>1. [Next]_vars
  BY StepRefines
<1>2. ASSUME woken' \subseteq Task,
             \A t \in woken' :
               \/ t \in woken /\ ~(cpu = Null /\ cpu' = t)
               \/ status'[t] = "READY"
      PROVE  WakeInv'
  <2>1. ASSUME NEW t \in woken' PROVE status'[t] = "READY"
    <3>1. t \in Task
      BY <1>2
    <3> QED
      BY <1>1, <1>2, <3>1, ReadyUntilRun DEF NoWakeUpIsLost
  <2> QED
    BY <1>2, <2>1 DEF NoWakeUpIsLost
<1>3. ASSUME NEW t \in Task, SetReady(t), UNCHANGED cpu,
             woken' = woken \cup {t}
      PROVE  WakeInv'
  <2>1. status'[t] = "READY"
    BY <1>3 DEF SetReady, Enqueue, queueVars, SchedInv, TypeOK
  <2>2. \A u \in woken : ~(cpu = Null /\ cpu' = u)
    BY <1>3, SchedulerAssumption
  <2> QED
    BY <1>2, <1>3, <2>1, <2>2
<1>4. ASSUME UNCHANGED woken, UNCHANGED cpu \/ cpu # Null PROVE WakeInv'
  <2>1. \A u \in woken : ~(cpu = Null /\ cpu' = u)
    BY <1>4, SchedulerAssumption
  <2> QED
    BY <1>2, <1>4, <2>1
<1>5. CASE TimerFire
  <2>1. timer_index \in Timer
    BY <1>5 DEF TimerFire, T!Fire, LoopInv, ScanPointers
  <2>2. Owner[timer_index] \in Task
    BY <2>1, KernelAssumption
  <2> QED
    BY <1>3, <1>5, <2>2 DEF TimerFire, WakeFromLoop
<1>6. CASE AutoActivate
  <2>1. autostr_index \in Autostr
    BY <1>6 DEF AutoActivate, A!Activate, LoopInv, ScanPointers
  <2>2. Owner[autostr_index] \in Task
    BY <2>1, KernelAssumption
  <2> QED
    BY <1>3, <1>6, <2>2 DEF AutoActivate, WakeFromLoop
<1>7. ASSUME NEW t \in NetTask, NetTickWakes(t) PROVE WakeInv'
  BY <1>3, <1>7, SchedulerAssumption DEF NetTickWakes, NetWake
<1>8. CASE RunTask
  BY <1>2, <1>8 DEF RunTask
<1>9. CASE Return
  BY <1>4, <1>9 DEF Return, Yield, End, wakeVars
<1>10. CASE KernelBoot \/ TaskMessage
  BY <1>4, <1>10 DEF KernelBoot, Boot, TaskMessage, Post, Consume, wakeVars
<1>11. CASE TimerBegin \/ TimerSkip \/ AutoBegin \/ AutoPass \/ NetTickReturns
            \/ Idle \/ Awake \/ TaskTimer \/ TaskAuto \/ Clock
  <2>1. UNCHANGED <<cpu, woken>>
    BY <1>11, QuietSteps DEF vars, TimerBegin, TimerSkip, AutoBegin, AutoPass,
       NetTickReturns, Idle, Awake, TaskTimer, TaskAuto, Clock, wakeVars
  <2> QED
    BY <1>4, <2>1
<1>12. CASE UNCHANGED kernelVars
  BY <1>4, <1>12 DEF kernelVars, vars, wakeVars
<1> QED
  BY <1>5, <1>6, <1>7, <1>8, <1>9, <1>10, <1>11, <1>12 DEF KernelNext, Loop

LEMMA LoopDiscipline == KernelSpec => []LoopInv
<1>1. LoopInv /\ [KernelNext]_kernelVars => LoopInv'
  BY ControlKept, PointersKept DEF LoopInv
<1> QED
  BY <1>1, InitLoop, PTL DEF KernelSpec

LEMMA WakesKept ==
  ASSUME SelfPost = FALSE
  PROVE  KernelSpec => []WakeInv
<1>1. KernelSpec => []SchedInv
  BY KernelImplementsScheduler, SchedulerInvariant, PTL DEF ImplementsScheduler
<1>2. KernelInit => WakeInv
  BY DEF KernelInit, WakeInv, NoWakeUpIsLost
<1>3. SchedInv /\ LoopInv /\ WakeInv /\ [KernelNext]_kernelVars => WakeInv'
  BY NextWake
<1> QED
  BY <1>1, <1>2, <1>3, LoopDiscipline, PTL DEF KernelSpec

(* A task that a timer, an autostr or the network woke is READY, and so in *)
(* its queue, until it gets the CPU.                                       *)
THEOREM NoWakeUpLost ==
  ASSUME SelfPost = FALSE
  PROVE  KernelSpec => []NoWakeUpIsLost
<1>1. WakeInv => NoWakeUpIsLost
  BY DEF WakeInv
<1> QED
  BY <1>1, WakesKept, PTL

-----------------------------------------------------------------------------
(* An empty queue leaves no task READY.                                    *)
LEMMA NothingReady ==
  ASSUME SchedInv, \A p \in Prio : first[p] = Null
  PROVE  \A t \in Task : status[t] # "READY"
<1>1. SUFFICES ASSUME NEW t \in Task, status[t] = "READY" PROVE FALSE
  OBVIOUS
<1>2. PICK q \in TaskSeqs : IsQueue(PrioOf(t), q)
  BY PrioType DEF SchedInv, QueueShape
<1>3. PrioOf(t) \in Prio /\ t \in Nodes(q)
  BY <1>1, <1>2, PrioType DEF IsQueue, Members
<1>4. q # <<>>
  BY <1>3 DEF Nodes
<1>5. q \in Seq(Task)
  BY SchedulerAssumption, DistinctSeqsDef DEF TaskSeqs
<1>6. first[PrioOf(t)] = q[1] /\ q[1] \in Task
  BY <1>2, <1>4, <1>5 DEF IsQueue, IsList, Linked
<1> QED
  BY <1>1, <1>3, <1>6, SchedulerAssumption

(* The native loop leaves its inner loop only when no task is READY, and   *)
(* nothing but net_tick tells a task of the network.                       *)
NativeInv ==
  /\ netWoken \subseteq woken
  /\ loc \notin {"auto", "sleep"}
  /\ loc = "timer" => netWoken = {}

LEMMA NextNative ==
  ASSUME Board = "native", SchedInv, LoopInv, WakeInv, NativeInv,
         [KernelNext]_kernelVars
  PROVE  /\ NativeInv'
         /\ loc # "net" /\ loc' = "net" => netWoken = {}
<1> USE DEF NativeInv, Top, AfterTimer, AfterIdle
<1>1. CASE TimerBegin \/ TimerSkip
  BY <1>1 DEF TimerBegin, TimerSkip, wakeVars
<1>2. CASE TimerFire
  BY <1>2 DEF TimerFire, WakeFromLoop
<1>3. ASSUME NEW t \in NetTask, NetTickWakes(t)
      PROVE  NativeInv' /\ loc' = loc
  BY <1>3 DEF NetTickWakes
<1>4. CASE NetTickReturns
  BY <1>4 DEF NetTickReturns, wakeVars
<1>5. CASE RunTask
  BY <1>5 DEF RunTask
<1>6. CASE Idle
  <2>1. \A t \in Task : status[t] # "READY"
    BY <1>6, NothingReady DEF Idle
  <2>2. woken = {}
    BY <2>1 DEF WakeInv, NoWakeUpIsLost
  <2> QED
    BY <1>6, <2>2 DEF Idle, wakeVars
<1>7. CASE KernelBoot
  BY <1>7 DEF KernelBoot, wakeVars
<1>8. CASE Return
  BY <1>8 DEF Return, wakeVars
<1>9. CASE AutoBegin \/ AutoActivate \/ AutoPass \/ Awake
  BY <1>9 DEF AutoBegin, AutoActivate, AutoPass, Awake
<1>10. CASE TaskMessage \/ TaskTimer \/ TaskAuto \/ Clock
  BY <1>10 DEF TaskMessage, TaskTimer, TaskAuto, Clock, wakeVars
<1>11. CASE UNCHANGED kernelVars
  BY <1>11 DEF kernelVars, wakeVars
<1> QED
  BY <1>1, <1>2, <1>3, <1>4, <1>5, <1>6, <1>7, <1>8, <1>9, <1>10, <1>11
     DEF KernelNext, Loop

(* In the native loop a task woken by the network has run when net_tick is *)
(* called again: what netstack.h:119-121 asks of the scheduler, and what   *)
(* the loop of a board does not give.                                      *)
THEOREM NativeRunsWokenFirst ==
  ASSUME SelfPost = FALSE, Board = "native"
  PROVE  KernelSpec => WokenRunsBeforeNextTick
<1>1. KernelSpec => []SchedInv
  BY KernelImplementsScheduler, SchedulerInvariant, PTL DEF ImplementsScheduler
<1>2. KernelSpec => []LoopInv
  BY LoopDiscipline
<1>3. KernelSpec => []WakeInv
  BY WakesKept
<1>4. KernelInit => NativeInv
  BY DEF KernelInit, NativeInv, Top
<1>5. SchedInv /\ LoopInv /\ WakeInv /\ NativeInv /\ [KernelNext]_kernelVars
      => NativeInv' /\ [loc # "net" /\ loc' = "net" => netWoken = {}]_kernelVars
  BY NextNative
<1> QED
  BY <1>1, <1>2, <1>3, <1>4, <1>5, PTL DEF KernelSpec, WokenRunsBeforeNextTick

-----------------------------------------------------------------------------
(* The turns of the main loop: in the native build net_tick is called only *)
(* when every task it called has run.                                      *)
CalledRanFirst ==
  Board = "native" /\ loc # "net" /\ loc' = "net" => netWoken = {}

LEMMA CalledRun ==
  ASSUME SelfPost = FALSE
  PROVE  KernelSpec => [][CalledRanFirst]_kernelVars
<1>1. CASE Board = "native"
  <2>1. KernelSpec => [][loc # "net" /\ loc' = "net" => netWoken = {}]_kernelVars
    BY <1>1, NativeRunsWokenFirst DEF WokenRunsBeforeNextTick
  <2>2. [loc # "net" /\ loc' = "net" => netWoken = {}]_kernelVars
        => [CalledRanFirst]_kernelVars
    BY DEF CalledRanFirst
  <2> QED
    BY <2>1, <2>2, PTL
<1>2. CASE Board # "native"
  <2>1. [KernelNext]_kernelVars => [CalledRanFirst]_kernelVars
    BY <1>2 DEF CalledRanFirst
  <2> QED
    BY <2>1, PTL DEF KernelSpec
<1> QED
  BY <1>1, <1>2

LEMMA TurnTaken ==
  ASSUME SchedInv, LoopInv, [KernelNext]_kernelVars, [CalledRanFirst]_kernelVars
  PROVE  [ML!LNext]_(ML!turnVars)
<1> USE DEF ML!turnVars
<1>1. ASSUME loc # "net", loc' # "net", UNCHANGED <<cpu, netWoken>>
      PROVE  UNCHANGED ML!turnVars
  BY <1>1
<1>2. ASSUME loc \in {"timer", "auto"}, UNCHANGED <<cpu, netWoken>>
      PROVE  [ML!LNext]_(ML!turnVars)
  <2>1. cpu = Null
    BY <1>2 DEF LoopInv, LoopControl
  <2>2. CASE loc' = "net"
    <3>1. Board = "native" => netWoken = {}
      BY <1>2, <2>2 DEF CalledRanFirst, kernelVars
    <3>2. ML!Tick
      BY <1>2, <2>1, <2>2, <3>1 DEF ML!Tick
    <3> QED
      BY <3>2 DEF ML!LNext
  <2>3. CASE loc' # "net"
    BY <1>1, <1>2, <2>3
  <2> QED
    BY <2>2, <2>3
<1>3. CASE TimerBegin \/ TimerFire \/ TimerSkip \/ AutoBegin \/ AutoActivate \/ AutoPass
  BY <1>2, <1>3 DEF TimerBegin, TimerFire, TimerSkip, AutoBegin, AutoActivate, AutoPass,
     vars, wakeVars
<1>4. ASSUME NEW t \in NetTask, NetTickWakes(t) PROVE ML!LNext
  <2>1. t \in Task
    BY SchedulerAssumption
  <2>2. ML!Call(t)
    BY <1>4 DEF NetTickWakes, NetWake, ML!Call
  <2> QED
    BY <2>1, <2>2 DEF ML!LNext
<1>5. CASE NetTickReturns
  <2>1. ML!Leave
    BY <1>5 DEF NetTickReturns, vars, wakeVars, ML!Leave
  <2> QED
    BY <2>1 DEF ML!LNext
<1>6. CASE RunTask
  <2>1. PICK p \in Prio : Dispatch(p)
    BY <1>6 DEF RunTask
  <2>2. cpu = Null /\ cpu' \in Task
    BY <2>1 DEF Dispatch, SchedInv, TypeOK
  <2>3. ML!Run(cpu')
    BY <1>6, <2>2 DEF RunTask, ML!Run
  <2> QED
    BY <2>2, <2>3 DEF ML!LNext
<1>7. CASE Return
  <2>1. /\ cpu # Null /\ cpu' = Null /\ loc = "run" /\ loc' # "net"
        /\ netWoken' = netWoken
    BY <1>7 DEF Return, Yield, End, Advance, Top, wakeVars, LoopInv, LoopControl
  <2>2. ML!Return
    BY <2>1 DEF ML!Return
  <2> QED
    BY <2>2 DEF ML!LNext
<1>8. CASE KernelBoot \/ Idle \/ Awake
  BY <1>1, <1>8 DEF KernelBoot, Boot, Idle, Awake, Top, AfterIdle, vars, wakeVars
<1>9. CASE TaskMessage \/ TaskTimer \/ TaskAuto \/ Clock
  BY <1>9 DEF TaskMessage, Post, Consume, TaskTimer, TaskAuto, Clock, vars, wakeVars
<1>10. CASE UNCHANGED kernelVars
  BY <1>10 DEF kernelVars, vars, wakeVars
<1> QED
  BY <1>3, <1>4, <1>5, <1>6, <1>7, <1>8, <1>9, <1>10 DEF KernelNext, Loop

(* Both main loops take the turns that UdpStack is written for: tasks and  *)
(* net_tick exclude each other, and the native loop runs whom the network  *)
(* has called before it listens to the network again.                      *)
THEOREM KernelTakesTurns ==
  ASSUME SelfPost = FALSE
  PROVE  KernelSpec => ImplementsMainLoop
<1>1. KernelSpec => []SchedInv
  BY KernelImplementsScheduler, SchedulerInvariant, PTL DEF ImplementsScheduler
<1>2. KernelInit => ML!LInit
  BY DEF KernelInit, Init, Top, ML!LInit
<1>3. SchedInv /\ LoopInv /\ [KernelNext]_kernelVars /\ [CalledRanFirst]_kernelVars
      => [ML!LNext]_(ML!turnVars)
  BY TurnTaken
<1> QED
  BY <1>1, <1>2, <1>3, LoopDiscipline, CalledRun, PTL
     DEF KernelSpec, ImplementsMainLoop, ML!LSpec

-----------------------------------------------------------------------------
(* The timers and the autostrs inside the system: every step of the system *)
(* is one of their own or leaves them alone.                               *)
LEMMA TimerStep == [KernelNext]_kernelVars => [T!Next]_(T!timerVars)
<1> SUFFICES ASSUME [KernelNext]_kernelVars PROVE [T!Next]_(T!timerVars)
  OBVIOUS
<1>1. CASE TimerBegin
  BY <1>1 DEF TimerBegin, timerVars, T!timerVars, T!Next
<1>2. CASE TimerFire \/ TimerSkip
  BY <1>2 DEF TimerFire, TimerSkip, T!Next
<1>3. CASE TaskTimer
  BY <1>3 DEF TaskTimer, T!Next
<1>4. CASE Clock
  BY <1>4 DEF Clock, T!Next
<1>5. CASE UNCHANGED timerVars
  BY <1>5 DEF timerVars, T!timerVars
<1> QED
  BY <1>1, <1>2, <1>3, <1>4, <1>5 DEF KernelNext, Loop, KernelBoot, AutoBegin,
     AutoActivate, AutoPass, NetTickWakes, NetTickReturns, RunTask, Return,
     Idle, Awake, TaskMessage, TaskAuto, kernelVars

LEMMA AutoStrStep == [KernelNext]_kernelVars => [A!AutoNext]_(A!autoVars)
<1> SUFFICES ASSUME [KernelNext]_kernelVars PROVE [A!AutoNext]_(A!autoVars)
  OBVIOUS
<1>1. CASE AutoBegin
  BY <1>1 DEF AutoBegin, autoVars, A!autoVars, A!AutoNext
<1>2. CASE AutoActivate \/ AutoPass
  BY <1>2 DEF AutoActivate, AutoPass, A!AutoNext
<1>3. CASE TaskAuto
  BY <1>3 DEF TaskAuto, A!AutoNext
<1>4. CASE UNCHANGED autoVars
  BY <1>4 DEF autoVars, A!autoVars
<1> QED
  BY <1>1, <1>2, <1>3, <1>4 DEF KernelNext, Loop, KernelBoot, TimerBegin,
     TimerFire, TimerSkip, NetTickWakes, NetTickReturns, RunTask, Return,
     Idle, Awake, TaskMessage, TaskTimer, Clock, kernelVars

(* The system uses the timers and the autostrs only as their own           *)
(* specifications say they are used: timer_set_sys, timer_reset and        *)
(* timer_disable never fall into a scan of timer_exec, nor autostr_set_sys *)
(* into one of autostr_exec.                                               *)
THEOREM KernelImplementsParts == KernelSpec => T!Spec /\ A!AutoSpec
<1>1. KernelInit => T!Init /\ A!AutoInit
  BY DEF KernelInit
<1> QED
  BY <1>1, TimerStep, AutoStrStep, PTL DEF KernelSpec, T!Spec, A!AutoSpec

(* The theorems about the parts speak of the parts by themselves.          *)
LEMMA PartsAssumptions ==
  /\ TP!TimersAssumption
  /\ TP!AutoStrAssumption
<1>1. \A S : IsFiniteSet(S) <=> TP!IsFiniteSet(S)
  BY DEF IsFiniteSet, TP!IsFiniteSet
<1>2. IsFiniteSet(Timer) /\ IsFiniteSet(Autostr)
  BY KernelAssumption
<1>3. TP!IsFiniteSet(Timer) /\ TP!IsFiniteSet(Autostr)
  BY <1>1, <1>2
<1> QED
  BY <1>3, KernelAssumption

LEMMA SameParts ==
  /\ T!Spec <=> TP!Spec
  /\ A!AutoSpec <=> TP!AutoSpec
<1>1. T!Init <=> TP!Init
  BY DEF T!Init, TP!Init
<1>2. [T!Next]_(T!timerVars) <=> [TP!Next]_(TP!timerVars)
  BY DEF T!Next, TP!Next, T!timerVars, TP!timerVars, T!listVars, TP!listVars,
     T!Set, TP!Set, T!Count, TP!Count, T!msec_now, TP!msec_now, T!Reset,
     TP!Reset, T!Disable, TP!Disable, T!StartScan, TP!StartScan, T!Fire,
     TP!Fire, T!Skip, TP!Skip, T!Step, TP!Step, T!Expired, TP!Expired, T!Tick,
     TP!Tick, T!HeadAfterAppend, TP!HeadAfterAppend, T!NextAfterAppend,
     TP!NextAfterAppend
<1>3. A!AutoInit <=> TP!AutoInit
  BY DEF A!AutoInit, TP!AutoInit
<1>4. [A!AutoNext]_(A!autoVars) <=> [TP!AutoNext]_(TP!autoVars)
  BY DEF A!AutoNext, TP!AutoNext, A!autoVars, TP!autoVars, A!Declare,
     TP!Declare, A!Switch, TP!Switch, A!StartVisit, TP!StartVisit, A!Activate,
     TP!Activate, A!Pass, TP!Pass, A!AutoStep, TP!AutoStep,
     A!HeadAfterAppend, TP!HeadAfterAppend, A!NextAfterAppend,
     TP!NextAfterAppend
<1> QED
  BY <1>1, <1>2, <1>3, <1>4, PTL DEF T!Spec, TP!Spec, A!AutoSpec, TP!AutoSpec

(* Hence, when every timer_set and autostr_set is executed once, the lists *)
(* of timers and autostrs are well formed in every state of the system.    *)
LEMMA PartsInvariant ==
  ASSUME Restart = FALSE
  PROVE  KernelSpec => [](TP!TimerInv /\ TP!AutoInv)
<1>1. TP!Spec => [](TP!TypeOK /\ TP!TimerListShape)
  BY PartsAssumptions, TP!TimersInvariant
<1>2. TP!AutoSpec => [](TP!AutoTypeOK /\ TP!AutoListShape)
  BY PartsAssumptions, TP!AutoStrInvariant
<1>3. /\ TP!TypeOK /\ TP!TimerListShape => TP!TimerInv
      /\ TP!AutoTypeOK /\ TP!AutoListShape => TP!AutoInv
  BY DEF TP!TimerInv, TP!AutoInv
<1> QED
  BY <1>1, <1>2, <1>3, KernelImplementsParts, SameParts, PTL

-----------------------------------------------------------------------------
(* What a pass of timer_exec has done so far.  Without a wrap of the clock *)
(* a timer that is left behind is not active, or was not due yet.          *)
Covered == {tm \in Timer : active[tm] => passTime < due[tm]}

TimerPass ==
  /\ passTime \in Nat /\ passTime <= time
  /\ scanning =>
       /\ loc = "timer"
       /\ ScannedUpTo(Timer, timer_list, tnext, Null, armed, timer_index, Covered)
  /\ TimersServedEachPass

LEMMA TimerFacts ==
  ASSUME TP!TimerInv
  PROVE  /\ active \in [Timer -> BOOLEAN] /\ armed \subseteq Timer
         /\ time \in Nat /\ time <= Horizon
         /\ timer_index \in Timer \cup {Null} /\ scanning \in BOOLEAN
         /\ \E q \in DistinctSeqs(Timer) :
              Linked(q, timer_list, tnext, Null) /\ Nodes(q) = armed
         /\ \A tm \in Timer : active[tm] => tm \in armed
<1> USE DEF TP!TimerInv
<1>1. PICK q \in TP!TimerSeqs :
        /\ TP!Linked(q, timer_list, tnext, Null) /\ TP!Nodes(q) = armed
        /\ \A tm \in Timer : active[tm] => tm \in armed
  BY DEF TP!TimerListShape
<1>2. q \in Seq(Timer) /\ TP!IsInjective(q)
  BY <1>1, PartsAssumptions, TP!DistinctSeqsDef DEF TP!TimerSeqs, TP!TimersAssumption
<1>3. q \in DistinctSeqs(Timer)
  BY <1>2, KernelAssumption, DistinctSeqsDef DEF TP!IsInjective, IsInjective
<1>4. Linked(q, timer_list, tnext, Null) /\ Nodes(q) = armed
  BY <1>1 DEF TP!Linked, Linked, TP!Nodes, Nodes
<1>5. time \in Nat /\ time <= Horizon
  BY KernelAssumption DEF TP!TypeOK
<1> QED
  BY <1>1, <1>3, <1>4, <1>5 DEF TP!TypeOK

(* Nothing is active in an empty list; with one, the scan starts at the    *)
(* first timer.                                                            *)
LEMMA BeginCovers ==
  ASSUME TP!TimerInv, TimerBegin
  PROVE  TimerPass'
<1>1. /\ active \in [Timer -> BOOLEAN] /\ time \in Nat
      /\ \A tm \in Timer : active[tm] => tm \in armed
  BY TimerFacts
<1>2. PICK q \in DistinctSeqs(Timer) :
        Linked(q, timer_list, tnext, Null) /\ Nodes(q) = armed
  BY TimerFacts
<1>3. passTime' \in Nat /\ passTime' <= time' /\ loc = "timer"
  BY <1>1 DEF TimerBegin, timerVars, T!StartScan
<1>4. CASE timer_list = Null
  <2>1. q \in Seq(Timer)
    BY DistinctSeqsDef, KernelAssumption
  <2>2. q = <<>>
    BY <1>2, <1>4, <2>1, KernelAssumption DEF Linked
  <2>3. \A tm \in Timer : ~active[tm]
    BY <1>1, <1>2, <2>2 DEF Nodes
  <2>4. ~scanning' /\ UNCHANGED active
    BY <1>4 DEF TimerBegin, timerVars
  <2> QED
    BY <1>3, <2>3, <2>4 DEF TimerPass, TimersServedEachPass
<1>5. CASE timer_list # Null
  <2>1. /\ timer_index' = timer_list /\ loc' = loc
        /\ UNCHANGED <<timer_list, tnext, armed>>
    BY <1>5 DEF TimerBegin, T!StartScan
  <2>2. ScannedUpTo(Timer, timer_list, tnext, Null, Nodes(q), timer_list, Covered')
    BY <1>2, <1>5, KernelAssumption, ScanStarts
  <2> QED
    BY <1>2, <1>3, <2>1, <2>2 DEF TimerPass, TimersServedEachPass
<1> QED
  BY <1>4, <1>5

(* The timer that an iteration leaves has fired, or is not due yet.        *)
LEMMA LeavesCovered ==
  ASSUME TP!NoWrap, TP!TimerInv, TP!Punctual, TimerPass, TimerFire \/ TimerSkip
  PROVE  /\ timer_index \in Timer /\ timer_index \in Covered'
         /\ \A tm \in Timer : tm \in Covered => tm \in Covered'
         /\ \A tm \in Timer : active'[tm] => active[tm]
<1>1. /\ active \in [Timer -> BOOLEAN] /\ time \in Nat /\ time <= Horizon
      /\ due \in [Timer -> Nat] /\ Horizon \in Nat /\ timer_index \in Timer
      /\ ClockMod \in Nat \ {0}
  BY TimerFacts, KernelAssumption
     DEF TP!TimerInv, TP!TypeOK, TimerFire, TimerSkip, T!Fire, T!Skip
<1>2. UNCHANGED <<due, passTime>>
  BY DEF TimerFire, TimerSkip, T!Fire, T!Skip, T!Step, wakeVars
<1>3. \A tm \in Timer : active'[tm] => active[tm]
  BY <1>1 DEF TimerFire, TimerSkip, T!Fire, T!Skip
<1>4. timer_index \in Covered'
  <2>1. CASE TimerFire
    BY <1>1, <2>1 DEF TimerFire, T!Fire, Covered
  <2>2. CASE TimerSkip /\ active[timer_index]
    <3>1. ~(msec_time[timer_index] <= T!msec_now) /\ UNCHANGED active
      BY <2>2 DEF TimerSkip, T!Skip, T!Expired
    <3>2. Period[timer_index] \in Nat /\ Horizon + Period[timer_index] < ClockMod
      BY <1>1, KernelAssumption DEF TP!NoWrap
    <3>3. time % ClockMod = time
      BY <1>1, <3>2
    <3>4. ~(due[timer_index] <= time)
      BY <1>1, <2>2, <3>1, <3>3 DEF TP!Punctual, T!msec_now
    <3>5. due[timer_index] \in Nat /\ passTime \in Nat /\ passTime <= time
      BY <1>1 DEF TimerPass
    <3>6. passTime < due[timer_index]
      BY <1>1, <3>4, <3>5
    <3> QED
      BY <1>1, <1>2, <3>6 DEF Covered
  <2>3. CASE TimerSkip /\ ~active[timer_index]
    BY <1>1, <2>3 DEF TimerSkip, T!Skip, Covered
  <2> QED
    BY <2>1, <2>2, <2>3
<1>5. \A tm \in Timer : tm \in Covered => tm \in Covered'
  BY <1>2, <1>3 DEF Covered
<1> QED
  BY <1>1, <1>3, <1>4, <1>5

LEMMA IterationCovers ==
  ASSUME TP!NoWrap, TP!TimerInv, TP!Punctual, TimerPass, TimerFire \/ TimerSkip
  PROVE  TimerPass'
<1>1. /\ ScannedUpTo(Timer, timer_list, tnext, Null, armed, timer_index, Covered)
      /\ loc = "timer" /\ passTime \in Nat /\ passTime <= time
  BY DEF TimerPass, TimerFire, TimerSkip, T!Fire, T!Skip
<1>2. /\ UNCHANGED <<timer_list, tnext, armed, passTime, time>>
      /\ loc' = IF scanning' THEN loc ELSE AfterTimer
      /\ IF tnext[timer_index] # Null
           THEN timer_index' = tnext[timer_index] /\ UNCHANGED scanning
           ELSE scanning' = FALSE /\ UNCHANGED timer_index
  BY DEF TimerFire, TimerSkip, T!Fire, T!Skip, T!Step, wakeVars
<1>3. /\ timer_index \in Covered'
      /\ \A tm \in Timer : tm \in Covered => tm \in Covered'
      /\ \A tm \in Timer : active'[tm] => active[tm] /\ tm \in armed
  BY LeavesCovered, TimerFacts
<1>4. IsFiniteSet(Timer) /\ Null \notin Timer
  BY KernelAssumption
<1>5. CASE tnext[timer_index] # Null
  <2>1. ScannedUpTo(Timer, timer_list, tnext, Null, armed, tnext[timer_index], Covered')
    BY <1>1, <1>3, <1>4, <1>5, ScanMoves
  <2>2. scanning' /\ loc' = "timer"
    BY <1>1, <1>2, <1>5 DEF TimerFire, TimerSkip, T!Fire, T!Skip
  <2> QED
    BY <1>1, <1>2, <1>5, <2>1, <2>2 DEF TimerPass, TimersServedEachPass
<1>6. CASE tnext[timer_index] = Null
  <2>1. \A tm \in armed : tm \in Covered'
    BY <1>1, <1>3, <1>4, <1>6, ScanEnds
  <2>2. \A tm \in Timer : active'[tm] => passTime' < due'[tm]
    BY <1>3, <2>1 DEF Covered
  <2> QED
    BY <1>1, <1>2, <1>6, <2>2 DEF TimerPass, TimersServedEachPass
<1> QED
  BY <1>5, <1>6

(* Outside timer_exec a pass stays what it was: only a task that runs sets *)
(* a timer, and it does not return into this pass of the loop.             *)
LEMMA PassKept ==
  ASSUME TimerPass, UNCHANGED <<timerVars, passTime>>,
         scanning => loc' = "timer",
         loc' \in {"auto", "net", "run"} /\ cpu' = Null
           => loc \in {"auto", "net", "run"} /\ cpu = Null
  PROVE  TimerPass'
<1>1. UNCHANGED <<timer_list, timer_index, tnext, active, scanning, armed, time,
                  due, passTime>>
  BY DEF timerVars
<1>2. Covered' = Covered
  BY <1>1 DEF Covered
<1> QED
  BY <1>1, <1>2 DEF TimerPass, TimersServedEachPass

LEMMA TimerPassStep ==
  ASSUME Board = "arduino", TP!NoWrap, TP!TimerInv, TP!Punctual, LoopInv,
         TimerPass, [KernelNext]_kernelVars
  PROVE  TimerPass'
<1>1. CASE TimerBegin
  BY <1>1, BeginCovers
<1>2. CASE TimerFire \/ TimerSkip
  BY <1>2, IterationCovers
<1>3. ASSUME cpu # Null, UNCHANGED <<cpu, loc, scanning, time, passTime>>
      PROVE  TimerPass'
  <2>1. ~scanning
    BY <1>3 DEF LoopInv, LoopControl, TimerPass
  <2> QED
    BY <1>3, <2>1 DEF TimerPass, TimersServedEachPass
<1>4. CASE TaskTimer
  <2>1. PICK tm \in Timer : Owner[tm] = cpu /\ (T!Set(tm) \/ T!Reset(tm) \/ T!Disable(tm))
    BY <1>4 DEF TaskTimer
  <2>2. cpu # Null
    BY <2>1, KernelAssumption, SchedulerAssumption
  <2> QED
    BY <1>3, <1>4, <2>1, <2>2 DEF TaskTimer, vars, wakeVars, T!Set, T!Reset, T!Disable
<1>5. CASE TaskMessage
  BY <1>3, <1>5 DEF TaskMessage, Post, Consume, timerVars, wakeVars
<1>6. CASE TaskAuto
  BY <1>6, PassKept DEF TaskAuto, vars, wakeVars, TimerPass
<1>7. CASE Clock
  <2>1. /\ UNCHANGED <<timer_list, timer_index, tnext, active, scanning, armed,
                       due, passTime, cpu, loc>>
        /\ time' = time + 1
    BY <1>7 DEF Clock, T!Tick, T!listVars, vars, wakeVars
  <2>2. Covered' = Covered
    BY <2>1 DEF Covered
  <2>3. time \in Nat
    BY TimerFacts
  <2> QED
    BY <2>1, <2>2, <2>3 DEF TimerPass, TimersServedEachPass
<1>8. CASE KernelBoot \/ Return
  <2>1. UNCHANGED <<timerVars, passTime>> /\ loc' \in {"boot", "timer"}
    BY <1>8 DEF KernelBoot, Return, Top, wakeVars
  <2>2. ~scanning
    BY <1>8 DEF KernelBoot, Return, Yield, End, LoopInv, LoopControl, TimerPass
  <2> QED
    BY <2>1, <2>2, PassKept
<1>9. CASE AutoBegin \/ AutoActivate \/ AutoPass \/ NetTickReturns \/ Idle \/ Awake
           \/ \E t \in NetTask : NetTickWakes(t)
  <2>1. UNCHANGED <<timerVars, passTime>> /\ cpu' = cpu /\ ~scanning
        /\ (loc = "sleep" => loc' = "timer")
    BY <1>9 DEF AutoBegin, AutoActivate, AutoPass, NetTickReturns, Idle, Awake,
       NetTickWakes, NetWake, vars, wakeVars, TimerPass
  <2>2. loc \in {"auto", "net", "run", "sleep"}
    BY <1>9 DEF AutoBegin, AutoActivate, AutoPass, NetTickReturns, Idle, Awake,
       NetTickWakes
  <2> QED
    BY <2>1, <2>2, PassKept
<1>10. CASE RunTask
  <2>1. UNCHANGED <<timerVars, passTime, loc>> /\ cpu' # Null
    BY <1>10 DEF RunTask, Dispatch
  <2> QED
    BY <2>1, PassKept DEF TimerPass
<1>11. CASE UNCHANGED kernelVars
  BY <1>11, PassKept DEF kernelVars, vars, wakeVars, TimerPass
<1> QED
  BY <1>1, <1>2, <1>4, <1>5, <1>6, <1>7, <1>8, <1>9, <1>10, <1>11
     DEF KernelNext, Loop

(* On a board, when the next task is about to run, every timer that was    *)
(* due when this pass of the loop began has fired: however many timers     *)
(* there are, wherever the clock interrupt falls between two iterations of *)
(* timer_exec, and whatever autostr_exec and net_tick do after it.         *)
THEOREM TimersAreServed ==
  ASSUME Restart = FALSE, Board = "arduino", TP!NoWrap
  PROVE  KernelSpec => []TimersServedEachPass
<1>1. TP!Spec => [](TP!TimerInv /\ TP!Punctual)
  BY PartsAssumptions, TP!AlwaysPunctual
<1>2. KernelInit => TimerPass
  BY DEF KernelInit, T!Init, TimerPass, TimersServedEachPass
<1>3. TP!TimerInv /\ TP!Punctual /\ LoopInv /\ TimerPass /\ [KernelNext]_kernelVars
        => TimerPass'
  BY TimerPassStep
<1>4. TimerPass => TimersServedEachPass
  BY DEF TimerPass
<1> QED
  BY <1>1, <1>2, <1>3, <1>4, LoopDiscipline, KernelImplementsParts, SameParts,
     PTL DEF KernelSpec

-----------------------------------------------------------------------------
(* What a pass of autostr_exec has done so far: the autostrs it has left   *)
(* behind are down, and when it is over all are, until a task runs.        *)
Down == {a \in Autostr : ~raised[a]}

AutoVisit ==
  /\ visiting =>
       /\ loc = "auto"
       /\ ScannedUpTo(Autostr, autostr_list, anext, Null, declared,
                      autostr_index, Down)
  /\ loc \in {"net", "run", "sleep"} /\ cpu = Null => \A a \in Autostr : ~raised[a]

LEMMA AutoStrFacts ==
  ASSUME TP!AutoInv
  PROVE  /\ raised \in [Autostr -> BOOLEAN] /\ declared \subseteq Autostr
         /\ autostr_index \in Autostr \cup {Null} /\ visiting \in BOOLEAN
         /\ \E q \in DistinctSeqs(Autostr) :
              Linked(q, autostr_list, anext, Null) /\ Nodes(q) = declared
         /\ \A a \in Autostr : raised[a] => a \in declared
<1> USE DEF TP!AutoInv
<1>1. PICK q \in TP!AutoSeqs :
        /\ TP!Linked(q, autostr_list, anext, Null) /\ TP!Nodes(q) = declared
        /\ \A a \in Autostr : raised[a] => a \in declared
  BY DEF TP!AutoListShape
<1>2. q \in Seq(Autostr) /\ TP!IsInjective(q)
  BY <1>1, PartsAssumptions, TP!DistinctSeqsDef DEF TP!AutoSeqs, TP!AutoStrAssumption
<1>3. q \in DistinctSeqs(Autostr)
  BY <1>2, KernelAssumption, DistinctSeqsDef DEF TP!IsInjective, IsInjective
<1>4. Linked(q, autostr_list, anext, Null) /\ Nodes(q) = declared
  BY <1>1 DEF TP!Linked, Linked, TP!Nodes, Nodes
<1> QED
  BY <1>1, <1>3, <1>4 DEF TP!AutoTypeOK

LEMMA BeginVisits ==
  ASSUME TP!AutoInv, LoopInv, AutoBegin
  PROVE  AutoVisit'
<1>1. PICK q \in DistinctSeqs(Autostr) :
        Linked(q, autostr_list, anext, Null) /\ Nodes(q) = declared
  BY AutoStrFacts
<1>2. CASE autostr_list = Null
  <2>1. q \in Seq(Autostr)
    BY DistinctSeqsDef, KernelAssumption
  <2>2. q = <<>>
    BY <1>1, <1>2, <2>1, KernelAssumption DEF Linked
  <2>3. \A a \in Autostr : ~raised[a]
    BY <1>1, <2>2, AutoStrFacts DEF Nodes
  <2>4. ~visiting' /\ UNCHANGED raised
    BY <1>2 DEF AutoBegin, autoVars
  <2> QED
    BY <2>3, <2>4 DEF AutoVisit
<1>3. CASE autostr_list # Null
  <2>1. /\ autostr_index' = autostr_list /\ loc' = loc /\ loc = "auto"
        /\ UNCHANGED <<autostr_list, anext, declared>>
    BY <1>3 DEF AutoBegin, A!StartVisit
  <2>2. ScannedUpTo(Autostr, autostr_list, anext, Null, Nodes(q), autostr_list, Down')
    BY <1>1, <1>3, KernelAssumption, ScanStarts
  <2> QED
    BY <1>1, <2>1, <2>2 DEF AutoVisit
<1> QED
  BY <1>2, <1>3

LEMMA IterationLowers ==
  ASSUME TP!AutoInv, AutoVisit, AutoActivate \/ AutoPass
  PROVE  AutoVisit'
<1>1. /\ ScannedUpTo(Autostr, autostr_list, anext, Null, declared, autostr_index, Down)
      /\ loc = "auto"
  BY DEF AutoVisit, AutoActivate, AutoPass, A!Activate, A!Pass
<1>2. /\ UNCHANGED <<autostr_list, anext, declared>>
      /\ loc' = IF visiting' THEN loc ELSE "net"
      /\ IF anext[autostr_index] # Null
           THEN autostr_index' = anext[autostr_index] /\ UNCHANGED visiting
           ELSE visiting' = FALSE /\ UNCHANGED autostr_index
      /\ visiting
  BY DEF AutoActivate, AutoPass, A!Activate, A!Pass, A!AutoStep
<1>3. /\ autostr_index \in Down'
      /\ \A a \in Autostr : a \in Down => a \in Down'
      /\ \A a \in Autostr : raised'[a] => a \in declared
  <2>1. /\ raised \in [Autostr -> BOOLEAN] /\ autostr_index \in Autostr
        /\ \A a \in Autostr : raised[a] => a \in declared
    BY <1>2, AutoStrFacts DEF TP!AutoInv, TP!AutoTypeOK
  <2>2. CASE AutoActivate
    BY <2>1, <2>2 DEF AutoActivate, A!Activate, Down
  <2>3. CASE AutoPass
    BY <2>1, <2>3 DEF AutoPass, A!Pass, Down
  <2> QED
    BY <2>2, <2>3
<1>4. IsFiniteSet(Autostr) /\ Null \notin Autostr
  BY KernelAssumption
<1>5. CASE anext[autostr_index] # Null
  <2>1. ScannedUpTo(Autostr, autostr_list, anext, Null, declared,
                    anext[autostr_index], Down')
    BY <1>1, <1>3, <1>4, <1>5, ScanMoves
  <2> QED
    BY <1>1, <1>2, <1>5, <2>1 DEF AutoVisit
<1>6. CASE anext[autostr_index] = Null
  <2>1. \A a \in declared : a \in Down'
    BY <1>1, <1>3, <1>4, <1>6, ScanEnds
  <2>2. \A a \in Autostr : ~raised'[a]
    BY <1>3, <2>1 DEF Down
  <2> QED
    BY <1>1, <1>2, <1>6, <2>2 DEF AutoVisit
<1> QED
  BY <1>5, <1>6

LEMMA VisitKept ==
  ASSUME AutoVisit, UNCHANGED autoVars, visiting => loc' = "auto",
         loc' \in {"net", "run", "sleep"} /\ cpu' = Null
           => loc \in {"net", "run", "sleep"} /\ cpu = Null
  PROVE  AutoVisit'
<1>1. UNCHANGED <<autostr_list, autostr_index, anext, raised, visiting, declared>>
  BY DEF autoVars
<1>2. Down' = Down
  BY <1>1 DEF Down
<1> QED
  BY <1>1, <1>2 DEF AutoVisit

LEMMA AutoVisitStep ==
  ASSUME Board = "arduino", TP!AutoInv, LoopInv, AutoVisit, [KernelNext]_kernelVars
  PROVE  AutoVisit'
<1>1. CASE AutoBegin
  BY <1>1, BeginVisits
<1>2. CASE AutoActivate \/ AutoPass
  BY <1>2, IterationLowers
<1>3. CASE TaskAuto
  <2>1. PICK a \in Autostr :
          Owner[a] = cpu /\ (A!Declare(a) \/ \E up \in BOOLEAN : A!Switch(a, up))
    BY <1>3 DEF TaskAuto
  <2>2. cpu # Null /\ UNCHANGED <<cpu, loc, visiting>>
    BY <1>3, <2>1, KernelAssumption, SchedulerAssumption
       DEF TaskAuto, vars, A!Declare, A!Switch
  <2>3. ~visiting
    BY <2>2 DEF LoopInv, LoopControl, AutoVisit
  <2> QED
    BY <2>2, <2>3 DEF AutoVisit
<1>4. CASE TimerBegin \/ TimerFire \/ TimerSkip
  BY <1>4, VisitKept DEF TimerBegin, TimerFire, TimerSkip, AfterTimer, AutoVisit
<1>5. CASE KernelBoot \/ Return
  <2>1. UNCHANGED autoVars /\ loc' \in {"boot", "timer"}
    BY <1>5 DEF KernelBoot, Return, Top
  <2>2. ~visiting
    BY <1>5 DEF KernelBoot, Return, Yield, End, LoopInv, LoopControl, AutoVisit
  <2> QED
    BY <2>1, <2>2, VisitKept
<1>6. CASE NetTickReturns \/ Idle \/ Awake \/ \E t \in NetTask : NetTickWakes(t)
  BY <1>6, VisitKept DEF NetTickReturns, Idle, Awake, NetTickWakes, NetWake,
     vars, AfterIdle, AutoVisit
<1>7. CASE RunTask
  <2>1. UNCHANGED <<autoVars, loc>> /\ cpu' # Null
    BY <1>7 DEF RunTask, Dispatch
  <2> QED
    BY <2>1, VisitKept DEF AutoVisit
<1>8. CASE TaskMessage \/ TaskTimer \/ Clock
  BY <1>8, VisitKept DEF TaskMessage, Post, Consume, TaskTimer, Clock, vars, AutoVisit
<1>9. CASE UNCHANGED kernelVars
  BY <1>9, VisitKept DEF kernelVars, vars, AutoVisit
<1> QED
  BY <1>1, <1>2, <1>3, <1>4, <1>5, <1>6, <1>7, <1>8, <1>9 DEF KernelNext, Loop

(* Only a board sleeps, and it falls asleep when no queue holds a task.    *)
Asleep ==
  loc = "sleep" =>
    /\ Board = "arduino" /\ cpu = Null
    /\ \A t \in Task : status[t] \in {"YIELDED", "INACTIVE"}

LEMMA AsleepStep ==
  ASSUME SchedInv, LoopInv, Asleep, [KernelNext]_kernelVars
  PROVE  Asleep'
<1>1. CASE Idle
  <2>1. \A t \in Task : status[t] # "READY"
    BY <1>1, NothingReady DEF Idle
  <2>2. \A t \in Task : status[t] # "RUNNING" /\ status[t] \in Status
    BY <1>1, SchedulerAssumption DEF Idle, SchedInv, RunningHoldsCpu, TypeOK
  <2>3. loc' = "sleep" => Board = "arduino"
    BY <1>1 DEF Idle, AfterIdle
  <2> QED
    BY <1>1, <2>1, <2>2, <2>3 DEF Idle, Asleep, vars, Status
<1>2. CASE Clock \/ UNCHANGED kernelVars
  BY <1>2 DEF Clock, kernelVars, vars, Asleep
<1>3. CASE TaskMessage \/ TaskTimer \/ TaskAuto
  <2>1. cpu # Null
    BY <1>3, KernelAssumption, SchedulerAssumption
       DEF TaskMessage, Post, Consume, TaskTimer, TaskAuto
  <2>2. loc' # "sleep"
    BY <1>3, <2>1 DEF TaskMessage, TaskTimer, TaskAuto, LoopInv, LoopControl
  <2> QED
    BY <2>2 DEF Asleep
<1>4. ASSUME loc' # "sleep" PROVE Asleep'
  BY <1>4 DEF Asleep
<1>5. CASE KernelBoot \/ TimerBegin \/ TimerFire \/ TimerSkip \/ AutoBegin
           \/ AutoActivate \/ AutoPass \/ NetTickReturns \/ RunTask \/ Return
           \/ Awake \/ \E t \in NetTask : NetTickWakes(t)
  BY <1>4, <1>5 DEF KernelBoot, TimerBegin, TimerFire, TimerSkip, AutoBegin,
     AutoActivate, AutoPass, NetTickReturns, RunTask, Return, Awake,
     NetTickWakes, AfterTimer, Top
<1> QED
  BY <1>1, <1>2, <1>3, <1>5 DEF KernelNext, Loop

(* The CPU sleeps only when no task is in a queue and no autostr is up: an *)
(* autostr that a task raised is served before the next sleep, for between *)
(* the end of autostr_exec and the sleep no task runs.                     *)
THEOREM SleepIsIdle ==
  ASSUME SelfPost = FALSE, Restart = FALSE
  PROVE  KernelSpec => []SleepsOnlyWhenIdle
<1>1. KernelSpec => []SchedInv
  BY KernelImplementsScheduler, SchedulerInvariant, PTL DEF ImplementsScheduler
<1>2. KernelSpec => [](LoopInv /\ TP!AutoInv)
  BY LoopDiscipline, PartsInvariant, PTL
<1>3. KernelInit => Asleep /\ AutoVisit
  BY DEF KernelInit, A!AutoInit, Asleep, AutoVisit, Top
<1>4. SchedInv /\ LoopInv /\ Asleep /\ [KernelNext]_kernelVars => Asleep'
  BY AsleepStep
<1>5. Board = "arduino"
        => (TP!AutoInv /\ LoopInv /\ AutoVisit /\ [KernelNext]_kernelVars => AutoVisit')
  BY AutoVisitStep
<1>6. /\ Asleep /\ AutoVisit => SleepsOnlyWhenIdle
      /\ Board # "arduino" => (Asleep => SleepsOnlyWhenIdle)
  BY DEF Asleep, AutoVisit, SleepsOnlyWhenIdle
<1>7. CASE Board = "arduino"
  BY <1>1, <1>2, <1>3, <1>4, <1>5, <1>6, <1>7, PTL DEF KernelSpec
<1>8. CASE Board # "arduino"
  BY <1>1, <1>2, <1>3, <1>4, <1>6, <1>8, PTL DEF KernelSpec
<1> QED
  BY <1>7, <1>8

-----------------------------------------------------------------------------
(* The loop's own variables.                                               *)
LoopTypeOK ==
  /\ loc \in {"boot", "timer", "auto", "net", "run", "sleep"}
  /\ netWoken \subseteq woken
  /\ passTime \in 0..time
  /\ rerun = {}

LEMMA LoopTypeStep ==
  ASSUME Restart = FALSE, time \in Nat, LoopTypeOK, [KernelNext]_kernelVars
  PROVE  LoopTypeOK'
<1> USE DEF LoopTypeOK, wakeVars, timerVars
<1>1. CASE KernelBoot
  BY <1>1 DEF KernelBoot, Top
<1>2. CASE TimerBegin
  BY <1>2 DEF TimerBegin, T!StartScan, AfterTimer
<1>3. CASE TimerFire \/ TimerSkip
  BY <1>3 DEF TimerFire, TimerSkip, T!Fire, T!Skip, T!Step, WakeFromLoop, AfterTimer
<1>4. CASE AutoBegin \/ AutoActivate \/ AutoPass
  BY <1>4 DEF AutoBegin, AutoActivate, AutoPass, WakeFromLoop
<1>5. CASE NetTickReturns \/ Idle \/ Awake
  BY <1>5 DEF NetTickReturns, Idle, Awake, AfterIdle
<1>6. ASSUME NEW t \in NetTask, NetTickWakes(t) PROVE LoopTypeOK'
  BY <1>6 DEF NetTickWakes
<1>7. CASE RunTask
  BY <1>7 DEF RunTask
<1>8. CASE Return
  BY <1>8 DEF Return, Top
<1>9. CASE TaskMessage \/ TaskAuto
  BY <1>9 DEF TaskMessage, TaskAuto
<1>10. CASE TaskTimer
  BY <1>10 DEF TaskTimer, T!Set, T!Reset, T!Disable
<1>11. CASE Clock
  BY <1>11 DEF Clock, T!Tick
<1>12. CASE UNCHANGED kernelVars
  BY <1>12 DEF kernelVars
<1> QED
  BY <1>1, <1>2, <1>3, <1>4, <1>5, <1>6, <1>7, <1>8, <1>9, <1>10, <1>11, <1>12
     DEF KernelNext, Loop

(* Every variable of the system keeps its type.                            *)
THEOREM KernelTypeCorrect ==
  ASSUME SelfPost = FALSE, Restart = FALSE
  PROVE  KernelSpec => []KernelTypeOK
<1>1. KernelSpec => []SchedInv
  BY KernelImplementsScheduler, SchedulerInvariant, PTL DEF ImplementsScheduler
<1>2. KernelSpec => [](TP!TimerInv /\ TP!AutoInv)
  BY PartsInvariant
<1>3. KernelInit => LoopTypeOK
  BY DEF KernelInit, T!Init, LoopTypeOK, Top
<1>4. TP!TimerInv => time \in Nat
  BY TimerFacts
<1>5. time \in Nat /\ LoopTypeOK /\ [KernelNext]_kernelVars => LoopTypeOK'
  BY LoopTypeStep
<1>6. SchedInv /\ TP!TimerInv /\ TP!AutoInv /\ WakeInv /\ LoopTypeOK => KernelTypeOK
  BY DEF SchedInv, TP!TimerInv, TP!AutoInv, TP!TypeOK, T!TypeOK, TP!AutoTypeOK,
     A!AutoTypeOK, WakeInv, LoopTypeOK, KernelTypeOK
<1> QED
  BY <1>1, <1>2, <1>3, <1>4, <1>5, <1>6, WakesKept, PTL DEF KernelSpec
=============================================================================
