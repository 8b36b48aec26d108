----------------------------- MODULE Scheduler -----------------------------
(***************************************************************************)
(* The cooperative scheduler of idOS (os/kernel/sch.cpp), with the part of *)
(* a task that the macros of task.h own (status and pseudo program         *)
(* counter) and the message slot that ipc.h gives every task.              *)
(*                                                                         *)
(* The two run queues are modelled with the pointers of the code: first    *)
(* and last per queue (struct sch_st) and next per task (struct task_st).  *)
(* A task stays at the head of its queue while it runs; task_runing() is   *)
(* therefore two steps here, Dispatch (the call of pt) and the update of   *)
(* the head after pt returned, which is part of Yield and End.  Between    *)
(* the two the running task may call task_ipc any number of times.         *)
(*                                                                         *)
(* What a task computes is left open: it posts to any other task, consumes *)
(* flags of its own message, and returns at a yield point or at its end.   *)
(***************************************************************************)
EXTENDS Naturals, Sequences, FiniteSets, LinkedList

CONSTANTS
  Task,        \* every struct task_st of the image
  Null,        \* __null
  Preem,       \* tasks whose struct says PREEM; the others are NORMAL
  SysStart,    \* tasks idos_init makes ready (coap_start), in order
  AutoStart,   \* the array given to TASKS_AUTO_START, in order
  NetTask,     \* tasks that own a network listener
  Data,        \* the payloads of task_ipc
  SelfPost     \* TRUE if a task may task_ipc itself

ASSUME SchedulerAssumption ==
  /\ IsFiniteSet(Task) /\ Null \notin Task /\ Null \notin Data
  /\ Preem \subseteq Task /\ NetTask \subseteq Task
  /\ SysStart \in Seq(Task) /\ AutoStart \in Seq(Task)
  /\ SelfPost \in BOOLEAN

VARIABLES
  first, last,   \* sch_preem and sch_normal
  next,          \* task_st.next
  status,        \* task_st.status
  pc,            \* task_st.pc: 0 ("begin") or the __LINE__ of a yield
  msg,           \* *task_st.msg: msg_src and data
  cpu,           \* the task whose pt is executing, or Null
  booted         \* elements of BootList already started

queueVars == <<first, last, next, status>>
vars == <<first, last, next, status, pc, msg, cpu, booted>>

Prio == {"preem", "normal"}
PrioOf(t) == IF t \in Preem THEN "preem" ELSE "normal"
Status == {"READY", "RUNNING", "YIELDED", "INACTIVE"}

(* The flags of msg_src that the modelled senders set.  The timer keeps    *)
(* its message in its own structure, see Timers.                           *)
Source == {"TASK", "NETWORK"}
Message == [src : SUBSET Source, data : Data \cup {Null}]
NoMessage == [src |-> {}, data |-> Null]

BootList == SysStart \o AutoStart
Booting == booted < Len(BootList)

-----------------------------------------------------------------------------
(* TASK(...) builds every task INACTIVE, with pc 0, next null and an empty *)
(* message; both queues start empty.                                       *)
Init ==
  /\ first = [p \in Prio |-> Null]
  /\ last = [p \in Prio |-> Null]
  /\ next = [t \in Task |-> Null]
  /\ status = [t \in Task |-> "INACTIVE"]
  /\ pc = [t \in Task |-> "begin"]
  /\ msg = [t \in Task |-> NoMessage]
  /\ cpu = Null
  /\ booted = 0

(* Mutant: the task keeps whoever was behind it last time.                 *)
EnqueueKeepsNext(t) ==
  LET p == PrioOf(t) IN
  /\ first' = [first EXCEPT ![p] = HeadAfterAppend(@, Null, t)]
  /\ next' = IF first[p] = Null THEN next ELSE [next EXCEPT ![last[p]] = t]
  /\ last' = [last EXCEPT ![p] = t]
  /\ status' = [status EXCEPT ![t] = "READY"]

(* The body of task_set_ready for a task that is not READY: next is        *)
(* cleared first, then the task is linked behind last (which is stale, and *)
(* not used, when the queue is empty).                                     *)
Enqueue(t) ==
  LET p == PrioOf(t) IN
  /\ first' = [first EXCEPT ![p] = HeadAfterAppend(@, Null, t)]
  /\ next' = NextAfterAppend(first[p], last[p], next, Null, t)
  /\ last' = [last EXCEPT ![p] = t]
  /\ status' = [status EXCEPT ![t] = "READY"]

(* task_set_ready: a task that is READY already is in its queue.           *)
SetReady(t) ==
  \/ status[t] = "READY" /\ UNCHANGED queueVars
  \/ status[t] # "READY" /\ Enqueue(t)

-----------------------------------------------------------------------------
(* One element of the boot sequence: coap_start only makes its task ready, *)
(* task_autostart resets the message of the task first (MSG_INIT is 0).    *)
Boot ==
  /\ Booting
  /\ cpu = Null
  /\ booted' = booted + 1
  /\ LET t == BootList[booted + 1] IN
       /\ SetReady(t)
       /\ msg' = IF booted < Len(SysStart) THEN msg
                 ELSE [msg EXCEPT ![t] = NoMessage]
  /\ UNCHANGED <<pc, cpu>>

(* A timer or an autostr wakes its task between two tasks: the message of  *)
(* the task is not touched.                                                *)
Wake(t) ==
  /\ ~Booting
  /\ cpu = Null
  /\ SetReady(t)
  /\ UNCHANGED <<pc, msg, cpu, booted>>

(* udp_ipc: net_tick flags the message of the listener's task and wakes it.*)
NetWake(t) ==
  /\ ~Booting
  /\ cpu = Null
  /\ msg' = [msg EXCEPT ![t].src = @ \cup {"NETWORK"}]
  /\ SetReady(t)
  /\ UNCHANGED <<pc, cpu, booted>>

(* Mutants: the preferent queue has no precedence; the normal queue has it.*)
DispatchFrom(p) ==
  /\ ~Booting /\ cpu = Null /\ first[p] # Null
  /\ cpu' = first[p]
  /\ status' = [status EXCEPT ![first[p]] = "RUNNING"]
  /\ UNCHANGED <<first, last, next, pc, msg, booted>>
DispatchAny(p) == DispatchFrom(p)
DispatchNormalFirst(p) ==
  DispatchFrom(p) /\ (p = "preem" => first["normal"] = Null)

(* task_runing up to the call of pt, and TASK_BEGIN in it: the head of the *)
(* preferent queue, or of the normal one when there is none.               *)
Dispatch(p) ==
  /\ ~Booting
  /\ cpu = Null
  /\ first[p] # Null
  /\ p = "normal" => first["preem"] = Null
  /\ cpu' = first[p]
  /\ status' = [status EXCEPT ![first[p]] = "RUNNING"]
  /\ UNCHANGED <<first, last, next, pc, msg, booted>>

(* task_ipc from the running task.                                         *)
Post(t, d) ==
  /\ cpu # Null
  /\ t = cpu => SelfPost
  /\ msg' = [msg EXCEPT ![t] = [src |-> @.src \cup {"TASK"}, data |-> d]]
  /\ SetReady(t)
  /\ UNCHANGED <<pc, cpu, booted>>

(* The running task clears a flag it has handled (msg_src &= ~MSG_...).    *)
Consume(s) ==
  /\ cpu # Null
  /\ s \in msg[cpu].src
  /\ msg' = [msg EXCEPT ![cpu].src = @ \ {s}]
  /\ UNCHANGED <<queueVars, pc, cpu, booted>>

(* Mutant: the queue is emptied although tasks wait behind the head.       *)
AdvanceEmpties ==
  /\ first' = [first EXCEPT ![PrioOf(cpu)] = Null]
  /\ last' = last
  /\ cpu' = Null

(* task_runing after pt returned: the head moves to the task linked behind *)
(* the one that ran.  The preferent branch leaves last as it was, and it   *)
(* empties the normal queue's pointers when both queues are empty; next of *)
(* the task that ran is never cleared.                                     *)
Advance ==
  LET p == PrioOf(cpu) IN
  /\ first' = [first EXCEPT ![p] = next[first[p]]]
  /\ last' = IF next[first[p]] = Null /\ (p = "preem" => first["normal"] = Null)
             THEN [last EXCEPT !["normal"] = Null] ELSE last
  /\ cpu' = Null

(* TASK_YIELD.                                                             *)
Yield ==
  /\ cpu # Null
  /\ status' = [status EXCEPT ![cpu] = "YIELDED"]
  /\ pc' = [pc EXCEPT ![cpu] = "resume"]
  /\ Advance
  /\ UNCHANGED <<next, msg, booted>>

(* TASK_END.                                                               *)
End ==
  /\ cpu # Null
  /\ status' = [status EXCEPT ![cpu] = "INACTIVE"]
  /\ pc' = [pc EXCEPT ![cpu] = "begin"]
  /\ Advance
  /\ UNCHANGED <<next, msg, booted>>

Next ==
  \/ Boot
  \/ \E t \in Task : Wake(t)
  \/ \E t \in NetTask : NetWake(t)
  \/ \E p \in Prio : Dispatch(p)
  \/ \E t \in Task, d \in Data : Post(t, d)
  \/ \E s \in Source : Consume(s)
  \/ Yield
  \/ End

Spec == Init /\ [][Next]_vars

(* Fairness.  The boot sequence and the main loop are straight code that   *)
(* always reaches its next step; a protothread has to return (the whole    *)
(* system is cooperative, ipc.h:43-47).  Wake-ups and posts promise nothing.*)
FairSpec ==
  /\ Spec
  /\ WF_vars(Boot)
  /\ WF_vars(\E p \in Prio : Dispatch(p))
  /\ WF_vars(Yield \/ End)

-----------------------------------------------------------------------------
(* Every variable stays in its type.                                       *)
TypeOK ==
  /\ first \in [Prio -> Task \cup {Null}]
  /\ last \in [Prio -> Task \cup {Null}]
  /\ next \in [Task -> Task \cup {Null}]
  /\ status \in [Task -> Status]
  /\ pc \in [Task -> {"begin", "resume"}]
  /\ msg \in [Task -> Message]
  /\ cpu \in Task \cup {Null}
  /\ booted \in 0..Len(BootList)

(* What a queue can stand for.                                             *)
TaskSeqs == DistinctSeqs(Task)

(* The tasks that belong in the queue of priority p.                       *)
Members(p) == {t \in Task : PrioOf(t) = p /\ status[t] \in {"READY", "RUNNING"}}

(* The pointers of queue p stand for the sequence q.                       *)
IsQueue(p, q) ==
  /\ IsList(Task, q, first[p], last[p], next, Null)
  /\ Nodes(q) = Members(p)
  /\ cpu # Null /\ PrioOf(cpu) = p => q # <<>> /\ q[1] = cpu

(* Whatever order tasks are posted to, woken, run and returned in, the     *)
(* pointers of each queue stand for one null-terminated sequence without   *)
(* repetition, made of exactly its READY tasks behind the running one, and *)
(* last is its end: no READY task is cut off, none waits twice or in two   *)
(* queues (sch.h:14-20), and task_runing resumes behind the task that ran. *)
QueueShape == \A p \in Prio : \E q \in TaskSeqs : IsQueue(p, q)

(* Exactly the task whose pt executes is RUNNING: task_set_ready trusts    *)
(* this state to decide that a task is in no queue and may be linked.      *)
RunningHoldsCpu == \A t \in Task : status[t] = "RUNNING" <=> t = cpu

(* What a task is told by several senders before it runs adds up: while it *)
(* waits, no flag set in msg_src is lost (ipc.h:71-72).                    *)
FlagsAccumulate ==
  [][\A t \in Task :
       status[t] = "READY" /\ ~Booting => msg[t].src \subseteq msg'[t].src]_vars

(* The abstract queue of a priority: the list without the running head.    *)
AbsQueue ==
  [p \in Prio |->
     LET q == ListFrom(TaskSeqs, first[p], next, Null) IN
     IF cpu # Null /\ PrioOf(cpu) = p THEN Tail(q) ELSE q]

RQ == INSTANCE ReadyQueue WITH queue <- AbsQueue

(* The pointer manipulation of sch.cpp implements two FIFO queues, the     *)
(* preferent one served first (task.h:32-40).                              *)
ImplementsReadyQueue == RQ!AQSpec

(* A preferent task that is READY gets the CPU.                            *)
PreemRuns == \A t \in Preem : status[t] = "READY" ~> status[t] = "RUNNING"

(* A normal task that is READY gets the CPU unless the preferent queue     *)
(* fills again and again: nothing in task_runing bounds how long preferent *)
(* tasks may hold the normal ones back.                                    *)
NormalRuns ==
  <>[](first["preem"] = Null)
    => \A t \in Task \ Preem : status[t] = "READY" ~> status[t] = "RUNNING"
=============================================================================
