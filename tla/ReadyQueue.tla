----------------------------- MODULE ReadyQueue -----------------------------
(***************************************************************************)
(* What the idOS scheduler promises, with no pointer in sight: one FIFO    *)
(* queue per priority, a task waits in it at most once, the preferent      *)
(* queue is served before the normal one, and a task keeps the CPU until   *)
(* it gives it back (sch.h:14-21, task.h:32-46).                           *)
(***************************************************************************)
EXTENDS Naturals, Sequences, LinkedList

CONSTANTS Task,     \* every task of the image
          Preem,    \* the tasks declared with priority PREEM
          Null      \* no task

VARIABLES queue,    \* queue[p]: the tasks waiting at priority p, in order
          cpu       \* the task that holds the CPU, or Null

aqVars == <<queue, cpu>>

Prio == {"preem", "normal"}
PrioOf(t) == IF t \in Preem THEN "preem" ELSE "normal"

AQInit == queue = [p \in Prio |-> <<>>] /\ cpu = Null

(* A task that is not waiting takes its place at the end of its queue.     *)
Enter(t) ==
  /\ t # cpu
  /\ t \notin Nodes(queue[PrioOf(t)])
  /\ queue' = [queue EXCEPT ![PrioOf(t)] = Append(@, t)]
  /\ UNCHANGED cpu

(* The first preferent task, or the first normal one if there is none,     *)
(* gets the free CPU.                                                      *)
Grant(p) ==
  /\ cpu = Null
  /\ queue[p] # <<>>
  /\ p = "normal" => queue["preem"] = <<>>
  /\ cpu' = Head(queue[p])
  /\ queue' = [queue EXCEPT ![p] = Tail(@)]

(* The running task gives the CPU back.                                    *)
Release ==
  /\ cpu # Null
  /\ cpu' = Null
  /\ UNCHANGED queue

AQNext ==
  \/ \E t \in Task : Enter(t)
  \/ \E p \in Prio : Grant(p)
  \/ Release

AQSpec == AQInit /\ [][AQNext]_aqVars
=============================================================================
