------------------------------- MODULE Kernel -------------------------------
(***************************************************************************)
(* The whole kernel of idOS: the main loop of idos.cpp around the          *)
(* scheduler, the timers, the autostrs and the wake-ups of the network.    *)
(*                                                                         *)
(* There are two main loops.  On a board (BOARD "arduino", loop())         *)
(* timer_exec, autostr_exec and net_tick run before every single task, and *)
(* the CPU sleeps when no task was ready.  In the native build (main())    *)
(* tasks run until none is ready and only then timer_exec and net_tick     *)
(* follow; there is no autostr_exec and no sleep.                          *)
(*                                                                         *)
(* The clock runs concurrently with all of it.                             *)
(***************************************************************************)
EXTENDS Scheduler

CONSTANTS
  Timer, Period, ClockMod, Horizon,   \* see Timers
  Autostr,                            \* see AutoStr
  Restart,                            \* see Timers and AutoStr
  Owner,       \* the task that declares a timer or an autostr
  Board        \* "arduino" or "native": which main loop is compiled

ASSUME KernelAssumption ==
  /\ IsFiniteSet(Timer) /\ IsFiniteSet(Autostr)
  /\ Null \notin Timer \cup Autostr
  /\ ClockMod \in Nat \ {0} /\ Horizon \in Nat
  /\ Period \in [Timer -> 0..(ClockMod - 1)]
  /\ Restart \in BOOLEAN
  /\ Owner \in [Timer \cup Autostr -> Task]
  /\ Board \in {"arduino", "native"}

VARIABLES
  loc,         \* where the main loop is
  timer_list, timer_index, tnext, active, msec_time, avail, scanning, armed,
  time, due,
  autostr_list, autostr_index, anext, raised, visiting, declared,
  woken,       \* history: tasks woken by the loop that have not run since
  netWoken,    \* history: those of them woken by the last net_tick or before
  passTime,    \* history: the time when the last timer_exec began
  rerun        \* timers and autostrs whose task has ended since it came by
               \* their timer_set or autostr_set, and starts from the top

timerVars == <<timer_list, timer_index, tnext, active, msec_time, avail,
               scanning, armed, time, due>>
autoVars == <<autostr_list, autostr_index, anext, raised, visiting, declared>>
wakeVars == <<woken, netWoken, passTime>>
kernelVars == <<vars, loc, timerVars, autoVars, wakeVars, rerun>>

T == INSTANCE Timers WITH Nil <- Null
A == INSTANCE AutoStr WITH Redeclare <- Restart

(* Mutant: a board loops like the native build.                            *)
TopRun == "run"

(* The main loops: where the loop starts, and what follows timer_exec and  *)
(* a task_runing that found nothing to run.                                *)
Top == IF Board = "arduino" THEN "timer" ELSE "run"
AfterTimer == IF Board = "arduino" THEN "auto" ELSE "net"
AfterIdle == IF Board = "arduino" THEN "sleep" ELSE "timer"

KernelInit ==
  /\ Init /\ T!Init /\ A!AutoInit
  /\ loc = IF Booting THEN "boot" ELSE Top
  /\ woken = {} /\ netWoken = {} /\ passTime = 0
  /\ rerun = {}

-----------------------------------------------------------------------------
(* idos_init and task_start.                                               *)
KernelBoot ==
  /\ loc = "boot"
  /\ Boot
  /\ loc' = IF booted' < Len(BootList) THEN "boot" ELSE Top
  /\ UNCHANGED <<timerVars, autoVars, wakeVars, rerun>>

(* Mutant: a task that has ended is not woken.                             *)
WakeYielded(t) ==
  /\ IF status[t] = "YIELDED" THEN SetReady(t) ELSE UNCHANGED queueVars
  /\ woken' = woken \cup {t}

(* task_set_ready from the main loop.                                      *)
WakeFromLoop(t) == SetReady(t) /\ woken' = woken \cup {t}

(* timer_exec: the call, an iteration that fires and one that does not.    *)
TimerBegin ==
  /\ loc = "timer" /\ ~scanning
  /\ IF timer_list = Null
       THEN loc' = AfterTimer /\ UNCHANGED timerVars
       ELSE T!StartScan /\ UNCHANGED loc
  /\ passTime' = time
  /\ UNCHANGED <<vars, autoVars, woken, netWoken, rerun>>

\* Mutant: the message is written into the task, not into the timer.
TimerFireClobbers ==
  /\ loc = "timer"
  /\ T!Fire
  /\ WakeFromLoop(Owner[timer_index])
  /\ msg' = [msg EXCEPT ![Owner[timer_index]] = NoMessage]
  /\ loc' = IF scanning' THEN loc ELSE AfterTimer
  /\ UNCHANGED <<pc, cpu, booted, autoVars, netWoken, passTime, rerun>>

TimerFire ==
  /\ loc = "timer"
  /\ T!Fire
  /\ WakeFromLoop(Owner[timer_index])
  /\ loc' = IF scanning' THEN loc ELSE AfterTimer
  /\ UNCHANGED <<pc, msg, cpu, booted, autoVars, netWoken, passTime, rerun>>

TimerSkip ==
  /\ loc = "timer"
  /\ T!Skip
  /\ loc' = IF scanning' THEN loc ELSE AfterTimer
  /\ UNCHANGED <<vars, autoVars, wakeVars, rerun>>

(* autostr_exec, likewise.                                                 *)
AutoBegin ==
  /\ loc = "auto" /\ ~visiting
  /\ IF autostr_list = Null
       THEN loc' = "net" /\ UNCHANGED autoVars
       ELSE A!StartVisit /\ UNCHANGED loc
  /\ UNCHANGED <<vars, timerVars, wakeVars, rerun>>

AutoActivate ==
  /\ loc = "auto"
  /\ A!Activate
  /\ WakeFromLoop(Owner[autostr_index])
  /\ loc' = IF visiting' THEN loc ELSE "net"
  /\ UNCHANGED <<pc, msg, cpu, booted, timerVars, netWoken, passTime, rerun>>

AutoPass ==
  /\ loc = "auto"
  /\ A!Pass
  /\ loc' = IF visiting' THEN loc ELSE "net"
  /\ UNCHANGED <<vars, timerVars, wakeVars, rerun>>

(* net_tick: a frame, or a periodic connection, that is of interest to a   *)
(* listener wakes its task; then net_tick returns.                         *)
NetTickWakes(t) ==
  /\ loc = "net"
  /\ NetWake(t)
  /\ woken' = woken \cup {t}
  /\ netWoken' = netWoken \cup {t}
  /\ UNCHANGED <<loc, timerVars, autoVars, passTime, rerun>>

NetTickReturns ==
  /\ loc = "net"
  /\ loc' = "run"
  /\ UNCHANGED <<vars, timerVars, autoVars, wakeVars, rerun>>

(* task_runing: one task is run, or there is none.                         *)
RunTask ==
  /\ loc = "run"
  /\ \E p \in Prio : Dispatch(p)
  /\ woken' = woken \ {cpu'}
  /\ netWoken' = netWoken \ {cpu'}
  /\ UNCHANGED <<loc, timerVars, autoVars, passTime, rerun>>

(* What the task has declared so far.                                      *)
Declared(t) == {x \in armed \cup declared : Owner[x] = t}

(* Mutant: the loop stops when the task that ran was the last one (0x10),  *)
(* not when there was none to run (0x00).                                  *)
ReturnStopsEarly ==
  /\ \/ Yield /\ UNCHANGED rerun
     \/ End /\ rerun' = IF Restart THEN rerun \cup Declared(cpu) ELSE rerun
  /\ loc' = IF \A p \in Prio : first'[p] = Null THEN AfterIdle ELSE Top
  /\ UNCHANGED <<timerVars, autoVars, wakeVars>>

(* pt returns; the loop goes round.                                        *)
Return ==
  /\ \/ Yield /\ UNCHANGED rerun
     \/ End /\ rerun' = IF Restart THEN rerun \cup Declared(cpu) ELSE rerun
  /\ loc' = Top
  /\ UNCHANGED <<timerVars, autoVars, wakeVars>>

Idle ==
  /\ loc = "run" /\ cpu = Null
  /\ \A p \in Prio : first[p] = Null
  /\ loc' = AfterIdle
  /\ UNCHANGED <<vars, timerVars, autoVars, wakeVars, rerun>>

(* deep_sleep returns after an interrupt.                                  *)
Awake ==
  /\ loc = "sleep"
  /\ loc' = "timer"
  /\ UNCHANGED <<vars, timerVars, autoVars, wakeVars, rerun>>

-----------------------------------------------------------------------------
(* What the running task does: messages, and the timers and autostrs that  *)
(* it declares.                                                            *)
TaskMessage ==
  /\ \/ \E t \in Task, d \in Data : Post(t, d)
     \/ \E s \in Source : Consume(s)
  /\ UNCHANGED <<loc, timerVars, autoVars, wakeVars, rerun>>

(* A timer_set or autostr_set is executed once in a pass of its task.      *)
MayDeclare(x) == x \in armed \cup declared => x \in rerun

TaskTimer ==
  /\ \E tm \in Timer :
       /\ Owner[tm] = cpu
       /\ \/ MayDeclare(tm) /\ T!Set(tm) /\ rerun' = rerun \ {tm}
          \/ (T!Reset(tm) \/ T!Disable(tm)) /\ UNCHANGED rerun
  /\ UNCHANGED <<vars, loc, autoVars, wakeVars>>

TaskAuto ==
  /\ \E a \in Autostr :
       /\ Owner[a] = cpu
       /\ \/ MayDeclare(a) /\ A!Declare(a) /\ rerun' = rerun \ {a}
          \/ (\E up \in BOOLEAN : A!Switch(a, up)) /\ UNCHANGED rerun
  /\ UNCHANGED <<vars, loc, timerVars, wakeVars>>

(* The clock interrupt falls anywhere.                                     *)
Clock == T!Tick /\ UNCHANGED <<vars, loc, autoVars, wakeVars, rerun>>

(* The steps the main loop takes by itself.                                *)
Loop ==
  \/ KernelBoot
  \/ TimerBegin \/ TimerFire \/ TimerSkip
  \/ AutoBegin \/ AutoActivate \/ AutoPass
  \/ NetTickReturns \/ RunTask \/ Return \/ Idle \/ Awake

KernelNext ==
  \/ Loop
  \/ \E t \in NetTask : NetTickWakes(t)
  \/ TaskMessage \/ TaskTimer \/ TaskAuto
  \/ Clock

KernelSpec == KernelInit /\ [][KernelNext]_kernelVars

(* The loop is one thread of straight code that always takes its next      *)
(* step, provided that a task returns (ipc.h:43-47) and net_tick does.     *)
KernelFairSpec ==
  KernelSpec /\ WF_kernelVars(Loop) /\ WF_kernelVars(Clock)

-----------------------------------------------------------------------------
(* Every variable stays in its type.                                       *)
KernelTypeOK ==
  /\ TypeOK /\ T!TypeOK /\ A!AutoTypeOK
  /\ loc \in {"boot", "timer", "auto", "net", "run", "sleep"}
  /\ woken \in SUBSET Task /\ netWoken \in SUBSET woken
  /\ passTime \in 0..time
  /\ rerun \in SUBSET (armed \cup declared)

(* Inside the loop the scheduler does nothing that its own specification   *)
(* does not allow: no wake-up falls into a running task, no task runs      *)
(* before the boot sequence is over.                                       *)
ImplementsScheduler == Spec

(* A task that a timer, an autostr or the network woke stays in its queue  *)
(* until it runs: whatever else is posted, run or returned meanwhile, no   *)
(* wake-up is lost.                                                        *)
NoWakeUpIsLost == \A t \in woken : status[t] = "READY"

(* The CPU sleeps only when nothing is left to do for a task: none is in a *)
(* queue and no autostr waits to be served (idos.cpp:171-176).             *)
SleepsOnlyWhenIdle ==
  loc = "sleep" => /\ \A t \in Task : status[t] \in {"YIELDED", "INACTIVE"}
                   /\ \A a \in Autostr : ~raised[a]

(* Between tasks the timers are checked (idos.cpp:161-164): when the next  *)
(* task is about to run, no timer is active that was due already when this *)
(* pass of the loop began.                                                 *)
TimersServedEachPass ==
  loc \in {"auto", "net", "run"} /\ cpu = Null
    => \A tm \in Timer : active[tm] => passTime < due[tm]

(* A task woken by the network runs before net_tick is called again, or    *)
(* the datagram in its listener may be overwritten (netstack.h:119-121).   *)
WokenRunsBeforeNextTick ==
  [][loc # "net" /\ loc' = "net" => netWoken = {}]_kernelVars

(* timer_exec returns to the main loop once it has gone through the list   *)
(* (timer.cpp:82), also when tasks end and are invoked from the top again. *)
TimerExecReturns == scanning ~> ~scanning

(* The loop takes the turns that UdpStack is written for, whatever timers, *)
(* autostrs and posts do besides (idos.cpp:133-145, 163-177).              *)
ML == INSTANCE MainLoop WITH
        ticking <- (loc = "net"), called <- netWoken,
        build <- (IF Board = "native" THEN "native" ELSE "board")
ImplementsMainLoop == ML!LSpec

(* A task woken by a timer, an autostr or the network gets the CPU.        *)
WokenRuns == \A t \in Task : t \in woken ~> cpu = t
=============================================================================
