------------------------------- MODULE Timers -------------------------------
(***************************************************************************)
(* The software timers of idOS (os/sys/timer.cpp): a linked list of static *)
(* timer structures, scanned by timer_exec from the main loop.             *)
(*                                                                         *)
(* timer_exec is modelled one iteration of its do-while at a time, because *)
(* msec_now() is read anew in each and the clock interrupt may fall in     *)
(* between.  The wake-up of the owner (task_set_ready in ipc_msg_timer) is *)
(* the part of Fire that the module Kernel adds.                           *)
(*                                                                         *)
(* time_t is an unsigned integer of fixed width: the clock and the sums    *)
(* computed from it are taken modulo ClockMod, as in the code.             *)
(***************************************************************************)
EXTENDS Naturals, Sequences, FiniteSets, LinkedList

CONSTANTS
  Timer,      \* every static timer_st that timer_set declares
  Nil,        \* NULL
  Period,     \* Period[tm]: the msec given to timer_set
  ClockMod,   \* 2^w, w the width of time_t
  Horizon,    \* bound of the model: the clock stops there
  Restart     \* TRUE if a timer_set may be executed again, as it is when a
              \* task that has ended is posted to and starts from the top

ASSUME TimersAssumption ==
  /\ IsFiniteSet(Timer) /\ Nil \notin Timer
  /\ ClockMod \in Nat \ {0} /\ Horizon \in Nat
  /\ Period \in [Timer -> 0..(ClockMod - 1)]
  /\ Restart \in BOOLEAN

VARIABLES
  timer_list, timer_index,   \* the static pointers of timer.cpp
  tnext,                     \* timer_st.next
  active,                    \* timer_st.active
  msec_time,                 \* timer_st.msec_time
  avail,                     \* timer_st.msg.status = MSG_AVAILABLE
  scanning,                  \* inside the do-while of timer_exec
  armed,                     \* timers whose timer_set has been executed
  time,                      \* milliseconds since boot, not truncated
  due                        \* history: time + Period at the last (re)start

timerVars == <<timer_list, timer_index, tnext, active, msec_time, avail,
               scanning, armed, time, due>>
listVars == <<timer_list, timer_index, tnext>>

msec_now == time % ClockMod

Init ==
  /\ timer_list = Nil /\ timer_index = Nil
  /\ tnext = [tm \in Timer |-> Nil]
  /\ active = [tm \in Timer |-> FALSE]
  /\ msec_time = [tm \in Timer |-> 0]
  /\ avail = [tm \in Timer |-> FALSE]
  /\ scanning = FALSE
  /\ armed = {}
  /\ time = 0
  /\ due = [tm \in Timer |-> 0]

-----------------------------------------------------------------------------
(* The part timer_set_sys and timer_reset share: count from now.           *)
Count(tm) ==
  /\ active' = [active EXCEPT ![tm] = TRUE]
  /\ msec_time' = [msec_time EXCEPT ![tm] = (Period[tm] + msec_now) % ClockMod]
  /\ due' = [due EXCEPT ![tm] = Period[tm] + time]

(* Mutant: timer_index is not moved to the new timer.                      *)
SetKeepsIndex(tm) ==
  /\ ~scanning
  /\ tm \in armed => Restart
  /\ Count(tm)
  /\ timer_list' = HeadAfterAppend(timer_list, Nil, tm)
  /\ tnext' = NextAfterAppend(timer_list, timer_index, tnext, Nil, tm)
  /\ timer_index' = HeadAfterAppend(timer_index, Nil, tm)
  /\ armed' = armed \cup {tm}
  /\ UNCHANGED <<avail, scanning, time>>

(* timer_set_sys: count and append the structure to the list, behind       *)
(* timer_index, without looking whether it is there already.  The message  *)
(* of the structure is left as it is.                                      *)
Set(tm) ==
  /\ ~scanning
  /\ tm \in armed => Restart
  /\ Count(tm)
  /\ timer_list' = HeadAfterAppend(timer_list, Nil, tm)
  /\ tnext' = NextAfterAppend(timer_list, timer_index, tnext, Nil, tm)
  /\ timer_index' = tm
  /\ armed' = armed \cup {tm}
  /\ UNCHANGED <<avail, scanning, time>>

(* timer_reset.                                                            *)
Reset(tm) ==
  /\ ~scanning
  /\ tm \in armed
  /\ Count(tm)
  /\ avail' = [avail EXCEPT ![tm] = FALSE]
  /\ UNCHANGED <<listVars, scanning, armed, time>>

(* timer_disable.                                                          *)
Disable(tm) ==
  /\ ~scanning
  /\ tm \in armed
  /\ active' = [active EXCEPT ![tm] = FALSE]
  /\ avail' = [avail EXCEPT ![tm] = FALSE]
  /\ UNCHANGED <<listVars, msec_time, scanning, armed, time, due>>

(* timer_exec up to its loop; with an empty list it returns at once.       *)
StartScan ==
  /\ ~scanning
  /\ timer_list # Nil
  /\ timer_index' = timer_list
  /\ scanning' = TRUE
  /\ UNCHANGED <<timer_list, tnext, active, msec_time, avail, armed, time, due>>

(* Mutant: the comparison reversed.                                        *)
ExpiredReversed(tm) == active[tm] /\ msec_now <= msec_time[tm]

(* The test of timer_exec: active, and its moment has come.                *)
Expired(tm) == active[tm] /\ msec_time[tm] <= msec_now

(* The end of one iteration: on to the next timer, or out of the loop with *)
(* timer_index left on the last one.                                       *)
Step ==
  /\ IF tnext[timer_index] # Nil
       THEN timer_index' = tnext[timer_index] /\ UNCHANGED scanning
       ELSE scanning' = FALSE /\ UNCHANGED timer_index
  /\ UNCHANGED <<timer_list, tnext, msec_time, armed, time, due>>

(* An iteration that finds its timer expired: ipc_msg_timer, active down.  *)
Fire ==
  /\ scanning
  /\ Expired(timer_index)
  /\ avail' = [avail EXCEPT ![timer_index] = TRUE]
  /\ active' = [active EXCEPT ![timer_index] = FALSE]
  /\ Step

(* An iteration that does not.                                             *)
Skip ==
  /\ scanning
  /\ ~Expired(timer_index)
  /\ UNCHANGED <<avail, active>>
  /\ Step

(* The clock interrupt.                                                    *)
Tick ==
  /\ time < Horizon
  /\ time' = time + 1
  /\ UNCHANGED <<listVars, active, msec_time, avail, scanning, armed, due>>

Next ==
  \/ \E tm \in Timer : Set(tm) \/ Reset(tm) \/ Disable(tm)
  \/ StartScan \/ Fire \/ Skip \/ Tick

Spec == Init /\ [][Next]_timerVars

-----------------------------------------------------------------------------
(* Every variable stays in its type.                                       *)
TypeOK ==
  /\ timer_list \in Timer \cup {Nil} /\ timer_index \in Timer \cup {Nil}
  /\ tnext \in [Timer -> Timer \cup {Nil}]
  /\ active \in [Timer -> BOOLEAN] /\ avail \in [Timer -> BOOLEAN]
  /\ msec_time \in [Timer -> 0..(ClockMod - 1)]
  /\ scanning \in BOOLEAN /\ (scanning => timer_index \in Timer)
  /\ armed \in SUBSET Timer
  /\ time \in 0..Horizon
  /\ due \in [Timer -> Nat]

TimerSeqs == DistinctSeqs(Timer)

(* The list reaches every timer ever set, once, and ends.  Between scans   *)
(* timer_index is its last node (timer.cpp:24), which timer_set_sys relies *)
(* on to append; during a scan it is a node of the list.  A scan cut short *)
(* or a second timer_set would lose timers or close a cycle.               *)
TimerListShape ==
  \E q \in TimerSeqs :
    /\ Linked(q, timer_list, tnext, Nil)
    /\ Nodes(q) = armed
    /\ IF scanning THEN timer_index \in Nodes(q) ELSE EndsAt(q, timer_index)
    /\ \A tm \in Timer : active[tm] => tm \in armed

(* A timer fires within msec, not before (timer.h:38-41): the message of a *)
(* timer turns available only when its time has come on a clock that does  *)
(* not wrap.                                                               *)
NoEarlyFire ==
  [][\A tm \in Timer : ~avail[tm] /\ avail'[tm] => due[tm] <= time]_timerVars
=============================================================================
