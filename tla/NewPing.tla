------------------------------ MODULE NewPing ------------------------------
(***************************************************************************)
(* The driver of the ultrasonic sensors (NewPing.cpp).  A ping triggers    *)
(* the sensor and waits, busy, for its echo line to rise and to fall; the  *)
(* time it was high is the distance.  ping_median takes the median of      *)
(* several pings, and ping_timer leaves the second wait to an interrupt.   *)
(*                                                                         *)
(* The clock counts in the steps at which the line is looked at, so that   *)
(* the overheads the code subtracts are 0, and does not wrap.  Calls while *)
(* the timer of ping_timer runs, and the other timers, are left out.       *)
(***************************************************************************)
EXTENDS Integers, Sequences, FiniteSets

CONSTANTS
  EchoTimes,     \* _maxEchoTime for the distances callers give
  SensorDelay,   \* MAX_SENSOR_DELAY
  MedianDelay,   \* PING_MEDIAN_DELAY
  Iterations,    \* how many pings callers of ping_median ask for
  End            \* bound of the model: the time it looks at

VARIABLES
  micros, line, sensor,          \* the clock, the echo line, and the sensor:
                                 \* "quiet", "triggered" or "sounding"
  polled,                        \* the line was looked at since it last moved
  pc, call,                      \* where the CPU is, in which call
  maxEchoTime, max_time, timer,  \* of the driver; timer: its interrupt is on
  uS, it, i, next,               \* of ping_median; next: when it goes on
  result,                        \* what the last call returned, or ping_result
  rose, high,                    \* history: when the line rose, and how long
                                 \* it was high
  echoes                         \* history: the echoes of this ping_median

sonarVars == <<micros, line, sensor, polled, pc, call, maxEchoTime, max_time, timer,
               uS, it, i, next, result, rose, high, echoes>>
medianVars == <<call, uS, it, next, maxEchoTime, echoes>>
outside == <<micros, line, sensor, rose, high>>

NO_ECHO == 0
Nothing == -1
Undefined == -2

Init ==
  /\ micros = 0 /\ line = FALSE /\ sensor = "quiet" /\ polled = FALSE
  /\ pc = "idle" /\ call = "none"
  /\ maxEchoTime \in EchoTimes /\ max_time = 0 /\ timer = FALSE
  /\ uS = <<>> /\ it = 0 /\ i = 0 /\ next = 0
  /\ result = Nothing /\ rose = 0 /\ high = 0 /\ echoes = <<>>

(* Time passes and the sensor may raise or lower its line, but not before  *)
(* the driver has looked at it.  A sensor that was triggered may stay mute.*)
Tick ==
  /\ polled /\ micros < End
  /\ micros' = micros + 1 /\ polled' = FALSE
  /\ \/ UNCHANGED <<line, sensor, rose, high>>
     \/ /\ sensor = "triggered" /\ sensor' = "sounding"
        /\ line' = TRUE /\ rose' = micros' /\ UNCHANGED high
     \/ /\ sensor = "sounding" /\ sensor' = "quiet"
        /\ line' = FALSE /\ high' = micros' - rose /\ UNCHANGED rose
  /\ UNCHANGED <<pc, call, maxEchoTime, max_time, timer, uS, it, i, next, result,
                 echoes>>

(* Mutant: the sort stops one element early.                               *)
PlaceShort(last) ==
  IF i = 0 THEN 0
  ELSE CHOOSE j \in 1..i :
         /\ \A k \in j..(i - 1) : uS[k + 1] < last
         /\ j = 1 \/ uS[j] >= last

(* The place of an echo in uS, which is sorted downwards.                  *)
Place(last) ==
  CHOOSE j \in 0..i :
    /\ \A k \in j..(i - 1) : uS[k + 1] < last
    /\ j = 0 \/ uS[j] >= last

TimedOut == micros > max_time

(* A ping returns last; ping_timer returns nothing.  In ping_median an    *)
(* echo is sorted in and a ping without one is not counted; then it waits, *)
(* or returns the middle one.                                              *)
Return(last) ==
  IF call # "median"
    THEN /\ pc' = "idle" /\ result' = IF call = "timer" THEN result ELSE last
         /\ UNCHANGED <<medianVars, i>>
    ELSE /\ IF last # NO_ECHO
              THEN /\ LET j == Place(last)
                      IN  uS' = [n \in DOMAIN uS |->
                            IF n = j + 1 THEN last
                            ELSE IF n > j + 1 /\ n <= i + 1 THEN uS[n - 1] ELSE uS[n]]
                   /\ i' = i + 1 /\ it' = it
              ELSE i' = i /\ it' = it - 1 /\ uS' = uS
         /\ echoes' = IF last # NO_ECHO THEN Append(echoes, last) ELSE echoes
         /\ IF i' < it' THEN pc' = "delay" /\ UNCHANGED result
            ELSE pc' = "idle" /\ result' = uS'[(it' \div 2) + 1]
         /\ UNCHANGED <<call, next, maxEchoTime>>

(* Mutant: a ping begins although the last one has not finished.           *)
TriggerAnyway ==
  /\ sensor' = IF sensor = "quiet" THEN "triggered" ELSE sensor
  /\ max_time' = micros + maxEchoTime' + SensorDelay
  /\ pc' = "start" /\ UNCHANGED result

(* ping_trigger up to its wait: the sensor is triggered, unless the line   *)
(* is still high from the ping before.                                     *)
Trigger ==
  /\ sensor' = IF sensor = "quiet" THEN "triggered" ELSE sensor
  /\ IF line
       THEN UNCHANGED max_time /\ pc' = "failed"
       ELSE max_time' = micros + maxEchoTime' + SensorDelay /\ pc' = "start"
  /\ UNCHANGED result

(* A call of ping, ping_median (with n pings) or ping_timer, which may set *)
(* a new maximum distance.                                                 *)
Call(what, n, echo) ==
  /\ ~polled /\ pc = "idle" /\ ~timer
  /\ call' = what /\ maxEchoTime' = echo
  /\ uS' = [k \in 1..n |-> IF k = 1 THEN NO_ECHO ELSE Undefined]
  /\ it' = n /\ i' = 0 /\ next' = micros + MedianDelay /\ echoes' = <<>>
  /\ Trigger
  /\ UNCHANGED <<micros, line, timer, rose, high, polled>>

(* The next ping of ping_median.                                           *)
Again ==
  /\ ~polled /\ pc = "delay" /\ micros >= next
  /\ next' = micros + MedianDelay
  /\ maxEchoTime' = maxEchoTime /\ Trigger
  /\ UNCHANGED <<micros, line, timer, rose, high, polled, call, uS, it, i, echoes>>

Refused ==
  /\ pc = "failed" /\ Return(NO_ECHO)
  /\ polled' = TRUE /\ UNCHANGED <<outside, max_time, timer>>

(* The waits: for the line to rise, in ping_trigger, and to fall, in ping; *)
(* ping_timer starts its interrupt instead of the second one.              *)
AwaitStart ==
  /\ ~polled /\ pc = "start" /\ polled' = TRUE
  /\ IF line
       THEN /\ max_time' = micros + maxEchoTime
            /\ timer' = (call = "timer")
            /\ pc' = IF call = "timer" THEN "idle" ELSE "echo"
            /\ UNCHANGED <<medianVars, i, result>>
       ELSE /\ UNCHANGED <<max_time, timer>>
            /\ IF TimedOut THEN Return(NO_ECHO)
               ELSE UNCHANGED <<pc, medianVars, i, result>>
  /\ UNCHANGED <<outside>>
AwaitEcho ==
  /\ ~polled /\ pc = "echo" /\ polled' = TRUE
  /\ IF ~line THEN Return(micros - (max_time - maxEchoTime))
     ELSE IF TimedOut THEN Return(NO_ECHO)
     ELSE UNCHANGED <<pc, medianVars, i, result>>
  /\ UNCHANGED <<outside, max_time, timer>>

(* check_timer, in the interrupt; here the time is looked at first.        *)
check_timer ==
  /\ ~polled /\ timer /\ polled' = TRUE
  /\ timer' = (~TimedOut /\ line)
  /\ result' = IF ~TimedOut /\ ~line
               THEN micros - (max_time - maxEchoTime) ELSE result
  /\ UNCHANGED <<outside, max_time, pc, i, medianVars>>

(* timer_stop, called by the user.                                         *)
timer_stop ==
  /\ ~polled /\ timer /\ timer' = FALSE
  /\ UNCHANGED <<outside, polled, pc, i, medianVars, max_time, result>>

(* The CPU does something else.                                            *)
Wait ==
  /\ ~polled /\ ~timer /\ (pc = "idle" \/ (pc = "delay" /\ micros < next))
  /\ polled' = TRUE
  /\ UNCHANGED <<outside, pc, i, medianVars, max_time, timer, result>>

Next ==
  \/ Tick \/ Again \/ Refused \/ AwaitStart \/ AwaitEcho \/ check_timer \/ timer_stop \/ Wait
  \/ \E echo \in EchoTimes :
       \/ \E what \in {"ping", "timer"} : Call(what, 1, echo)
       \/ \E n \in Iterations : Call("median", n, echo)

Spec == Init /\ [][Next]_sonarVars

-----------------------------------------------------------------------------
(* Every variable stays in its type.                                       *)
TypeOK ==
  /\ micros \in 0..End /\ {line, polled, timer} \subseteq BOOLEAN
  /\ sensor \in {"quiet", "triggered", "sounding"}
  /\ pc \in {"idle", "start", "failed", "echo", "delay"}
  /\ call \in {"none", "ping", "median", "timer"}

(* An echo is what the sensor meant (NewPing.cpp:70, 220): a ping that is  *)
(* answered returns exactly how long the line was high, also when the last *)
(* one was given up while the sensor was still sounding, or started late.  *)
EchoIsTrue ==
  [][/\ AwaitEcho /\ call = "ping" /\ pc' = "idle" =>
          result' = IF line THEN NO_ECHO ELSE high
     /\ check_timer /\ ~timer' /\ ~line /\ micros <= max_time => result' = high]_sonarVars

(* ping_median returns the median of the echoes it got (NewPing.h:53): one *)
(* for which no more than half of them are greater and at least half of    *)
(* them not, or NO_ECHO if there were none, however many pings failed and  *)
(* at which places.                                                        *)
MedianIsMedian ==
  [][call = "median" /\ pc # "idle" /\ pc' = "idle" =>
       LET n == Len(echoes')
           above(r) == Cardinality({k \in 1..n : echoes'[k] > r})
           least(r) == Cardinality({k \in 1..n : echoes'[k] >= r})
       IN  IF n = 0 THEN result' = NO_ECHO
           ELSE above(result') <= n \div 2 /\ least(result') > n \div 2]_sonarVars
=============================================================================
