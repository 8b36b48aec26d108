----------------------------- MODULE SleepClock -----------------------------
(***************************************************************************)
(* deep_sleep on the ATmega328P (sleep_arch.cpp).  In power-down the timer *)
(* that counts milliseconds stops; the watchdog, which runs all the time,  *)
(* ends the sleep, and sleep_arch puts timer0_millis right from the moment *)
(* the watchdog was last restarted and its period.                         *)
(*                                                                         *)
(* No other interrupt that the repository enables can end a power-down.    *)
(* The period that sleep_init_arch measures is taken for exact.            *)
(***************************************************************************)
EXTENDS Naturals

CONSTANTS
  Period,     \* the period of the watchdog in milliseconds, wdt_duration; > 0
  Horizon     \* bound of the model: the time it looks at

VARIABLES
  elapsed,         \* milliseconds since boot
  timer0_millis,   \* what msec_now returns
  left,            \* milliseconds until the watchdog interrupt
  wdt_restart,
  cpu              \* "on", "asleep", or "waking": behind sleep_cpu and
                   \* before the correction of the clock

clockVars == <<elapsed, timer0_millis, left, wdt_restart, cpu>>

(* The end of sleep_init_arch: the watchdog has just been restarted.       *)
Init ==
  /\ elapsed = 0 /\ timer0_millis = 0
  /\ left = Period /\ wdt_restart = 0
  /\ cpu = "on"

(* Mutant: the interrupt leaves wdt_restart alone.                         *)
WatchdogSilent(now) == left' = Period /\ UNCHANGED wdt_restart

(* ISR(WDT_vect).                                                          *)
Watchdog(now) == left' = Period /\ wdt_restart' = now

(* A millisecond passes: the timer counts it unless the CPU sleeps, and    *)
(* the watchdog may fall due.                                              *)
Tick ==
  LET counted == timer0_millis + (IF cpu = "asleep" THEN 0 ELSE 1)
  IN  /\ elapsed < Horizon
      /\ elapsed' = elapsed + 1 /\ timer0_millis' = counted
      /\ IF left = 1
           THEN Watchdog(counted) /\ cpu' = IF cpu = "asleep" THEN "waking" ELSE cpu
           ELSE left' = left - 1 /\ UNCHANGED <<wdt_restart, cpu>>

(* sleep_arch up to sleep_cpu.                                             *)
Sleep ==
  /\ cpu = "on" /\ cpu' = "asleep"
  /\ UNCHANGED <<elapsed, timer0_millis, left, wdt_restart>>

(* sleep_arch from sleep_cpu on: the clock is put right.                   *)
Correct ==
  /\ cpu = "waking" /\ cpu' = "on"
  /\ timer0_millis' = wdt_restart + Period
  /\ UNCHANGED <<elapsed, left, wdt_restart>>

Next == Tick \/ Sleep \/ Correct

Spec == Init /\ [][Next]_clockVars

-----------------------------------------------------------------------------
(* Every variable stays in its type.                                       *)
TypeOK ==
  /\ elapsed \in 0..Horizon /\ timer0_millis \in Nat /\ wdt_restart \in Nat
  /\ left \in 1..Period /\ cpu \in {"on", "asleep", "waking"}

(* msec_now never goes back (sleep_arch.cpp:154), as the comparisons of    *)
(* timer_exec need: the correction is taken from an older moment than the  *)
(* one at which the CPU went to sleep.                                     *)
ClockGoesForward == [][timer0_millis' >= timer0_millis]_clockVars

(* A sleep counts for what it lasted (sleep_arch.cpp:143-151): the clock   *)
(* gains wdt_duration less what the watchdog had run before it, so that    *)
(* it never shows a moment that has not come.                              *)
ClockNotAhead == timer0_millis <= elapsed
=============================================================================
