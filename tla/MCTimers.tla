------------------------------ MODULE MCTimers ------------------------------
(* Finite instances of Timers.                                             *)
EXTENDS Timers
CONSTANTS t1, t2, t3
\* t1 is set with msec = 0, which timer_set allows.
MCPeriod ==
  [tm \in Timer |-> CASE tm = t1 -> 0 [] tm = t2 -> 1 [] tm = t3 -> 2]
=============================================================================
