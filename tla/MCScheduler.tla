---------------------------- MODULE MCScheduler ----------------------------
(* Finite instances of Scheduler.                                          *)
EXTENDS Scheduler, TLC

CONSTANTS p1, p2, n1, n2

\* n1 is the CoAP engine, started by idos_init and listed again in the
\* auto-start array, which also starts a preferent task.
MCSysStart == <<n1>>
MCAutoStart == <<p1, n1, n2>>
=============================================================================
