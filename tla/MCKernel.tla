------------------------------ MODULE MCKernel ------------------------------
(* Finite instances of Kernel.                                             *)
EXTENDS Kernel

CONSTANTS srv, app, tm1, tm2

\* srv stands for the CoAP engine: started by idos_init, woken by the
\* network and by the application.  app declares tm1 and the autostr, srv
\* declares tm2, a timer with msec = 0.
MCSysStart == <<srv>>
MCAutoStart == <<app>>
MCPeriod == [tm \in Timer |-> IF tm = tm2 THEN 0 ELSE 1]
MCOwner == [x \in Timer \cup Autostr |-> IF x = tm2 THEN srv ELSE app]
=============================================================================
