------------------------------ MODULE MainLoop ------------------------------
(***************************************************************************)
(* What the network relies on of the main loop (idos.cpp): net_tick and    *)
(* the tasks take turns on one thread, and in the native build every task  *)
(* that net_tick has called runs before net_tick is called again           *)
(* (netstack.h:119-121).                                                   *)
(***************************************************************************)
CONSTANTS Task,     \* the tasks
          Null      \* no task

VARIABLES cpu,      \* the task that runs, or Null
          ticking,  \* whether net_tick runs
          called,   \* the tasks net_tick has called that have not run since
          build     \* "native" or "board": whose loop it is

turnVars == <<cpu, ticking, called, build>>

LInit ==
  /\ cpu = Null /\ ~ticking /\ called = {}
  /\ build \in {"native", "board"}

(* A task runs and returns.                                                *)
Run(t) ==
  /\ cpu = Null /\ ~ticking
  /\ cpu' = t /\ called' = called \ {t}
  /\ UNCHANGED <<ticking, build>>

Return ==
  /\ cpu # Null /\ cpu' = Null
  /\ UNCHANGED <<ticking, called, build>>

(* net_tick is called, calls a task, perhaps as the last thing it does,    *)
(* and returns.                                                            *)
Tick ==
  /\ cpu = Null /\ ~ticking
  /\ build = "native" => called = {}
  /\ ticking' = TRUE
  /\ UNCHANGED <<cpu, called, build>>

Call(t) ==
  /\ cpu = Null /\ ticking
  /\ ticking' \in BOOLEAN /\ called' = called \cup {t}
  /\ UNCHANGED <<cpu, build>>

Leave ==
  /\ ticking /\ ticking' = FALSE
  /\ UNCHANGED <<cpu, called, build>>

LNext == (\E t \in Task : Run(t) \/ Call(t)) \/ Return \/ Tick \/ Leave

LSpec == LInit /\ [][LNext]_turnVars
=============================================================================
