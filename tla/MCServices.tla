----------------------------- MODULE MCServices -----------------------------
(***************************************************************************)
(* Finite instances of five services that share nothing with each other:   *)
(* timers, automatisms, the ring and the registers of the Ethernet chip,   *)
(* and the link layer.                                                     *)
(* In a behaviour one of them runs, the others stay as they began.         *)
(***************************************************************************)
EXTENDS Timers, AutoStr, Ethernet
CONSTANTS t1, t2, t3
VARIABLES part

\* t1 is set with msec = 0, which timer_set allows.
MCPeriod ==
  [tm \in Timer |-> CASE tm = t1 -> 0 [] tm = t2 -> 1 [] tm = t3 -> 2]

LanStill ==
  /\ lan = Host /\ claimed = [h \in Host |-> None] /\ arp_table = [s \in 0..(Slots - 1) |-> Lan!Unused]
  /\ owed = {} /\ wire = Lan!Silence

MCInit ==
  /\ part \in {"timers", "automatisms", "ring", "registers", "link"}
  /\ Init /\ AutoInit /\ Ring!Init /\ Regs!Init
  /\ IF part = "link" THEN Lan!Init ELSE LanStill

TimersStep ==
  part = "timers" /\ Next /\ UNCHANGED <<part, autoVars, ringVars, regVars, lanVars>>
AutoStrStep ==
  part = "automatisms" /\ AutoNext /\ UNCHANGED <<part, timerVars, ringVars, regVars, lanVars>>
RingStep ==
  part = "ring" /\ Ring!Next /\ UNCHANGED <<part, timerVars, autoVars, regVars, lanVars>>
RegistersStep ==
  part = "registers" /\ Regs!Next /\ UNCHANGED <<part, timerVars, autoVars, ringVars, lanVars>>
LinkStep ==
  part = "link" /\ Lan!Next /\ UNCHANGED <<part, timerVars, autoVars, ringVars, regVars>>

MCNext == TimersStep \/ AutoStrStep \/ RingStep \/ RegistersStep \/ LinkStep

mcVars == <<part, timerVars, autoVars, ringVars, regVars, lanVars>>

\* The ring and the link layer with the fairness of their own modules.
MCSpec ==
  /\ MCInit /\ [][MCNext]_mcVars
  /\ WF_ringVars(part = "ring" /\ Ring!Poll)
  /\ \A h \in Host :
       /\ WF_lanVars(part = "link" /\ Lan!Depart(h))
       /\ WF_lanVars(part = "link" /\ Lan!Asks(h))
  /\ SF_lanVars(part = "link" /\ Lan!RouterAnswers)

ServicesTypeOK == TypeOK /\ AutoTypeOK /\ Ring!TypeOK /\ Regs!TypeOK /\ Lan!TypeOK
=============================================================================
