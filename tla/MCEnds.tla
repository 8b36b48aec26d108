------------------------------- MODULE MCEnds -------------------------------
(***************************************************************************)
(* Finite instances of the parts at which the system meets the world, and  *)
(* which share nothing with each other: UDP, the arithmetic on packets,    *)
(* the clock over a sleep, the searches of the 1-Wire bus, the             *)
(* thermometers, the data of one thermometer and the ultrasonic sensors.   *)
(* In a behaviour one of them runs, the others stay as they began.         *)
(***************************************************************************)
EXTENDS UdpStack, Devices, Packets, Sequences
CONSTANTS srv, cli, engine, app
CONSTANTS d1, d2, d3
VARIABLES part

\* The CoAP engine owns both listeners: srv answers, app also asks from cli.
MCTaskOf == [l \in Listener |-> engine]
MCPortOf == [l \in Listener |-> IF l = srv THEN 1 ELSE 2]
\* Families that agree and differ, and junctions at every bit but one.
MCAddress == {<<1, 0, 0, 0>>, <<1, 0, 1, 0>>, <<0, 1, 0, 1>>, <<1, 1, 0, 1>>, <<1, 0, 0, 1>>}
MCOrder == <<d1, d2, d3>>
\* The ends of the range, both sides of 0, and more than a limit can be.
MCTemperatures == {-880, -17, 0, 401, 2000}
MCLimits == {-127, 25, 126}
MCUserData == {-2, 6401}
\* Clear, Gone, Shorted, and damage to the first and the last byte.
MCLines == {<<0, 0>>, <<10, 0>>, <<11, 0>>, <<1, 1>>, <<9, 255>>}

MCInit ==
  /\ part \in {"udp", "sleep", "search", "dallas", "thermometer", "sonar", "sums"}
  /\ (part = "udp" \/ build = "native") /\ Init
  /\ Clock!Init
  /\ (part = "search" \/ bus = {}) /\ Bus!Init
  /\ (part = "dallas" \/ (plugged = {} /\ eeprom = [d \in {d1, d2, d3} |-> 9])) /\ Dallas!Init
  /\ (part = "thermometer" \/ family = "B20") /\ Thermo!Init
  /\ (part = "sonar" \/ maxEchoTime = CHOOSE e \in EchoTimes : TRUE) /\ Sonar!Init
  /\ \/ part = "sums" /\ Sums!Init
     \/ /\ part # "sums" /\ proto = "seq" /\ head = <<0, 0, 0, 0>> /\ sum = 0
        /\ Sums!Init

UdpStep ==
  /\ part = "udp" /\ Next
  /\ UNCHANGED <<part, sleepVars, searchVars, dallasVars, thermoVars, sonarVars, sumVars>>
SleepStep ==
  /\ part = "sleep" /\ Clock!Next
  /\ UNCHANGED <<part, udpVars, searchVars, dallasVars, thermoVars, sonarVars, sumVars>>
SearchStep ==
  /\ part = "search" /\ Bus!Next
  /\ UNCHANGED <<part, udpVars, sleepVars, dallasVars, thermoVars, sonarVars, sumVars>>
DallasStep ==
  /\ part = "dallas" /\ Dallas!Next
  /\ UNCHANGED <<part, udpVars, sleepVars, searchVars, thermoVars, sonarVars, sumVars>>
ThermoStep ==
  /\ part = "thermometer" /\ Thermo!Next
  /\ UNCHANGED <<part, udpVars, sleepVars, searchVars, dallasVars, sonarVars, sumVars>>
SonarStep ==
  /\ part = "sonar" /\ Sonar!Next
  /\ UNCHANGED <<part, udpVars, sleepVars, searchVars, dallasVars, thermoVars, sumVars>>
SumsStep ==
  /\ part = "sums" /\ Sums!Next
  /\ UNCHANGED <<part, udpVars, sleepVars, searchVars, dallasVars, thermoVars, sonarVars>>

MCNext ==
  \/ UdpStep \/ SleepStep \/ SearchStep \/ DallasStep \/ ThermoStep \/ SonarStep \/ SumsStep

\* UDP with the fairness of its own module; the others need none.
MCSpec ==
  /\ MCInit
  /\ [][MCNext]_<<part, udpVars, sleepVars, searchVars, dallasVars, thermoVars, sonarVars, sumVars>>
  /\ WF_udpVars(part = "udp" /\ EndTask)
  /\ WF_udpVars(part = "udp" /\ NetTick /\ where # "tasks")
  /\ SF_udpVars(part = "udp" /\ build = "board" /\ Tick)

EndsTypeOK ==
  /\ TypeOK /\ Clock!TypeOK /\ Bus!TypeOK /\ Dallas!TypeOK /\ Thermo!TypeOK /\ Sonar!TypeOK
=============================================================================
