------------------------------ MODULE Devices ------------------------------
(***************************************************************************)
(* What the board has around the processor: the clock over a sleep         *)
(* (SleepClock), the searches of the 1-Wire bus (OneWire), the driver of   *)
(* its thermometers (DallasTemperature), the data of one of them           *)
(* (Thermometer) and the driver of the ultrasonic sensors (NewPing).  They *)
(* share no state.                                                         *)
(***************************************************************************)
EXTENDS Integers, Sequences

CONSTANTS Period, Horizon
CONSTANTS Bits, FamilyBits, Address
CONSTANTS Order, S20, Parasitic, AutoSave
CONSTANTS Temperatures, Limits, UserData, Lines
CONSTANTS EchoTimes, SensorDelay, MedianDelay, Iterations, End

VARIABLES elapsed, timer0_millis, left, wdt_restart, cpu
VARIABLES bus, ROM_NO, LastDiscrepancy, LastDeviceFlag,
  alarmSearchAddress, alarmSearchJunction, alarmSearchExhausted, found, twice, over, steady
VARIABLES plugged, scratch, eeprom, devices, bitResolution, parasite, checkForConversion,
  still, late
VARIABLES family, measured, th, tl, config, flag, fresh, said
VARIABLES micros, line, sensor, polled, pc, call, maxEchoTime, max_time, timer,
  uS, asked, sorted, resume, result, rose, high, echoes

sleepVars == <<elapsed, timer0_millis, left, wdt_restart, cpu>>
searchVars == <<bus, ROM_NO, LastDiscrepancy, LastDeviceFlag, alarmSearchAddress,
  alarmSearchJunction, alarmSearchExhausted, found, twice, over, steady>>
dallasVars == <<plugged, scratch, eeprom, devices, bitResolution, parasite,
  checkForConversion, still, late>>
thermoVars == <<family, measured, th, tl, config, flag, fresh, said>>
sonarVars == <<micros, line, sensor, polled, pc, call, maxEchoTime, max_time, timer,
  uS, asked, sorted, resume, result, rose, high, echoes>>

Clock == INSTANCE SleepClock
Bus == INSTANCE OneWire
Dallas == INSTANCE DallasTemperature WITH on <- plugged, steady <- still
Thermo == INSTANCE Thermometer
Sonar == INSTANCE NewPing WITH it <- asked, i <- sorted, next <- resume

\* What a DS18x20 measures, in 1/16 of a degree, and the types of the calls.
Measurable == -880..2000
Int8 == -128..127
Int16 == -32768..32767

(* A family code is never 0, and no two devices have the same address; a   *)
(* damaged reading has one byte changed; callers of ping_median ask for    *)
(* one ping at least.                                                      *)
ASSUME ClockAssumption == Period \in Nat \ {0} /\ Horizon \in Nat
ASSUME WireAssumption ==
  /\ Bits \in Nat /\ FamilyBits \in 0..Bits /\ Address \subseteq [1..Bits -> {0, 1}]
  /\ \A d \in Address : \E i \in 1..FamilyBits : d[i] = 1
ASSUME DallasAssumption ==
  /\ Len(Order) \in Nat /\ DOMAIN Order = 1..Len(Order)
  /\ \A i, j \in DOMAIN Order : Order[i] = Order[j] => i = j
ASSUME ThermoAssumption ==
  Temperatures \subseteq Measurable /\ Limits \subseteq Int8 /\ UserData \subseteq Int16
ASSUME LinesAssumption ==
  Lines \subseteq {Thermo!Clear, Thermo!Gone, Thermo!Shorted} \cup ((1..9) \X (1..255))
ASSUME SonarAssumption ==
  /\ EchoTimes \subseteq Nat /\ Iterations \subseteq Nat \ {0}
  /\ {SensorDelay, MedianDelay, End} \subseteq Nat

\* The properties, by the names of their modules.
ClockGoesForward == Clock!ClockGoesForward
SearchFindsEach == Bus!SearchFindsEach
AwaitsConversion == Dallas!AwaitsConversion
ReadingIsTrue == Thermo!ReadingIsTrue
SettingsSurvive == Thermo!SettingsSurvive
EchoIsTrue == Sonar!EchoIsTrue
MedianIsMedian == Sonar!MedianIsMedian
=============================================================================
