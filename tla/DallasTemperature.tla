-------------------------- MODULE DallasTemperature --------------------------
(***************************************************************************)
(* The driver of the DS18x20 thermometers (DallasTemperature.cpp): it      *)
(* keeps one resolution for the whole bus, from which it computes how long *)
(* to wait for a conversion, while every device has a resolution of its    *)
(* own, in its scratchpad and in its EEPROM.                               *)
(*                                                                         *)
(* A search of the bus (OneWire) is one step here and finds the devices in *)
(* the order of their addresses.  Temperatures, alarms and user data are   *)
(* left out, and a device that is on the bus answers without errors.       *)
(***************************************************************************)
EXTENDS Integers, Sequences, FiniteSetsExt

CONSTANTS
  Order,       \* every device, in the order of the search
  S20,         \* those of the family DS18S20, which always convert 12 bits
  Parasitic,   \* those that take their power from the data line
  AutoSave     \* autoSaveScratchPad

VARIABLES
  on,              \* the devices on the bus
  scratch,         \* scratch[d]: resolution in the scratchpad of d
  eeprom,          \* and in its EEPROM
  devices, bitResolution, parasite, checkForConversion,   \* of the driver
  steady,          \* history: since begin the bus has not changed, a recall
                   \* has changed no resolution, and none was asked of an
                   \* absent device when begin had found a single one
  late             \* history: the devices that were still converting when
                   \* the last requestTemperatures returned

dallasVars == <<on, scratch, eeprom, devices, bitResolution, parasite,
                checkForConversion, steady, late>>

Device == {Order[i] : i \in DOMAIN Order}
Resolution == 9..12
Disconnected == 0

(* The constructor: setOneWire.                                            *)
Init ==
  /\ on \in SUBSET Device
  /\ eeprom \in [Device -> {9, 12}] /\ scratch = eeprom
  /\ devices = 0 /\ bitResolution = 9 /\ parasite = FALSE
  /\ checkForConversion = TRUE
  /\ steady = FALSE /\ late = {}

\* A search comes by the devices of the bus in their order: how many of
\* them up to place k.
Depth(k) == Cardinality({j \in 1..k : Order[j] \in on})

\* What getAddress leaves in deviceAddress for indices 0 to n - 1: beyond
\* the last device it returns false and the address stays as it was.
Addressed(n) == {Order[k] : k \in {k \in DOMAIN Order : Order[k] \in on /\ Depth(k) <= n}}

(* getResolution(deviceAddress).                                           *)
ResolutionOf(d, pad) ==
  IF d \in S20 THEN 12 ELSE IF d \in on THEN pad[d] ELSE Disconnected

\* The greatest of r and the resolutions of the devices in ds.
Greatest(r, ds, pad) == Max({r} \cup {ResolutionOf(d, pad) : d \in ds})

(* readPowerSupply, of each device found.                                  *)
ReadPowerSupply == parasite \/ on \cap Parasitic # {}

(* begin: counts the devices; the global resolution only grows.            *)
Begin ==
  /\ devices' = Cardinality(on)
  /\ parasite' = ReadPowerSupply
  /\ bitResolution' = Greatest(bitResolution, on, scratch)
  /\ steady' = TRUE
  /\ UNCHANGED <<on, scratch, eeprom, checkForConversion, late>>

\* The configuration r is written into the devices ds that have one, and
\* writeScratchPad has each device save it.
Configured(ds, r) == [d \in Device |-> IF d \in ds \ S20 THEN r ELSE scratch[d]]
Saved(ds, r) ==
  [d \in Device |-> IF AutoSave /\ d \in ds \ S20 /\ scratch[d] # r THEN r ELSE eeprom[d]]

(* setResolution(newResolution).                                           *)
SetResolution(r) ==
  /\ bitResolution' = r
  /\ scratch' = Configured(Addressed(devices), r)
  /\ eeprom' = Saved(Addressed(devices), r)
  /\ UNCHANGED <<on, devices, parasite, checkForConversion, steady, late>>

(* Mutant: the other devices are not asked for theirs.                     *)
GlobalOwn(d, r, pad) == r

(* The global resolution after that of d was set to r.                     *)
Global(d, r, pad) ==
  IF devices > 1 THEN Greatest(r, Addressed(devices), pad) ELSE r

(* setResolution(deviceAddress, newResolution), of any address: of one    *)
(* that is not on the bus only the writing is skipped.                     *)
SetResolutionOf(d, r) ==
  /\ scratch' = Configured({d} \cap on, r) /\ eeprom' = Saved({d} \cap on, r)
  /\ bitResolution' = Global(d, r, scratch')
  /\ steady' = (steady /\ (d \in on \/ devices # 1))
  /\ UNCHANGED <<on, devices, parasite, checkForConversion, late>>

(* millisToWaitForConversion, which is also what a device takes for it.    *)
Millis(r) == CASE r = 9 -> 94 [] r = 10 -> 188 [] r = 11 -> 375 [] OTHER -> 750

(* requestTemperatures, with waitForConversion: every device on the bus    *)
(* converts, and the call returns when none of them pulls the line low any *)
(* more or, if they cannot or are not asked, after a fixed time.           *)
RequestTemperatures ==
  /\ late' = IF checkForConversion /\ ~parasite THEN {}
             ELSE {d \in on : Millis(ResolutionOf(d, scratch)) > Millis(bitResolution)}
  /\ UNCHANGED <<on, scratch, eeprom, devices, bitResolution, parasite,
                 checkForConversion, steady>>

(* setCheckForConversion.                                                  *)
SetCheck(flag) ==
  /\ checkForConversion # flag /\ checkForConversion' = flag
  /\ UNCHANGED <<on, scratch, eeprom, devices, bitResolution, parasite, steady, late>>

(* saveScratchPad and recallScratchPad of one device.                      *)
Save(d) ==
  /\ d \in on /\ eeprom' = [eeprom EXCEPT ![d] = scratch[d]]
  /\ UNCHANGED <<on, scratch, devices, bitResolution, parasite, checkForConversion,
                 steady, late>>
Recall(d) ==
  /\ d \in on /\ scratch' = [scratch EXCEPT ![d] = eeprom[d]]
  /\ steady' = (steady /\ scratch' = scratch)
  /\ UNCHANGED <<on, eeprom, devices, bitResolution, parasite, checkForConversion, late>>

(* A device leaves the bus, or joins it and comes up with its EEPROM.      *)
Unplug(d) ==
  /\ d \in on /\ on' = on \ {d} /\ steady' = FALSE
  /\ UNCHANGED <<scratch, eeprom, devices, bitResolution, parasite, checkForConversion, late>>
Plug(d) ==
  /\ d \notin on /\ on' = on \cup {d} /\ steady' = FALSE
  /\ scratch' = [scratch EXCEPT ![d] = eeprom[d]]
  /\ UNCHANGED <<eeprom, devices, bitResolution, parasite, checkForConversion, late>>

Next ==
  \/ Begin \/ RequestTemperatures
  \/ \E r \in {9, 12} : SetResolution(r) \/ \E d \in Device : SetResolutionOf(d, r)
  \/ \E flag \in BOOLEAN : SetCheck(flag)
  \/ \E d \in Device : Save(d) \/ Recall(d) \/ Unplug(d) \/ Plug(d)

Spec == Init /\ [][Next]_dallasVars

-----------------------------------------------------------------------------
(* Every variable stays in its type.                                       *)
TypeOK ==
  /\ on \subseteq Device /\ late \subseteq Device
  /\ scratch \in [Device -> Resolution] /\ eeprom \in [Device -> Resolution]
  /\ devices \in 0..Len(Order) /\ bitResolution \in Resolution
  /\ {parasite, checkForConversion, steady} \subseteq BOOLEAN

(* requestTemperatures returns when the conversion is ready                *)
(* (DallasTemperature.cpp:371): no device on the bus is still converting,  *)
(* in whatever order resolutions were set for all and for one, for devices *)
(* that are there and for others.  The exceptions are where the driver's   *)
(* resolution is too low and nothing raises it: for a DS18S20, which       *)
(* converts 12 bits whatever is set; after one was asked of an absent      *)
(* device and the single device on the bus was not asked for its own       *)
(* (317, 318); after a recall from the EEPROM; and after a change of the   *)
(* bus, until the next begin.                                              *)
AwaitsConversion ==
  [][steady /\ RequestTemperatures => late' \subseteq S20]_dallasVars
=============================================================================
