---------------------------- MODULE Thermometer ----------------------------
(***************************************************************************)
(* One DS18x20 thermometer seen through the driver (DallasTemperature.cpp, *)
(* OneWire::crc8): the nine bytes of its scratchpad, the checks every      *)
(* reading of them passes, the temperature computed from them, and the     *)
(* alarm limits, which share their two bytes with the user data.           *)
(*                                                                         *)
(* The line may fail in each reading.  What is written arrives as it was   *)
(* sent: nothing in the driver could tell otherwise.  Temperatures are in  *)
(* 1/16 of a degree here and in 1/128 in the driver; the conversions of    *)
(* the driver to degrees are left out.                                     *)
(***************************************************************************)
EXTENDS Integers, Sequences, Crc8

CONSTANTS
  Temperatures,   \* those the device meets, in 1/16 of a degree
  Limits,         \* what callers set as alarm limits, int8_t
  UserData,       \* and as user data, int16_t
  Lines           \* what a line may do to a reading: Clear, Gone, Shorted (held
                  \* at 0), or <<i, e>>: byte i has e added

VARIABLES
  family,         \* "S20" or "B20"
  measured,       \* the temperature of the last conversion
  th, tl, config, \* bytes of the scratchpad
  flag,           \* the alarm flag of the device
  fresh,          \* history: the limits are those of the last conversion
  said            \* the call that has just returned, and what

thermoVars == <<family, measured, th, tl, config, flag, fresh, said>>

Signed(n, width) == LET m == n % width IN IF m < width \div 2 THEN m ELSE m - width
DEVICE_DISCONNECTED_C == -127
DEVICE_DISCONNECTED_RAW == -7040
Zeros == [i \in 1..9 |-> 0]
Clear == <<0, 0>>
Gone == <<10, 0>>
Shorted == <<11, 0>>

(* What the device keeps: 1/16 of a degree, or for a DS18S20 half degrees  *)
(* with the counter of 1/16 behind a quarter of a degree.                  *)
Register == IF family = "S20" THEN 2 * ((measured + 4) \div 16) ELSE measured
Remain == IF family = "S20" THEN 16 - ((measured + 4) % 16) ELSE 12
Scratchpad ==
  LET first == <<Register % 256, (Register \div 256) % 256, th, tl, config, 255, Remain, 16>>
  IN  Append(first, DeviceCrc(first))

(* readScratchPad over a line.                                             *)
Read(line) ==
  CASE line = Clear -> Scratchpad
    [] line = Shorted -> Zeros
    [] OTHER -> [Scratchpad EXCEPT ![line[1]] = (@ + line[2]) % 256]

(* Mutant: without the look at isAllZeros.                                 *)
IsConnectedPlain(line) == line # Gone /\ crc8(Read(line), 8) = Read(line)[9]

(* isConnected: a presence pulse, bytes that are not all 0, and their CRC. *)
IsConnected(line) ==
  LET pad == Read(line)
  IN  line # Gone /\ pad # Zeros /\ crc8(pad, 8) = pad[9]

(* calculateTemperature, in 16 bits.                                       *)
CalculateTemperature(pad) ==
  LET fp == Signed(pad[2] * 2048 + pad[1] * 8, 65536)
  IN  IF family = "S20" /\ pad[8] # 0
        THEN Signed((fp \div 16) * 128 - 32 + ((pad[8] - pad[7]) * 128) \div pad[8], 65536)
        ELSE fp

Init ==
  /\ family \in {"S20", "B20"} /\ measured = 85 * 16
  /\ th = 75 /\ tl = 70 /\ config = 127
  /\ flag = FALSE /\ fresh = FALSE /\ said = <<"nothing">>

Idle == said = <<"nothing">>

(* A conversion; the device compares whole degrees with its limits.        *)
Convert(t) ==
  /\ Idle
  /\ measured' = t
  /\ flag' = (t \div 16 <= Signed(tl, 256) \/ t \div 16 >= Signed(th, 256))
  /\ fresh' = TRUE
  /\ UNCHANGED <<family, th, tl, config, said>>

Says(what) == said' = what /\ UNCHANGED <<family, measured, th, tl, config, flag, fresh>>

(* getTemp.                                                                *)
GetTemp(line) ==
  Idle /\ Says(<<"temp", line,
         IF IsConnected(line) THEN CalculateTemperature(Read(line)) ELSE DEVICE_DISCONNECTED_RAW>>)

(* hasAlarm of one device.                                                 *)
Alarmed(pad) ==
  LET t == Signed(CalculateTemperature(pad) \div 128, 256)
  IN  t <= Signed(pad[4], 256) \/ t >= Signed(pad[3], 256)
HasAlarm(line) ==
  Idle /\ Says(<<"alarm", line, IsConnected(line) /\ Alarmed(Read(line))>>)

(* writeScratchPad; a DS18S20 has no configuration register.               *)
Write(high, low, pad) ==
  /\ th' = high /\ tl' = low
  /\ config' = IF family = "S20" THEN config ELSE pad[5]
  /\ fresh' = (fresh /\ high = th /\ low = tl)

\* getHighAlarmTemp and getLowAlarmTemp: byte at of the scratchpad.
AlarmTemp(at, line) ==
  IF IsConnected(line) THEN Signed(Read(line)[at], 256) ELSE DEVICE_DISCONNECTED_C
InRange(c) == IF c > 125 THEN 125 ELSE IF c < -55 THEN -55 ELSE c

(* setHighAlarmTemp and setLowAlarmTemp: the scratchpad is read twice.     *)
SetAlarmTemp(at, c, first, second) ==
  LET pad == Read(second)
      byte == InRange(c) % 256
  IN  /\ Idle
      /\ IF AlarmTemp(at, first) # c /\ IsConnected(second)
           THEN Write(IF at = 3 THEN byte ELSE pad[3], IF at = 4 THEN byte ELSE pad[4], pad)
           ELSE UNCHANGED <<th, tl, config, fresh>>
      /\ said' = <<"set", at, c, first, second>>
      /\ UNCHANGED <<family, measured, flag>>

(* getUserData and setUserData.                                            *)
UserDataOf(line) ==
  IF IsConnected(line) THEN Signed(Read(line)[3] * 256 + Read(line)[4], 65536) ELSE 0
SetUserData(data, first, second) ==
  /\ Idle
  /\ IF UserDataOf(first) # data /\ IsConnected(second)
       THEN Write((data \div 256) % 256, data % 256, Read(second))
       ELSE UNCHANGED <<th, tl, config, fresh>>
  /\ said' = <<"data", data, first, second>>
  /\ UNCHANGED <<family, measured, flag>>

(* The caller goes on.                                                     *)
GoOn == ~Idle /\ Says(<<"nothing">>)

Next ==
  \/ GoOn
  \/ \E t \in Temperatures : Convert(t)
  \/ \E line \in Lines : GetTemp(line) \/ HasAlarm(line)
  \/ \E first, second \in Lines :
       \/ \E at \in {3, 4}, c \in Limits : SetAlarmTemp(at, c, first, second)
       \/ \E data \in UserData : SetUserData(data, first, second)

Spec == Init /\ [][Next]_thermoVars

-----------------------------------------------------------------------------
(* Every variable stays in its type.                                       *)
TypeOK ==
  /\ {th, tl, config} \subseteq Byte
  /\ {flag, fresh} \subseteq BOOLEAN /\ family \in {"S20", "B20"}
  /\ measured \in Temperatures \cup {85 * 16}

(* What getTemp returns is the temperature of the device or says that the  *)
(* device could not be read (DallasTemperature.cpp:649): a reading that    *)
(* the line has damaged is never taken for a temperature, and of both      *)
(* families a good one is exact, below zero too.  And hasAlarm says what   *)
(* the alarm search would (967): of a DS18B20 whose limits are those of    *)
(* its last conversion, the device raises the flag exactly when hasAlarm   *)
(* says so.                                                                *)
ReadingIsTrue ==
  /\ said[1] = "temp" =>
       said[3] = IF said[2] = Clear THEN 8 * measured ELSE DEVICE_DISCONNECTED_RAW
  /\ said[1] = "alarm" /\ said[2] = Clear /\ fresh /\ family = "B20" => said[3] = flag

(* A limit is set as the caller asked, within the range of the device, or  *)
(* not at all (DallasTemperature.cpp:822), and user data as a whole or not *)
(* at all.  Whatever the line did to either reading, the other limit and   *)
(* the resolution are kept, and a second reading that is no good changes   *)
(* nothing: it would be written back.  With two good readings the device   *)
(* ends up with what was asked for.                                        *)
SettingsSurvive ==
  [][/\ config' = config
     /\ said'[1] = "set" =>
          LET kept == IF said'[2] = 3 THEN tl' = tl ELSE th' = th
              old == IF said'[2] = 3 THEN th ELSE tl
              byte == IF said'[2] = 3 THEN th' ELSE tl'
              asked == Signed(byte, 256) = InRange(said'[3])
          IN  /\ kept /\ (asked \/ byte = old)
              /\ said'[5] # Clear => byte = old
              /\ said'[4] = Clear /\ said'[5] = Clear => asked \/ Signed(byte, 256) = said'[3]
     /\ said'[1] = "data" =>
          LET same == th' = th /\ tl' = tl
              written == Signed(th' * 256 + tl', 65536) = said'[2]
          IN  /\ written \/ same
              /\ said'[4] # Clear => same
              /\ said'[3] = Clear /\ said'[4] = Clear => written]_thermoVars
=============================================================================
