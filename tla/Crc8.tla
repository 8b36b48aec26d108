-------------------------------- MODULE Crc8 --------------------------------
(***************************************************************************)
(* The CRC of the 1-Wire bus, as the driver computes it with two tables    *)
(* (OneWire::crc8) and as the devices do, bit by bit.                      *)
(***************************************************************************)
EXTENDS Integers

Byte == 0..255

\* The bit of n that weighs w, and the exclusive or of two bytes.
Bit(n, w) == (n \div w) % 2
Xor4(a, b) == 8 * ((Bit(a, 8) + Bit(b, 8)) % 2) + 4 * ((Bit(a, 4) + Bit(b, 4)) % 2)
              + 2 * ((Bit(a, 2) + Bit(b, 2)) % 2) + ((Bit(a, 1) + Bit(b, 1)) % 2)
Xor(a, b) == 16 * Xor4(a \div 16, b \div 16) + Xor4(a % 16, b % 16)

(* crc8 of the driver, with two tables of 16 entries.                      *)
dscrc2x16_table ==
  << 0, 94, 188, 226, 97, 63, 221, 131, 194, 156, 126, 32, 163, 253, 31, 65,
     0, 157, 35, 190, 70, 219, 101, 248, 140, 17, 175, 50, 202, 87, 233, 116 >>
Looked == [c \in Byte |-> Xor(dscrc2x16_table[1 + (c % 16)], dscrc2x16_table[17 + (c \div 16)])]
crc8(pad, len) ==
  LET crc[i \in 0..len] == IF i = 0 THEN 0 ELSE Looked[Xor(pad[i], crc[i - 1])]
  IN  crc[len]

(* The same bit by bit, which is how the device computes it.               *)
Shift(c) == IF c % 2 = 1 THEN Xor(c \div 2, 140) ELSE c \div 2
Shifted == [c \in Byte |-> Shift(Shift(Shift(Shift(Shift(Shift(Shift(Shift(c))))))))]
DeviceCrc(pad) ==
  LET crc[i \in 0..8] == IF i = 0 THEN 0 ELSE Shifted[Xor(pad[i], crc[i - 1])]
  IN  crc[8]
=============================================================================
