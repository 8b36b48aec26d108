------------------------------ MODULE Packets ------------------------------
(***************************************************************************)
(* The arithmetic on packets (Checksum), for which Base stands in place of *)
(* the 256 values of a byte.  A packet and what goes before its data in    *)
(* the sum is shorter than 2^16 bytes, Base^2, as its length has 16 bits.  *)
(***************************************************************************)
EXTENDS Integers

CONSTANTS Base, MaxPayload, Echo
VARIABLES proto, head, payload, sum, original, verdict

sumVars == <<proto, head, payload, sum, original, verdict>>

Sums == INSTANCE Checksum

ASSUME SumsAssumption ==
  /\ Base \in Nat /\ Base > 1 /\ Echo \in 1..(Base - 1)
  /\ MaxPayload \in Nat /\ MaxPayload + 5 < Base * Base

\* The property, by the name of its module.
SumsAgree == Sums!SumsAgree
=============================================================================
