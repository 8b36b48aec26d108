------------------------------ MODULE Checksum ------------------------------
(***************************************************************************)
(* The arithmetic of the uIP stack on bytes and 16-bit words: the sums of  *)
(* netstack.cpp over IP, UDP and TCP, the checksum of a ping's answer that *)
(* uip.c gets from the ping's, and the 32-bit addition of sequence numbers.*)
(* Bytes are digits to Base, 256 in the code, and words are taken modulo   *)
(* Base^2, so that every carry happens with short packets.  The other end  *)
(* of a packet computes the sum as RFC 1071 defines it (TrueSum).          *)
(***************************************************************************)
EXTENDS Naturals, Sequences

CONSTANTS
  Base,        \* 256 in the code
  MaxPayload,  \* bound of the model: bytes behind the header
  Echo         \* ICMP_ECHO, 8 in the code

VARIABLES
  proto,       \* what is summed: "ip", "udp", "tcp", "icmp", or "seq",
               \* a sequence number to which a length is added
  head,        \* the header without its checksum, or the number
  payload,
  sum,         \* the checksum field of the packet, or the length
  original,    \* history: what the packet was before it was damaged
  verdict      \* what the receiver of the packet makes of it, if it has it

sumVars == <<proto, head, payload, sum, original, verdict>>

Byte == 0..(Base - 1)
Words == Base * Base
AllOnes == Words - 1
Code == 1      \* stands for UIP_PROTO_TCP and UIP_PROTO_UDP
Payload == UNION {[1..n -> Byte] : n \in 0..MaxPayload}
ByteAt(data, i) == IF i \in DOMAIN data THEN data[i] ELSE 0
WordAt(data, i) == Base * ByteAt(data, 2 * i - 1) + ByteAt(data, 2 * i)

(* Mutant: the carry is dropped.                                           *)
PlusNoCarry(s, t) == (s + t) % Words

(* sum += t; if(sum < t) sum++;                                            *)
Plus(s, t) ==
  LET r == (s + t) % Words IN IF r < t THEN (r + 1) % Words ELSE r

(* chksum: the words of data are added to first, an odd byte padded.       *)
chksum(first, data) ==
  LET f[i \in 0..((Len(data) + 1) \div 2)] ==
        IF i = 0 THEN first ELSE Plus(f[i - 1], WordAt(data, i))
  IN  f[(Len(data) + 1) \div 2]

(* uip_ipchksum and upper_layer_chksum: for TCP and UDP the header and the *)
(* payload are summed one after the other, starting from length and        *)
(* protocol; the checksum field lies in the header.                        *)
SumOf(h, field, data) ==
  LET length == Len(h) + 2 + Len(data)
      header == h \o <<field \div Base, field % Base>>
      s == IF proto = "ip" THEN chksum(0, header)
           ELSE chksum(chksum((length + Code) % Words, header), data)
  IN  IF s = 0 THEN AllOnes ELSE s

(* The one's complement sum of RFC 1071, 0 if the packet is intact.        *)
TrueSum(first, h, field, data) ==
  LET f[i \in 0..((Len(data) + 1) \div 2)] ==
        IF i = 0 THEN first + WordAt(h, 1) + field ELSE f[i - 1] + WordAt(data, i)
  IN  f[(Len(data) + 1) \div 2] % AllOnes
FirstOf == IF proto \in {"udp", "tcp"} THEN Len(head) + 2 + Len(payload) + Code ELSE 0
Data == IF proto = "ip" THEN <<>> ELSE payload
PeerAccepts == TrueSum(FirstOf, head, sum, Data) = 0

(* A packet before its checksum is filled in, or a number and a length.    *)
Init ==
  /\ \/ /\ proto \in {"ip", "udp", "tcp", "icmp"}
        /\ head \in IF proto = "icmp" THEN {<<Echo, 0>>} ELSE [1..2 -> Byte]
        /\ payload \in Payload /\ sum = 0
     \/ /\ proto = "seq" /\ head \in [1..4 -> Byte]
        /\ payload = <<>> /\ sum \in 0..AllOnes
  /\ original = <<>> /\ verdict = "none"

(* udp_send, tcp_send_noconn and ip_send_nolen: the complement of the sum  *)
(* is stored; in UDP a 0 becomes all ones.                                 *)
Fill ==
  /\ original = <<>> /\ proto \in {"ip", "udp", "tcp"}
  /\ LET s == AllOnes - SumOf(head, 0, payload)
     IN  sum' = IF proto = "udp" /\ s = 0 THEN AllOnes ELSE s
  /\ original' = <<head, payload>>
  /\ UNCHANGED <<proto, head, payload, verdict>>

(* The other end sends a ping; its checksum is right.                      *)
Ping ==
  /\ original = <<>> /\ proto = "icmp"
  /\ sum' \in {s \in 0..AllOnes : TrueSum(0, head, s, payload) = 0}
  /\ original' = <<head, payload>>
  /\ UNCHANGED <<proto, head, payload, verdict>>

(* One byte of the packet or of its checksum is damaged on its way.        *)
Damage ==
  /\ original = <<head, payload>> /\ proto # "icmp" /\ verdict = "none"
  /\ \E b \in Byte :
       \/ \E i \in 1..2 : head' = [head EXCEPT ![i] = b] /\ UNCHANGED <<payload, sum>>
       \/ \E i \in DOMAIN payload :
            payload' = [payload EXCEPT ![i] = b] /\ UNCHANGED <<head, sum>>
       \/ sum' \in {b * Base + (sum % Base), (sum \div Base) * Base + b}
          /\ UNCHANGED <<head, payload>>
  /\ verdict' = "damaged"
  /\ UNCHANGED <<proto, original>>

(* uip_process checks what arrives: a UDP packet with checksum 0 is not    *)
(* checked.                                                                *)
Check ==
  /\ original # <<>> /\ proto # "icmp" /\ verdict \in {"none", "damaged"}
  /\ verdict' = IF (proto = "udp" /\ sum = 0) \/ SumOf(head, sum, payload) = AllOnes
                THEN "accepted" ELSE "dropped"
  /\ UNCHANGED <<proto, head, payload, sum, original>>

(* uip_process answers a ping: the type becomes 0 and ICMP_ECHO << 8 is    *)
(* added to the checksum, which the code holds with its bytes swapped.     *)
Swapped(w) == (w % Base) * Base + (w \div Base)
Answer ==
  /\ original # <<>> /\ proto = "icmp" /\ head[1] = Echo
  /\ head' = [head EXCEPT ![1] = 0]
  /\ LET raw == Swapped(sum)
         more == IF raw >= Swapped(AllOnes - Echo * Base) THEN 1 ELSE 0
     IN  sum' = Swapped((raw + Swapped(Echo * Base) + more) % Words)
  /\ UNCHANGED <<proto, payload, original, verdict>>

(* uip_add32: the low bytes are added first, and each carry is found by    *)
(* the byte having become less than what was added to it.                  *)
Bump(acc) ==
  IF (acc[2] + 1) % Base # 0 THEN [acc EXCEPT ![2] = @ + 1]
                             ELSE [acc EXCEPT ![2] = 0, ![1] = (@ + 1) % Base]
add32(op32, op16) ==
  LET high == op16 \div Base
      low == op16 % Base
      a0 == <<op32[1], op32[2], (op32[3] + high) % Base, (op32[4] + low) % Base>>
      a1 == IF a0[3] < high THEN Bump(a0) ELSE a0
      a2 == [a1 EXCEPT ![3] = (@ + 1) % Base]
  IN  IF a1[4] >= low THEN a1 ELSE IF a2[3] = 0 THEN Bump(a2) ELSE a2

Add ==
  /\ proto = "seq" /\ original = <<>>
  /\ head' = add32(head, sum)
  /\ original' = <<head, payload>> /\ verdict' = "added"
  /\ UNCHANGED <<proto, payload, sum>>

Next == Add \/ Fill \/ Ping \/ Damage \/ Check \/ Answer

Spec == Init /\ [][Next]_sumVars

-----------------------------------------------------------------------------
Number(b) == ((b[1] * Base + b[2]) * Base + b[3]) * Base + b[4]

(* What leaves is right for whoever receives it, and of what arrives every *)
(* intact packet is accepted and none with a damaged byte of what it       *)
(* carries (netstack.cpp:321), for every carry and every odd length;       *)
(* sequence numbers add up modulo 2^32 (uip.c:250).                        *)
SumsAgree ==
  /\ verdict = "added" =>
       Number(head) = (Number(original[1]) + sum) % (Words * Words)
  /\ verdict = "none" /\ original = <<head, payload>> => PeerAccepts
  /\ proto = "icmp" /\ original # <<>> => PeerAccepts
  /\ verdict = "accepted" /\ proto # "ip" => original = <<head, payload>>
  /\ verdict = "accepted" /\ proto = "ip" => original[1] = head
  /\ verdict = "dropped" => ~PeerAccepts
=============================================================================
