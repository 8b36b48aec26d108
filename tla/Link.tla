-------------------------------- MODULE Link --------------------------------
(***************************************************************************)
(* The link layer of the uIP stack: net_tick's reception of one frame and  *)
(* its departures (netstack.cpp), the checks that uip_process makes of an  *)
(* IP packet before it reaches TCP or UDP, its answer to a ping (uip.c),   *)
(* and the ARP table (uip_arp.c) that every departure goes through.        *)
(*                                                                         *)
(* A frame has at most one thing wrong with it.  What TCP and UDP do with  *)
(* a packet is in TcpStack and UdpStack; here a UDP packet leaves an       *)
(* answer owed to its sender, and a TCP segment may be answered at once.   *)
(* The table's time stamps are left out: uip_arp_timer, the only place     *)
(* that advances arptime, is never called, so every age is 0.              *)
(***************************************************************************)
EXTENDS Naturals, FiniteSets

CONSTANTS
  Host,      \* the IP addresses of the other hosts
  Router,    \* uip_draddr, the default router; it is on the local network
  Mac,       \* Ethernet addresses
  Slots,     \* UIP_ARPTAB_SIZE
  None       \* no address

VARIABLES
  lan,       \* the hosts of the local network, by uip_netmask
  arp_table,
  owed,      \* the hosts a listener has an answer ready for
  wire,      \* the last frame sent, or Silence
  claimed    \* history: the Ethernet address that last claimed to be h

linkVars == <<lan, arp_table, owed, wire, claimed>>

Slot == 0..(Slots - 1)
Unused == [ip |-> None, mac |-> None]
Silence == [kind |-> "none", ip |-> None, mac |-> None]

(* uip_arp_init.                                                           *)
Init ==
  /\ lan \in {l \in SUBSET Host : Router \in l}
  /\ claimed = [h \in Host |-> None]
  /\ arp_table = [s \in Slot |-> Unused]
  /\ owed = {} /\ wire = Silence

FirstOf(S) == CHOOSE s \in S : \A r \in S : s <= r
Holding(ip) == {s \in Slot : arp_table[s].ip = ip}

(* Mutants: an unused entry is taken before its own is looked for; the     *)
(* first entry is thrown away while others are unused.                     *)
EntryForUnusedFirst(ip) ==
  IF Holding(None) # {} THEN FirstOf(Holding(None))
  ELSE IF Holding(ip) # {} THEN FirstOf(Holding(ip)) ELSE 0
EntryForFirst(ip) == IF Holding(ip) # {} THEN FirstOf(Holding(ip)) ELSE 0

(* The entry that ip gets: its own, else an unused one, else the oldest,   *)
(* which is the first, as no entry is older than another.                  *)
EntryFor(ip) ==
  IF Holding(ip) # {} THEN FirstOf(Holding(ip))
  ELSE IF Holding(None) # {} THEN FirstOf(Holding(None))
  ELSE 0

(* uip_arp_update.                                                         *)
Updated(ip, mac) == [arp_table EXCEPT ![EntryFor(ip)] = [ip |-> ip, mac |-> mac]]

(* uip_arp_out: the next hop of a packet to ip, and the frame that leaves, *)
(* which is an ARP request instead of the packet if table has no entry.    *)
Hop(ip) == IF ip \in lan THEN ip ELSE Router
Out(kind, ip, table) ==
  LET known == {s \in Slot : table[s].ip = Hop(ip)}
  IN  IF known # {}
        THEN [kind |-> kind, ip |-> ip, mac |-> table[FirstOf(known)].mac]
        ELSE [kind |-> "arp request", ip |-> Hop(ip), mac |-> None]

\* What may be wrong with a packet: "header" is one of the checks that every
\* packet has to pass (version, length, fragment, address, header checksum).
Faults == {"none", "header", "type", "udp sum", "port"}

(* uip_process up to the protocol: what it does with a packet.             *)
Accepts(proto, fault) ==
  CASE proto = "icmp" -> fault \in {"none", "udp sum", "port"}
    [] proto = "udp"  -> fault \in {"none", "type"}
    [] proto = "tcp"  -> fault \in {"none", "type", "udp sum", "port"}

(* uip_arp_ipin: the sender of an IP frame is taken into the table if it   *)
(* is on the local network, before anything of the packet is checked.      *)
Learned(h, mac) == IF h \in lan THEN Updated(h, mac) ELSE arp_table

(* net_tick with an IP frame from h that carries mac as source address: a  *)
(* host may change its Ethernet card, far ones have that of the router.    *)
IpIn(h, mac, proto, fault) ==
  LET table == Learned(h, mac)
      taken == Accepts(proto, fault)
  IN  /\ arp_table' = table
      /\ claimed' = IF h \in lan THEN [claimed EXCEPT ![h] = mac] ELSE claimed
      /\ owed' = IF taken /\ proto = "udp" THEN owed \cup {h} ELSE owed
      /\ wire' \in IF ~taken \/ proto = "udp" THEN {wire}
                   ELSE IF proto = "icmp" THEN {Out("echo reply", h, table)}
                   ELSE {wire, Out("tcp", h, table)}
      /\ UNCHANGED lan

(* net_tick with an ARP frame of h for our address: uip_arp_arpin.  Frames *)
(* that are short, for another address or of another opcode change nothing.*)
ArpIn(h, mac, opcode) ==
  /\ arp_table' = Updated(h, mac)
  /\ claimed' = [claimed EXCEPT ![h] = mac]
  /\ wire' = IF opcode = "request" THEN [kind |-> "arp reply", ip |-> h, mac |-> mac]
             ELSE wire
  /\ UNCHANGED <<lan, owed>>

(* net_tick polls the connection of a listener that has an answer: the     *)
(* remote is forgotten first, then the frame goes through uip_arp_out.     *)
Depart(h) ==
  /\ h \in owed
  /\ owed' = owed \ {h}
  /\ wire' = Out("udp", h, arp_table)
  /\ UNCHANGED <<lan, arp_table, claimed>>

Next ==
  \/ \E h \in Host, mac \in Mac, proto \in {"icmp", "udp", "tcp"}, fault \in Faults :
       IpIn(h, mac, proto, fault)
  \/ \E h \in lan, mac \in Mac, opcode \in {"request", "reply"} : ArpIn(h, mac, opcode)
  \/ \E h \in Host : Depart(h)

(* A host asks once more; the router answers the request for its address.  *)
Asks(h) == \E mac \in Mac : IpIn(h, mac, "udp", "none")
RouterAnswers ==
  /\ wire.kind = "arp request" /\ wire.ip = Router
  /\ \E mac \in Mac : ArpIn(Router, mac, "reply")

Spec == Init /\ [][Next]_linkVars

(* net_tick polls every connection in each pass; a host keeps asking as    *)
(* long as it has no answer, and the router answers for its address.       *)
FairSpec ==
  /\ Spec
  /\ \A h \in Host : WF_linkVars(Depart(h)) /\ WF_linkVars(Asks(h))
  /\ SF_linkVars(RouterAnswers)

-----------------------------------------------------------------------------
(* Every variable stays in its type.                                       *)
TypeOK ==
  /\ lan \subseteq Host /\ Router \in lan
  /\ claimed \in [Host -> Mac \cup {None}]
  /\ arp_table \in [Slot -> [ip : Host, mac : Mac] \cup {Unused}]
  /\ owed \subseteq Host
  /\ wire.ip \in Host \cup {None} /\ wire.mac \in Mac \cup {None}

(* The table tells the truth about whom it names (uip_arp.c:157): no host  *)
(* has two entries, and an entry holds the last Ethernet address that its  *)
(* host was heard with, however entries were thrown away and taken again,  *)
(* so that a host that changed its card is reached once it has spoken.     *)
EntryIsLatest ==
  \A s \in Slot : arp_table[s].ip # None =>
    /\ arp_table[s].mac = claimed[arp_table[s].ip]
    /\ \A r \in Slot : arp_table[r].ip = arp_table[s].ip => r = s

(* Hosts beyond the router are answered (uip_arp.c:330): their packets     *)
(* never teach the stack where the router is, and an answer that finds no  *)
(* entry for it is lost, but when the table is large enough for the local  *)
(* network only so often that a host that keeps asking is answered.        *)
FarIsAnswered ==
  Cardinality(lan) <= Slots =>
    \A h \in Host : []<>(h \in lan \/ (wire.kind = "udp" /\ wire.ip = h))
=============================================================================
