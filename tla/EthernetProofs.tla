--------------------------- MODULE EthernetProofs ---------------------------
(***************************************************************************)
(* Theorems about what is under IP, for any number of hosts and entries,   *)
(* any size of the ring and any order of calls, frames and restarts: the   *)
(* ARP table (Link), and the driver of the Ethernet chip, its registers    *)
(* (EncRegisters) and its receive ring (EncRing).  And about the           *)
(* arithmetic on packets (Checksum), for packets of any length and bytes   *)
(* of any size.                                                            *)
(***************************************************************************)
EXTENDS Ethernet, Packets, Sequences, FiniteSets, FiniteSetTheorems, SequenceTheorems,
        WellFoundedInduction, NaturalsInduction, TLAPS

LinkInv == Lan!TypeOK /\ EntryIsLatest

Register ==
  Regs!Common \cup Regs!Bank0 \cup Regs!Bank1 \cup Regs!Bank2 \cup Regs!Bank3
Item == [how : {"access", "bank", "bits", "reset"}, reg : Register]

(* A command that reaches its register only if the bank happens to be that *)
(* of the register; and what a call may do: such a command comes only      *)
(* behind an access to the same bank.                                      *)
Trusting(c) == c.how = "bits" /\ c.reg \notin Regs!Common
Backed(q, i) ==
  /\ i > 1 /\ q[i - 1].how = "access"
  /\ Regs!BankOf(q[i - 1].reg) = Regs!BankOf(q[i].reg)
Sound(q) ==
  /\ q \in Seq(Item)
  /\ \A i \in 1..Len(q) :
       q[i].how # "reset" /\ (Trusting(q[i]) => Backed(q, i))

(* Until enc_init has reset the chip, the driver knows nothing; from then  *)
(* on what it remembers is what the chip shows, but between the two        *)
(* commands of set_bank.                                                   *)
Resets == todo # <<>> /\ Regs!Now.how = "reset"
BankIsKnown ==
  /\ Resets => bank = {} /\ ~cleared
  /\ ~Resets =>
       IF cleared THEN bsel = {} /\ todo # <<>> /\ Regs!OtherBank ELSE bsel = bank
TodoIsSound ==
  /\ \A i \in 2..Len(todo) : todo[i].how # "reset"
  /\ \A i \in 1..Len(todo) : Trusting(todo[i]) =>
       Backed(todo, i) \/ (i = 1 /\ bank = Regs!BankOf(todo[1].reg))
RegInv == Regs!TypeOK /\ BankIsKnown /\ TodoIsSound

(* How far x lies behind a in the ring, what the chip may write from w on  *)
(* while ERXRDPT is r, and how far it has gone since it wrote at a.        *)
Dist(a, x) == IF a <= x THEN x - a ELSE x + Ring!Size - a
Gap(w, r) == IF w = r THEN RxStop ELSE Dist(w, r) - 1
Behind(a) == Dist(a, wrpt)
Block(a) == Ring!Even(Header + mem[a].len)

(* The unread frames lie one behind the other up to where the chip writes; *)
(* they and what the chip may still write fit into the ring.               *)
InOrder ==
  \A i \in 1..Len(unread) :
    /\ unread[i] % 2 = 0 /\ mem[unread[i]].len \in Lengths
    /\ Block(unread[i]) <= Behind(unread[i])
    /\ Len(unread) < Behind(unread[i]) + i
    /\ \A j \in 1..Len(unread) : i < j => Behind(unread[j]) <= Behind(unread[i])
RoomKept == wrpt % 2 = 0 /\ Behind(next_frame_ptr) + Ring!Free <= RxStop
TornKept == torn \subseteq {unread[i] : i \in DOMAIN unread}
RingInv == Ring!TypeOK /\ DriverFollowsChip /\ InOrder /\ RoomKept /\ TornKept

-----------------------------------------------------------------------------
(* The first of some entries is one of them.                               *)
LEMMA FirstIsOne ==
  ASSUME NEW S \in SUBSET Lan!Slot, S # {}
  PROVE  Lan!FirstOf(S) \in S
<1>1. S \subseteq Nat
  BY LinkAssumption DEF Lan!Slot
<1>2. PICK s \in S : \A r \in S : ~(<<r, s>> \in OpToRel(<, Nat))
  BY <1>1, NatLessThanWellFounded, WFMin
<1>3. ASSUME NEW r \in S PROVE s <= r
  <2>1. r \in Nat /\ s \in Nat
    BY <1>1
  <2>2. ~(r < s)
    BY <1>2, <2>1 DEF OpToRel
  <2> QED
    BY <2>1, <2>2
<1> QED
  BY <1>3 DEF Lan!FirstOf

(* The entry that an address gets is its own if it has one, so never a     *)
(* second one.                                                             *)
LEMMA EntryIsOwn ==
  ASSUME LinkInv, NEW h \in Host
  PROVE  /\ Lan!EntryFor(h) \in Lan!Slot
         /\ \A s \in Lan!Slot : arp_table[s].ip = h => s = Lan!EntryFor(h)
<1>1. 0 \in Lan!Slot
  BY LinkAssumption DEF Lan!Slot
<1>2. \A ip : Lan!Holding(ip) \in SUBSET Lan!Slot
  BY DEF Lan!Holding
<1>3. \A ip : Lan!Holding(ip) # {} => Lan!FirstOf(Lan!Holding(ip)) \in Lan!Holding(ip)
  BY <1>2, FirstIsOne
<1>4. Lan!EntryFor(h) \in Lan!Slot
  BY <1>1, <1>2, <1>3 DEF Lan!EntryFor
<1>5. ASSUME NEW s \in Lan!Slot, arp_table[s].ip = h PROVE s = Lan!EntryFor(h)
  <2>1. s \in Lan!Holding(h)
    BY <1>5 DEF Lan!Holding
  <2>2. Lan!EntryFor(h) \in Lan!Holding(h)
    BY <1>3, <2>1 DEF Lan!EntryFor
  <2>3. h # None
    BY LinkAssumption
  <2> QED
    BY <1>5, <2>2, <2>3 DEF Lan!Holding, LinkInv, EntryIsLatest, Lan!EntryIsLatest
<1> QED
  BY <1>4, <1>5

(* uip_arp_update keeps the table true when it takes what h claims.        *)
LEMMA UpdateIsTrue ==
  ASSUME LinkInv, NEW h \in Host, NEW mac \in Mac,
         arp_table' = Lan!Updated(h, mac), claimed' = [claimed EXCEPT ![h] = mac]
  PROVE  /\ claimed' \in [Host -> Mac \cup {None}]
         /\ arp_table' \in [Lan!Slot -> [ip : Host, mac : Mac] \cup {Lan!Unused}]
         /\ EntryIsLatest'
<1> DEFINE e == Lan!EntryFor(h)
           new == [ip |-> h, mac |-> mac]
<1>1. e \in Lan!Slot /\ \A s \in Lan!Slot : arp_table[s].ip = h => s = e
  BY EntryIsOwn
<1>2. arp_table' = [arp_table EXCEPT ![e] = new]
  BY DEF Lan!Updated
<1> HIDE DEF e
<1>3. claimed' \in [Host -> Mac \cup {None}]
  BY DEF LinkInv, Lan!TypeOK
<1>4. arp_table' \in [Lan!Slot -> [ip : Host, mac : Mac] \cup {Lan!Unused}]
  BY <1>1, <1>2 DEF LinkInv, Lan!TypeOK
<1>5. ASSUME NEW s \in Lan!Slot, arp_table'[s].ip # None
      PROVE  /\ arp_table'[s].mac = claimed'[arp_table'[s].ip]
             /\ \A r \in Lan!Slot : arp_table'[r].ip = arp_table'[s].ip => r = s
  <2>0. /\ arp_table'[e] = new /\ claimed'[h] = mac
        /\ \A r \in Lan!Slot : r # e => arp_table'[r] = arp_table[r]
    BY <1>1, <1>2 DEF LinkInv, Lan!TypeOK
  <2>1. CASE s = e
    <3>1. arp_table'[s].ip = h /\ arp_table'[s].mac = mac
      BY <2>0, <2>1
    <3>2. \A r \in Lan!Slot : r # e => arp_table'[r].ip # h
      BY <1>1, <2>0
    <3> QED
      BY <2>0, <2>1, <3>1, <3>2
  <2>2. CASE s # e
    <3>1. arp_table'[s] = arp_table[s] /\ arp_table[s].ip # h
      BY <1>1, <2>0, <2>2
    <3>2. arp_table[s].ip \in Host
      BY <1>5, <3>1 DEF LinkInv, Lan!TypeOK, Lan!Unused
    <3>3. claimed'[arp_table[s].ip] = claimed[arp_table[s].ip]
      BY <3>1, <3>2 DEF LinkInv, Lan!TypeOK
    <3>4. arp_table'[e].ip = h
      BY <2>0
    <3> QED
      BY <1>5, <2>0, <3>1, <3>3, <3>4 DEF LinkInv, EntryIsLatest, Lan!EntryIsLatest
  <2> QED
    BY <2>1, <2>2
<1> QED
  BY <1>3, <1>4, <1>5 DEF EntryIsLatest, Lan!EntryIsLatest, Lan!Slot

(* A frame that leaves names hosts and Ethernet addresses.                 *)
LEMMA OutIsFrame ==
  ASSUME NEW h \in Host, NEW kind, lan \subseteq Host,
         NEW table \in [Lan!Slot -> [ip : Host, mac : Mac] \cup {Lan!Unused}]
  PROVE  /\ Lan!Out(kind, h, table).ip \in Host \cup {None}
         /\ Lan!Out(kind, h, table).mac \in Mac \cup {None}
<1> DEFINE known == {s \in Lan!Slot : table[s].ip = Lan!Hop(h)}
<1>1. Lan!Hop(h) \in Host
  BY LinkAssumption DEF Lan!Hop
<1>2. known # {} => Lan!FirstOf(known) \in Lan!Slot
  BY FirstIsOne
<1>3. known # {} => table[Lan!FirstOf(known)].mac \in Mac \cup {None}
  BY <1>2 DEF Lan!Unused
<1> QED
  BY <1>1, <1>3 DEF Lan!Out

-----------------------------------------------------------------------------
(* Every variable of the link layer stays in its type and the ARP table    *)
(* tells the truth: that no host has two entries is what lets an update    *)
(* reach all that the table says of a host.                                *)
THEOREM EntriesAreLatest == Lan!Spec => [](Lan!TypeOK /\ EntryIsLatest)
<1>1. Lan!Init => LinkInv
  <2> SUFFICES ASSUME Lan!Init PROVE LinkInv
    OBVIOUS
  <2>1. Lan!TypeOK
    BY LinkAssumption DEF Lan!Init, Lan!TypeOK, Lan!Unused, Lan!Silence
  <2>2. \A s \in Lan!Slot : arp_table[s].ip = None
    BY DEF Lan!Init, Lan!Unused
  <2> QED
    BY <2>1, <2>2 DEF LinkInv, EntryIsLatest, Lan!EntryIsLatest
<1>2. LinkInv /\ [Lan!Next]_Lan!linkVars => LinkInv'
  <2> SUFFICES ASSUME LinkInv, [Lan!Next]_Lan!linkVars PROVE LinkInv'
    OBVIOUS
  <2>0. UNCHANGED <<arp_table, claimed>> => EntryIsLatest'
    BY DEF LinkInv, EntryIsLatest, Lan!EntryIsLatest, Lan!Slot
  <2>1. ASSUME NEW h \in Host, NEW mac \in Mac, NEW carried \in {"icmp", "udp", "tcp"},
               NEW fault \in Lan!Faults, Lan!IpIn(h, mac, carried, fault)
        PROVE  LinkInv'
    <3>1. /\ claimed' \in [Host -> Mac \cup {None}]
          /\ arp_table' \in [Lan!Slot -> [ip : Host, mac : Mac] \cup {Lan!Unused}]
          /\ EntryIsLatest'
      <4>1. CASE h \in lan
        <5>1. arp_table' = Lan!Updated(h, mac) /\ claimed' = [claimed EXCEPT ![h] = mac]
          BY <2>1, <4>1 DEF Lan!IpIn, Lan!Learned
        <5> QED
          BY <5>1, UpdateIsTrue
      <4>2. CASE h \notin lan
        BY <2>0, <2>1, <4>2 DEF Lan!IpIn, Lan!Learned, LinkInv, Lan!TypeOK
      <4> QED
        BY <4>1, <4>2
    <3>2. lan' = lan /\ owed' \subseteq Host
      BY <2>1 DEF Lan!IpIn, LinkInv, Lan!TypeOK
    <3>3. \E kind \in {"echo reply", "tcp"} :
            wire' \in {wire, Lan!Out(kind, h, arp_table')}
      BY <2>1 DEF Lan!IpIn
    <3>4. wire'.ip \in Host \cup {None} /\ wire'.mac \in Mac \cup {None}
      BY <3>1, <3>3, OutIsFrame DEF LinkInv, Lan!TypeOK
    <3> QED
      BY <3>1, <3>2, <3>4 DEF LinkInv, Lan!TypeOK, Lan!Slot, Lan!Unused
  <2>2. ASSUME NEW h \in lan, NEW mac \in Mac, NEW opcode \in {"request", "reply"},
               Lan!ArpIn(h, mac, opcode)
        PROVE  LinkInv'
    <3>1. /\ claimed' \in [Host -> Mac \cup {None}]
          /\ arp_table' \in [Lan!Slot -> [ip : Host, mac : Mac] \cup {Lan!Unused}]
          /\ EntryIsLatest'
      BY <2>2, UpdateIsTrue DEF Lan!ArpIn, LinkInv, Lan!TypeOK
    <3>2. h \in Host
      BY DEF LinkInv, Lan!TypeOK
    <3>3. lan' = lan /\ owed' = owed
          /\ wire'.ip \in Host \cup {None} /\ wire'.mac \in Mac \cup {None}
      BY <2>2, <3>2 DEF Lan!ArpIn, LinkInv, Lan!TypeOK
    <3> QED
      BY <3>1, <3>3 DEF LinkInv, Lan!TypeOK, Lan!Slot, Lan!Unused
  <2>3. ASSUME NEW h \in Host, Lan!Depart(h) PROVE LinkInv'
    <3>1. wire'.ip \in Host \cup {None} /\ wire'.mac \in Mac \cup {None}
      BY <2>3, OutIsFrame DEF Lan!Depart, LinkInv, Lan!TypeOK
    <3> QED
      BY <2>0, <2>3, <3>1 DEF Lan!Depart, LinkInv, Lan!TypeOK, Lan!Slot, Lan!Unused
  <2>4. CASE UNCHANGED Lan!linkVars
    BY <2>0, <2>4 DEF Lan!linkVars, LinkInv, Lan!TypeOK, Lan!Slot, Lan!Unused
  <2> QED
    BY <2>1, <2>2, <2>3, <2>4 DEF Lan!Next
<1>3. LinkInv => Lan!TypeOK /\ EntryIsLatest
  BY DEF LinkInv
<1> QED
  BY <1>1, <1>2, <1>3, PTL DEF Lan!Spec

-----------------------------------------------------------------------------
(* Every register has a bank.                                              *)
LEMMA BankOfType ==
  ASSUME NEW reg \in Register
  PROVE  Regs!BankOf(reg) \in SUBSET {Regs!BSEL0, Regs!BSEL1}
BY DEF Register, Regs!BankOf

(* A call is sound if its parts are.                                       *)
LEMMA SoundConcat ==
  ASSUME NEW q, NEW r, Sound(q), Sound(r)
  PROVE  Sound(q \o r)
<1>1. q \in Seq(Item) /\ r \in Seq(Item)
  BY DEF Sound
<1>2. /\ q \o r \in Seq(Item) /\ Len(q \o r) = Len(q) + Len(r)
      /\ Len(q) \in Nat /\ Len(r) \in Nat
      /\ \A i \in 1..Len(q) : (q \o r)[i] = q[i]
      /\ \A i \in 1..Len(r) : (q \o r)[Len(q) + i] = r[i]
  BY <1>1
<1>3. ASSUME NEW i \in 1..Len(q \o r)
      PROVE  /\ (q \o r)[i].how # "reset"
             /\ Trusting((q \o r)[i]) => Backed(q \o r, i)
  <2>1. CASE i \in 1..Len(q)
    <3>1. (q \o r)[i] = q[i] /\ (i > 1 => (q \o r)[i - 1] = q[i - 1])
      BY <1>2, <2>1
    <3> QED
      BY <2>1, <3>1 DEF Sound, Backed
  <2>2. CASE i \notin 1..Len(q)
    <3>1. PICK j \in 1..Len(r) : i = Len(q) + j
      <4>1. i - Len(q) \in 1..Len(r)
        BY <1>2, <2>2
      <4>2. i = Len(q) + (i - Len(q))
        BY <1>2
      <4> QED
        BY <4>1, <4>2
    <3>2. (q \o r)[i] = r[j]
      BY <1>2, <3>1
    <3>3. j > 1 => (q \o r)[i - 1] = r[j - 1] /\ i > 1
      <4>1. j > 1 => j - 1 \in 1..Len(r) /\ i - 1 = Len(q) + (j - 1) /\ i > 1
        BY <1>2, <3>1
      <4> QED
        BY <1>2, <4>1
    <3> QED
      BY <3>2, <3>3 DEF Sound, Backed
  <2> QED
    BY <2>1, <2>2
<1> QED
  BY <1>2, <1>3 DEF Sound

(* Regs(names) is an access for each name.                                 *)
LEMMA RegsAre ==
  ASSUME NEW names \in Seq(Register)
  PROVE  /\ Regs!Regs(names) \in Seq(Item) /\ Len(Regs!Regs(names)) = Len(names)
         /\ \A i \in 1..Len(names) :
              Regs!Regs(names)[i].how = "access" /\ Regs!Regs(names)[i].reg = names[i]
<1> DEFINE q == Regs!Regs(names)
           n == Len(names)
<1>1. n \in Nat /\ DOMAIN names = 1..n /\ \A i \in 1..n : names[i] \in Register
  OBVIOUS
<1>2. q = [i \in 1..n |-> [how |-> "access", reg |-> names[i]]]
  BY <1>1 DEF Regs!Regs
<1>3. \A i \in 1..n : [how |-> "access", reg |-> names[i]] \in Item
  BY <1>1 DEF Item
<1> HIDE DEF q, n
<1>4. q \in [1..n -> Item]
  BY <1>2, <1>3
<1>5. q \in Seq(Item) /\ Len(q) = n
  BY <1>1, <1>4
<1>6. ASSUME NEW i \in 1..n PROVE q[i].how = "access" /\ q[i].reg = names[i]
  <2>1. q[i] = [how |-> "access", reg |-> names[i]]
    BY <1>2
  <2> QED
    BY <2>1
<1> QED
  BY <1>5, <1>6 DEF q, n

(* What a call is made of is sound, and so is a command that relies on the *)
(* bank behind an access that leaves it set.                               *)
LEMMA SoundParts ==
  /\ \A names \in Seq(Register) : Sound(Regs!Regs(names))
  /\ \A reg \in Register : Sound(Regs!Bank(reg))
  /\ \A reg \in Regs!Common : Sound(Regs!Bits(reg))
<1>1. ASSUME NEW names \in Seq(Register) PROVE Sound(Regs!Regs(names))
  <2> DEFINE q == Regs!Regs(names)
  <2>1. /\ q \in Seq(Item) /\ Len(q) = Len(names)
        /\ \A i \in 1..Len(names) : q[i].how = "access" /\ q[i].reg = names[i]
    BY RegsAre
  <2> HIDE DEF q
  <2>2. \A i \in 1..Len(q) : q[i].how = "access"
    BY <2>1
  <2>3. Sound(q)
    BY <2>1, <2>2 DEF Sound, Trusting
  <2> QED
    BY <2>3 DEF q
<1>2. ASSUME NEW reg \in Register PROVE Sound(Regs!Bank(reg))
  BY DEF Regs!Bank, Sound, Trusting, Item
<1>3. ASSUME NEW reg \in Regs!Common PROVE Sound(Regs!Bits(reg))
  BY DEF Regs!Bits, Sound, Trusting, Item, Register
<1> QED
  BY <1>1, <1>2, <1>3

LEMMA SoundBits ==
  ASSUME NEW names \in Seq(Register), names # <<>>, NEW reg \in Register,
         Regs!BankOf(names[Len(names)]) = Regs!BankOf(reg)
  PROVE  Sound(Regs!Regs(names) \o Regs!Bits(reg))
<1> DEFINE q == Regs!Regs(names)
           c == [how |-> "bits", reg |-> reg]
           n == Len(names)
<1>1. /\ q \in Seq(Item) /\ Len(q) = n /\ n \in Nat /\ n > 0
      /\ \A i \in 1..n : q[i].how = "access" /\ q[i].reg = names[i]
  BY RegsAre
<1>2. Regs!Bits(reg) = <<c>> /\ c \in Item
  BY DEF Regs!Bits, Item
<1> DEFINE r == q \o <<c>>
<1> HIDE DEF q, c, n
<1>3. /\ r \in Seq(Item) /\ Len(r) = n + 1
      /\ \A i \in 1..n : r[i].how = "access" /\ r[i].reg = names[i]
      /\ r[n + 1] = c
  BY <1>1, <1>2
<1> HIDE DEF r
<1>4. \A i \in 1..n : r[i].how = "access"
  BY <1>3
<1>5. c.how = "bits" /\ c.reg = reg
  BY DEF c
<1>6. Regs!BankOf(r[n].reg) = Regs!BankOf(reg)
  <2>1. n \in 1..n
    BY <1>1
  <2>2. r[n].reg = names[n]
    BY <1>3, <2>1
  <2> QED
    BY <2>2 DEF n
<1>7. Backed(r, n + 1)
  <2>1. n \in 1..n /\ (n + 1) - 1 = n /\ n + 1 > 1
    BY <1>1
  <2> QED
    BY <1>3, <1>4, <1>5, <1>6, <2>1 DEF Backed
<1>8. Sound(r)
  <2>1. ASSUME NEW i \in 1..Len(r)
        PROVE  r[i].how # "reset" /\ (Trusting(r[i]) => Backed(r, i))
    <3>1. i \in 1..n \/ i = n + 1
      BY <1>1, <1>3
    <3> QED
      BY <1>3, <1>4, <1>5, <1>7, <3>1 DEF Trusting
  <2> QED
    BY <1>3, <2>1 DEF Sound
<1> QED
  BY <1>2, <1>8 DEF q, r

(* FlattenSeq over sound calls, which enc_send is of its attempts, is      *)
(* sound: the recursive function that defines it exists, and keeps it.     *)
LEMMA SoundFlatten ==
  ASSUME NEW n \in Nat, n > 0, NEW seqs, Len(seqs) = n,
         \A i \in 1..n : Sound(seqs[i])
  PROVE  Sound(Regs!FlattenSeq(seqs))
<1> DEFINE Value(f, i) == IF i = 1 THEN seqs[i] ELSE f[i - 1] \o seqs[i]
           IsFlat(f, k) == f = [i \in 1..k |-> Value(f, i)]
           Exists(k) == \E f : IsFlat(f, k)
           flat == CHOOSE f : IsFlat(f, n)
<1>1. Exists(0)
  <2>1. IsFlat([i \in 1..0 |-> <<>>], 0)
    OBVIOUS
  <2> QED
    BY <2>1
<1>2. ASSUME NEW k \in Nat, Exists(k) PROVE Exists(k + 1)
  <2>1. PICK f : IsFlat(f, k)
    BY <1>2
  <2> DEFINE g == [i \in 1..(k + 1) |-> IF i \in 1..k THEN f[i] ELSE Value(f, i)]
  <2>2. ASSUME NEW i \in 1..(k + 1) PROVE g[i] = Value(g, i)
    <3>1. i # 1 => i - 1 \in 1..k /\ i - 1 \in 1..(k + 1)
      OBVIOUS
    <3>2. i # 1 => g[i - 1] = f[i - 1]
      BY <3>1
    <3>3. i \in 1..k => f[i] = Value(f, i)
      BY <2>1
    <3>4. g[i] = Value(f, i)
      BY <3>3
    <3> QED
      BY <3>2, <3>4
  <2>3. IsFlat(g, k + 1)
    BY <2>2
  <2> QED
    BY <2>3
<1>3. Exists(n)
  <2> HIDE DEF Exists
  <2>1. ASSUME ~Exists(n) PROVE FALSE
    <3> DEFINE T == {k \in Nat : ~Exists(k)}
    <3>1. PICK k \in T : \A y \in T : ~(<<y, k>> \in OpToRel(<, Nat))
      <4>1. T \subseteq Nat /\ T # {}
        BY <2>1
      <4> HIDE DEF T
      <4> QED
        BY <4>1, NatLessThanWellFounded, WFMin
    <3>2. k \in Nat /\ ~Exists(k) /\ k # 0
      BY <1>1, <3>1
    <3>3. k - 1 \in Nat /\ (k - 1) + 1 = k /\ k - 1 < k
      BY <3>2
    <3>4. k - 1 \notin T
      BY <3>1, <3>2, <3>3 DEF OpToRel
    <3>5. Exists(k - 1)
      BY <3>3, <3>4
    <3> QED
      BY <1>2, <3>2, <3>3, <3>5
  <2> QED
    BY <2>1
<1>4. IsFlat(flat, n)
  BY <1>3
<1>5. Regs!FlattenSeq(seqs) = flat[n]
  BY DEF Regs!FlattenSeq
<1> HIDE DEF flat
<1>6. \A i \in 1..n : flat[i] = Value(flat, i)
  BY <1>4
<1>7. \A i \in 1..n : Sound(flat[i])
  <2>1. ASSUME NEW j \in 1..n, ~Sound(flat[j]) PROVE FALSE
    <3> DEFINE T == {k \in 1..n : ~Sound(flat[k])}
    <3>1. PICK k \in T : \A y \in T : ~(<<y, k>> \in OpToRel(<, Nat))
      <4>1. T \subseteq Nat /\ T # {}
        BY <2>1
      <4> HIDE DEF T
      <4> QED
        BY <4>1, NatLessThanWellFounded, WFMin
    <3>2. k \in 1..n /\ ~Sound(flat[k])
      BY <3>1
    <3>3. k # 1
      BY <1>6, <3>2
    <3>4. k - 1 \in 1..n /\ k - 1 \in Nat /\ k \in Nat /\ k - 1 < k
      BY <3>2, <3>3
    <3>5. k - 1 \notin T
      BY <3>1, <3>4 DEF OpToRel
    <3>6. Sound(flat[k - 1])
      BY <3>4, <3>5
    <3>7. flat[k] = flat[k - 1] \o seqs[k]
      BY <1>6, <3>2, <3>3
    <3>8. Sound(flat[k - 1] \o seqs[k])
      BY <3>2, <3>6, SoundConcat
    <3> QED
      BY <3>2, <3>7, <3>8
  <2> QED
    BY <2>1
<1> QED
  BY <1>5, <1>7

(* Accesses to the registers of a bank are sound.                          *)
LEMMA SoundAccesses ==
  ASSUME NEW names,
         \/ names \in Seq(Regs!Common) \/ names \in Seq(Regs!Bank0)
         \/ names \in Seq(Regs!Bank2) \/ names \in Seq(Regs!Bank3)
         \/ names \in Seq(Regs!Bank0 \cup Regs!Bank1)
         \/ names \in Seq(Regs!Bank2 \cup Regs!Bank3)
  PROVE  Sound(Regs!Regs(names))
<1>1. names \in Seq(Register)
  BY DEF Register
<1> QED
  BY <1>1, SoundParts

(* enc_init behind the reset is sound, and so is every other call.         *)
LEMMA SharedPartsAreSound ==
  /\ Sound(Regs!Address) /\ Sound(Regs!WritePhy) /\ Sound(Regs!GetRev)
  /\ \A reg \in {"ECON1", "ECON2", "EIR", "EIE"} :
       Sound(Regs!Bits(reg)) /\ Sound(Regs!Bank(reg))
<1>1. Sound(Regs!Address)
  <2>1. <<"MAADR5", "MAADR4", "MAADR3", "MAADR2", "MAADR1", "MAADR0">> \in Seq(Regs!Bank3)
    BY DEF Regs!Bank3
  <2> QED
    BY <2>1, SoundAccesses DEF Regs!Address
<1>2. Sound(Regs!WritePhy)
  <2>1. <<"MIREGADR", "MIWR", "MISTAT">> \in Seq(Regs!Bank2 \cup Regs!Bank3)
    BY DEF Regs!Bank2, Regs!Bank3
  <2> QED
    BY <2>1, SoundAccesses DEF Regs!WritePhy
<1>3. Sound(Regs!GetRev)
  <2>1. <<"EREVID">> \in Seq(Regs!Bank3)
    BY DEF Regs!Bank3
  <2> QED
    BY <2>1, SoundAccesses DEF Regs!GetRev
<1>4. ASSUME NEW reg \in {"ECON1", "ECON2", "EIR", "EIE"}
      PROVE  Sound(Regs!Bits(reg)) /\ Sound(Regs!Bank(reg))
  <2>1. reg \in Regs!Common
    BY DEF Regs!Common
  <2>2. reg \in Register
    BY <2>1 DEF Register
  <2> QED
    BY <2>1, <2>2, SoundParts
<1> QED
  BY <1>1, <1>2, <1>3, <1>4

LEMMA SetupIsSound == Sound(Regs!Setup)
<1> DEFINE first == <<"ERXST", "ERXRDPT", "ERXND", "ETXST", "ETXND",
                      "ERXFCON", "EPMM0", "EPMCS", "MACON1">>
           gaps == <<"MAIPG", "MABBIPG", "MAMXFL">>
<1>1. Sound(Regs!Regs(first) \o Regs!Bits("MACON3"))
  <2>1. first \in Seq(Register) /\ first # <<>> /\ first[Len(first)] = "MACON1"
    BY DEF Register, Regs!Bank0, Regs!Bank1, Regs!Bank2
  <2>2. "MACON3" \in Register
    BY DEF Register, Regs!Bank2
  <2>3. \A reg \in {"MACON1", "MACON3"} :
          reg \in Regs!Bank2 /\ reg \notin Regs!Common \cup Regs!Bank0
            /\ reg \notin Regs!Bank1 /\ reg \notin Regs!Bank3
    BY DEF Regs!Common, Regs!Bank0, Regs!Bank1, Regs!Bank2, Regs!Bank3
  <2>4. Regs!BankOf("MACON1") = Regs!BankOf("MACON3")
    BY <2>3 DEF Regs!BankOf
  <2> HIDE DEF first
  <2> QED
    BY <2>1, <2>2, <2>4, SoundBits
<1>2. Sound(Regs!Regs(gaps))
  <2>1. gaps \in Seq(Regs!Bank2)
    BY DEF Regs!Bank2
  <2> HIDE DEF gaps
  <2> QED
    BY <2>1, SoundAccesses
<1> HIDE DEF first, gaps
<1>3. Regs!Setup =
        Regs!Regs(first) \o Regs!Bits("MACON3") \o Regs!Regs(gaps) \o Regs!Address
          \o Regs!WritePhy \o Regs!Bank("ECON1") \o Regs!WritePhy
          \o Regs!Bits("EIE") \o Regs!Bits("ECON1") \o Regs!GetRev
  BY Zenon DEF Regs!Setup, first, gaps
<1> DEFINE a == Regs!Regs(first) \o Regs!Bits("MACON3") \o Regs!Regs(gaps)
           b == a \o Regs!Address \o Regs!WritePhy \o Regs!Bank("ECON1")
           c == b \o Regs!WritePhy \o Regs!Bits("EIE")
<1>4. Sound(a)
  BY <1>1, <1>2, SoundConcat
<1> HIDE DEF a
<1>5. Sound(b)
  BY <1>4, SharedPartsAreSound, SoundConcat
<1> HIDE DEF b
<1>6. Sound(c)
  BY <1>5, SharedPartsAreSound, SoundConcat
<1> HIDE DEF c
<1>7. Sound(c \o Regs!Bits("ECON1") \o Regs!GetRev)
  BY <1>6, SharedPartsAreSound, SoundConcat
<1> QED
  BY <1>3, <1>7, Zenon DEF a, b, c

LEMMA AttemptsAreSound ==
  ASSUME NEW n \in Nat, n > 0, NEW success \in BOOLEAN
  PROVE  Sound(Regs!Attempts(n, success))
<1>1. Sound(Regs!ReadByte)
  <2>1. <<"ERDPT">> \in Seq(Regs!Bank0)
    BY DEF Regs!Bank0
  <2> QED
    BY <2>1, SoundAccesses DEF Regs!ReadByte
<1>2. Sound(Regs!Attempt)
  <2>1. Sound(Regs!Regs(<<"EIR">>))
    <3>1. <<"EIR">> \in Seq(Regs!Common)
      BY DEF Regs!Common
    <3> QED
      BY <3>1, SoundAccesses
  <2>2. Sound(Regs!Bits("ECON1")) /\ Sound(Regs!Bits("EIR"))
    BY SharedPartsAreSound
  <2> QED
    BY <2>1, <2>2, SoundConcat DEF Regs!Attempt
<1> DEFINE seqs == [i \in 1..n |->
      IF i = n /\ success THEN Regs!Attempt ELSE Regs!Attempt \o Regs!ReadByte]
<1>3. \A i \in 1..n : Sound(seqs[i])
  BY <1>1, <1>2, SoundConcat
<1>4. Len(seqs) = n
  OBVIOUS
<1>5. Regs!Attempts(n, success) = Regs!FlattenSeq(seqs)
  BY DEF Regs!Attempts
<1> HIDE DEF seqs
<1> QED
  BY <1>3, <1>4, <1>5, SoundFlatten

LEMMA CallsAreSound ==
  ASSUME NEW q \in {Regs!Address, Regs!GetRev, Regs!EncLinkStatus}
                     \cup Regs!EncPoll \cup Regs!EncSend \cup Regs!EncPower
  PROVE  Sound(q)
<1>1. Sound(Regs!Bits("ECON1")) /\ Sound(Regs!Bits("ECON2"))
  BY SharedPartsAreSound
<1>2. CASE q = Regs!EncLinkStatus
  <2>1. <<"MIREGADR", "MICMD", "MISTAT", "MICMD", "MIRDL", "MIRDH">>
          \in Seq(Regs!Bank2 \cup Regs!Bank3)
    BY DEF Regs!Bank2, Regs!Bank3
  <2> QED
    BY <1>2, <2>1, SoundAccesses DEF Regs!EncLinkStatus
<1>3. CASE q \in Regs!EncPoll
  <2>1. /\ <<"EPKTCNT">> \in Seq(Regs!Bank0 \cup Regs!Bank1)
        /\ <<"EPKTCNT", "ERDPT">> \in Seq(Regs!Bank0 \cup Regs!Bank1)
        /\ <<"ERDPT", "ERXRDPT">> \in Seq(Regs!Bank0)
    BY DEF Regs!Bank0, Regs!Bank1
  <2>2. /\ Sound(Regs!Regs(<<"EPKTCNT">>)) /\ Sound(Regs!Regs(<<"EPKTCNT", "ERDPT">>))
        /\ Sound(Regs!Regs(<<"ERDPT", "ERXRDPT">>))
    BY <2>1, SoundAccesses
  <2> QED
    BY <1>1, <1>3, <2>2, SoundConcat DEF Regs!EncPoll
<1>4. CASE q \in Regs!EncSend
  <2>1. PICK n \in 1..TX_COLLISION_RETRY_COUNT, success \in BOOLEAN :
          q = Regs!Regs(<<"EWRPT">>) \o Regs!WriteByte \o Regs!Regs(<<"ETXST", "ETXND">>)
                \o Regs!Attempts(n, success)
    BY <1>4, RegistersAssumption DEF Regs!EncSend
  <2>2. <<"EWRPT">> \in Seq(Regs!Bank0) /\ <<"ETXST", "ETXND">> \in Seq(Regs!Bank0)
    BY DEF Regs!Bank0
  <2>3. /\ Sound(Regs!Regs(<<"EWRPT">>)) /\ Sound(Regs!WriteByte)
        /\ Sound(Regs!Regs(<<"ETXST", "ETXND">>))
    BY <2>2, SoundAccesses DEF Regs!WriteByte
  <2>4. Sound(Regs!Attempts(n, success))
    BY AttemptsAreSound, RegistersAssumption
  <2> QED
    BY <2>1, <2>3, <2>4, SoundConcat
<1>5. CASE q \in Regs!EncPower
  BY <1>1, <1>5, SoundConcat DEF Regs!EncPower
<1> QED
  BY <1>2, <1>3, <1>4, <1>5, SharedPartsAreSound

(* A reset of the MCU, wherever it falls, leaves a call that begins with   *)
(* the reset of the chip.                                                  *)
LEMMA EncInitResets ==
  /\ Regs!EncInit \in Seq(Item) /\ Regs!EncInit # <<>>
  /\ Head(Regs!EncInit).how = "reset" /\ ~Trusting(Regs!EncInit[1])
  /\ \A i \in 2..Len(Regs!EncInit) :
       /\ Regs!EncInit[i].how # "reset"
       /\ Trusting(Regs!EncInit[i]) => Backed(Regs!EncInit, i)
<1> DEFINE q == Regs!Setup
           reset == [how |-> "reset", reg |-> "ECON1"]
           r == <<reset>> \o q
<1>1. Regs!EncInit = r
  BY DEF Regs!EncInit, Regs!SoftReset
<1>2. q \in Seq(Item) /\ Sound(q)
  BY SetupIsSound DEF Sound
<1>3. reset \in Item /\ reset.how = "reset"
  BY DEF Item, Register, Regs!Common
<1> HIDE DEF q, reset
<1>4. /\ r \in Seq(Item) /\ r # <<>> /\ Head(r) = reset /\ r[1] = reset
      /\ Len(r) = Len(q) + 1 /\ Len(q) \in Nat
      /\ \A i \in 2..Len(r) : r[i] = q[i - 1]
  BY <1>2, <1>3
<1> HIDE DEF r
<1>5. ASSUME NEW i \in 2..Len(r)
      PROVE  r[i].how # "reset" /\ (Trusting(r[i]) => Backed(r, i))
  <2>1. r[i] = q[i - 1] /\ i - 1 \in 1..Len(q) /\ i > 1
    BY <1>4
  <2>2. i - 1 > 1 => r[i - 1] = q[(i - 1) - 1]
    <3>1. i - 1 > 1 => i - 1 \in 2..Len(r)
      BY <1>4
    <3> QED
      BY <1>4, <3>1
  <2> QED
    BY <1>2, <2>1, <2>2 DEF Sound, Backed
<1> QED
  BY <1>1, <1>3, <1>4, <1>5 DEF Trusting

(* What set_bank remembers can be relied on, in every order of calls and   *)
(* resets: RegInv is inductive.                                            *)
LEMMA RegInvHolds ==
  Regs!Spec => []RegInv
<1> DEFINE Selection == SUBSET {Regs!BSEL0, Regs!BSEL1}
<1>0. Regs!TypeOK <=>
        bank \in Selection /\ bsel \in Selection /\ cleared \in BOOLEAN /\ todo \in Seq(Item)
  BY DEF Regs!TypeOK, Item, Register
<1>1. Regs!Init => RegInv
  <2> SUFFICES ASSUME Regs!Init PROVE RegInv
    OBVIOUS
  <2> USE EncInitResets DEF Regs!Init
  <2>1. Regs!TypeOK
    BY <1>0
  <2>2. BankIsKnown
    BY DEF BankIsKnown, Resets, Regs!Now
  <2>3. TodoIsSound
    <3>1. \A i \in 1..Len(todo) : i = 1 \/ i \in 2..Len(todo)
      BY <2>1, <1>0
    <3> QED
      BY <3>1 DEF TodoIsSound
  <2> QED
    BY <2>1, <2>2, <2>3 DEF RegInv
<1>2. RegInv /\ [Regs!Next]_Regs!regVars => RegInv'
  <2> SUFFICES ASSUME RegInv, [Regs!Next]_Regs!regVars PROVE RegInv'
    OBVIOUS
  <2>0. bank \in Selection /\ bsel \in Selection /\ cleared \in BOOLEAN /\ todo \in Seq(Item)
    BY <1>0 DEF RegInv
  <2>1. ASSUME bank' \in Selection, bsel' \in Selection, cleared' \in BOOLEAN, todo' \in Seq(Item)
        PROVE  Regs!TypeOK'
    BY <2>1 DEF Regs!TypeOK, Item, Register
  <2>2. CASE Regs!Call
    <3>1. Sound(todo') /\ UNCHANGED <<bank, bsel, cleared>> /\ todo = <<>>
      BY <2>2, CallsAreSound DEF Regs!Call
    <3>2. Regs!TypeOK'
      BY <2>0, <2>1, <3>1 DEF Sound
    <3>3. ~Resets' /\ BankIsKnown'
      <4>1. ~Resets /\ ~cleared /\ bsel = bank
        BY <3>1 DEF RegInv, BankIsKnown, Resets
      <4>2. todo' # <<>> => Head(todo') = todo'[1] /\ 1 \in 1..Len(todo')
        BY <3>1 DEF Sound
      <4>3. ~Resets'
        BY <3>1, <4>2 DEF Sound, Resets, Regs!Now
      <4> QED
        BY <3>1, <4>1, <4>3 DEF BankIsKnown
    <3>4. TodoIsSound'
      <4>1. 2..Len(todo') \subseteq 1..Len(todo')
        BY <3>1 DEF Sound
      <4> QED
        BY <3>1, <4>1 DEF TodoIsSound, Sound
    <3> QED
      BY <3>2, <3>3, <3>4 DEF RegInv
  <2>3. CASE Regs!ClearBank
    <3>1. ~Resets /\ todo' = todo /\ bank' = bank /\ bsel' = {} /\ cleared'
          /\ todo # <<>> /\ Regs!OtherBank
      BY <2>3 DEF Regs!ClearBank, Regs!OtherBank, Resets
    <3>2. BankIsKnown'
      BY <3>1 DEF BankIsKnown, Resets, Regs!Now, Regs!OtherBank
    <3>3. TodoIsSound'
      BY <3>1 DEF RegInv, TodoIsSound
    <3>4. Regs!TypeOK'
      BY <2>0, <2>1, <2>3 DEF Regs!ClearBank
    <3> QED
      BY <3>2, <3>3, <3>4 DEF RegInv
  <2>4. CASE Regs!SetBank
    <3>0. todo # <<>> /\ Regs!Now \in Item /\ Regs!Now = todo[1]
      BY <2>0, <2>4 DEF Regs!SetBank, Regs!Now
    <3>1. Regs!BankOf(Regs!Now.reg) \in Selection
      BY <3>0, BankOfType DEF Item
    <3>2. Regs!TypeOK'
      BY <2>0, <2>1, <2>4, <3>1 DEF Regs!SetBank
    <3>3. Regs!Now.how \in {"access", "bank"} /\ ~Resets /\ cleared
      BY <2>4 DEF Regs!SetBank, Regs!OtherBank, Resets
    <3>4. bsel' = bank' /\ ~cleared' /\ ~Resets'
      BY <2>4, <3>3 DEF Regs!SetBank, RegInv, BankIsKnown, Resets, Regs!Now
    <3>5. BankIsKnown'
      BY <3>4 DEF BankIsKnown
    <3>6. TodoIsSound'
      <4>1. todo' = todo /\ ~Trusting(todo[1])
        BY <2>4, <3>0, <3>3 DEF Regs!SetBank, Trusting
      <4> QED
        BY <4>1 DEF RegInv, TodoIsSound, Backed
    <3> QED
      BY <3>2, <3>5, <3>6 DEF RegInv
  <2>5. CASE Regs!Command
    <3> DEFINE n == Len(todo)
    <3>0. /\ todo # <<>> /\ Regs!Now \in Item /\ Regs!Now = todo[1] /\ n \in Nat
          /\ todo' = Tail(todo) /\ todo' \in Seq(Item) /\ Len(todo') = n - 1 /\ n > 0
          /\ \A i \in 1..Len(todo') : todo'[i] = todo[i + 1]
      BY <2>0, <2>5 DEF Regs!Command, Regs!Now
    <3>1. bank' = bank /\ cleared' = cleared /\ bsel' = bank' /\ ~cleared
      BY <2>5 DEF Regs!Command, RegInv, BankIsKnown, Resets
    <3>2. Regs!TypeOK'
      BY <2>0, <2>1, <3>0, <3>1
    <3>3. ~Resets'
      <4>1. todo' # <<>> => Regs!Now' = todo[2] /\ 2 \in 2..n
        BY <3>0 DEF Regs!Now
      <4> QED
        BY <4>1 DEF RegInv, TodoIsSound, Resets
    <3>4. TodoIsSound'
      <4>1. ASSUME NEW i \in 2..Len(todo') PROVE todo'[i].how # "reset"
        <5>1. i \in 1..Len(todo') /\ i + 1 \in 2..n
          BY <3>0
        <5> QED
          BY <3>0, <5>1 DEF RegInv, TodoIsSound
      <4>2. ASSUME NEW i \in 1..Len(todo'), Trusting(todo'[i])
            PROVE  Backed(todo', i) \/ (i = 1 /\ bank' = Regs!BankOf(todo'[1].reg))
        <5>1. /\ i + 1 \in 1..n /\ i + 1 # 1 /\ todo'[i] = todo[i + 1]
              /\ (i + 1) - 1 = i
          BY <3>0
        <5>2. Backed(todo, i + 1)
          BY <4>2, <5>1 DEF RegInv, TodoIsSound
        <5>3. todo[i].how = "access" /\ Regs!BankOf(todo[i].reg) = Regs!BankOf(todo'[i].reg)
          BY <5>1, <5>2 DEF Backed
        <5>4. CASE i = 1
          <6>1. Regs!BankOf(Regs!Now.reg) = bank
            BY <2>5, <3>0, <5>3, <5>4 DEF Regs!Command, Regs!OtherBank
          <6> QED
            BY <3>0, <3>1, <5>3, <5>4, <6>1
        <5>5. CASE i # 1
          <6>1. i - 1 \in 1..Len(todo') /\ (i - 1) + 1 = i /\ i > 1
            BY <3>0, <5>5
          <6>2. todo'[i - 1] = todo[i]
            BY <3>0, <6>1
          <6> QED
            BY <5>3, <6>1, <6>2 DEF Backed
        <5> QED
          BY <5>4, <5>5
      <4> QED
        BY <4>1, <4>2 DEF TodoIsSound
    <3>5. BankIsKnown'
      BY <3>1, <3>3 DEF BankIsKnown
    <3> QED
      BY <3>2, <3>4, <3>5 DEF RegInv
  <2>6. CASE Regs!McuReset
    <3> USE EncInitResets
    <3>1. bank' = {} /\ cleared' = FALSE /\ bsel' = bsel /\ todo' = Regs!EncInit
      BY <2>6 DEF Regs!McuReset
    <3>2. Regs!TypeOK'
      BY <2>0, <2>1, <3>1
    <3>3. BankIsKnown'
      BY <3>1 DEF BankIsKnown, Resets, Regs!Now
    <3>4. TodoIsSound'
      <4>1. \A i \in 1..Len(todo') : i = 1 \/ i \in 2..Len(todo')
        BY <3>1
      <4> QED
        BY <3>1, <4>1 DEF TodoIsSound
    <3> QED
      BY <3>2, <3>3, <3>4 DEF RegInv
  <2>7. CASE UNCHANGED Regs!regVars
    BY <2>0, <2>1, <2>7
       DEF Regs!regVars, RegInv, BankIsKnown, TodoIsSound, Resets, Regs!Now,
           Regs!OtherBank, Backed
  <2> QED
    BY <2>2, <2>3, <2>4, <2>5, <2>6, <2>7 DEF Regs!Next
<1> QED
  BY <1>1, <1>2, PTL DEF Regs!Spec

(* Each command of the driver meets the register it is meant for, for any  *)
(* number of attempts to send: the bank in the chip is what the driver     *)
(* remembers whenever it is relied on.                                     *)
THEOREM CommandsMeetRegisters == Regs!Spec => []CommandMeetsRegister
<1>1. RegInv => CommandMeetsRegister
  <2> SUFFICES ASSUME RegInv, todo # <<>>, ~Regs!OtherBank,
                      Regs!Now.how \in {"access", "bits"}, Regs!Now.reg \notin Regs!Common
               PROVE  bsel = Regs!BankOf(Regs!Now.reg)
    BY DEF CommandMeetsRegister, Regs!CommandMeetsRegister
  <2>1. bsel = bank
    BY DEF RegInv, BankIsKnown, Resets
  <2>2. CASE Regs!Now.how = "access"
    BY <2>1, <2>2 DEF Regs!OtherBank
  <2>3. CASE Regs!Now.how = "bits"
    <3>1. todo[1] = Regs!Now /\ 1 \in 1..Len(todo)
      BY DEF RegInv, Regs!TypeOK, Regs!Now
    <3>2. Trusting(todo[1]) /\ ~Backed(todo, 1)
      BY <2>3, <3>1 DEF Trusting, Backed
    <3> QED
      BY <2>1, <3>1, <3>2 DEF RegInv, TodoIsSound
  <2> QED
    BY <2>2, <2>3
<1> QED
  BY <1>1, RegInvHolds, PTL

-----------------------------------------------------------------------------
(* Around brings back what went once beyond the end of the ring.           *)
LEMMA AroundIs ==
  ASSUME NEW a \in 0..RxStop, NEW i \in 0..RxStop
  PROVE  /\ Ring!Around(a + i) \in 0..RxStop
         /\ Ring!Around(a + i) = IF a + i <= RxStop THEN a + i ELSE a + i - Ring!Size
         /\ Dist(a, Ring!Around(a + i)) = i
<1>1. RxStop \in Nat /\ Ring!Size = RxStop + 1 /\ Ring!Size \in Nat \ {0}
  BY RingAssumption DEF Ring!Size
<1>2. a \in Nat /\ i \in Nat /\ a <= RxStop /\ i <= RxStop /\ a + i \in Nat
  BY <1>1
<1>3. Ring!Around(a + i) = IF a + i <= RxStop THEN a + i ELSE a + i - Ring!Size
  <2>1. CASE a + i <= RxStop
    BY <1>1, <1>2, <2>1 DEF Ring!Around
  <2>2. CASE ~(a + i <= RxStop)
    <3>1. Ring!Size <= a + i /\ a + i < 2 * Ring!Size
      BY <1>1, <1>2, <2>2
    <3>2. \A s \in Nat \ {0} : \A x \in Nat : s <= x /\ x < 2 * s => x % s = x - s
      OBVIOUS
    <3>3. (a + i) % Ring!Size = (a + i) - Ring!Size
      BY <1>1, <1>2, <3>1, <3>2
    <3> QED
      BY <1>1, <1>2, <2>2, <3>3 DEF Ring!Around
  <2> QED
    BY <2>1, <2>2
<1> QED
  BY <1>1, <1>2, <1>3 DEF Dist

(* The addresses of a frame are those less than its length behind its      *)
(* start.                                                                  *)
LEMMA ExtentIs ==
  ASSUME NEW a \in 0..RxStop, NEW len \in Nat,
         Header + len <= Ring!Size
  PROVE  Ring!Extent(a, len) = {x \in 0..RxStop : Dist(a, x) < Header + len}
<1>1. /\ RxStop \in Nat /\ Ring!Size = RxStop + 1 /\ Header \in Nat
      /\ a \in Nat /\ a <= RxStop
  BY RingAssumption DEF Ring!Size
<1>2. ASSUME NEW i \in 0..(Header + len - 1)
      PROVE  Ring!Around(a + i) \in 0..RxStop /\ Dist(a, Ring!Around(a + i)) < Header + len
  <2>1. i \in 0..RxStop /\ i < Header + len
    BY <1>1
  <2> QED
    BY <2>1, AroundIs
<1>3. ASSUME NEW x \in 0..RxStop, Dist(a, x) < Header + len
      PROVE  \E i \in 0..(Header + len - 1) : x = Ring!Around(a + i)
  <2> DEFINE d == Dist(a, x)
  <2>1. d \in 0..RxStop /\ x = (IF a + d <= RxStop THEN a + d ELSE a + d - Ring!Size)
    BY <1>1 DEF Dist
  <2>2. d \in 0..(Header + len - 1)
    BY <1>1, <1>3, <2>1
  <2>3. x = Ring!Around(a + d)
    BY <2>1, AroundIs
  <2> QED
    BY <2>2, <2>3
<1> QED
  BY <1>2, <1>3 DEF Ring!Extent

(* What the chip may write ends one before ERXRDPT.                        *)
LEMMA FreeIs ==
  ASSUME NEW w \in 0..RxStop, NEW r \in 0..RxStop
  PROVE  /\ Gap(w, r) = IF w = r THEN RxStop ELSE (r + Ring!Size - w - 1) % Ring!Size
         /\ Gap(w, r) \in 0..RxStop
<1>1. /\ RxStop \in Nat /\ Ring!Size = RxStop + 1 /\ Ring!Size \in Nat \ {0}
      /\ w \in Nat /\ w <= RxStop /\ r \in Nat /\ r <= RxStop
  BY RingAssumption DEF Ring!Size
<1> DEFINE x == r + Ring!Size - w - 1
<1>2. CASE w = r
  BY <1>1, <1>2 DEF Gap
<1>3. CASE w < r
  <2>1. x \in Nat /\ Ring!Size <= x /\ x < 2 * Ring!Size
    BY <1>1, <1>3
  <2>2. \A s \in Nat \ {0} : \A y \in Nat : s <= y /\ y < 2 * s => y % s = y - s
    OBVIOUS
  <2>3. x % Ring!Size = x - Ring!Size
    BY <1>1, <2>1, <2>2
  <2> QED
    BY <1>1, <1>3, <2>3 DEF Gap, Dist
<1>4. CASE r < w
  <2>1. x \in Nat /\ x < Ring!Size
    BY <1>1, <1>4
  <2>2. \A s \in Nat \ {0} : \A y \in Nat : y < s => y % s = y
    OBVIOUS
  <2>3. x % Ring!Size = x
    BY <1>1, <2>1, <2>2
  <2> QED
    BY <1>1, <1>4, <2>3 DEF Gap, Dist
<1> QED
  BY <1>1, <1>2, <1>3, <1>4

(* An unread frame lies between the next one that the driver expects and   *)
(* where the chip writes.                                                  *)
LEMMA UnreadLies ==
  ASSUME RingInv, NEW i \in 1..Len(unread)
  PROVE  LET a == unread[i] IN
         /\ a \in 0..RxStop /\ a % 2 = 0 /\ mem[a].len \in Nat /\ mem[a].len > 0
         /\ Header + mem[a].len <= Block(a) /\ Block(a) \in Nat
         /\ Block(a) <= Behind(a) /\ Behind(a) \in Nat
         /\ Behind(a) <= Behind(next_frame_ptr)
         /\ Behind(a) + Ring!Free <= RxStop /\ Header + mem[a].len <= Ring!Size
<1> DEFINE a == unread[i]
<1>1. /\ RxStop \in Nat /\ Ring!Size = RxStop + 1 /\ Header \in Nat
      /\ \A n \in Lengths : n \in Nat /\ n > 0
  BY RingAssumption DEF Ring!Size
<1>2. /\ unread \in Seq(0..RxStop) /\ wrpt \in 0..RxStop /\ rdpt \in 0..RxStop
      /\ next_frame_ptr \in 0..RxStop
  BY DEF RingInv, Ring!TypeOK
<1>3. Ring!Free \in 0..RxStop
  BY <1>2, FreeIs DEF Ring!Free
<1>4. a \in 0..RxStop /\ a % 2 = 0 /\ mem[a].len \in Lengths /\ Block(a) <= Behind(a)
  <2>1. unread[i] \in 0..RxStop
    <3> DEFINE S == 0..RxStop
    <3>1. unread \in Seq(S)
      BY <1>2
    <3> HIDE DEF S
    <3>2. unread[i] \in S
      BY <3>1
    <3> QED
      BY <3>2 DEF S
  <2>2. InOrder
    BY DEF RingInv
  <2> QED
    BY <2>1, <2>2 DEF InOrder
<1>5. Header + mem[a].len <= Block(a) /\ Block(a) \in Nat
  <2>1. \A n \in Nat : n <= n + (n % 2) /\ n + (n % 2) \in Nat
    OBVIOUS
  <2>2. Header + mem[a].len \in Nat
    BY <1>1, <1>4
  <2> QED
    BY <2>1, <2>2 DEF Block, Ring!Even
<1>6. Behind(a) \in Nat /\ Behind(next_frame_ptr) \in Nat
  <2>1. \A x \in 0..RxStop : Dist(x, wrpt) \in Nat
    <3>1. RxStop \in Nat /\ Ring!Size = RxStop + 1 /\ wrpt \in 0..RxStop
      BY <1>1, <1>2
    <3> QED
      BY <3>1 DEF Dist
  <2>2. Dist(a, wrpt) \in Nat
    BY <1>4, <2>1
  <2>3. Dist(next_frame_ptr, wrpt) \in Nat
    BY <1>2, <2>1
  <2> QED
    BY <2>2, <2>3 DEF Behind
<1>7. Behind(a) <= Behind(next_frame_ptr)
  <2>1. unread # <<>> /\ 1 \in 1..Len(unread) /\ (i = 1 \/ 1 < i) /\ Head(unread) = unread[1]
    BY <1>2
  <2>2. next_frame_ptr = unread[1]
    BY <2>1 DEF RingInv, DriverFollowsChip, Ring!DriverFollowsChip
  <2>3. 1 < i => Behind(a) <= Behind(unread[1])
    BY <2>1 DEF RingInv, InOrder
  <2> QED
    BY <1>6, <2>1, <2>2, <2>3
<1>8. Behind(next_frame_ptr) + Ring!Free <= RxStop
  BY DEF RingInv, RoomKept
<1> HIDE DEF a
<1>9. Behind(a) + Ring!Free <= RxStop
  BY <1>1, <1>3, <1>6, <1>7, <1>8
<1>10. Header + mem[a].len <= Ring!Size
  BY <1>1, <1>3, <1>4, <1>5, <1>6, <1>9
<1>11. mem[a].len \in Nat /\ mem[a].len > 0
  BY <1>1, <1>4
<1> QED
  BY <1>4, <1>5, <1>6, <1>7, <1>9, <1>10, <1>11 DEF a

(* A frame that the chip receives falls on none of them.                   *)
LEMMA ArriveSpares ==
  ASSUME RingInv, NEW B \in Nat, B >= Header, B <= Ring!Free,
         NEW i \in 1..Len(unread)
  PROVE  LET a == unread[i]
             where == Ring!Extent(wrpt, B - Header)
         IN  a \notin where /\ Ring!Extent(a, mem[a].len) \cap where = {}
<1> DEFINE a == unread[i]
           where == Ring!Extent(wrpt, B - Header)
           len == mem[a].len
<1>1. /\ RxStop \in Nat /\ Ring!Size = RxStop + 1 /\ Header \in Nat
      /\ wrpt \in 0..RxStop /\ rdpt \in 0..RxStop
  BY RingAssumption DEF Ring!Size, RingInv, Ring!TypeOK
<1>2. Ring!Free \in 0..RxStop
  BY <1>1, FreeIs DEF Ring!Free
<1>3. /\ a \in 0..RxStop /\ len \in Nat /\ len > 0 /\ Header + len <= Ring!Size
      /\ Header + len <= Behind(a) /\ Behind(a) \in Nat /\ Behind(a) + B <= RxStop
  <2>1. /\ a \in 0..RxStop /\ len \in Nat /\ len > 0 /\ Header + len <= Ring!Size
        /\ Header + len <= Block(a) /\ Block(a) \in Nat /\ Block(a) <= Behind(a)
        /\ Behind(a) \in Nat /\ Behind(a) + Ring!Free <= RxStop
    BY UnreadLies
  <2> HIDE DEF a, len
  <2> QED
    BY <1>1, <1>2, <2>1
<1>4. where = {x \in 0..RxStop : Dist(wrpt, x) < B}
  <2>1. B - Header \in Nat /\ Header + (B - Header) = B /\ B <= Ring!Size
    BY <1>1, <1>2
  <2> QED
    BY <1>1, <2>1, ExtentIs
<1>5. Ring!Extent(a, len) = {x \in 0..RxStop : Dist(a, x) < Header + len}
  BY <1>3, ExtentIs
<1> HIDE DEF a, len, where
<1>6. ASSUME NEW x \in where PROVE x \notin Ring!Extent(a, len)
  <2>1. x \in 0..RxStop /\ Dist(wrpt, x) < B
    BY <1>4
  <2>2. Dist(a, x) = Behind(a) + Dist(wrpt, x) /\ Dist(wrpt, x) \in Nat
    BY <1>1, <1>3, <2>1 DEF Behind, Dist
  <2>3. ~(Dist(a, x) < Header + len)
    BY <1>1, <1>3, <2>2
  <2> QED
    BY <1>5, <2>3
<1>7. a \in Ring!Extent(a, len)
  BY <1>1, <1>3, <1>5 DEF Dist
<1> QED
  BY <1>6, <1>7 DEF a, len, where

(* The chip receives a frame: it becomes the last of the unread ones.      *)
LEMMA ArriveKeeps ==
  ASSUME RingInv, NEW len \in Lengths, NEW ok \in BOOLEAN,
         Ring!Arrive(len, ok)
  PROVE  RingInv'
<1> DEFINE B == Ring!Even(Header + len)
           after == Ring!Around(wrpt + B)
           where == Ring!Extent(wrpt, B - Header)
           n == Len(unread)
           S == 0..RxStop
<1>1. /\ RxStop \in Nat /\ Ring!Size = RxStop + 1 /\ Header \in Nat /\ Header > 0
      /\ \A l \in Lengths : l \in Nat /\ l > 0
      /\ \A a \in S : a \in Nat /\ a <= RxStop
      /\ RxStop % 2 = 1
  BY RingAssumption DEF Ring!Size
<1>2. /\ unread \in Seq(S) /\ wrpt \in S /\ rdpt \in S /\ next_frame_ptr \in S
      /\ torn \subseteq S /\ bad \in 0..MaxBad
      /\ mem \in [S -> [next : 0..Ring!Size, len : Lengths \cup {0}, ok : BOOLEAN]]
  BY DEF RingInv, Ring!TypeOK
<1>3. /\ Ring!Free = Gap(wrpt, rdpt) /\ Gap(wrpt, rdpt) \in 0..RxStop
  BY <1>2, FreeIs DEF Ring!Free
<1>4. B \in Nat /\ B % 2 = 0 /\ Header + len <= B /\ B > 0 /\ B >= Header
  <2>1. \A l \in Nat : l + (l % 2) \in Nat /\ l <= l + (l % 2) /\ (l + (l % 2)) % 2 = 0
    OBVIOUS
  <2>2. Header + len \in Nat /\ len > 0
    BY <1>1
  <2>3. B \in Nat /\ B % 2 = 0 /\ Header + len <= B
    BY <2>1, <2>2 DEF Ring!Even
  <2> HIDE DEF B
  <2> QED
    BY <1>1, <2>2, <2>3
<1>5. /\ rxen /\ B <= Ring!Free /\ (~ok => bad < MaxBad)
      /\ mem' = [a \in 0..RxStop |->
           IF a = wrpt THEN [next |-> after, len |-> len, ok |-> ok]
           ELSE IF a \in where THEN Ring!Blank ELSE mem[a]]
      /\ wrpt' = after /\ count' = count + 1 /\ unread' = Append(unread, wrpt)
      /\ torn' = torn \cup Ring!Torn(where)
      /\ bad' = IF ok THEN 0 ELSE bad + 1
      /\ UNCHANGED <<rdpt, rxen, next_frame_ptr, taken>>
  BY DEF Ring!Arrive
<1> HIDE DEF B
<1>6. B \in 0..RxStop
  <2>1. PICK room \in 0..RxStop : room = Ring!Free
    BY <1>3
  <2>2. B \in Nat /\ B <= room
    BY <1>4, <1>5, <2>1
  <2> QED
    BY <1>1, <2>2
<1>7. /\ after \in S /\ Dist(wrpt, after) = B
      /\ after = IF wrpt + B <= RxStop THEN wrpt + B ELSE wrpt + B - Ring!Size
  BY <1>2, <1>6, AroundIs
<1>8. \A i \in 1..n : unread[i] \in S /\ unread[i] \notin where
        /\ Ring!Extent(unread[i], mem[unread[i]].len) \cap where = {}
  <2>1. \A i \in 1..n : unread[i] \in S
    <3> HIDE DEF S
    <3> QED
      BY <1>2
  <2>2. \A i \in 1..n : unread[i] \notin where
          /\ Ring!Extent(unread[i], mem[unread[i]].len) \cap where = {}
    BY <1>4, <1>5, ArriveSpares
  <2> QED
    BY <2>1, <2>2
<1>9. wrpt \in where
  <2>1. where = {x \in 0..RxStop : Dist(wrpt, x) < B}
    <3>1. B - Header \in Nat /\ Header + (B - Header) = B /\ B <= Ring!Size
      BY <1>1, <1>4, <1>6
    <3> QED
      BY <1>2, <3>1, ExtentIs
  <2>2. Dist(wrpt, wrpt) = 0
    BY <1>1, <1>2 DEF Dist
  <2> QED
    BY <1>2, <1>4, <2>1, <2>2
<1>10. \A i \in 1..n : mem'[unread[i]] = mem[unread[i]]
  BY <1>5, <1>8, <1>9
<1>11. mem'[wrpt] = [next |-> after, len |-> len, ok |-> ok]
  BY <1>2, <1>5
<1>12. Ring!Torn(where) = {}
  <2>1. DOMAIN unread = 1..n
    BY <1>2
  <2> QED
    BY <1>8, <2>1 DEF Ring!Torn
<1> HIDE DEF after, where
<1>13. ASSUME NEW a \in S, Behind(a) + B <= RxStop
       PROVE  Dist(a, wrpt') = Behind(a) + B
  <2>1. /\ a \in Nat /\ a <= RxStop /\ wrpt \in Nat /\ wrpt <= RxStop
        /\ B \in Nat /\ B > 0 /\ B <= RxStop
        /\ wrpt' = IF wrpt + B <= RxStop THEN wrpt + B ELSE wrpt + B - Ring!Size
    BY <1>1, <1>2, <1>4, <1>5, <1>6, <1>7
  <2>2. (IF a <= wrpt THEN wrpt - a ELSE wrpt + Ring!Size - a) + B <= RxStop
    BY <1>13 DEF Behind, Dist
  <2> QED
    BY <1>1, <2>1, <2>2 DEF Behind, Dist
<1>14. ASSUME NEW i \in 1..n
       PROVE  /\ Dist(unread[i], wrpt') = Behind(unread[i]) + B
              /\ Behind(unread[i]) \in Nat
  <2> DEFINE a == unread[i]
             d == Behind(a)
  <2>1. a \in S /\ d \in Nat /\ d + Ring!Free <= RxStop
    BY UnreadLies
  <2>2. d + B <= RxStop
    <3>1. B <= Ring!Free /\ Ring!Free \in Nat
      BY <1>1, <1>3, <1>5
    <3> HIDE DEF d
    <3> QED
      BY <1>1, <1>4, <2>1, <3>1
  <2> QED
    BY <1>13, <2>1, <2>2
<1>15. Dist(wrpt, wrpt') = B
  BY <1>5, <1>7
<1>16. /\ unread' \in Seq(S) /\ Len(unread') = n + 1 /\ n \in Nat
       /\ \A i \in 1..n : unread'[i] = unread[i]
       /\ unread'[n + 1] = wrpt /\ DOMAIN unread' = 1..(n + 1) /\ DOMAIN unread = 1..n
  <2> HIDE DEF S
  <2> QED
    BY <1>2, <1>5
<1>17. \A i \in 1..(n + 1) : i \in 1..n \/ i = n + 1
  BY <1>16
<1>18. RoomKept'
  <2>0. /\ RxStop \in Nat /\ Ring!Size = RxStop + 1 /\ Ring!Size % 2 = 0
        /\ wrpt \in Nat /\ wrpt <= RxStop /\ rdpt \in Nat /\ rdpt <= RxStop
        /\ B \in Nat /\ B > 0 /\ B <= RxStop /\ B % 2 = 0
        /\ Gap(wrpt, rdpt) \in Nat /\ B <= Gap(wrpt, rdpt)
        /\ after = IF wrpt + B <= RxStop THEN wrpt + B ELSE wrpt + B - Ring!Size
    <3>1. Ring!Size % 2 = 0
      BY <1>1
    <3>2. wrpt \in Nat /\ wrpt <= RxStop /\ rdpt \in Nat /\ rdpt <= RxStop
      BY <1>1, <1>2
    <3>3. B <= RxStop /\ Gap(wrpt, rdpt) \in Nat /\ B <= Gap(wrpt, rdpt)
      BY <1>1, <1>3, <1>5, <1>6
    <3> QED
      BY <1>1, <1>4, <1>7, <3>1, <3>2, <3>3
  <2>1. after % 2 = 0
    <3>1. wrpt % 2 = 0
      BY DEF RingInv, RoomKept
    <3>2. \A x, y \in Nat : x % 2 = 0 /\ y % 2 = 0 =>
            (x + y) % 2 = 0 /\ (y <= x => (x - y) % 2 = 0)
      OBVIOUS
    <3>3. (wrpt + B) % 2 = 0 /\ wrpt + B \in Nat
      BY <2>0, <3>1, <3>2
    <3>4. ~(wrpt + B <= RxStop) => Ring!Size <= wrpt + B /\ Ring!Size \in Nat
      BY <2>0
    <3>5. ~(wrpt + B <= RxStop) => ((wrpt + B) - Ring!Size) % 2 = 0
      BY <2>0, <3>2, <3>3, <3>4
    <3> QED
      BY <2>0, <3>3, <3>5
  <2>2. Behind(next_frame_ptr) + Ring!Free <= RxStop
    BY DEF RingInv, RoomKept
  <2>3. Behind(next_frame_ptr) \in Nat
    BY <1>1, <1>2 DEF Behind, Dist
  <2>4. Behind(next_frame_ptr) + B <= RxStop
    BY <1>3, <2>0, <2>2, <2>3
  <2>5. Dist(next_frame_ptr, wrpt') = Behind(next_frame_ptr) + B
    BY <1>2, <1>13, <2>4
  <2>6. Gap(after, rdpt) = Gap(wrpt, rdpt) - B
    <3>1. CASE wrpt = rdpt
      BY <2>0, <3>1 DEF Gap, Dist
    <3>2. CASE wrpt < rdpt
      <4>1. Gap(wrpt, rdpt) = rdpt - wrpt - 1
        BY <2>0, <3>2 DEF Gap, Dist
      <4>2. after = wrpt + B /\ after < rdpt
        BY <2>0, <3>2, <4>1
      <4> QED
        BY <2>0, <4>1, <4>2 DEF Gap, Dist
    <3>3. CASE rdpt < wrpt
      <4>1. Gap(wrpt, rdpt) = rdpt + RxStop - wrpt
        BY <2>0, <3>3 DEF Gap, Dist
      <4> QED
        BY <2>0, <3>3, <4>1 DEF Gap, Dist
    <3> QED
      BY <2>0, <3>1, <3>2, <3>3
  <2>7. Ring!Free' = Gap(after, rdpt)
    <3>1. Ring!Free' =
            IF after = rdpt THEN RxStop ELSE (rdpt + Ring!Size - after - 1) % Ring!Size
      BY <1>5 DEF Ring!Free
    <3> QED
      BY <1>2, <1>7, <3>1, FreeIs
  <2>8. Behind(next_frame_ptr)' = Dist(next_frame_ptr, wrpt')
    BY <1>5 DEF Behind, Dist
  <2>9. Behind(next_frame_ptr)' + Ring!Free' <= RxStop
    BY <1>3, <2>0, <2>2, <2>3, <2>5, <2>6, <2>7, <2>8
  <2> QED
    BY <1>5, <2>1, <2>9 DEF RoomKept
<1>19. InOrder'
  <2>0. InOrder
    BY DEF RingInv
  <2> SUFFICES ASSUME NEW i \in 1..(n + 1)
               PROVE  /\ unread'[i] % 2 = 0 /\ mem'[unread'[i]].len \in Lengths
                      /\ Ring!Even(Header + mem'[unread'[i]].len) <= Dist(unread'[i], wrpt')
                      /\ n + 1 < Dist(unread'[i], wrpt') + i
                      /\ \A j \in 1..(n + 1) : i < j =>
                           Dist(unread'[j], wrpt') <= Dist(unread'[i], wrpt')
    BY <1>16 DEF InOrder, Block, Behind, Dist
  <2>1. CASE i \in 1..n
    <3> DEFINE a == unread[i]
               d == Behind(a)
    <3>1. /\ a % 2 = 0 /\ mem[a].len \in Lengths
          /\ Ring!Even(Header + mem[a].len) <= d /\ n < d + i
          /\ \A j \in 1..n : i < j => Behind(unread[j]) <= d
      BY <2>0, <2>1 DEF InOrder, Block
    <3>2. unread'[i] = a /\ mem'[a] = mem[a] /\ Dist(a, wrpt') = d + B /\ d \in Nat
      BY <1>10, <1>14, <1>16, <2>1
    <3>3. Ring!Even(Header + mem[a].len) \in Nat
      <4>1. \A l \in Nat : l + (l % 2) \in Nat
        OBVIOUS
      <4>2. mem[a].len \in Nat /\ Header + mem[a].len \in Nat
        BY <1>1, <3>1
      <4> QED
        BY <4>1, <4>2 DEF Ring!Even
    <3> HIDE DEF d
    <3>4. Ring!Even(Header + mem[a].len) <= d + B /\ n + 1 < (d + B) + i
      BY <1>4, <1>16, <2>1, <3>1, <3>2, <3>3
    <3>5. ASSUME NEW j \in 1..(n + 1), i < j
          PROVE  Dist(unread'[j], wrpt') <= d + B
      <4>1. CASE j \in 1..n
        <5> DEFINE e == Behind(unread[j])
        <5>1. e <= d
          BY <3>1, <3>5, <4>1
        <5>2. unread'[j] = unread[j] /\ Dist(unread[j], wrpt') = e + B /\ e \in Nat
          BY <1>14, <1>16, <4>1
        <5> HIDE DEF e
        <5> QED
          BY <1>4, <3>2, <5>1, <5>2
      <4>2. CASE j = n + 1
        BY <1>4, <1>15, <1>16, <3>2, <4>2
      <4> QED
        BY <1>17, <4>1, <4>2
    <3> QED
      BY <3>1, <3>2, <3>4, <3>5
  <2>2. CASE i = n + 1
    <3>1. unread'[i] = wrpt /\ mem'[wrpt].len = len /\ ~\E j \in 1..(n + 1) : i < j
      BY <1>11, <1>16, <2>2
    <3>2. wrpt % 2 = 0
      BY DEF RingInv, RoomKept
    <3>3. Ring!Even(Header + len) <= B
      BY <1>4 DEF B
    <3>4. n + 1 < B + i
      BY <1>4, <1>16, <2>2
    <3> QED
      BY <1>15, <3>1, <3>2, <3>3, <3>4
  <2> QED
    BY <1>17, <2>1, <2>2
<1>20. Ring!TypeOK'
  <2>1. mem' \in [S -> [next : 0..Ring!Size, len : Lengths \cup {0}, ok : BOOLEAN]]
    <3>1. after \in 0..Ring!Size /\ Ring!Size \in 0..Ring!Size
      BY <1>1, <1>7
    <3>2. Ring!Blank \in [next : 0..Ring!Size, len : Lengths \cup {0}, ok : BOOLEAN]
      BY <3>1 DEF Ring!Blank
    <3>3. [next |-> after, len |-> len, ok |-> ok]
            \in [next : 0..Ring!Size, len : Lengths \cup {0}, ok : BOOLEAN]
      BY <3>1
    <3> QED
      BY <1>2, <1>5, <3>2, <3>3
  <2>2. count' \in 0..Ring!Size
    <3>1. count' = n + 1
      BY <1>5, <1>16 DEF RingInv, DriverFollowsChip, Ring!DriverFollowsChip
    <3>2. 1 \in 1..(n + 1) /\ unread'[1] \in S
      BY <1>2, <1>8, <1>16, <1>17
    <3>3. n + 1 < Dist(unread'[1], wrpt') + 1
      BY <1>16, <1>19, <3>2 DEF InOrder, Behind, Dist
    <3>4. Dist(unread'[1], wrpt') \in 0..RxStop
      <4>1. \A x, y \in 0..RxStop : Dist(x, y) \in 0..RxStop
        BY <1>1 DEF Dist
      <4>2. unread'[1] \in 0..RxStop /\ wrpt' \in 0..RxStop
        BY <1>5, <1>7, <3>2
      <4> QED
        BY <4>1, <4>2
    <3> QED
      BY <1>1, <1>16, <3>1, <3>3, <3>4
  <2>3. bad' \in 0..MaxBad
    BY RingAssumption, <1>2, <1>5
  <2>4. torn' \subseteq S
    BY <1>2, <1>5, <1>12
  <2>5. rxen' \in BOOLEAN
    BY <1>5 DEF RingInv, Ring!TypeOK
  <2> QED
    BY <1>2, <1>5, <1>7, <1>16, <2>1, <2>2, <2>3, <2>4, <2>5 DEF Ring!TypeOK
<1>21. DriverFollowsChip'
  <2>0. Ring!DriverFollowsChip
    BY DEF RingInv, DriverFollowsChip
  <2>1. count' = Len(unread')
    BY <1>5, <1>16, <2>0 DEF Ring!DriverFollowsChip
  <2>2. next_frame_ptr' = Head(unread') /\ unread' # <<>>
    <3>1. unread' # <<>> /\ Head(unread') = unread'[1]
      BY <1>16
    <3>2. CASE unread = <<>>
      BY <1>5, <1>16, <2>0, <3>1, <3>2 DEF Ring!DriverFollowsChip
    <3>3. CASE unread # <<>>
      <4>1. Head(unread) = unread[1] /\ 1 \in 1..n
        BY <1>2, <1>16, <3>3
      <4> QED
        BY <1>5, <1>16, <2>0, <3>1, <3>3, <4>1 DEF Ring!DriverFollowsChip
    <3> QED
      BY <3>2, <3>3
  <2>3. ASSUME NEW i \in 1..(n + 1)
        PROVE  mem'[unread'[i]].next = IF i < n + 1 THEN unread'[i + 1] ELSE wrpt'
    <3>1. CASE i \in 1..n
      <4>1. mem[unread[i]].next = IF i < n THEN unread[i + 1] ELSE wrpt
        BY <1>16, <2>0, <3>1 DEF Ring!DriverFollowsChip
      <4>2. i < n + 1 /\ (i < n => i + 1 \in 1..n) /\ (~(i < n) => i + 1 = n + 1)
        BY <1>16, <3>1
      <4> QED
        BY <1>10, <1>16, <3>1, <4>1, <4>2
    <3>2. CASE i = n + 1
      BY <1>5, <1>11, <1>16, <3>2
    <3> QED
      BY <1>17, <3>1, <3>2
  <2>4. \A a \in torn' : RxStop \in Ring!Extent(a, mem'[a].len)
    <3>1. torn' = torn /\ \A a \in torn : \E i \in 1..n : a = unread[i]
      BY <1>5, <1>12, <1>16 DEF RingInv, TornKept
    <3> QED
      BY <1>10, <2>0, <3>1 DEF Ring!DriverFollowsChip
  <2> QED
    BY <1>16, <2>1, <2>2, <2>3, <2>4 DEF DriverFollowsChip, Ring!DriverFollowsChip,
       Ring!Extent, Ring!Around
<1>22. TornKept'
  <2>1. \A i \in 1..n : i \in 1..(n + 1)
    BY <1>16
  <2>2. {unread[i] : i \in DOMAIN unread} \subseteq {unread'[i] : i \in DOMAIN unread'}
    BY <1>16, <2>1
  <2> QED
    BY <1>5, <1>12, <2>2 DEF RingInv, TornKept
<1> QED
  BY <1>18, <1>19, <1>20, <1>21, <1>22 DEF RingInv

(* The driver reads a frame: what it gives back of the ring ends just      *)
(* before the next unread one.                                             *)
LEMMA PollKeeps ==
  ASSUME RingInv, Ring!Poll
  PROVE  RingInv'
<1> DEFINE n == Len(unread)
           S == 0..RxStop
           next == mem[next_frame_ptr].next
<1>0. Ring!TypeOK /\ Ring!DriverFollowsChip /\ InOrder /\ RoomKept /\ TornKept
  BY DEF RingInv, DriverFollowsChip
<1>1. /\ RxStop \in Nat /\ Ring!Size = RxStop + 1 /\ RxStop % 2 = 1
      /\ \A a \in S : a \in Nat /\ a <= RxStop
  BY RingAssumption DEF Ring!Size
<1>2. /\ unread \in Seq(S) /\ wrpt \in S /\ rdpt \in S /\ next_frame_ptr \in S
      /\ torn \subseteq S /\ count \in 0..Ring!Size
  BY <1>0 DEF Ring!TypeOK
<1>3. /\ n \in Nat /\ n > 0 /\ count = n /\ unread # <<>>
      /\ Head(unread) = unread[1] /\ DOMAIN unread = 1..n
      /\ unread' = Tail(unread) /\ unread' \in Seq(S) /\ Len(unread') = n - 1
      /\ DOMAIN unread' = 1..(n - 1)
      /\ \A i \in 1..(n - 1) : unread'[i] = unread[i + 1] /\ i + 1 \in 1..n
  <2>1. count > 0 /\ count = n /\ unread' = Tail(unread)
    BY <1>0 DEF Ring!Poll, Ring!DriverFollowsChip
  <2> HIDE DEF S
  <2>2. n \in Nat /\ n > 0
    BY <1>2, <2>1
  <2> QED
    BY <1>2, <2>1, <2>2
<1>4. /\ next_frame_ptr = unread[1] /\ 1 \in 1..n
      /\ next = IF 1 < n THEN unread[2] ELSE wrpt
  BY <1>0, <1>3 DEF Ring!DriverFollowsChip
<1>5. /\ next_frame_ptr' = next /\ count' = n - 1
      /\ torn' = torn \ {unread[1]}
      /\ UNCHANGED <<mem, wrpt, rxen, bad>>
      /\ rdpt' \in {rdpt, Ring!Released(next)}
  BY <1>3 DEF Ring!Poll
<1>6. 1 < n => 2 \in 1..n /\ unread[2] \in S /\ unread[2] % 2 = 0
        /\ Behind(unread[2]) <= Behind(unread[1])
  <2>1. 1 < n => 2 \in 1..n
    BY <1>3
  <2>2. 1 < n => unread[2] \in S
    <3> HIDE DEF S
    <3> QED
      BY <1>2, <2>1
  <2> QED
    BY <1>0, <1>4, <2>1, <2>2 DEF InOrder
<1>7. next \in S /\ next % 2 = 0 /\ wrpt % 2 = 0
  BY <1>0, <1>2, <1>4, <1>6 DEF RoomKept
<1> HIDE DEF next
<1>8. Ring!Released(next) \in S
  BY <1>1, <1>7 DEF Ring!Released
<1>9. RoomKept'
  <2>1. Behind(next) <= Behind(next_frame_ptr) /\ Behind(next) \in Nat
        /\ Behind(next_frame_ptr) \in Nat
    <3>1. Behind(wrpt) = 0
      BY <1>1, <1>2 DEF Behind, Dist
    <3>2. Behind(next) \in Nat /\ Behind(next_frame_ptr) \in Nat
      BY <1>1, <1>2, <1>7 DEF Behind, Dist
    <3> QED
      BY <1>4, <1>6, <3>1, <3>2
  <2>2. CASE rdpt' = rdpt
    <3>1. Ring!Free' = Ring!Free
      BY <1>5, <2>2 DEF Ring!Free
    <3>2. Behind(next_frame_ptr)' = Behind(next)
      BY <1>5 DEF Behind, Dist
    <3>3. Ring!Free \in Nat
      <4>1. Ring!Free = Gap(wrpt, rdpt) /\ Gap(wrpt, rdpt) \in 0..RxStop
        BY <1>2, FreeIs DEF Ring!Free
      <4> QED
        BY <1>1, <4>1
    <3>4. Behind(next_frame_ptr)' + Ring!Free' <= RxStop
      <4>1. Behind(next_frame_ptr) + Ring!Free <= RxStop
        BY <1>0 DEF RoomKept
      <4> QED
        BY <1>1, <2>1, <3>1, <3>2, <3>3, <4>1
    <3> QED
      BY <1>5, <1>7, <3>4 DEF RoomKept
  <2>3. CASE rdpt' = Ring!Released(next)
    <3> DEFINE r == Ring!Released(next)
    <3>1. Ring!Free' = Gap(wrpt, r)
      <4>1. Ring!Free' = IF wrpt = r THEN RxStop ELSE (r + Ring!Size - wrpt - 1) % Ring!Size
        BY <1>5, <2>3 DEF Ring!Free
      <4> QED
        BY <1>2, <1>8, <4>1, FreeIs
    <3>2. r # wrpt
      <4>1. \A x \in Nat : x % 2 = 0 /\ x # 0 => (x - 1) % 2 = 1
        OBVIOUS
      <4>2. r % 2 = 1
        BY <1>1, <1>7, <4>1 DEF Ring!Released
      <4> QED
        BY <1>7, <4>2
    <3>3. /\ wrpt \in Nat /\ wrpt <= RxStop /\ next \in Nat /\ next <= RxStop
          /\ r = IF next = 0 THEN RxStop ELSE next - 1
      BY <1>1, <1>2, <1>7 DEF Ring!Released
    <3>4. Dist(next, wrpt) + Gap(wrpt, r) <= RxStop
      BY <1>1, <3>2, <3>3 DEF Gap, Dist
    <3>5. Behind(next_frame_ptr)' = Dist(next, wrpt)
      BY <1>5 DEF Behind, Dist
    <3> QED
      BY <1>5, <1>7, <3>1, <3>4, <3>5 DEF RoomKept
  <2> QED
    BY <1>5, <2>2, <2>3
<1>10. InOrder'
  <2> SUFFICES ASSUME NEW i \in 1..(n - 1)
               PROVE  /\ unread'[i] % 2 = 0 /\ mem[unread'[i]].len \in Lengths
                      /\ Block(unread'[i]) <= Behind(unread'[i])
                      /\ n - 1 < Behind(unread'[i]) + i
                      /\ \A j \in 1..(n - 1) : i < j => Behind(unread'[j]) <= Behind(unread'[i])
    BY <1>3, <1>5 DEF InOrder, Block, Behind, Dist
  <2>1. unread'[i] = unread[i + 1] /\ i + 1 \in 1..n
    BY <1>3
  <2>2. /\ unread[i + 1] % 2 = 0 /\ mem[unread[i + 1]].len \in Lengths
        /\ Block(unread[i + 1]) <= Behind(unread[i + 1])
        /\ n < Behind(unread[i + 1]) + (i + 1)
        /\ \A j \in 1..n : i + 1 < j => Behind(unread[j]) <= Behind(unread[i + 1])
    BY <1>0, <2>1 DEF InOrder
  <2>3. Behind(unread[i + 1]) \in Nat
    BY <2>1, UnreadLies
  <2>4. n - 1 < Behind(unread[i + 1]) + i
    BY <1>3, <2>2, <2>3
  <2>5. ASSUME NEW j \in 1..(n - 1), i < j
        PROVE  Behind(unread'[j]) <= Behind(unread[i + 1])
    <3>1. unread'[j] = unread[j + 1] /\ j + 1 \in 1..n /\ i + 1 < j + 1
      BY <1>3, <2>5
    <3> QED
      BY <2>2, <3>1
  <2> QED
    BY <2>1, <2>2, <2>4, <2>5
<1>11. Ring!TypeOK'
  <2>1. count' \in 0..Ring!Size /\ rdpt' \in S /\ next_frame_ptr' \in S /\ torn' \subseteq S
    <3>1. n - 1 \in 0..Ring!Size
      BY <1>1, <1>2, <1>3
    <3> QED
      BY <1>2, <1>5, <1>7, <1>8, <3>1
  <2> QED
    BY <1>0, <1>3, <1>5, <2>1 DEF Ring!TypeOK
<1>12. Ring!DriverFollowsChip'
  <2>1. count' = Len(unread')
    BY <1>3, <1>5
  <2>2. next_frame_ptr' = IF unread' = <<>> THEN wrpt' ELSE Head(unread')
    <3>1. CASE n = 1
      <4>1. unread' = <<>>
        BY <1>3, <3>1
      <4> QED
        BY <1>4, <1>5, <3>1, <4>1 DEF next
    <3>2. CASE n # 1
      <4>1. 1 < n /\ 1 \in 1..(n - 1) /\ unread' # <<>> /\ Head(unread') = unread'[1]
        <5>1. 1 < n /\ 1 \in 1..(n - 1) /\ Len(unread') > 0
          BY <1>3, <3>2
        <5>2. unread' # <<>>
          BY <5>1
        <5> QED
          BY <1>3, <5>1, <5>2
      <4>2. unread'[1] = unread[2]
        BY <1>3, <4>1
      <4> QED
        BY <1>4, <1>5, <4>1, <4>2 DEF next
    <3> QED
      BY <3>1, <3>2
  <2>3. ASSUME NEW i \in 1..(n - 1)
        PROVE  mem[unread'[i]].next = IF i < n - 1 THEN unread'[i + 1] ELSE wrpt
    <3>1. unread'[i] = unread[i + 1] /\ i + 1 \in 1..n
      BY <1>3
    <3>2. mem[unread[i + 1]].next = IF i + 1 < n THEN unread[(i + 1) + 1] ELSE wrpt
      BY <1>0, <1>3, <3>1 DEF Ring!DriverFollowsChip
    <3>3. (i + 1 < n <=> i < n - 1) /\ (i < n - 1 => i + 1 \in 1..(n - 1))
      BY <1>3
    <3> QED
      BY <1>3, <3>1, <3>2, <3>3
  <2>4. \A a \in torn' : RxStop \in Ring!Extent(a, mem[a].len)
    BY <1>0, <1>5 DEF Ring!DriverFollowsChip
  <2> QED
    BY <1>3, <1>5, <2>1, <2>2, <2>3, <2>4 DEF Ring!DriverFollowsChip, Ring!Extent, Ring!Around
<1>13. TornKept'
  <2>1. ASSUME NEW a \in torn, a # unread[1] PROVE \E i \in 1..(n - 1) : a = unread'[i]
    <3>1. PICK i \in 1..n : a = unread[i]
      BY <1>0, <1>3 DEF TornKept
    <3>2. i - 1 \in 1..(n - 1) /\ (i - 1) + 1 = i
      BY <1>3, <2>1, <3>1
    <3> QED
      BY <1>3, <3>1, <3>2
  <2> QED
    BY <1>3, <1>5, <2>1 DEF TornKept
<1> QED
  BY <1>9, <1>10, <1>11, <1>12, <1>13 DEF RingInv, DriverFollowsChip

(* The control byte of enc_send falls into no header, since frames start   *)
(* at even addresses.                                                      *)
LEMMA SendKeeps ==
  ASSUME RingInv, Ring!Send
  PROVE  RingInv'
<1> DEFINE n == Len(unread)
           S == 0..RxStop
<1>0. Ring!TypeOK /\ Ring!DriverFollowsChip /\ InOrder /\ RoomKept /\ TornKept
  BY DEF RingInv, DriverFollowsChip
<1>1. RxStop \in Nat /\ Ring!Size = RxStop + 1 /\ RxStop % 2 = 1
  BY RingAssumption DEF Ring!Size
<1>2. /\ unread \in Seq(S) /\ torn \subseteq S
      /\ mem \in [S -> [next : 0..Ring!Size, len : Lengths \cup {0}, ok : BOOLEAN]]
  BY <1>0 DEF Ring!TypeOK
<1>3. n \in Nat /\ DOMAIN unread = 1..n
  BY <1>2
<1>4. /\ mem' = [mem EXCEPT ![RxStop] = Ring!Blank]
      /\ torn' = torn \cup Ring!Torn({RxStop})
      /\ UNCHANGED <<wrpt, rdpt, rxen, count, next_frame_ptr, unread, bad, taken>>
  BY DEF Ring!Send
<1>5. \A i \in 1..n : unread[i] \in S /\ unread[i] % 2 = 0
  BY UnreadLies
<1>6. \A i \in 1..n : mem'[unread[i]] = mem[unread[i]]
  BY <1>1, <1>2, <1>4, <1>5
<1>7. Ring!TypeOK'
  <2>1. Ring!Blank \in [next : 0..Ring!Size, len : Lengths \cup {0}, ok : BOOLEAN]
    BY <1>1 DEF Ring!Blank
  <2>2. mem' \in [S -> [next : 0..Ring!Size, len : Lengths \cup {0}, ok : BOOLEAN]]
    BY <1>2, <1>4, <2>1
  <2>3. Ring!Torn({RxStop}) \subseteq S
    BY <1>3, <1>5 DEF Ring!Torn
  <2> QED
    BY <1>0, <1>4, <2>2, <2>3 DEF Ring!TypeOK
<1>8. InOrder'
  BY <1>0, <1>4, <1>6 DEF InOrder, Block, Behind, Dist
<1>9. RoomKept'
  BY <1>0, <1>4 DEF RoomKept, Behind, Dist, Ring!Free
<1>10. TornKept'
  BY <1>0, <1>4 DEF TornKept, Ring!Torn
<1>11. Ring!DriverFollowsChip'
  <2>1. ASSUME NEW a \in torn' PROVE RxStop \in Ring!Extent(a, mem'[a].len)
    <3>1. PICK i \in 1..n : a = unread[i]
      BY <1>3, <1>4, <1>10 DEF TornKept
    <3>2. RxStop \in Ring!Extent(a, mem[a].len)
      BY <1>0, <1>4 DEF Ring!DriverFollowsChip, Ring!Torn
    <3> QED
      BY <1>6, <3>1, <3>2
  <2>2. \A i \in 1..n : mem'[unread[i]].next = IF i < n THEN unread[i + 1] ELSE wrpt
    BY <1>0, <1>3, <1>6 DEF Ring!DriverFollowsChip
  <2> QED
    BY <1>0, <1>3, <1>4, <2>1, <2>2 DEF Ring!DriverFollowsChip, Ring!Extent, Ring!Around
<1> QED
  BY <1>7, <1>8, <1>9, <1>10, <1>11 DEF RingInv, DriverFollowsChip

(* The driver does not lose step with the chip, in a ring of any size, for *)
(* frames of any lengths, whatever fails: that what may be written and     *)
(* what is unread fit into the ring together is what keeps them apart.     *)
THEOREM DriverKeepsStep == Ring!Spec => [](Ring!TypeOK /\ DriverFollowsChip)
<1>1. Ring!Init => RingInv
  <2> SUFFICES ASSUME Ring!Init PROVE RingInv
    OBVIOUS
  <2>1. /\ RxStop \in Nat /\ Ring!Size = RxStop + 1 /\ MaxBad \in Nat
        /\ 0 \in 0..RxStop /\ Ring!Size \in 0..Ring!Size /\ 0 % 2 = 0
    BY RingAssumption DEF Ring!Size
  <2>2. Ring!Blank \in [next : 0..Ring!Size, len : Lengths \cup {0}, ok : BOOLEAN]
    BY <2>1 DEF Ring!Blank
  <2>3. Ring!TypeOK
    BY <2>1, <2>2 DEF Ring!Init, Ring!TypeOK
  <2>4. Ring!DriverFollowsChip
    BY DEF Ring!Init, Ring!DriverFollowsChip
  <2>5. InOrder /\ TornKept
    BY DEF Ring!Init, InOrder, TornKept
  <2>6. RoomKept
    BY <2>1 DEF Ring!Init, RoomKept, Behind, Dist, Ring!Free
  <2> QED
    BY <2>3, <2>4, <2>5, <2>6 DEF RingInv, DriverFollowsChip
<1>2. RingInv /\ [Ring!Next]_Ring!encVars => RingInv'
  <2> SUFFICES ASSUME RingInv, [Ring!Next]_Ring!encVars PROVE RingInv'
    OBVIOUS
  <2>1. CASE \E len \in Lengths, ok \in BOOLEAN : Ring!Arrive(len, ok)
    BY <2>1, ArriveKeeps
  <2>2. CASE Ring!Poll
    BY <2>2, PollKeeps
  <2>3. CASE Ring!Send
    BY <2>3, SendKeeps
  <2>4. ASSUME UNCHANGED <<mem, wrpt, rdpt, count, next_frame_ptr, unread, torn, bad>>,
               rxen' \in BOOLEAN
        PROVE  RingInv'
    BY <2>4 DEF RingInv, Ring!TypeOK, DriverFollowsChip, Ring!DriverFollowsChip, InOrder,
       RoomKept, TornKept, Block, Behind, Dist, Ring!Free, Ring!Extent, Ring!Around
  <2>5. CASE \E on \in BOOLEAN : Ring!Power(on)
    BY <2>4, <2>5 DEF Ring!Power
  <2>6. CASE UNCHANGED Ring!encVars
    BY <2>4, <2>6 DEF Ring!encVars, RingInv, Ring!TypeOK
  <2> QED
    BY <2>1, <2>2, <2>3, <2>5, <2>6 DEF Ring!Next
<1>3. RingInv => Ring!TypeOK /\ DriverFollowsChip
  BY DEF RingInv
<1> QED
  BY <1>1, <1>2, <1>3, PTL DEF Ring!Spec

-----------------------------------------------------------------------------
(* Induction over a set of numbers.                                        *)
LEMMA Induction ==
  ASSUME NEW S, 0 \in S, \A k \in Nat : k \in S => k + 1 \in S
  PROVE  \A k \in Nat : k \in S
<1>1. ASSUME NEW n \in Nat, n \notin S PROVE FALSE
  <2> DEFINE T == {k \in Nat : k \notin S}
  <2>1. PICK k \in T : \A y \in T : ~(<<y, k>> \in OpToRel(<, Nat))
    <3>1. T \subseteq Nat /\ T # {}
      BY <1>1
    <3> HIDE DEF T
    <3> QED
      BY <3>1, NatLessThanWellFounded, WFMin
  <2>2. k \in Nat /\ k \notin S /\ k # 0
    BY <2>1
  <2>3. k - 1 \in Nat /\ (k - 1) + 1 = k /\ k - 1 < k
    BY <2>2
  <2>4. k - 1 \notin T
    BY <2>1, <2>2, <2>3 DEF OpToRel
  <2>5. k - 1 \in S
    BY <2>3, <2>4
  <2> QED
    BY <2>2, <2>3, <2>5
<1> QED
  BY <1>1

LEMMA Division ==
  ASSUME NEW n \in Nat, NEW d \in Nat, d > 0
  PROVE  /\ n \div d \in Nat /\ n % d \in 0..(d - 1)
         /\ n = d * (n \div d) + (n % d)
<1>1. n \div d \in Int /\ n % d \in 0..(d - 1)
  OBVIOUS
<1>2. n = d * (n \div d) + (n % d)
  OBVIOUS
<1>3. n \div d >= 0
  <2>1. SUFFICES ASSUME n \div d <= -1 PROVE FALSE
    BY <1>1
  <2>2. d * (n \div d) <= -d
    BY <1>1, <2>1
  <2> QED
    BY <1>1, <1>2, <2>2
<1> QED
  BY <1>1, <1>2, <1>3

LEMMA SmallFactor ==
  ASSUME NEW a \in Nat, NEW m \in Int, -a < a * m, a * m < a
  PROVE  m = 0
<1>1. CASE m >= 1
  <2>1. a * m >= a
    BY <1>1
  <2> QED
    BY <2>1
<1>2. CASE m <= -1
  <2>1. a * m <= -a
    BY <1>2
  <2> QED
    BY <2>1
<1> QED
  BY <1>1, <1>2

LEMMA Quotient ==
  ASSUME NEW d \in Nat, NEW q \in Nat, NEW r \in 0..(d - 1)
  PROVE  (d * q + r) \div d = q /\ (d * q + r) % d = r
<1> DEFINE n == d * q + r
           m == (n \div d) - q
<1>1. n \in Nat /\ d > 0
  OBVIOUS
<1> HIDE DEF n
<1>2. /\ n \div d \in Nat /\ n % d \in 0..(d - 1) /\ n = d * (n \div d) + (n % d)
  BY <1>1, Division
<1>3. d * (n \div d) - d * q = r - (n % d)
  BY <1>2 DEF n
<1>4. m \in Int /\ d * m = d * (n \div d) - d * q
  BY <1>2
<1>5. -d < d * m /\ d * m < d
  BY <1>2, <1>3, <1>4
<1>6. m = 0
  <2> HIDE DEF m
  <2> QED
    BY <1>4, <1>5, SmallFactor
<1>7. n \div d = q
  <2>1. n \div d \in Int /\ (n \div d) - q = 0
    BY <1>2, <1>6
  <2> QED
    BY <2>1
<1>8. n % d = r
  BY <1>2, <1>3, <1>7
<1> QED
  BY <1>7, <1>8 DEF n

-----------------------------------------------------------------------------
(* Arithmetic modulo 2^16 - 1, in which the sums are right: x and y differ *)
(* by a multiple of it.                                                    *)
A == Sums!Words - 1
Same(x, y) == \E k \in Int : x - y = A * k

LEMMA WordsFacts ==
  /\ Sums!Words \in Nat /\ Sums!Words >= 4 /\ Sums!Words = Base * Base
  /\ A \in Nat /\ A >= 3 /\ A = Sums!AllOnes /\ Sums!Words = A + 1
  /\ A >= Base + 1
<1>1. Base \in Nat /\ Base >= 2
  BY SumsAssumption
<1>2. Base * Base >= 2 * Base
  BY <1>1
<1> QED
  BY <1>1, <1>2 DEF Sums!Words, Sums!AllOnes, A

LEMMA SameReflexive ==
  ASSUME NEW x \in Int
  PROVE  Same(x, x)
<1>1. x - x = A * 0
  BY WordsFacts
<1> QED
  BY <1>1 DEF Same

LEMMA SameSymmetric ==
  ASSUME NEW x \in Int, NEW y \in Int, Same(x, y)
  PROVE  Same(y, x)
<1>1. PICK k \in Int : x - y = A * k
  BY DEF Same
<1>2. A \in Int /\ A * (-k) = -(A * k)
  BY WordsFacts
<1>3. -k \in Int /\ y - x = A * (-k)
  BY <1>1, <1>2
<1> QED
  BY <1>3 DEF Same

LEMMA SameAdds ==
  ASSUME NEW x \in Int, NEW y \in Int, NEW z \in Int, NEW w \in Int,
         Same(x, y), Same(z, w)
  PROVE  Same(x + z, y + w)
<1>1. PICK k \in Int : x - y = A * k
  BY DEF Same
<1>2. PICK m \in Int : z - w = A * m
  BY DEF Same
<1>3. A \in Int /\ A * (k + m) = A * k + A * m
  BY WordsFacts
<1>4. k + m \in Int /\ (x + z) - (y + w) = A * (k + m)
  BY <1>1, <1>2, <1>3
<1> QED
  BY <1>4 DEF Same

LEMMA SameTransitive ==
  ASSUME NEW x \in Int, NEW y \in Int, NEW z \in Int, Same(x, y), Same(y, z)
  PROVE  Same(x, z)
<1>1. PICK k \in Int : x - y = A * k
  BY DEF Same
<1>2. PICK m \in Int : y - z = A * m
  BY DEF Same
<1>3. A \in Int /\ A * (k + m) = A * k + A * m
  BY WordsFacts
<1>4. k + m \in Int /\ x - z = A * (k + m)
  BY <1>1, <1>2, <1>3
<1> QED
  BY <1>4 DEF Same

LEMMA SameScales ==
  ASSUME NEW c \in Int, NEW x \in Int, NEW y \in Int, Same(x, y)
  PROVE  Same(c * x, c * y)
<1>1. PICK k \in Int : x - y = A * k
  BY DEF Same
<1>2. A \in Int /\ c * x - c * y = c * (x - y)
  BY WordsFacts
<1>3. c * k \in Int /\ c * (A * k) = A * (c * k)
  BY <1>2
<1>4. c * x - c * y = A * (c * k)
  BY <1>1, <1>2, <1>3
<1> QED
  BY <1>3, <1>4 DEF Same

(* Words that are the same modulo 2^16 - 1 are equal, but for 0 and the    *)
(* word of all ones.                                                       *)
LEMMA SameNear ==
  ASSUME NEW x \in Int, NEW y \in Int, Same(x, y), -A < x - y, x - y < A
  PROVE  x = y
<1>1. PICK k \in Int : x - y = A * k
  BY DEF Same
<1>2. A \in Nat
  BY WordsFacts
<1>3. k = 0
  BY <1>1, <1>2, SmallFactor
<1> QED
  BY <1>1, <1>2, <1>3

LEMMA SameRest ==
  ASSUME NEW n \in Nat
  PROVE  n % A = 0 <=> Same(n, 0)
<1>1. A \in Nat /\ A > 0
  BY WordsFacts
<1>2. n \div A \in Nat /\ n % A \in 0..(A - 1) /\ n = A * (n \div A) + (n % A)
  BY <1>1, Division
<1>3. ASSUME n % A = 0 PROVE Same(n, 0)
  <2>1. n \div A \in Int /\ n - 0 = A * (n \div A)
    BY <1>1, <1>2, <1>3
  <2> QED
    BY <2>1 DEF Same
<1>4. ASSUME Same(n, 0) PROVE n % A = 0
  <2>1. PICK k \in Int : n - 0 = A * k
    BY <1>4 DEF Same
  <2>2. n % A = A * k - A * (n \div A)
    BY <1>1, <1>2, <2>1
  <2>3. k - (n \div A) \in Int /\ (n % A) - 0 = A * (k - (n \div A))
    BY <1>1, <1>2, <2>2
  <2>4. Same(n % A, 0)
    BY <2>3 DEF Same
  <2> QED
    BY <1>1, <1>2, <2>4, SameNear
<1> QED
  BY <1>3, <1>4

-----------------------------------------------------------------------------
(* The words of the packets, and the sum of two of them with the carry     *)
(* added again.                                                            *)
Word == 0..A

LEMMA PlusIs ==
  ASSUME NEW s \in Word, NEW t \in Word
  PROVE  /\ Sums!Plus(s, t) \in Word
         /\ Same(Sums!Plus(s, t), s + t)
         /\ Sums!Plus(s, t) = 0 => s = 0 /\ t = 0
<1> USE DEF Word
<1>1. Sums!Words \in Nat /\ A \in Nat /\ A > 0 /\ Sums!Words = A + 1
  BY WordsFacts
<1>2. CASE s + t < Sums!Words
  <2>1. (s + t) % Sums!Words = s + t
    <3>1. Sums!Words * 0 + (s + t) = s + t /\ s + t \in 0..(Sums!Words - 1)
      BY <1>1, <1>2
    <3> QED
      BY <1>1, <3>1, Quotient
  <2>2. Sums!Plus(s, t) = s + t
    BY <1>1, <2>1 DEF Sums!Plus
  <2>3. s + t \in Int /\ Same(s + t, s + t)
    BY <1>1, SameReflexive
  <2> QED
    BY <1>1, <1>2, <2>2, <2>3
<1>3. CASE s + t >= Sums!Words
  <2> DEFINE r == s + t - Sums!Words
  <2>1. r \in 0..(A - 1) /\ r < t /\ s + t = Sums!Words * 1 + r
    BY <1>1, <1>3
  <2>2. (s + t) % Sums!Words = r
    <3> HIDE DEF r
    <3>1. r \in 0..(Sums!Words - 1)
      BY <1>1, <2>1
    <3>2. (Sums!Words * 1 + r) % Sums!Words = r
      BY <1>1, <3>1, Quotient
    <3> QED
      BY <2>1, <3>2
  <2>3. (r + 1) % Sums!Words = r + 1
    <3>1. Sums!Words * 0 + (r + 1) = r + 1 /\ r + 1 \in 0..(Sums!Words - 1)
      BY <1>1, <2>1
    <3> QED
      BY <1>1, <3>1, Quotient
  <2>4. Sums!Plus(s, t) = r + 1
    BY <2>1, <2>2, <2>3 DEF Sums!Plus
  <2>5. -1 \in Int /\ (r + 1) - (s + t) = A * (-1)
    BY <1>1
  <2>6. Same(r + 1, s + t)
    BY <2>5 DEF Same
  <2> HIDE DEF r
  <2> QED
    BY <1>1, <2>1, <2>4, <2>6
<1> QED
  BY <1>1, <1>2, <1>3

-----------------------------------------------------------------------------
(* Functions defined by recursion up to a number exist.                    *)
LEMMA Recursion ==
  ASSUME NEW S, NEW a \in S, NEW n \in Nat, NEW G \in [1..n -> [S -> S]]
  PROVE  \E f \in [0..n -> S] :
           f[0] = a /\ \A i \in 1..n : f[i] = G[i][f[i - 1]]
<1> DEFINE Is(f, k) == f[0] = a /\ \A i \in 1..k : f[i] = G[i][f[i - 1]]
           T == {k \in Nat : k <= n => \E f \in [0..k -> S] : Is(f, k)}
<1>1. 0 \in T
  <2>1. [i \in 0..0 |-> a] \in [0..0 -> S] /\ Is([i \in 0..0 |-> a], 0)
    OBVIOUS
  <2> QED
    BY <2>1
<1>2. ASSUME NEW k \in Nat, k \in T PROVE k + 1 \in T
  <2>1. SUFFICES ASSUME k + 1 <= n PROVE \E f \in [0..(k + 1) -> S] : Is(f, k + 1)
    OBVIOUS
  <2>2. PICK f \in [0..k -> S] : Is(f, k)
    BY <1>2, <2>1
  <2> DEFINE g == [i \in 0..(k + 1) |-> IF i \in 0..k THEN f[i] ELSE G[k + 1][f[k]]]
  <2>3. /\ \A i \in 0..k : g[i] = f[i] /\ i \in 0..(k + 1)
        /\ g[k + 1] = G[k + 1][f[k]]
    OBVIOUS
  <2>4. k + 1 \in 1..n /\ f[k] \in S /\ G[k + 1][f[k]] \in S
    BY <2>1
  <2>5. g \in [0..(k + 1) -> S]
    BY <2>4
  <2>6. Is(g, k + 1)
    <3> HIDE DEF g
    <3>1. g[0] = a
      BY <2>2, <2>3
    <3>2. ASSUME NEW i \in 1..(k + 1) PROVE g[i] = G[i][g[i - 1]]
      <4>1. CASE i \in 1..k
        <5>1. i - 1 \in 0..k /\ i \in 0..k
          BY <4>1
        <5> QED
          BY <2>2, <2>3, <4>1, <5>1
      <4>2. CASE i = k + 1
        <5>1. i - 1 = k /\ k \in 0..k
          BY <4>2
        <5> QED
          BY <2>3, <4>2, <5>1
      <4> QED
        BY <4>1, <4>2
    <3> QED
      BY <3>1, <3>2
  <2> QED
    BY <2>5, <2>6
<1>3. n \in T
  <2> HIDE DEF T
  <2> QED
    BY <1>1, <1>2, Induction
<1> QED
  BY <1>3

(* How many words a string of bytes has, and their sum without carries.    *)
Strings == Seq(Sums!Byte)
Length(data) == (Len(data) + 1) \div 2
Added(first, data) ==
  LET f[i \in 0..Length(data)] ==
        IF i = 0 THEN first ELSE f[i - 1] + Sums!WordAt(data, i)
  IN  f[Length(data)]
Total(data) == Added(0, data)

LEMMA WordIs ==
  ASSUME NEW data \in Strings, NEW i \in Nat
  PROVE  /\ Sums!ByteAt(data, i) \in Sums!Byte
         /\ Sums!WordAt(data, i) \in Word
<1>1. \A k \in Nat : Sums!ByteAt(data, k) \in Sums!Byte
  <2>1. 0 \in Sums!Byte
    BY SumsAssumption DEF Sums!Byte
  <2>2. \A k \in DOMAIN data : data[k] \in Sums!Byte
    BY DEF Strings
  <2> QED
    BY <2>1, <2>2 DEF Sums!ByteAt
<1>2. ASSUME i > 0 PROVE 2 * i - 1 \in Nat /\ 2 * i \in Nat
  BY <1>2
<1>3. ASSUME NEW a \in Sums!Byte, NEW b \in Sums!Byte
      PROVE  Base * a + b \in Word
  <2>1. Base \in Nat /\ a \in Nat /\ a <= Base - 1 /\ b \in Nat /\ b <= Base - 1
    BY SumsAssumption DEF Sums!Byte
  <2>2. Base * a <= Base * (Base - 1)
    BY <2>1
  <2>3. Base * (Base - 1) = Base * Base - Base
    BY <2>1
  <2>4. Base * a \in Nat /\ Base * Base = A + 1
    BY <2>1, WordsFacts
  <2> QED
    BY <2>1, <2>2, <2>3, <2>4, WordsFacts DEF Word
<1>4. Sums!ByteAt(data, 2 * i - 1) \in Sums!Byte
  <2>1. CASE i = 0
    <3>1. 2 * i - 1 = -1 /\ -1 \notin DOMAIN data
      BY <2>1 DEF Strings
    <3> QED
      BY <3>1, SumsAssumption DEF Sums!ByteAt, Sums!Byte
  <2> QED
    BY <1>1, <1>2, <2>1
<1>5. Sums!ByteAt(data, 2 * i) \in Sums!Byte
  BY <1>1
<1> QED
  BY <1>1, <1>3, <1>4, <1>5 DEF Sums!WordAt

LEMMA HalfIs ==
  ASSUME NEW k \in Nat
  PROVE  (k + 1) \div 2 \in Nat /\ k \in {2 * ((k + 1) \div 2), 2 * ((k + 1) \div 2) - 1}
<1> DEFINE h == (k + 1) \div 2
           r == (k + 1) % 2
<1>1. h \in Nat /\ r \in 0..1 /\ k + 1 = 2 * h + r
  BY Division
<1> HIDE DEF h, r
<1>2. r = 0 \/ r = 1
  BY <1>1
<1>3. k \in {2 * h, 2 * h - 1}
  BY <1>1, <1>2
<1> QED
  BY <1>1, <1>3 DEF h

LEMMA LengthIs ==
  ASSUME NEW data \in Strings
  PROVE  Length(data) \in Nat
<1>1. Len(data) \in Nat
  BY DEF Strings
<1>2. (Len(data) + 1) \div 2 \in Nat
  BY <1>1, Division
<1> QED
  BY <1>2 DEF Length

LEMMA ChksumIs ==
  ASSUME NEW data \in Strings, NEW first \in Word
  PROVE  \E f \in [0..Length(data) -> Word] :
           /\ f[0] = first /\ Sums!chksum(first, data) = f[Length(data)]
           /\ \A i \in 1..Length(data) :
                f[i] = Sums!Plus(f[i - 1], Sums!WordAt(data, i))
<1> DEFINE n == Length(data)
           Is(f) == f = [i \in 0..n |-> IF i = 0 THEN first
                                        ELSE Sums!Plus(f[i - 1], Sums!WordAt(data, i))]
           G == [i \in 1..n |-> [s \in Word |-> Sums!Plus(s, Sums!WordAt(data, i))]]
<1>1. n \in Nat
  BY LengthIs
<1>2. \A i \in 1..n : Sums!WordAt(data, i) \in Word
  BY <1>1, WordIs
<1>3. /\ G \in [1..n -> [Word -> Word]]
      /\ \A s \in Word, i \in 1..n : G[i][s] = Sums!Plus(s, Sums!WordAt(data, i))
  BY <1>2, PlusIs
<1> HIDE DEF G, n
<1>4. PICK f \in [0..n -> Word] : f[0] = first /\ \A i \in 1..n : f[i] = G[i][f[i - 1]]
  BY <1>1, <1>3, Recursion
<1>5. \A i \in 1..n : f[i - 1] \in Word /\ f[i] = Sums!Plus(f[i - 1], Sums!WordAt(data, i))
  <2>1. \A i \in 1..n : i - 1 \in 0..n
    BY <1>1
  <2> QED
    BY <1>3, <1>4, <2>1
<1>6. Is(f)
  BY <1>1, <1>4, <1>5
<1> DEFINE c == CHOOSE g : Is(g)
<1>7. Is(c)
  BY <1>6
<1>8. Sums!chksum(first, data) = c[n]
  BY DEF Sums!chksum, n, Length
<1>9. c[0] = first /\ \A i \in 1..n : c[i] = Sums!Plus(c[i - 1], Sums!WordAt(data, i))
  <2> HIDE DEF c
  <2> QED
    BY <1>1, <1>7
<1>10. c = f
  <2> HIDE DEF c
  <2> DEFINE T == {k \in Nat : k <= n => c[k] = f[k]}
  <2>1. 0 \in T
    BY <1>4, <1>9
  <2>2. ASSUME NEW k \in Nat, k \in T PROVE k + 1 \in T
    <3>1. ASSUME k + 1 <= n PROVE c[k + 1] = f[k + 1]
      <4>1. k + 1 \in 1..n /\ (k + 1) - 1 = k
        BY <1>1, <3>1
      <4> QED
        BY <1>1, <1>5, <1>9, <2>2, <3>1, <4>1
    <3> QED
      BY <3>1
  <2>3. \A k \in Nat : k \in T
    <3> HIDE DEF T
    <3> QED
      BY <2>1, <2>2, Induction
  <2>4. \A k \in 0..n : c[k] = f[k]
    BY <1>1, <2>3
  <2>5. DOMAIN c = 0..n /\ c = [i \in 0..n |-> c[i]] /\ f = [i \in 0..n |-> f[i]]
    BY <1>4, <1>7
  <2> QED
    BY <2>4, <2>5
<1> HIDE DEF c
<1> QED
  BY <1>4, <1>5, <1>8, <1>10 DEF n

LEMMA AddedIs ==
  ASSUME NEW data \in Strings, NEW first \in Nat
  PROVE  \E f \in [0..Length(data) -> Nat] :
           /\ f[0] = first /\ Added(first, data) = f[Length(data)]
           /\ \A i \in 1..Length(data) :
                f[i] = f[i - 1] + Sums!WordAt(data, i)
<1> DEFINE n == Length(data)
           Is(f) == f = [i \in 0..n |-> IF i = 0 THEN first
                                        ELSE f[i - 1] + Sums!WordAt(data, i)]
           G == [i \in 1..n |-> [s \in Nat |-> s + Sums!WordAt(data, i)]]
<1>1. n \in Nat
  BY LengthIs
<1>2. \A i \in 1..n : Sums!WordAt(data, i) \in Nat
  BY <1>1, WordIs, WordsFacts DEF Word
<1>3. /\ G \in [1..n -> [Nat -> Nat]]
      /\ \A s \in Nat, i \in 1..n : G[i][s] = s + Sums!WordAt(data, i)
  BY <1>2
<1> HIDE DEF G, n
<1>4. PICK f \in [0..n -> Nat] : f[0] = first /\ \A i \in 1..n : f[i] = G[i][f[i - 1]]
  <2> DEFINE S == Nat
             a == first
  <2>1. a \in S /\ G \in [1..n -> [S -> S]]
    BY <1>3
  <2> HIDE DEF S, a
  <2>2. \E f \in [0..n -> S] : f[0] = a /\ \A i \in 1..n : f[i] = G[i][f[i - 1]]
    BY <1>1, <2>1, Recursion
  <2> QED
    BY <2>2 DEF S, a
<1>5. \A i \in 1..n : f[i - 1] \in Nat /\ f[i] = f[i - 1] + Sums!WordAt(data, i)
  <2>1. \A i \in 1..n : i - 1 \in 0..n
    BY <1>1
  <2> QED
    BY <1>3, <1>4, <2>1
<1>6. Is(f)
  BY <1>1, <1>4, <1>5
<1> DEFINE c == CHOOSE g : Is(g)
<1>7. Is(c)
  BY <1>6
<1>8. Added(first, data) = c[n]
  BY DEF Added, n
<1>9. c[0] = first /\ \A i \in 1..n : c[i] = c[i - 1] + Sums!WordAt(data, i)
  <2> HIDE DEF c
  <2> QED
    BY <1>1, <1>7
<1>10. c = f
  <2> HIDE DEF c
  <2> DEFINE T == {k \in Nat : k <= n => c[k] = f[k]}
  <2>1. 0 \in T
    BY <1>4, <1>9
  <2>2. ASSUME NEW k \in Nat, k \in T PROVE k + 1 \in T
    <3>1. ASSUME k + 1 <= n PROVE c[k + 1] = f[k + 1]
      <4>1. k + 1 \in 1..n /\ (k + 1) - 1 = k
        BY <1>1, <3>1
      <4> QED
        BY <1>1, <1>5, <1>9, <2>2, <3>1, <4>1
    <3> QED
      BY <3>1
  <2>3. \A k \in Nat : k \in T
    <3> HIDE DEF T
    <3> QED
      BY <2>1, <2>2, Induction
  <2>4. \A k \in 0..n : c[k] = f[k]
    BY <1>1, <2>3
  <2>5. DOMAIN c = 0..n /\ c = [i \in 0..n |-> c[i]] /\ f = [i \in 0..n |-> f[i]]
    BY <1>4, <1>7
  <2> QED
    BY <2>4, <2>5
<1> HIDE DEF c
<1> QED
  BY <1>4, <1>5, <1>8, <1>10 DEF n

(* The sum with carries is the same modulo 2^16 - 1 as the one without,    *)
(* and 0 only if every word is.                                            *)
LEMMA ChksumAdds ==
  ASSUME NEW data \in Strings, NEW first \in Word
  PROVE  /\ Sums!chksum(first, data) \in Word /\ Total(data) \in Nat
         /\ Same(Sums!chksum(first, data), first + Total(data))
         /\ Sums!chksum(first, data) = 0 => first = 0 /\ Total(data) = 0
<1> DEFINE n == Length(data)
           W(i) == Sums!WordAt(data, i)
<1>1. n \in Nat /\ first \in Nat /\ \A i \in 1..n : W(i) \in Word /\ W(i) \in Nat
  BY LengthIs, WordIs, WordsFacts DEF Word
<1>2. PICK f \in [0..n -> Word] :
        /\ f[0] = first /\ Sums!chksum(first, data) = f[n]
        /\ \A i \in 1..n : f[i] = Sums!Plus(f[i - 1], W(i))
  BY ChksumIs
<1>3. PICK p \in [0..n -> Nat] :
        /\ p[0] = 0 /\ Total(data) = p[n]
        /\ \A i \in 1..n : p[i] = p[i - 1] + W(i)
  <2>1. 0 \in Nat
    OBVIOUS
  <2> QED
    BY <2>1, AddedIs DEF Total
<1> DEFINE Good(k) == Same(f[k], first + p[k]) /\ (f[k] = 0 => first = 0 /\ p[k] = 0)
           T == {k \in Nat : k <= n => Good(k)}
<1> HIDE DEF n, W
<1>4. 0 \in T
  <2>1. first + p[0] = first /\ Same(first, first)
    BY <1>1, <1>3, SameReflexive
  <2> QED
    BY <1>2, <1>3, <2>1
<1>5. ASSUME NEW k \in Nat, k \in T PROVE k + 1 \in T
  <2>1. SUFFICES ASSUME k + 1 <= n PROVE Good(k + 1)
    OBVIOUS
  <2>2. Good(k) /\ k + 1 \in 1..n /\ (k + 1) - 1 = k /\ k \in 0..n
    BY <1>1, <1>5, <2>1
  <2>3. f[k] \in Word /\ f[k] \in Nat /\ p[k] \in Nat /\ W(k + 1) \in Word /\ W(k + 1) \in Nat
    BY <1>1, <2>2, WordsFacts DEF Word
  <2>4. f[k + 1] = Sums!Plus(f[k], W(k + 1)) /\ p[k + 1] = p[k] + W(k + 1)
    BY <1>2, <1>3, <2>2
  <2>5. /\ f[k + 1] \in Word /\ Same(f[k + 1], f[k] + W(k + 1))
        /\ f[k + 1] = 0 => f[k] = 0 /\ W(k + 1) = 0
    BY <2>3, <2>4, PlusIs
  <2>6. Same(W(k + 1), W(k + 1))
    BY <2>3, SameReflexive
  <2>7. Same(f[k] + W(k + 1), (first + p[k]) + W(k + 1))
    <3>1. Same(f[k], first + p[k]) /\ first + p[k] \in Int /\ f[k] \in Int /\ W(k + 1) \in Int
      BY <1>1, <2>2, <2>3
    <3> QED
      BY <2>6, <3>1, SameAdds
  <2>8. Same(f[k + 1], (first + p[k]) + W(k + 1))
    <3>1. /\ f[k + 1] \in Int /\ f[k] + W(k + 1) \in Int
          /\ (first + p[k]) + W(k + 1) \in Int
      <4>1. f[k + 1] \in Nat
        BY <2>5, WordsFacts DEF Word
      <4> QED
        BY <1>1, <2>3, <4>1
    <3> QED
      BY <2>5, <2>7, <3>1, SameTransitive
  <2>9. (first + p[k]) + W(k + 1) = first + p[k + 1]
    BY <1>1, <2>3, <2>4
  <2>10. f[k + 1] = 0 => first = 0 /\ p[k + 1] = 0
    BY <2>2, <2>3, <2>4, <2>5
  <2> QED
    BY <2>8, <2>9, <2>10
<1>6. n \in T
  <2> HIDE DEF T
  <2> QED
    BY <1>1, <1>4, <1>5, Induction
<1>7. Good(n) /\ f[n] \in Word /\ p[n] \in Nat
  BY <1>1, <1>6
<1> QED
  BY <1>2, <1>3, <1>7

LEMMA AddedTotal ==
  ASSUME NEW data \in Strings, NEW first \in Nat
  PROVE  Added(first, data) = first + Total(data) /\ Total(data) \in Nat
<1> DEFINE n == Length(data)
           W(i) == Sums!WordAt(data, i)
<1>1. n \in Nat /\ \A i \in 1..n : W(i) \in Nat
  BY LengthIs, WordIs, WordsFacts DEF Word
<1>2. PICK f \in [0..n -> Nat] :
        /\ f[0] = first /\ Added(first, data) = f[n]
        /\ \A i \in 1..n : f[i] = f[i - 1] + W(i)
  BY AddedIs
<1>3. PICK p \in [0..n -> Nat] :
        /\ p[0] = 0 /\ Total(data) = p[n]
        /\ \A i \in 1..n : p[i] = p[i - 1] + W(i)
  <2>1. 0 \in Nat
    OBVIOUS
  <2> QED
    BY <2>1, AddedIs DEF Total
<1> DEFINE T == {k \in Nat : k <= n => f[k] = first + p[k]}
<1> HIDE DEF n, W
<1>4. 0 \in T
  BY <1>2, <1>3
<1>5. ASSUME NEW k \in Nat, k \in T PROVE k + 1 \in T
  <2>1. SUFFICES ASSUME k + 1 <= n PROVE f[k + 1] = first + p[k + 1]
    OBVIOUS
  <2>2. f[k] = first + p[k] /\ k + 1 \in 1..n /\ (k + 1) - 1 = k /\ k \in 0..n
    BY <1>1, <1>5, <2>1
  <2>3. p[k] \in Nat /\ W(k + 1) \in Nat
    BY <1>1, <2>2
  <2>4. f[k + 1] = f[k] + W(k + 1) /\ p[k + 1] = p[k] + W(k + 1)
    BY <1>2, <1>3, <2>2
  <2> QED
    BY <2>2, <2>3, <2>4
<1>6. n \in T
  <2> HIDE DEF T
  <2> QED
    BY <1>1, <1>4, <1>5, Induction
<1>7. f[n] = first + p[n] /\ p[n] \in Nat
  BY <1>1, <1>6
<1> QED
  BY <1>2, <1>3, <1>7

(* One byte put in place of another changes the sum by their difference,   *)
(* which counts 256-fold for the first byte of a word.                     *)
LEMMA TotalChanges ==
  ASSUME NEW data \in Strings, NEW j \in DOMAIN data, NEW b \in Sums!Byte
  PROVE  Total([data EXCEPT ![j] = b])
           \in {Total(data) + Base * (b - data[j]), Total(data) + (b - data[j])}
<1> DEFINE n == Length(data)
           other == [data EXCEPT ![j] = b]
           W(i) == Sums!WordAt(data, i)
           V(i) == Sums!WordAt(other, i)
           J == (j + 1) \div 2
           delta == IF j = 2 * J THEN b - data[j] ELSE Base * (b - data[j])
<1>1. /\ other \in Strings /\ Length(other) = n /\ DOMAIN other = DOMAIN data
      /\ j \in 1..Len(data) /\ other[j] = b
      /\ \A i \in DOMAIN data : i # j => other[i] = data[i]
  BY DEF Strings, Length
<1>2. n \in Nat /\ \A i \in 1..n : W(i) \in Nat /\ V(i) \in Nat
  BY <1>1, LengthIs, WordIs, WordsFacts DEF Word
<1>3. /\ J \in Nat /\ j \in {2 * J, 2 * J - 1}
      /\ data[j] \in Nat /\ b \in Nat /\ delta \in Int
      /\ J \in 1..n
  <2>1. j \in Nat /\ j >= 1 /\ Len(data) \in Nat /\ j <= Len(data)
    BY <1>1 DEF Strings
  <2>2. J \in Nat /\ j \in {2 * J, 2 * J - 1}
    BY <2>1, HalfIs
  <2>3. n \in Nat /\ Len(data) \in {2 * n, 2 * n - 1}
    BY <2>1, HalfIs DEF Length
  <2>4. J >= 1 /\ J <= n
    <3> HIDE DEF J, n
    <3> QED
      BY <2>1, <2>2, <2>3
  <2>5. data[j] \in Nat /\ b \in Nat
    BY SumsAssumption DEF Strings, Sums!Byte
  <2>6. delta \in Int
    BY <2>5, SumsAssumption
  <2> HIDE DEF J, n, delta
  <2> QED
    BY <2>2, <2>3, <2>4, <2>5, <2>6
<1>4. \A i \in 1..n : V(i) = IF i = J THEN W(i) + delta ELSE W(i)
  <2> HIDE DEF J, n, other
  <2>1. ASSUME NEW i \in 1..n, i # J PROVE V(i) = W(i)
    <3>1. 2 * i # j /\ 2 * i - 1 # j
      BY <1>2, <1>3, <2>1
    <3> QED
      BY <1>1, <3>1 DEF Sums!WordAt, Sums!ByteAt
  <2>2. V(J) = W(J) + delta
    <3>1. Base \in Nat /\ Sums!ByteAt(data, 2 * J) \in Nat /\ Sums!ByteAt(data, 2 * J - 1) \in Nat
      <4>1. \A k \in Nat : Sums!ByteAt(data, k) \in Nat
        BY WordIs, SumsAssumption DEF Sums!Byte
      <4>2. 2 * J \in Nat /\ 2 * J - 1 \in Nat
        BY <1>2, <1>3
      <4> QED
        BY <4>1, <4>2, SumsAssumption
    <3>2. CASE j = 2 * J
      <4>1. 2 * J - 1 # j
        BY <1>3, <3>2
      <4>2. Sums!ByteAt(other, 2 * J) = b /\ Sums!ByteAt(data, 2 * J) = data[j]
        BY <1>1, <3>2 DEF Sums!ByteAt
      <4>3. Sums!ByteAt(other, 2 * J - 1) = Sums!ByteAt(data, 2 * J - 1)
        BY <1>1, <4>1 DEF Sums!ByteAt
      <4>4. delta = b - data[j]
        BY <3>2
      <4>5. /\ W(J) = Base * Sums!ByteAt(data, 2 * J - 1) + data[j]
            /\ V(J) = Base * Sums!ByteAt(data, 2 * J - 1) + b
        BY <4>2, <4>3 DEF Sums!WordAt
      <4> HIDE DEF delta, W, V
      <4> QED
        BY <1>3, <3>1, <4>4, <4>5
    <3>3. CASE j = 2 * J - 1
      <4>1. 2 * J # j
        BY <1>3, <3>3
      <4>2. Sums!ByteAt(other, 2 * J - 1) = b /\ Sums!ByteAt(data, 2 * J - 1) = data[j]
        BY <1>1, <3>3 DEF Sums!ByteAt
      <4>3. Sums!ByteAt(other, 2 * J) = Sums!ByteAt(data, 2 * J)
        BY <1>1, <4>1 DEF Sums!ByteAt
      <4>4. delta = Base * (b - data[j])
        BY <4>1
      <4>5. /\ W(J) = Base * data[j] + Sums!ByteAt(data, 2 * J)
            /\ V(J) = Base * b + Sums!ByteAt(data, 2 * J)
        BY <4>2, <4>3 DEF Sums!WordAt
      <4>6. Base * (b - data[j]) = Base * b - Base * data[j]
        BY <1>3, <3>1
      <4>7. Base * b \in Int /\ Base * data[j] \in Int
        BY <1>3, <3>1
      <4> HIDE DEF delta, W, V
      <4> QED
        BY <3>1, <4>4, <4>5, <4>6, <4>7
    <3> QED
      BY <1>3, <3>2, <3>3
  <2> QED
    BY <2>1, <2>2
<1>5. PICK f \in [0..n -> Nat] :
        /\ f[0] = 0 /\ Total(other) = f[n]
        /\ \A i \in 1..n : f[i] = f[i - 1] + V(i)
  <2>1. 0 \in Nat
    OBVIOUS
  <2> HIDE DEF other, n
  <2> QED
    BY <1>1, <2>1, AddedIs DEF Total
<1>6. PICK p \in [0..n -> Nat] :
        /\ p[0] = 0 /\ Total(data) = p[n]
        /\ \A i \in 1..n : p[i] = p[i - 1] + W(i)
  <2>1. 0 \in Nat
    OBVIOUS
  <2> QED
    BY <2>1, AddedIs DEF Total
<1> DEFINE T == {k \in Nat : k <= n => f[k] = IF k < J THEN p[k] ELSE p[k] + delta}
<1> HIDE DEF n, W, V, J, delta, other
<1>7. 0 \in T
  BY <1>3, <1>5, <1>6
<1>8. ASSUME NEW k \in Nat, k \in T PROVE k + 1 \in T
  <2>1. SUFFICES ASSUME k + 1 <= n
                 PROVE  f[k + 1] = IF k + 1 < J THEN p[k + 1] ELSE p[k + 1] + delta
    OBVIOUS
  <2>2. /\ f[k] = IF k < J THEN p[k] ELSE p[k] + delta
        /\ k + 1 \in 1..n /\ (k + 1) - 1 = k /\ k \in 0..n
    BY <1>2, <1>8, <2>1
  <2>3. p[k] \in Nat /\ W(k + 1) \in Nat
    BY <1>2, <2>2
  <2>4. f[k + 1] = f[k] + V(k + 1) /\ p[k + 1] = p[k] + W(k + 1)
    BY <1>5, <1>6, <2>2
  <2>5. V(k + 1) = IF k + 1 = J THEN W(k + 1) + delta ELSE W(k + 1)
    BY <1>4, <2>2
  <2> QED
    BY <1>3, <2>2, <2>3, <2>4, <2>5
<1>9. n \in T
  <2> HIDE DEF T
  <2> QED
    BY <1>2, <1>7, <1>8, Induction
<1>10. f[n] = p[n] + delta
  BY <1>2, <1>3, <1>9
<1>11. delta \in {b - data[j], Base * (b - data[j])}
  BY DEF delta
<1> QED
  BY <1>5, <1>6, <1>10, <1>11 DEF other

-----------------------------------------------------------------------------
(* The sum of a packet without carries, with what stands before its data.  *)
Plain(p, h, field, data) ==
  (IF p \in {"udp", "tcp"} THEN Len(data) + 5 ELSE 0)
  + (Sums!WordAt(h, 1) + field) + (IF p = "ip" THEN 0 ELSE Total(data))
Heads == [1..2 -> Sums!Byte]

LEMMA StringsAre ==
  /\ \A h \in Heads : h \in Strings /\ Len(h) = 2
  /\ \A data \in Sums!Payload : data \in Strings /\ Len(data) \in 0..MaxPayload
<1>1. ASSUME NEW n \in Nat, NEW f \in [1..n -> Sums!Byte]
      PROVE  f \in Strings /\ Len(f) = n
  BY DEF Strings
<1>2. \A h \in Heads : h \in Strings /\ Len(h) = 2
  <2>1. 2 \in Nat
    OBVIOUS
  <2> QED
    BY <1>1, <2>1 DEF Heads
<1>3. ASSUME NEW data \in Sums!Payload
      PROVE  data \in Strings /\ Len(data) \in 0..MaxPayload
  <2>1. PICK n \in 0..MaxPayload : data \in [1..n -> Sums!Byte]
    BY DEF Sums!Payload
  <2>2. n \in Nat
    BY SumsAssumption
  <2> QED
    BY <1>1, <2>1, <2>2
<1> QED
  BY <1>2, <1>3

LEMMA HeaderIs ==
  ASSUME NEW h \in Heads, NEW field \in Word
  PROVE  /\ h \o <<field \div Base, field % Base>> \in Strings
         /\ Sums!WordAt(h, 1) \in Nat
         /\ Total(h \o <<field \div Base, field % Base>>) = Sums!WordAt(h, 1) + field
<1> DEFINE hi == field \div Base
           lo == field % Base
           header == h \o <<hi, lo>>
<1>1. Base \in Nat /\ Base > 1 /\ field \in Nat /\ field <= A /\ A = Base * Base - 1
  BY SumsAssumption, WordsFacts DEF Word
<1>2. hi \in Nat /\ lo \in 0..(Base - 1) /\ field = Base * hi + lo
  BY <1>1, Division
<1>3. hi <= Base - 1
  <2>1. SUFFICES ASSUME hi >= Base PROVE FALSE
    BY <1>1, <1>2
  <2> HIDE DEF hi, lo
  <2>2. Base * hi >= Base * Base
    BY <1>1, <1>2, <2>1
  <2> QED
    BY <1>1, <1>2, <2>2
<1>4. hi \in Sums!Byte /\ lo \in Sums!Byte
  <2> HIDE DEF hi, lo
  <2> QED
    BY <1>1, <1>2, <1>3 DEF Sums!Byte
<1>5. h \in Strings /\ Len(h) = 2 /\ h[1] \in Nat /\ h[2] \in Nat
  BY StringsAre, <1>1 DEF Heads, Sums!Byte
<1> HIDE DEF hi, lo
<1>6. /\ header \in Strings /\ Len(header) = 4 /\ DOMAIN header = 1..4 /\ DOMAIN h = 1..2
      /\ header[1] = h[1] /\ header[2] = h[2] /\ header[3] = hi /\ header[4] = lo
  <2>1. <<hi, lo>> \in Seq(Sums!Byte) /\ h \in Seq(Sums!Byte) /\ Len(<<hi, lo>>) = 2
    BY <1>4, <1>5 DEF Strings
  <2> DEFINE t == <<hi, lo>>
  <2>5. t[1] = hi /\ t[2] = lo
    OBVIOUS
  <2> HIDE DEF t
  <2>6. t \in Seq(Sums!Byte) /\ Len(t) = 2 /\ header = h \o t
    BY <2>1 DEF t
  <2> HIDE DEF header
  <2>7. /\ header \in Seq(Sums!Byte) /\ Len(header) = Len(h) + Len(t)
        /\ \A i \in 1..(Len(h) + Len(t)) :
             header[i] = IF i <= Len(h) THEN h[i] ELSE t[i - Len(h)]
    BY <2>1, <2>6, ConcatProperties
  <2>8. Len(h) = 2 /\ Len(t) = 2 /\ Len(h) + Len(t) = 4
    BY <1>5, <2>6
  <2>2. header \in Seq(Sums!Byte) /\ Len(header) = 4
    BY <2>7, <2>8
  <2>9. \A i \in 1..4 : header[i] = IF i <= 2 THEN h[i] ELSE t[i - 2]
    BY <2>7, <2>8
  <2>3. header[1] = h[1] /\ header[2] = h[2] /\ header[3] = hi /\ header[4] = lo
    BY <2>5, <2>9
  <2>4. DOMAIN header = 1..4 /\ DOMAIN h = 1..2
    BY <1>5, <2>1, <2>2
  <2> QED
    BY <2>2, <2>3, <2>4 DEF Strings
<1> HIDE DEF header
<1>7. Length(header) = 2
  <2>1. (4 + 1) \div 2 = 2
    OBVIOUS
  <2> QED
    BY <1>6, <2>1 DEF Length
<1>8. Sums!WordAt(header, 1) = Base * h[1] + h[2]
  BY <1>6 DEF Sums!WordAt, Sums!ByteAt
<1>9. Sums!WordAt(h, 1) = Base * h[1] + h[2]
  BY <1>6 DEF Sums!WordAt, Sums!ByteAt
<1>10. Sums!WordAt(header, 2) = field
  <2>1. Sums!WordAt(header, 2) = Base * hi + lo
    BY <1>6 DEF Sums!WordAt, Sums!ByteAt
  <2> QED
    BY <1>2, <2>1
<1>11. Total(header) = Sums!WordAt(h, 1) + field /\ Sums!WordAt(h, 1) \in Nat
  <2>1. 0 \in Nat
    OBVIOUS
  <2>2. PICK f \in [0..2 -> Nat] :
          /\ f[0] = 0 /\ Total(header) = f[2]
          /\ \A i \in 1..2 : f[i] = f[i - 1] + Sums!WordAt(header, i)
    <3>1. \E f \in [0..Length(header) -> Nat] :
            /\ f[0] = 0 /\ Total(header) = f[Length(header)]
            /\ \A i \in 1..Length(header) : f[i] = f[i - 1] + Sums!WordAt(header, i)
      BY <1>6, <2>1, AddedIs DEF Total
    <3> QED
      BY <1>7, <3>1
  <2>3. f[1] = f[0] + Sums!WordAt(header, 1) /\ f[2] = f[1] + Sums!WordAt(header, 2)
    <3>1. /\ 1 \in 1..2 /\ 2 \in 1..2 /\ 1 - 1 = 0 /\ 2 - 1 = 1
      OBVIOUS
    <3> QED
      BY <2>2, <3>1
  <2>4. Sums!WordAt(h, 1) \in Nat
    BY <1>5, WordIs, WordsFacts DEF Word
  <2> QED
    BY <1>1, <1>8, <1>9, <1>10, <2>2, <2>3, <2>4
<1> QED
  BY <1>6, <1>11 DEF header, hi, lo

LEMMA EmptyIs == <<>> \in Strings /\ Total(<<>>) = 0
<1>1. <<>> \in Strings /\ Len(<<>>) = 0
  BY DEF Strings
<1>2. Length(<<>>) = 0
  <2>1. (0 + 1) \div 2 = 0
    OBVIOUS
  <2> QED
    BY <1>1, <2>1 DEF Length
<1>3. PICK f \in [0..0 -> Nat] : f[0] = 0 /\ Total(<<>>) = f[0]
  <2>1. 0 \in Nat
    OBVIOUS
  <2> QED
    <3> DEFINE e == <<>>
    <3>1. e \in Strings /\ Length(e) = 0
      BY <1>1, <1>2
    <3> HIDE DEF e
    <3>2. \E f \in [0..Length(e) -> Nat] :
            /\ f[0] = 0 /\ Total(e) = f[Length(e)]
            /\ \A i \in 1..Length(e) : f[i] = f[i - 1] + Sums!WordAt(e, i)
      BY <2>1, <3>1, AddedIs DEF Total
    <3>3. \E f \in [0..0 -> Nat] : f[0] = 0 /\ Total(e) = f[0]
      BY <3>1, <3>2
    <3> QED
      BY <3>3 DEF e
<1> QED
  BY <1>1, <1>3

LEMMA PlainIs ==
  ASSUME NEW p, NEW h \in Heads, NEW field \in Word, NEW data \in Sums!Payload
  PROVE  Plain(p, h, field, data) \in Nat
<1>1. Sums!WordAt(h, 1) \in Nat /\ field \in Nat
  <2>1. Sums!WordAt(h, 1) \in Nat
    BY HeaderIs
  <2>2. field \in Nat
    BY WordsFacts DEF Word
  <2> QED
    BY <2>1, <2>2
<1>2. Total(data) \in Nat /\ Len(data) \in Nat
  <2>1. data \in Strings /\ Len(data) \in Nat /\ 0 \in Nat
    BY StringsAre, SumsAssumption
  <2> QED
    BY <2>1, AddedTotal
<1>3. /\ (IF p \in {"udp", "tcp"} THEN Len(data) + 5 ELSE 0) \in Nat
      /\ (IF p = "ip" THEN 0 ELSE Total(data)) \in Nat
  BY <1>2
<1> QED
  BY <1>1, <1>3 DEF Plain

(* The receiver's sum and that of RFC 1071 are the same modulo 2^16 - 1,   *)
(* and the receiver's is never 0, so the two accept the same packets.      *)
LEMMA SumOfIs ==
  ASSUME NEW h \in Heads, NEW field \in Word, NEW data \in Sums!Payload,
         proto \in {"ip", "udp", "tcp"}
  PROVE  /\ Sums!SumOf(h, field, data) \in 1..A
         /\ Same(Sums!SumOf(h, field, data), Plain(proto, h, field, data))
<1> DEFINE header == h \o <<field \div Base, field % Base>>
           first == Len(data) + 5
           T == Sums!WordAt(h, 1) + field
<1>1. header \in Strings /\ T \in Nat /\ Total(header) = T
  <2>1. header \in Strings /\ Sums!WordAt(h, 1) \in Nat /\ Total(header) = T
    BY HeaderIs
  <2>2. field \in Nat
    BY WordsFacts DEF Word
  <2>3. T \in Nat
    BY <2>1, <2>2
  <2> QED
    BY <2>1, <2>3
<1>2. data \in Strings /\ Len(data) \in 0..MaxPayload /\ Len(h) = 2
  BY StringsAre
<1>3. A \in Nat /\ A > 0 /\ Sums!Words = A + 1 /\ MaxPayload \in Nat /\ MaxPayload + 5 <= A
  BY WordsFacts, SumsAssumption
<1> HIDE DEF header, T
<1>4. CASE proto = "ip"
  <2> DEFINE s == Sums!chksum(0, header)
  <2>1. 0 \in Word
    BY <1>3 DEF Word
  <2>2. s \in Word /\ Same(s, 0 + Total(header)) /\ (s = 0 => Total(header) = 0)
    BY <1>1, <2>1, ChksumAdds
  <2>3. Sums!SumOf(h, field, data) = IF s = 0 THEN A ELSE s
    BY <1>4, WordsFacts DEF Sums!SumOf, header
  <2>4. Plain(proto, h, field, data) = T
    <3>1. proto \notin {"udp", "tcp"}
      BY <1>4
    <3>2. Plain(proto, h, field, data) = 0 + T + 0
      BY <1>4, <3>1 DEF Plain, T
    <3> QED
      BY <1>1, <3>2
  <2>5. Same(A, 0)
    <3>1. 1 \in Int /\ A - 0 = A * 1
      BY <1>3
    <3> QED
      BY <3>1 DEF Same
  <2> HIDE DEF s
  <2>6. CASE s = 0
    BY <1>1, <1>3, <2>2, <2>3, <2>4, <2>5, <2>6
  <2>7. CASE s # 0
    <3>1. 0 + Total(header) = T
      BY <1>1
    <3> QED
      BY <1>3, <2>2, <2>3, <2>4, <2>7, <3>1 DEF Word
  <2> QED
    BY <2>6, <2>7
<1>5. CASE proto \in {"udp", "tcp"}
  <2> DEFINE c == Sums!chksum(first, header)
             s == Sums!chksum(c, data)
  <2>1. first \in Word /\ first \in Int /\ first # 0
    BY <1>2, <1>3 DEF Word
  <2>2. c \in Word /\ Same(c, first + Total(header)) /\ (c = 0 => first = 0)
    BY <1>1, <2>1, ChksumAdds
  <2>3. s \in Word /\ Total(data) \in Nat /\ Same(s, c + Total(data)) /\ (s = 0 => c = 0)
    <3> HIDE DEF c
    <3> QED
      BY <1>2, <2>2, ChksumAdds
  <2>4. Sums!SumOf(h, field, data) = s
    <3>1. Len(h) + 2 + Len(data) + Sums!Code = first
      BY <1>2 DEF Sums!Code
    <3>2. first % Sums!Words = first
      <4>1. first \in 0..(Sums!Words - 1) /\ Sums!Words * 0 + first = first
        BY <1>3, <2>1 DEF Word
      <4> HIDE DEF first
      <4> QED
        BY <1>3, <4>1, Quotient
    <3>3. proto # "ip"
      BY <1>5
    <3>4. s # 0
      BY <2>1, <2>2, <2>3
    <3>5. Sums!SumOf(h, field, data)
            = LET z == Sums!chksum(Sums!chksum((Len(h) + 2 + Len(data) + Sums!Code) % Sums!Words,
                                              header), data)
              IN  IF z = 0 THEN Sums!AllOnes ELSE z
      BY <3>3 DEF Sums!SumOf, header
    <3> QED
      BY <3>1, <3>2, <3>4, <3>5
  <2> HIDE DEF c, s
  <2>5. Same(Total(data), Total(data))
    BY <2>3, SameReflexive
  <2>6. Same(c + Total(data), (first + Total(header)) + Total(data))
    <3>1. c \in Int /\ first + Total(header) \in Int /\ Total(data) \in Int
      BY <1>1, <1>3, <2>1, <2>2, <2>3 DEF Word
    <3> QED
      BY <2>2, <2>5, <3>1, SameAdds
  <2>7. Same(s, (first + Total(header)) + Total(data))
    <3>1. /\ s \in Int /\ c + Total(data) \in Int
          /\ (first + Total(header)) + Total(data) \in Int
      BY <1>1, <1>3, <2>1, <2>2, <2>3 DEF Word
    <3> QED
      BY <2>3, <2>6, <3>1, SameTransitive
  <2>8. Plain(proto, h, field, data) = (first + T) + Total(data)
    <3>1. proto # "ip"
      BY <1>5
    <3> QED
      BY <1>5, <3>1 DEF Plain, T
  <2>9. s # 0
    BY <2>1, <2>2, <2>3
  <2> QED
    BY <1>1, <1>3, <2>3, <2>4, <2>7, <2>8, <2>9 DEF Word
<1> QED
  BY <1>4, <1>5

LEMMA AcceptsIs ==
  ASSUME NEW p, NEW h \in Heads, NEW field \in Word, NEW data \in Sums!Payload
  PROVE  Sums!TrueSum(IF p \in {"udp", "tcp"} THEN Len(h) + 2 + Len(data) + Sums!Code ELSE 0,
                      h, field, IF p = "ip" THEN <<>> ELSE data) = 0
           <=> Same(Plain(p, h, field, data), 0)
<1> DEFINE D == IF p = "ip" THEN <<>> ELSE data
           F == IF p \in {"udp", "tcp"} THEN Len(h) + 2 + Len(data) + Sums!Code ELSE 0
           w == Sums!WordAt(h, 1)
<1>1. /\ Plain(p, h, field, data) \in Nat /\ w \in Nat /\ field \in Nat
      /\ Len(h) = 2 /\ data \in Strings /\ Len(data) \in Nat
  <2>1. Plain(p, h, field, data) \in Nat
    BY PlainIs
  <2>2. w \in Nat
    BY HeaderIs
  <2>3. field \in Nat
    BY WordsFacts DEF Word
  <2>4. Len(h) = 2 /\ data \in Strings /\ Len(data) \in Nat
    BY StringsAre, SumsAssumption
  <2> QED
    BY <2>1, <2>2, <2>3, <2>4
<1>2. D \in Strings /\ (p = "ip" => Total(D) = 0) /\ (p # "ip" => D = data)
  BY <1>1, EmptyIs
<1>3. /\ p \in {"udp", "tcp"} => F = Len(data) + 5
      /\ p \notin {"udp", "tcp"} => F = 0
  BY <1>1 DEF Sums!Code
<1>4. F \in Nat
  BY <1>1, <1>3
<1>5. Sums!TrueSum(F, h, field, D) = Added(F + w + field, D) % A
  BY WordsFacts DEF Sums!TrueSum, Added, Length
<1> HIDE DEF F, D, w
<1>6. Added(F + w + field, D) = (F + w + field) + Total(D) /\ Total(D) \in Nat
  <2>1. F + w + field \in Nat
    BY <1>1, <1>4
  <2> QED
    BY <1>2, <2>1, AddedTotal
<1>7. Plain(p, h, field, data) = (F + w + field) + Total(D)
  <2>1. (IF p \in {"udp", "tcp"} THEN Len(data) + 5 ELSE 0) = F
    BY <1>3
  <2>2. (IF p = "ip" THEN 0 ELSE Total(data)) = Total(D)
    BY <1>2
  <2>3. Plain(p, h, field, data) = F + (w + field) + Total(D)
    BY <2>1, <2>2 DEF Plain, w
  <2> QED
    BY <1>1, <1>4, <1>6, <2>3
<1>8. Sums!TrueSum(F, h, field, D) = 0 <=> Plain(p, h, field, data) % A = 0
  BY <1>5, <1>6, <1>7
<1>9. Sums!TrueSum(F, h, field, D) = 0 <=> Same(Plain(p, h, field, data), 0)
  BY <1>1, <1>8, SameRest
<1> QED
  BY <1>9 DEF F, D

LEMMA Accepts ==
  /\ head \in Heads /\ sum \in Word /\ payload \in Sums!Payload
       => (Sums!PeerAccepts <=> Same(Plain(proto, head, sum, payload), 0))
  /\ head' \in Heads /\ sum' \in Word /\ payload' \in Sums!Payload
       => (Sums!PeerAccepts' <=> Same(Plain(proto', head', sum', payload'), 0))
BY AcceptsIs DEF Sums!PeerAccepts, Sums!FirstOf, Sums!Data

(* A sum of all ones is what a right packet has, and no other.             *)
LEMMA SumOfAll ==
  ASSUME head \in Heads, NEW field \in Word, payload \in Sums!Payload,
         proto \in {"ip", "udp", "tcp"}
  PROVE  Sums!SumOf(head, field, payload) = A
           <=> Same(Plain(proto, head, field, payload), 0)
<1> DEFINE s == Sums!SumOf(head, field, payload)
           p == Plain(proto, head, field, payload)
<1>1. A \in Nat /\ s \in 1..A /\ Same(s, p) /\ p \in Nat
  BY SumOfIs, PlainIs, WordsFacts
<1> HIDE DEF s, p
<1>2. ASSUME s = A PROVE Same(p, 0)
  <2>1. Same(p, A)
    BY <1>1, <1>2, SameSymmetric
  <2>2. 1 \in Int /\ A - 0 = A * 1
    BY <1>1
  <2>3. Same(A, 0)
    BY <2>2 DEF Same
  <2> QED
    BY <1>1, <2>1, <2>3, SameTransitive
<1>3. ASSUME Same(p, 0) PROVE s = A
  <2>1. Same(s, 0)
    BY <1>1, <1>3, SameTransitive
  <2>2. SUFFICES ASSUME s < A PROVE FALSE
    BY <1>1
  <2> QED
    BY <1>1, <2>1, <2>2, SameNear
<1> QED
  BY <1>2, <1>3 DEF s, p

(* The bytes of a word, swapped: they count 256-fold and once.             *)
LEMMA DigitsOf ==
  ASSUME NEW hi \in Sums!Byte, NEW lo \in Sums!Byte
  PROVE  /\ Base * hi + lo \in Word
         /\ (Base * hi + lo) \div Base = hi /\ (Base * hi + lo) % Base = lo
         /\ Sums!Swapped(Base * hi + lo) = Base * lo + hi
<1>1. Base \in Nat /\ Base > 1 /\ hi \in Nat /\ lo \in 0..(Base - 1) /\ hi <= Base - 1
  BY SumsAssumption DEF Sums!Byte
<1>2. (Base * hi + lo) \div Base = hi /\ (Base * hi + lo) % Base = lo
  BY <1>1, Quotient
<1>3. Base * hi <= Base * (Base - 1)
  BY <1>1
<1>4. Base * (Base - 1) = Base * Base - Base
  BY <1>1
<1>5. Base * hi \in Nat /\ Base * Base = A + 1
  BY <1>1, WordsFacts
<1>6. Base * hi + lo \in Word
  BY <1>1, <1>3, <1>4, <1>5, WordsFacts DEF Word
<1>7. Sums!Swapped(Base * hi + lo) = lo * Base + hi
  BY <1>2 DEF Sums!Swapped
<1>8. lo * Base = Base * lo
  BY <1>1
<1> QED
  BY <1>2, <1>6, <1>7, <1>8

LEMMA BytesOf ==
  ASSUME NEW w \in Word
  PROVE  /\ w \div Base \in Sums!Byte /\ w % Base \in Sums!Byte
         /\ w = Base * (w \div Base) + (w % Base)
<1> DEFINE hi == w \div Base
           lo == w % Base
<1>1. Base \in Nat /\ Base > 1 /\ w \in Nat /\ w <= A /\ A = Base * Base - 1
  BY SumsAssumption, WordsFacts DEF Word
<1>2. hi \in Nat /\ lo \in 0..(Base - 1) /\ w = Base * hi + lo
  BY <1>1, Division
<1>3. hi <= Base - 1
  <2>1. SUFFICES ASSUME hi >= Base PROVE FALSE
    BY <1>1, <1>2
  <2> HIDE DEF hi, lo
  <2>2. Base * hi >= Base * Base
    BY <1>1, <1>2, <2>1
  <2> QED
    BY <1>1, <1>2, <2>2
<1> HIDE DEF hi, lo
<1>4. hi \in Sums!Byte /\ lo \in Sums!Byte
  BY <1>1, <1>2, <1>3 DEF Sums!Byte
<1> QED
  BY <1>2, <1>4 DEF hi, lo

LEMMA SwappedIs ==
  ASSUME NEW w \in Word
  PROVE  /\ Sums!Swapped(w) \in Word /\ Sums!Swapped(Sums!Swapped(w)) = w
         /\ Same(Sums!Swapped(w), Base * w)
<1>1. PICK hi \in Sums!Byte, lo \in Sums!Byte : w = Base * hi + lo
  BY BytesOf
<1>2. Base \in Nat /\ hi \in Nat /\ lo \in Nat /\ A \in Nat /\ Base * Base = A + 1
  BY SumsAssumption, WordsFacts DEF Sums!Byte
<1>3. Sums!Swapped(w) = Base * lo + hi /\ Base * lo + hi \in Word
  BY <1>1, DigitsOf
<1>4. Sums!Swapped(Base * lo + hi) = w
  BY <1>1, DigitsOf
<1>5. Base * w = (Base * Base) * hi + Base * lo
  BY <1>1, <1>2
<1>6. (A + 1) * hi = A * hi + hi
  BY <1>2
<1>7. Base * lo \in Nat /\ A * hi \in Nat /\ A * (-hi) = -(A * hi)
  BY <1>2
<1>8. -hi \in Int /\ Sums!Swapped(w) - Base * w = A * (-hi)
  BY <1>2, <1>3, <1>5, <1>6, <1>7
<1>9. Same(Sums!Swapped(w), Base * w)
  BY <1>8 DEF Same
<1> QED
  BY <1>3, <1>4, <1>9

(* Four bytes as two words, and one more in the upper.                     *)
LEMMA BumpIs ==
  ASSUME NEW d1 \in Sums!Byte, NEW d2 \in Sums!Byte, NEW d3, NEW d4
  PROVE  \E e1, e2 \in Sums!Byte :
           /\ Sums!Bump(<<d1, d2, d3, d4>>) = <<e1, e2, d3, d4>>
           /\ \/ Base * e1 + e2 = Base * d1 + d2 + 1
              \/ Base * e1 + e2 = 0 /\ Base * d1 + d2 = A
<1>1. Base \in Nat /\ Base > 1 /\ d1 \in 0..(Base - 1) /\ d2 \in 0..(Base - 1) /\ 0 \in Sums!Byte
  BY SumsAssumption DEF Sums!Byte
<1>2. A = Base * Base - 1 /\ Base * (Base - 1) = Base * Base - Base
  BY <1>1, WordsFacts
<1>3. \A d \in 0..(Base - 1) : /\ d # Base - 1 => (d + 1) % Base = d + 1
                              /\ d = Base - 1 => (d + 1) % Base = 0
  <2>1. ASSUME NEW d \in 0..(Base - 1), d # Base - 1 PROVE (d + 1) % Base = d + 1
    <3>1. d + 1 \in 0..(Base - 1) /\ Base * 0 + (d + 1) = d + 1
      BY <1>1, <2>1
    <3> QED
      BY <1>1, <3>1, Quotient
  <2>2. Base % Base = 0
    <3>1. 0 \in 0..(Base - 1) /\ Base * 1 + 0 = Base
      BY <1>1
    <3> QED
      BY <1>1, <3>1, Quotient
  <2>3. ASSUME NEW d \in 0..(Base - 1), d = Base - 1 PROVE (d + 1) % Base = 0
    <3>1. d + 1 = Base
      BY <1>1, <2>3
    <3> QED
      BY <2>2, <3>1
  <2> QED
    BY <2>1, <2>3
<1>4. CASE d2 # Base - 1
  <2>1. (d2 + 1) % Base # 0
    BY <1>1, <1>3, <1>4
  <2>2. Sums!Bump(<<d1, d2, d3, d4>>) = <<d1, d2 + 1, d3, d4>>
    BY <2>1 DEF Sums!Bump
  <2>3. d2 + 1 \in Sums!Byte /\ Base * d1 + (d2 + 1) = Base * d1 + d2 + 1
    BY <1>1, <1>4 DEF Sums!Byte
  <2> QED
    BY <2>2, <2>3
<1>5. CASE d2 = Base - 1 /\ d1 # Base - 1
  <2>1. (d2 + 1) % Base = 0 /\ (d1 + 1) % Base = d1 + 1
    BY <1>1, <1>3, <1>5
  <2>2. Sums!Bump(<<d1, d2, d3, d4>>) = <<d1 + 1, 0, d3, d4>>
    BY <2>1 DEF Sums!Bump
  <2>3. d1 + 1 \in Sums!Byte
    BY <1>1, <1>5 DEF Sums!Byte
  <2>4. Base * (d1 + 1) + 0 = Base * d1 + d2 + 1
    BY <1>1, <1>5
  <2> QED
    BY <1>1, <2>2, <2>3, <2>4
<1>6. CASE d2 = Base - 1 /\ d1 = Base - 1
  <2>1. (d2 + 1) % Base = 0 /\ (d1 + 1) % Base = 0
    BY <1>1, <1>3, <1>6
  <2>2. Sums!Bump(<<d1, d2, d3, d4>>) = <<0, 0, d3, d4>>
    BY <2>1 DEF Sums!Bump
  <2>3. Base * 0 + 0 = 0 /\ Base * d1 + d2 = A
    BY <1>1, <1>2, <1>6
  <2> QED
    BY <1>1, <2>2, <2>3
<1> QED
  BY <1>4, <1>5, <1>6

(* Two bytes are added modulo 256, and the carry shows.                    *)
LEMMA BytesAdd ==
  ASSUME NEW x \in Sums!Byte, NEW y \in Sums!Byte
  PROVE  /\ (x + y) % Base \in Sums!Byte
         /\ x + y < Base => (x + y) % Base = x + y /\ ~((x + y) % Base < y)
         /\ x + y >= Base => (x + y) % Base = x + y - Base /\ (x + y) % Base < y
                             /\ (x + y) % Base < Base - 1
<1>1. Base \in Nat /\ Base > 1 /\ x \in 0..(Base - 1) /\ y \in 0..(Base - 1)
  BY SumsAssumption DEF Sums!Byte
<1>2. CASE x + y < Base
  <2>1. x + y \in 0..(Base - 1) /\ Base * 0 + (x + y) = x + y
    BY <1>1, <1>2
  <2>2. (x + y) % Base = x + y
    BY <1>1, <2>1, Quotient
  <2> QED
    BY <1>1, <1>2, <2>1, <2>2 DEF Sums!Byte
<1>3. CASE x + y >= Base
  <2> DEFINE r == x + y - Base
  <2>1. r \in 0..(Base - 1) /\ Base * 1 + r = x + y /\ r < y /\ r < Base - 1
    BY <1>1, <1>3
  <2> HIDE DEF r
  <2>2. (x + y) % Base = r
    BY <1>1, <2>1, Quotient
  <2>3. r = x + y - Base
    BY DEF r
  <2> QED
    BY <1>1, <1>3, <2>1, <2>2, <2>3 DEF Sums!Byte
<1> QED
  BY <1>1, <1>2, <1>3

(* A number as two words, of which the lower has w added, with the carry.  *)
LEMMA CarryIs ==
  ASSUME NEW T \in Word, NEW U \in Word, NEW L \in Int, NEW M \in Word, NEW w \in Word,
         \/ M = L + w /\ U = T
         \/ M = L + w - Sums!Words /\ (U = T + 1 \/ (U = 0 /\ T = A))
  PROVE  ((T * Sums!Words + L) + w) % (Sums!Words * Sums!Words) = U * Sums!Words + M
<1> DEFINE W == Sums!Words
           D == W * W
<1>1. W \in Nat /\ W = A + 1 /\ A \in Nat /\ T \in 0..A /\ U \in 0..A /\ M \in 0..A /\ w \in 0..A
  BY WordsFacts DEF Word
<1>2. U * W + M \in 0..(D - 1)
  <2>1. U * W <= A * W /\ A * W = W * W - W /\ U * W \in Nat
    BY <1>1
  <2> QED
    BY <1>1, <2>1
<1>3. D \in Nat
  BY <1>1
<1>4. CASE (T * W + L) + w = U * W + M
  <2> DEFINE r == U * W + M
  <2>1. r \in 0..(D - 1) /\ D * 0 + r = r /\ (T * W + L) + w = r
    BY <1>2, <1>3, <1>4
  <2> HIDE DEF r, D
  <2>2. r % D = r
    BY <1>3, <2>1, Quotient
  <2> QED
    BY <2>1, <2>2 DEF r, D
<1>5. CASE U = 0 /\ T = A /\ M = L + w - W
  <2>1. T * W = W * W - W /\ U * W = 0 /\ T * W \in Int
    BY <1>1, <1>5
  <2>2. (T * W + L) + w = D + M
    BY <1>1, <1>5, <2>1
  <2>3. M \in 0..(D - 1) /\ D * 1 + M = D + M
    BY <1>1, <1>2, <1>3, <2>1
  <2> HIDE DEF D
  <2>4. (D + M) % D = M
    BY <1>3, <2>3, Quotient
  <2>5. U * W + M = M
    BY <1>1, <2>1
  <2> QED
    BY <2>2, <2>4, <2>5 DEF D
<1>6. CASE M = L + w - W /\ U = T + 1
  <2>1. U * W = T * W + W /\ T * W \in Int
    BY <1>1, <1>6
  <2>2. (T * W + L) + w = U * W + M
    BY <1>1, <1>6, <2>1
  <2> QED
    BY <1>4, <2>2
<1>7. CASE M = L + w /\ U = T
  <2>1. T * W \in Int
    BY <1>1
  <2>2. (T * W + L) + w = U * W + M
    BY <1>1, <1>7, <2>1
  <2> QED
    BY <1>4, <2>2
<1> QED
  BY <1>5, <1>6, <1>7

LEMMA AddIs ==
  ASSUME NEW op \in [1..4 -> Sums!Byte], NEW w \in Word
  PROVE  /\ Sums!add32(op, w) \in [1..4 -> Sums!Byte]
         /\ Sums!Number(Sums!add32(op, w))
              = (Sums!Number(op) + w) % (Sums!Words * Sums!Words)
<1> DEFINE high == w \div Base
           low == w % Base
           d1 == op[1]
           d2 == op[2]
           d3 == op[3]
           d4 == op[4]
           x3 == (d3 + high) % Base
           x4 == (d4 + low) % Base
           a0 == <<d1, d2, x3, x4>>
           a1 == IF a0[3] < high THEN Sums!Bump(a0) ELSE a0
           a2 == [a1 EXCEPT ![3] = (@ + 1) % Base]
           T == Base * d1 + d2
           L == Base * d3 + d4
<1>1. Sums!add32(op, w) = IF a1[4] >= low THEN a1 ELSE IF a2[3] = 0 THEN Sums!Bump(a2) ELSE a2
  BY DEF Sums!add32
<1>2. /\ high \in Sums!Byte /\ low \in Sums!Byte /\ w = Base * high + low
      /\ d1 \in Sums!Byte /\ d2 \in Sums!Byte /\ d3 \in Sums!Byte /\ d4 \in Sums!Byte
  BY BytesOf
<1>3. \A x \in Sums!Byte : x \in Nat /\ x <= Base - 1
  BY SumsAssumption DEF Sums!Byte
<1>4. Base \in Nat /\ Base > 1 /\ Sums!Words = Base * Base /\ 0 \in Sums!Byte /\ 1 \in Sums!Byte
  BY SumsAssumption, WordsFacts DEF Sums!Byte
<1>5. ASSUME NEW e1 \in Sums!Byte, NEW e2 \in Sums!Byte, NEW e3 \in Sums!Byte, NEW e4 \in Sums!Byte
      PROVE  /\ <<e1, e2, e3, e4>> \in [1..4 -> Sums!Byte]
             /\ Sums!Number(<<e1, e2, e3, e4>>)
                  = (Base * e1 + e2) * Sums!Words + (Base * e3 + e4)
             /\ Base * e1 + e2 \in Word /\ Base * e3 + e4 \in Word
  <2>1. e1 \in Nat /\ e2 \in Nat /\ e3 \in Nat /\ e4 \in Nat
    BY <1>3
  <2>2. Sums!Number(<<e1, e2, e3, e4>>) = ((e1 * Base + e2) * Base + e3) * Base + e4
    BY DEF Sums!Number
  <2> DEFINE u == Base * e1 + e2
  <2>3. u \in Nat /\ e1 * Base + e2 = u
    BY <1>4, <2>1
  <2>4. (u * Base + e3) * Base = u * (Base * Base) + Base * e3
    <3> HIDE DEF u
    <3> QED
      BY <1>4, <2>1, <2>3
  <2>5. u * (Base * Base) \in Int /\ Base * e3 \in Int
    BY <1>4, <2>1, <2>3
  <2>6. Sums!Number(<<e1, e2, e3, e4>>) = u * Sums!Words + (Base * e3 + e4)
    <3> HIDE DEF u
    <3> QED
      BY <1>4, <2>1, <2>2, <2>3, <2>4, <2>5
  <2>7. <<e1, e2, e3, e4>> \in [1..4 -> Sums!Byte]
    OBVIOUS
  <2> QED
    BY <2>6, <2>7, DigitsOf
<1>6. Sums!Number(op) = T * Sums!Words + L /\ T \in Word /\ L \in Int
  <2>1. Sums!Number(op) = Sums!Number(<<d1, d2, d3, d4>>)
    BY DEF Sums!Number
  <2>2. L \in Word
    BY <1>2, <1>5
  <2> QED
    BY <1>2, <1>5, <2>1, <2>2, WordsFacts DEF Word
<1>7. SUFFICES \E e1, e2, e3, e4 \in Sums!Byte :
                 /\ Sums!add32(op, w) = <<e1, e2, e3, e4>>
                 /\ \/ Base * e3 + e4 = L + w /\ Base * e1 + e2 = T
                    \/ /\ Base * e3 + e4 = L + w - Sums!Words
                       /\ Base * e1 + e2 = T + 1 \/ (Base * e1 + e2 = 0 /\ T = A)
  <2>1. PICK e1, e2, e3, e4 \in Sums!Byte :
          /\ Sums!add32(op, w) = <<e1, e2, e3, e4>>
          /\ \/ Base * e3 + e4 = L + w /\ Base * e1 + e2 = T
             \/ /\ Base * e3 + e4 = L + w - Sums!Words
                /\ Base * e1 + e2 = T + 1 \/ (Base * e1 + e2 = 0 /\ T = A)
    BY <1>7
  <2> DEFINE U == Base * e1 + e2
             M == Base * e3 + e4
  <2>2. /\ <<e1, e2, e3, e4>> \in [1..4 -> Sums!Byte]
        /\ Sums!Number(<<e1, e2, e3, e4>>) = U * Sums!Words + M
        /\ U \in Word /\ M \in Word
    BY <1>5
  <2>3. \/ M = L + w /\ U = T
        \/ M = L + w - Sums!Words /\ (U = T + 1 \/ (U = 0 /\ T = A))
    BY <2>1
  <2> HIDE DEF U, M, T, L
  <2>4. ((T * Sums!Words + L) + w) % (Sums!Words * Sums!Words) = U * Sums!Words + M
    BY <1>6, <2>2, <2>3, CarryIs
  <2> QED
    BY <1>6, <2>1, <2>2, <2>4
<1>8. /\ x3 \in Sums!Byte /\ x4 \in Sums!Byte
      /\ d3 + high < Base => x3 = d3 + high /\ ~(x3 < high)
      /\ d3 + high >= Base => x3 = d3 + high - Base /\ x3 < high /\ x3 < Base - 1
      /\ d4 + low < Base => x4 = d4 + low /\ ~(x4 < low)
      /\ d4 + low >= Base => x4 = d4 + low - Base /\ x4 < low
  <2> HIDE DEF high, low
  <2> QED
    BY <1>2, BytesAdd
<1> HIDE DEF high, low, d1, d2, d3, d4, x3, x4
<1>9. a0[3] = x3 /\ a0[4] = x4
  OBVIOUS
<1>10. ASSUME NEW e3 \in Sums!Byte, NEW e4 \in Sums!Byte
       PROVE  /\ Base * e3 + e4 \in Int /\ L + w = Base * (d3 + high) + (d4 + low)
              /\ Base * (d3 + high) \in Int
              /\ Base * (d3 + high - Base) = Base * (d3 + high) - Sums!Words
              /\ Base * (d3 + high + 1) = Base * (d3 + high) + Base
              /\ Base * (d3 + high - Base + 1) = Base * (d3 + high) - Sums!Words + Base
  <2>1. /\ d3 \in Int /\ d4 \in Int /\ high \in Int /\ low \in Int /\ e3 \in Int /\ e4 \in Int
        /\ Base \in Int
    BY <1>2, <1>3, <1>4
  <2>2. Base * e3 \in Int /\ Base * (d3 + high) = Base * d3 + Base * high
    BY <2>1
  <2>3. Base * d3 \in Int /\ Base * high \in Int
    BY <2>1
  <2>4. L + w = Base * (d3 + high) + (d4 + low)
    BY <1>2, <2>1, <2>2, <2>3
  <2>5. /\ Base * (d3 + high - Base) = Base * (d3 + high) - Base * Base
        /\ Base * (d3 + high + 1) = Base * (d3 + high) + Base
        /\ Base * (d3 + high - Base + 1) = Base * (d3 + high) - Base * Base + Base
    BY <2>1
  <2> QED
    BY <1>4, <2>1, <2>2, <2>3, <2>4, <2>5
<1>11. PICK e1, e2 \in Sums!Byte :
         /\ Sums!Bump(a0) = <<e1, e2, x3, x4>>
         /\ \/ Base * e1 + e2 = T + 1
            \/ Base * e1 + e2 = 0 /\ T = A
  BY <1>2, BumpIs
<1>12. /\ d3 \in Int /\ d4 \in Int /\ high \in Int /\ low \in Int /\ x3 \in Int /\ x4 \in Int
       /\ x3 <= Base - 1 /\ L \in Int /\ w \in Int
  BY <1>2, <1>3, <1>6, <1>8, WordsFacts DEF Word
<1>13. CASE d3 + high < Base /\ d4 + low < Base
  <2>1. a1 = a0
    BY <1>8, <1>9, <1>13
  <2>2. a1[4] >= low
    BY <1>8, <1>9, <1>12, <1>13, <2>1
  <2>3. Sums!add32(op, w) = <<d1, d2, x3, x4>>
    <3> HIDE DEF a1, a2
    <3>1. Sums!add32(op, w) = a1
      BY <1>1, <2>2
    <3> QED
      BY <2>1, <3>1
  <2>4. Base * x3 + x4 = L + w
    BY <1>8, <1>10, <1>12, <1>13
  <2> HIDE DEF T, L
  <2>5. Base * d1 + d2 = T
    BY DEF T
  <2> QED
    BY <1>2, <1>8, <2>3, <2>4, <2>5
<1>14. CASE d3 + high >= Base /\ d4 + low < Base
  <2>1. a1 = <<e1, e2, x3, x4>>
    BY <1>8, <1>9, <1>11, <1>14
  <2>2. a1[4] >= low
    <3>1. a1[4] = x4
      BY <2>1
    <3> QED
      BY <1>8, <1>12, <1>14, <3>1
  <2>3. Sums!add32(op, w) = <<e1, e2, x3, x4>>
    <3> HIDE DEF a1, a2
    <3> QED
      BY <1>1, <2>1, <2>2
  <2>4. Base * x3 + x4 = L + w - Sums!Words
    <3>1. x3 = d3 + high - Base /\ x4 = d4 + low
      BY <1>8, <1>14
    <3>2. Base * x3 = Base * (d3 + high) - Sums!Words
      BY <1>10, <1>8, <3>1
    <3>3. L + w = Base * (d3 + high) + (d4 + low) /\ Base * (d3 + high) \in Int
      BY <1>8, <1>10
    <3> HIDE DEF L
    <3> QED
      BY <1>12, <3>1, <3>2, <3>3, WordsFacts
  <2> QED
    BY <1>8, <1>11, <2>3, <2>4
<1>15. CASE d3 + high < Base /\ d4 + low >= Base
  <2>1. a1 = a0 /\ a2 = <<d1, d2, (x3 + 1) % Base, x4>>
    <3>1. a1 = a0
      BY <1>8, <1>9, <1>15
    <3> QED
      BY <3>1
  <2>2. ~(a1[4] >= low)
    <3>1. a1[4] = x4
      BY <2>1
    <3> QED
      BY <1>8, <1>12, <1>15, <3>1
  <2>3. a2[3] = (x3 + 1) % Base
    BY <2>1
  <2>4. x4 = d4 + low - Base /\ x3 = d3 + high
    BY <1>8, <1>15
  <2>5. L + w = Base * (d3 + high) + (d4 + low) /\ Base * (d3 + high) \in Int
    BY <1>8, <1>10
  <2>6. CASE x3 + 1 >= Base
    <3>1. (x3 + 1) % Base = 0 /\ x3 = Base - 1
      <4>1. (x3 + 1) % Base = x3 + 1 - Base
        BY <1>4, <1>8, <2>6, BytesAdd
      <4> QED
        BY <1>4, <1>12, <2>6, <4>1
    <3>2. Sums!add32(op, w) = Sums!Bump(a2)
      <4> HIDE DEF a1, a2
      <4> QED
        BY <1>1, <2>2, <2>3, <3>1
    <3>3. PICK f1, f2 \in Sums!Byte :
            /\ Sums!Bump(a2) = <<f1, f2, 0, x4>>
            /\ \/ Base * f1 + f2 = T + 1
               \/ Base * f1 + f2 = 0 /\ T = A
      BY <1>2, <2>1, <3>1, BumpIs
    <3>4. Base * 0 + x4 = L + w - Sums!Words
      <4>1. Base * (d3 + high) = Base * Base - Base
        BY <1>4, <1>12, <2>4, <3>1
      <4> HIDE DEF L
      <4> QED
        BY <1>4, <1>12, <2>4, <2>5, <4>1, WordsFacts
    <3> QED
      BY <1>4, <1>8, <3>2, <3>3, <3>4
  <2>7. CASE x3 + 1 < Base
    <3>1. (x3 + 1) % Base = x3 + 1
      BY <1>4, <1>8, <2>7, BytesAdd
    <3>2. x3 + 1 # 0 /\ x3 + 1 \in Sums!Byte
      BY <1>3, <1>4, <1>8, <1>12, <2>7 DEF Sums!Byte
    <3>3. Sums!add32(op, w) = <<d1, d2, x3 + 1, x4>>
      <4>1. Sums!add32(op, w) = a2
        <5> HIDE DEF a1, a2
        <5> QED
          BY <1>1, <2>2, <2>3, <3>1, <3>2
      <4> QED
        BY <2>1, <3>1, <4>1
    <3>4. Base * (x3 + 1) + x4 = L + w
      <4>1. Base * (x3 + 1) = Base * (d3 + high) + Base
        BY <1>8, <1>10, <2>4
      <4> HIDE DEF L
      <4> QED
        BY <1>4, <1>12, <2>4, <2>5, <4>1
    <3>5. Base * d1 + d2 = T
      BY DEF T
    <3> HIDE DEF T, L
    <3> QED
      BY <1>2, <1>8, <3>2, <3>3, <3>4, <3>5
  <2> QED
    BY <1>4, <1>12, <2>6, <2>7
<1>16. CASE d3 + high >= Base /\ d4 + low >= Base
  <2>1. a1 = <<e1, e2, x3, x4>> /\ a2 = <<e1, e2, (x3 + 1) % Base, x4>>
    <3>1. a1 = <<e1, e2, x3, x4>>
      BY <1>8, <1>9, <1>11, <1>16
    <3> HIDE DEF a1
    <3> QED
      BY <3>1
  <2>2. ~(a1[4] >= low)
    <3>1. a1[4] = x4
      BY <2>1
    <3> QED
      BY <1>8, <1>12, <1>16, <3>1
  <2>3. a2[3] = (x3 + 1) % Base
    BY <2>1
  <2>4. x4 = d4 + low - Base /\ x3 = d3 + high - Base /\ x3 + 1 < Base
    BY <1>4, <1>8, <1>12, <1>16
  <2>5. L + w = Base * (d3 + high) + (d4 + low) /\ Base * (d3 + high) \in Int
    BY <1>8, <1>10
  <2>6. (x3 + 1) % Base = x3 + 1 /\ x3 + 1 # 0 /\ x3 + 1 \in Sums!Byte
    <3>1. (x3 + 1) % Base = x3 + 1
      BY <1>4, <1>8, <2>4, BytesAdd
    <3>2. x3 >= 0
      BY <1>3, <1>8
    <3> QED
      BY <1>4, <1>12, <2>4, <3>1, <3>2 DEF Sums!Byte
  <2>7. Sums!add32(op, w) = <<e1, e2, x3 + 1, x4>>
    <3>1. Sums!add32(op, w) = a2
      <4> HIDE DEF a1, a2
      <4> QED
        BY <1>1, <2>2, <2>3, <2>6
    <3> QED
      BY <2>1, <2>6, <3>1
  <2>8. Base * (x3 + 1) + x4 = L + w - Sums!Words
    <3>1. Base * (x3 + 1) = Base * (d3 + high) - Sums!Words + Base
      BY <1>8, <1>10, <2>4
    <3> HIDE DEF L
    <3> QED
      BY <1>4, <1>12, <2>4, <2>5, <3>1, WordsFacts
  <2> HIDE DEF L
  <2> QED
    BY <1>8, <1>11, <2>6, <2>7, <2>8
<1> QED
  BY <1>4, <1>12, <1>13, <1>14, <1>15, <1>16

-----------------------------------------------------------------------------
(* The packet: its types; what was filled in and not yet damaged is right; *)
(* and a damaged packet that would still be accepted is what was sent.     *)
Checked == {"ip", "udp", "tcp"}
Unharmed == IF proto = "ip" THEN original[1] = head ELSE original = <<head, payload>>
SumsTypes ==
  /\ proto \in Checked \cup {"icmp", "seq"}
  /\ proto # "seq" => head \in Heads
  /\ proto = "seq" => head \in [1..4 -> Sums!Byte]
  /\ payload \in Sums!Payload /\ sum \in Word
SumsHistory ==
  /\ original = <<>> => verdict = "none"
  /\ proto = "icmp" => verdict = "none"
  /\ proto = "seq" => verdict = IF original = <<>> THEN "none" ELSE "added"
  /\ proto \in Checked => verdict \in {"none", "damaged", "accepted", "dropped"}
SumsRight ==
  /\ proto \in Checked /\ verdict = "none" /\ original # <<>> =>
       original = <<head, payload>> /\ Sums!PeerAccepts /\ (proto = "udp" => sum # 0)
  /\ verdict = "damaged" /\ (Sums!PeerAccepts \/ (proto = "udp" /\ sum = 0)) => Unharmed
SumsInv == SumsTypes /\ SumsHistory /\ SumsRight /\ SumsAgree

LEMMA SumsStart == Sums!Init => SumsInv
<1> SUFFICES ASSUME Sums!Init PROVE SumsInv
  OBVIOUS
<1>1. /\ proto \in Checked \cup {"icmp", "seq"} /\ payload \in Sums!Payload /\ sum \in Word
      /\ verdict = "none" /\ original = <<>>
  <2>1. 0 \in Word /\ Sums!AllOnes = A
    BY WordsFacts DEF Word
  <2>2. <<>> \in Sums!Payload
    <3>1. <<>> \in [1..0 -> Sums!Byte] /\ 0 \in 0..MaxPayload
      BY SumsAssumption
    <3> QED
      BY <3>1 DEF Sums!Payload
  <2> QED
    BY <2>1, <2>2 DEF Sums!Init, Checked, Word
<1>2. (proto # "seq" => head \in Heads) /\ (proto = "seq" => head \in [1..4 -> Sums!Byte])
  <2>1. <<Echo, 0>> \in [1..2 -> Sums!Byte]
    <3>1. Echo \in Sums!Byte /\ 0 \in Sums!Byte
      BY SumsAssumption DEF Sums!Byte
    <3> QED
      BY <3>1
  <2> QED
    BY <2>1 DEF Sums!Init, Heads
<1>3. SumsTypes
  BY <1>1, <1>2 DEF SumsTypes
<1>4. SumsHistory /\ SumsRight /\ SumsAgree
  BY <1>1 DEF SumsHistory, SumsRight, SumsAgree, Sums!SumsAgree, Checked
<1> QED
  BY <1>3, <1>4 DEF SumsInv

(* What is sent: the complement of the sum is stored.                      *)
LEMMA FillKeeps ==
  ASSUME SumsInv, Sums!Fill
  PROVE  SumsInv'
<1> DEFINE s == Sums!SumOf(head, 0, payload)
           p == Plain(proto, head, 0, payload)
           q == Plain(proto, head, sum', payload)
<1>1. /\ proto \in Checked /\ head \in Heads /\ payload \in Sums!Payload /\ verdict = "none"
      /\ proto' = proto /\ head' = head /\ payload' = payload /\ verdict' = verdict
      /\ original' = <<head, payload>>
      /\ sum' = IF proto = "udp" /\ A - s = 0 THEN A ELSE A - s
  BY WordsFacts DEF SumsInv, SumsTypes, SumsHistory, Sums!Fill, Checked
<1>2. A \in Nat /\ A > 0 /\ 0 \in Word
  BY WordsFacts DEF Word
<1>3. s \in 1..A /\ Same(s, p) /\ p \in Nat
  BY <1>1, <1>2, SumOfIs, PlainIs DEF Checked
<1> HIDE DEF s
<1>4. sum' \in Word /\ (proto = "udp" => sum' # 0)
  BY <1>1, <1>2, <1>3 DEF Word
<1>5. q = p + sum' /\ q \in Nat /\ p \in Nat
  <2>1. q \in Nat
    BY <1>1, <1>4, PlainIs
  <2>2. Sums!WordAt(head, 1) \in Nat
    BY <1>1, <1>2, HeaderIs
  <2>3. sum' \in Nat
    BY <1>2, <1>4 DEF Word
  <2>4. Total(payload) \in Nat /\ Len(payload) \in Nat
    <3>1. payload \in Strings /\ Len(payload) \in Nat /\ 0 \in Nat
      BY <1>1, StringsAre, SumsAssumption
    <3> QED
      BY <3>1, AddedTotal
  <2> DEFINE a == IF proto \in {"udp", "tcp"} THEN Len(payload) + 5 ELSE 0
             c == IF proto = "ip" THEN 0 ELSE Total(payload)
             w == Sums!WordAt(head, 1)
  <2>5. a \in Nat /\ c \in Nat /\ w \in Nat
    BY <2>2, <2>4
  <2>6. p = a + (w + 0) + c /\ q = a + (w + sum') + c
    BY DEF Plain
  <2> HIDE DEF a, c, w, p, q
  <2>7. q = p + sum'
    BY <2>3, <2>5, <2>6
  <2> QED
    BY <1>3, <2>1, <2>7
<1> HIDE DEF p, q
<1>6. Same(q, 0)
  <2>1. Same(p, s)
    BY <1>2, <1>3, SameSymmetric
  <2>2. sum' \in Int /\ s \in Int
    BY <1>2, <1>3, <1>4 DEF Word
  <2>3. Same(p + sum', s + sum')
    BY <1>3, <2>1, <2>2, SameReflexive, SameAdds
  <2>4. s + sum' = A \/ s + sum' = A + A
    BY <1>1, <1>2, <1>3
  <2>5. Same(s + sum', 0)
    <3>1. 1 \in Int /\ 2 \in Int /\ A - 0 = A * 1 /\ (A + A) - 0 = A * 2
      BY <1>2
    <3> QED
      BY <2>4, <3>1 DEF Same
  <2>6. s + sum' \in Int /\ p + sum' \in Int
    BY <1>3, <2>2
  <2> QED
    BY <1>5, <2>3, <2>5, <2>6, SameTransitive
<1>7. Sums!PeerAccepts'
  BY <1>1, <1>4, <1>6, Accepts DEF q
<1>8. SumsTypes'
  BY <1>1, <1>4 DEF SumsTypes, Checked
<1>9. SumsHistory' /\ SumsRight' /\ SumsAgree'
  BY <1>1, <1>4, <1>7 DEF SumsHistory, SumsRight, SumsAgree, Sums!SumsAgree, Checked
<1> QED
  BY <1>8, <1>9 DEF SumsInv

LEMMA PingKeeps ==
  ASSUME SumsInv, Sums!Ping
  PROVE  SumsInv'
<1>1. /\ proto = "icmp" /\ head \in Heads /\ payload \in Sums!Payload /\ verdict = "none"
      /\ proto' = proto /\ head' = head /\ payload' = payload /\ verdict' = verdict
      /\ original' = <<head, payload>>
      /\ sum' \in Word /\ Sums!TrueSum(0, head, sum', payload) = 0
  BY WordsFacts DEF SumsInv, SumsTypes, SumsHistory, Sums!Ping, Word
<1>2. Sums!PeerAccepts'
  BY <1>1 DEF Sums!PeerAccepts, Sums!FirstOf, Sums!Data
<1>3. SumsTypes'
  BY <1>1 DEF SumsTypes, Checked
<1>4. SumsHistory' /\ SumsRight' /\ SumsAgree'
  BY <1>1, <1>2 DEF SumsHistory, SumsRight, SumsAgree, Sums!SumsAgree, Checked
<1> QED
  BY <1>3, <1>4 DEF SumsInv

LEMMA AddKeeps ==
  ASSUME SumsInv, Sums!Add
  PROVE  SumsInv'
<1>1. /\ proto = "seq" /\ head \in [1..4 -> Sums!Byte] /\ payload \in Sums!Payload /\ sum \in Word
      /\ proto' = proto /\ head' = Sums!add32(head, sum) /\ payload' = payload /\ sum' = sum
      /\ verdict' = "added" /\ original' = <<head, payload>>
  BY DEF SumsInv, SumsTypes, Sums!Add
<1>2. /\ head' \in [1..4 -> Sums!Byte]
      /\ Sums!Number(head') = (Sums!Number(head) + sum) % (Sums!Words * Sums!Words)
  BY <1>1, AddIs
<1>3. SumsTypes'
  BY <1>1, <1>2 DEF SumsTypes, Checked
<1>4. Sums!Number(head') = (Sums!Number(original'[1]) + sum') % (Sums!Words * Sums!Words)
  BY <1>1, <1>2
<1>5. SumsAgree'
  BY <1>1, <1>4 DEF SumsAgree, Sums!SumsAgree, Sums!Number
<1>6. SumsHistory' /\ SumsRight'
  BY <1>1 DEF SumsHistory, SumsRight, Checked
<1> QED
  BY <1>3, <1>5, <1>6 DEF SumsInv

LEMMA CheckKeeps ==
  ASSUME SumsInv, Sums!Check
  PROVE  SumsInv'
<1>1. /\ proto \in Checked /\ head \in Heads /\ payload \in Sums!Payload /\ sum \in Word
      /\ original # <<>> /\ verdict \in {"none", "damaged"}
      /\ proto' = proto /\ head' = head /\ payload' = payload /\ sum' = sum
      /\ original' = original
      /\ verdict' = IF (proto = "udp" /\ sum = 0) \/ Sums!SumOf(head, sum, payload) = A
                    THEN "accepted" ELSE "dropped"
  BY WordsFacts DEF SumsInv, SumsTypes, SumsHistory, Sums!Check, Checked
<1>2. Sums!SumOf(head, sum, payload) = A <=> Sums!PeerAccepts
  BY <1>1, SumOfAll, Accepts DEF Checked
<1>3. Sums!PeerAccepts' <=> Sums!PeerAccepts
  BY <1>1 DEF Sums!PeerAccepts, Sums!FirstOf, Sums!Data
<1>4. SumsRight
  BY DEF SumsInv
<1>5. ASSUME verdict' = "accepted" PROVE Unharmed
  <2>1. Sums!PeerAccepts \/ (proto = "udp" /\ sum = 0)
    BY <1>1, <1>2, <1>5
  <2>2. CASE verdict = "none"
    BY <1>1, <1>4, <2>2 DEF SumsRight, Unharmed
  <2>3. CASE verdict = "damaged"
    BY <1>4, <2>1, <2>3 DEF SumsRight
  <2> QED
    BY <1>1, <2>2, <2>3
<1>6. ASSUME verdict' = "dropped" PROVE ~Sums!PeerAccepts'
  BY <1>1, <1>2, <1>3, <1>6
<1>7. SumsAgree'
  BY <1>1, <1>5, <1>6 DEF SumsAgree, Sums!SumsAgree, Unharmed, Checked
<1>8. SumsTypes'
  BY <1>1 DEF SumsTypes, Checked
<1>9. SumsHistory' /\ SumsRight'
  BY <1>1 DEF SumsHistory, SumsRight, Checked
<1> QED
  BY <1>7, <1>8, <1>9 DEF SumsInv

(* Damage to one byte of a packet that is right changes the sum by less    *)
(* than 2^16 - 1, and so leaves it right only if it changes nothing.       *)
LEMMA Differs ==
  ASSUME NEW x \in Sums!Byte, NEW y \in Sums!Byte, NEW m \in Int, NEW n \in Int,
         Same(m, 0), Same(n, 0), n - m \in {x - y, Base * (x - y)}
  PROVE  x = y
<1>1. Base \in Nat /\ Base > 1 /\ x \in 0..(Base - 1) /\ y \in 0..(Base - 1)
  BY SumsAssumption DEF Sums!Byte
<1>2. A = Base * Base - 1 /\ A \in Nat /\ A >= Base + 1
  BY <1>1, WordsFacts
<1>3. x - y <= Base - 1 /\ x - y >= -(Base - 1)
  BY <1>1
<1>4. Base * (x - y) <= Base * (Base - 1) /\ Base * (x - y) >= Base * (-(Base - 1))
  BY <1>1, <1>3
<1>5. /\ Base * (Base - 1) = Base * Base - Base
      /\ Base * (-(Base - 1)) = -(Base * Base - Base)
  BY <1>1
<1>6. Base * (x - y) < A /\ Base * (x - y) > -A /\ x - y < A /\ x - y > -A
  <2>1. Base * (x - y) \in Int /\ Base * Base \in Int
    BY <1>1
  <2> QED
    BY <1>1, <1>2, <1>3, <1>4, <1>5, <2>1
<1>7. n = m
  <2>1. Same(0, m)
    BY SameSymmetric
  <2>2. Same(n, m)
    BY <2>1, SameTransitive
  <2>3. -A < n - m /\ n - m < A
    BY <1>6
  <2> QED
    BY <2>2, <2>3, SameNear
<1>8. x - y = 0 \/ Base * (x - y) = 0
  BY <1>7
<1> DEFINE d == x - y
<1>9. d \in Int /\ (d = 0 \/ Base * d = 0)
  BY <1>1, <1>8
<1>10. d = 0
  <2> HIDE DEF d
  <2> QED
    BY <1>1, <1>9, SmallFactor
<1> QED
  BY <1>1, <1>10

LEMMA DamageKeeps ==
  ASSUME SumsInv, Sums!Damage
  PROVE  SumsInv'
<1>1. /\ proto \in Checked /\ head \in Heads /\ payload \in Sums!Payload /\ sum \in Word
      /\ original = <<head, payload>> /\ verdict = "none"
      /\ Sums!PeerAccepts /\ (proto = "udp" => sum # 0)
      /\ proto' = proto /\ original' = original /\ verdict' = "damaged"
  <2>1. original # <<>>
    BY DEF Sums!Damage
  <2> QED
    BY <2>1 DEF SumsInv, SumsTypes, SumsHistory, SumsRight, Sums!Damage, Checked
<1> DEFINE p == Plain(proto, head, sum, payload)
           a == IF proto \in {"udp", "tcp"} THEN Len(payload) + 5 ELSE 0
           c == IF proto = "ip" THEN 0 ELSE Total(payload)
<1>2. p \in Int /\ Same(p, 0) /\ p = a + (Sums!WordAt(head, 1) + sum) + c
  <2>1. p \in Nat
    BY <1>1, PlainIs
  <2>2. Same(p, 0)
    BY <1>1, Accepts
  <2>3. p = a + (Sums!WordAt(head, 1) + sum) + c
    BY DEF Plain
  <2> QED
    BY <2>1, <2>2, <2>3
<1>3. /\ a \in Nat /\ c \in Nat /\ sum \in Nat /\ payload \in Strings /\ Total(payload) \in Nat
  <2>1. payload \in Strings /\ Len(payload) \in Nat /\ 0 \in Nat
    BY <1>1, StringsAre, SumsAssumption
  <2>2. Total(payload) \in Nat
    BY <2>1, AddedTotal
  <2>3. sum \in Nat
    BY <1>1, WordsFacts DEF Word
  <2> QED
    BY <2>1, <2>2, <2>3
<1>4. SUFFICES /\ head' \in Heads /\ payload' \in Sums!Payload /\ sum' \in Word
               /\ Sums!PeerAccepts' \/ (proto' = "udp" /\ sum' = 0) => Unharmed'
  <2>1. SumsTypes'
    BY <1>1, <1>4 DEF SumsTypes, Checked
  <2>2. SumsHistory' /\ SumsRight' /\ SumsAgree'
    BY <1>1, <1>4 DEF SumsHistory, SumsRight, SumsAgree, Sums!SumsAgree, Checked
  <2> QED
    BY <2>1, <2>2 DEF SumsInv
<1>5. PICK b \in Sums!Byte :
        \/ \E i \in 1..2 : head' = [head EXCEPT ![i] = b] /\ payload' = payload /\ sum' = sum
        \/ \E i \in DOMAIN payload :
             payload' = [payload EXCEPT ![i] = b] /\ head' = head /\ sum' = sum
        \/ /\ sum' \in {b * Base + (sum % Base), (sum \div Base) * Base + b}
           /\ head' = head /\ payload' = payload
  BY DEF Sums!Damage
<1>6. CASE \E i \in 1..2 : head' = [head EXCEPT ![i] = b] /\ payload' = payload /\ sum' = sum
  <2>1. PICK i \in 1..2 : head' = [head EXCEPT ![i] = b]
    BY <1>6
  <2>2. payload' = payload /\ sum' = sum /\ head' \in Heads /\ head[i] \in Sums!Byte
    BY <1>1, <1>6, <2>1 DEF Heads
  <2> DEFINE q == Plain(proto, head', sum, payload)
  <2>3. ASSUME Sums!PeerAccepts' PROVE head' = head
    <3>1. Same(q, 0) /\ q \in Nat
      BY <1>1, <2>2, <2>3, Accepts, PlainIs
    <3>2. q = a + (Sums!WordAt(head', 1) + sum) + c
      BY DEF Plain
    <3>3. /\ Sums!WordAt(head, 1) = Base * head[1] + head[2]
          /\ Sums!WordAt(head', 1) = Base * head'[1] + head'[2]
      BY <1>1, <2>2 DEF Sums!WordAt, Sums!ByteAt, Heads
    <3>4. /\ i = 1 => head'[1] = b /\ head'[2] = head[2]
          /\ i = 2 => head'[2] = b /\ head'[1] = head[1]
      BY <1>1, <2>1 DEF Heads
    <3>5. /\ head[1] \in Nat /\ head[2] \in Nat /\ b \in Nat /\ Base \in Nat
          /\ i = 1 \/ i = 2
      BY <1>1, SumsAssumption DEF Heads, Sums!Byte
    <3>6. q - p \in {b - head[i], Base * (b - head[i])}
      <4>1. Base * (b - head[1]) = Base * b - Base * head[1]
        BY <3>5
      <4>2. Base * b \in Int /\ Base * head[1] \in Int
        BY <3>5
      <4> HIDE DEF p, q, a, c
      <4>3. CASE i = 1
        <5>1. /\ Sums!WordAt(head, 1) = Base * head[1] + head[2]
              /\ Sums!WordAt(head', 1) = Base * b + head[2]
          BY <3>3, <3>4, <4>3
        <5>2. q - p = Base * (b - head[1])
          BY <1>2, <1>3, <3>2, <3>5, <4>1, <4>2, <5>1
        <5> QED
          BY <4>3, <5>2
      <4>4. CASE i = 2
        <5>1. /\ Sums!WordAt(head, 1) = Base * head[1] + head[2]
              /\ Sums!WordAt(head', 1) = Base * head[1] + b
          BY <3>3, <3>4, <4>4
        <5>2. q - p = b - head[2]
          BY <1>2, <1>3, <3>2, <3>5, <4>2, <5>1
        <5> QED
          BY <4>4, <5>2
      <4> QED
        BY <3>5, <4>3, <4>4
    <3> HIDE DEF p, q
    <3>7. q \in Int
      BY <3>1
    <3>8. b = head[i]
      BY <1>2, <2>2, <3>1, <3>6, <3>7, Differs
    <3> QED
      BY <1>1, <2>1, <3>8 DEF Heads
  <2>4. ~(proto' = "udp" /\ sum' = 0)
    BY <1>1, <2>2
  <2>5. head' = head => Unharmed'
    BY <1>1, <2>2 DEF Unharmed
  <2> QED
    BY <1>1, <2>2, <2>3, <2>4, <2>5
<1>7. CASE \E i \in DOMAIN payload :
             payload' = [payload EXCEPT ![i] = b] /\ head' = head /\ sum' = sum
  <2>1. PICK i \in DOMAIN payload : payload' = [payload EXCEPT ![i] = b]
    BY <1>7
  <2>2. head' = head /\ sum' = sum /\ payload' \in Sums!Payload /\ payload[i] \in Sums!Byte
    <3>1. PICK n \in 0..MaxPayload : payload \in [1..n -> Sums!Byte]
      BY <1>1 DEF Sums!Payload
    <3>2. payload' \in [1..n -> Sums!Byte] /\ payload[i] \in Sums!Byte
      BY <2>1, <3>1
    <3> QED
      BY <1>7, <3>1, <3>2 DEF Sums!Payload
  <2>3. Len(payload') = Len(payload) /\ payload' \in Strings
    BY <1>3, <2>1 DEF Strings
  <2> DEFINE q == Plain(proto, head, sum, payload')
  <2>4. ASSUME Sums!PeerAccepts', proto # "ip" PROVE payload' = payload
    <3>1. Same(q, 0) /\ q \in Nat
      BY <1>1, <2>2, <2>4, Accepts, PlainIs
    <3>2. q = a + (Sums!WordAt(head, 1) + sum) + Total(payload')
      BY <2>3, <2>4 DEF Plain
    <3>3. c = Total(payload) /\ Sums!WordAt(head, 1) \in Nat /\ Total(payload') \in Nat
      <4>1. Total(payload') \in Nat
        <5>1. 0 \in Nat
          OBVIOUS
        <5> QED
          BY <2>3, <5>1, AddedTotal
      <4>2. Sums!WordAt(head, 1) \in Nat
        BY <1>1, HeaderIs
      <4> QED
        BY <2>4, <4>1, <4>2
    <3>4. Total(payload') \in {Total(payload) + Base * (b - payload[i]),
                               Total(payload) + (b - payload[i])}
      BY <1>3, <2>1, TotalChanges
    <3>5. payload[i] \in Nat /\ b \in Nat /\ Base \in Nat /\ Base * (b - payload[i]) \in Int
      BY <2>2, SumsAssumption DEF Sums!Byte
    <3>6. q - p \in {b - payload[i], Base * (b - payload[i])}
      <4> HIDE DEF p, q, a, c
      <4>1. q - p = Total(payload') - Total(payload)
        BY <1>2, <1>3, <3>2, <3>3
      <4> QED
        BY <1>3, <3>3, <3>4, <3>5, <4>1
    <3> HIDE DEF p, q
    <3>7. q \in Int
      BY <3>1
    <3>8. b = payload[i]
      BY <1>2, <2>2, <3>1, <3>6, <3>7, Differs
    <3> QED
      BY <1>3, <2>1, <3>8 DEF Strings
  <2>5. ~(proto' = "udp" /\ sum' = 0)
    BY <1>1, <2>2
  <2>6. proto = "ip" \/ payload' = payload => Unharmed'
    BY <1>1, <2>2 DEF Unharmed
  <2> QED
    BY <1>1, <2>2, <2>4, <2>5, <2>6
<1>8. CASE /\ sum' \in {b * Base + (sum % Base), (sum \div Base) * Base + b}
           /\ head' = head /\ payload' = payload
  <2>1. Unharmed'
    BY <1>1, <1>8 DEF Unharmed
  <2>2. sum \div Base \in Sums!Byte /\ sum % Base \in Sums!Byte
    BY <1>1, BytesOf
  <2>3. \A hi, lo \in Sums!Byte : hi * Base + lo \in Word
    <3>1. ASSUME NEW hi \in Sums!Byte, NEW lo \in Sums!Byte PROVE hi * Base + lo \in Word
      <4>1. Base * hi + lo \in Word
        BY DigitsOf
      <4>2. hi \in Nat /\ Base \in Nat
        BY SumsAssumption DEF Sums!Byte
      <4>3. hi * Base = Base * hi
        BY <4>2
      <4> QED
        BY <4>1, <4>3
    <3> QED
      BY <3>1
  <2>4. sum' \in Word
    BY <1>8, <2>2, <2>3
  <2> QED
    BY <1>1, <1>8, <2>1, <2>4
<1> QED
  BY <1>5, <1>6, <1>7, <1>8

(* The answer to a ping: the sum with its bytes swapped takes ECHO back.   *)
LEMMA AnswerAdds ==
  ASSUME NEW s \in Word
  PROVE  LET raw == Sums!Swapped(s)
             more == IF raw >= Sums!Swapped(Sums!AllOnes - Echo * Base) THEN 1 ELSE 0
             t == Sums!Swapped((raw + Sums!Swapped(Echo * Base) + more) % Sums!Words)
         IN  t \in Word /\ Same(t, s + Base * Echo)
<1> DEFINE raw == Sums!Swapped(s)
           more == IF raw >= Sums!Swapped(Sums!AllOnes - Echo * Base) THEN 1 ELSE 0
           r == (raw + Sums!Swapped(Echo * Base) + more) % Sums!Words
           t == Sums!Swapped(r)
<1>1. /\ Base \in Nat /\ Base > 1 /\ Echo \in 1..(Base - 1) /\ A \in Nat /\ A = Base * Base - 1
      /\ Sums!Words = A + 1 /\ Sums!AllOnes = A /\ A >= Base + 1
  BY SumsAssumption, WordsFacts
<1>2. raw \in Word /\ Sums!Swapped(raw) = s /\ Same(s, Base * raw)
  <2>1. raw \in Word /\ Sums!Swapped(raw) = s
    BY SwappedIs
  <2> HIDE DEF raw
  <2>2. Same(Sums!Swapped(raw), Base * raw)
    BY <2>1, SwappedIs
  <2> QED
    BY <2>1, <2>2
<1>3. Sums!Swapped(Echo * Base) = Echo
  <2>1. Echo \in Sums!Byte /\ 0 \in Sums!Byte /\ Base * Echo + 0 = Echo * Base
    BY <1>1 DEF Sums!Byte
  <2>2. Sums!Swapped(Base * Echo + 0) = Base * 0 + Echo
    BY <2>1, DigitsOf
  <2> QED
    BY <1>1, <2>1, <2>2
<1>4. Sums!Swapped(Sums!AllOnes - Echo * Base) = A - Echo
  <2> DEFINE hi == Base - 1 - Echo
             lo == Base - 1
  <2>1. hi \in Sums!Byte /\ lo \in Sums!Byte
    BY <1>1 DEF Sums!Byte
  <2>2. Base * hi + lo = A - Echo * Base
    <3>1. Base * hi = Base * Base - Base - Base * Echo
      BY <1>1
    <3>2. Base * Echo = Echo * Base /\ Echo * Base \in Int /\ Base * Base \in Int
      BY <1>1
    <3> QED
      BY <1>1, <3>1, <3>2
  <2>3. Base * lo + hi = A - Echo
    <3>1. Base * lo = Base * Base - Base
      BY <1>1
    <3> QED
      BY <1>1, <3>1
  <2> HIDE DEF hi, lo
  <2>4. Sums!Swapped(Base * hi + lo) = Base * lo + hi
    BY <2>1, DigitsOf
  <2> QED
    BY <1>1, <2>2, <2>3, <2>4
<1>5. raw \in 0..A /\ r = (raw + Echo + more) % Sums!Words
      /\ more = IF raw >= A - Echo THEN 1 ELSE 0
  BY <1>2, <1>3, <1>4 DEF Word
<1> HIDE DEF raw, more, r
<1>6. r \in Word /\ Same(r, raw + Echo)
  <2>1. CASE raw >= A - Echo
    <3> DEFINE x == raw + Echo - A
    <3>1. x \in 0..(Sums!Words - 1) /\ raw + Echo + more = Sums!Words * 1 + x
      BY <1>1, <1>5, <2>1
    <3>2. x - (raw + Echo) = A * (-1) /\ -1 \in Int
      BY <1>1, <1>5
    <3>3. Same(x, raw + Echo)
      BY <3>2 DEF Same
    <3> HIDE DEF x
    <3>4. r = x
      <4>1. (Sums!Words * 1 + x) % Sums!Words = x
        BY <1>1, <3>1, Quotient
      <4> QED
        BY <1>5, <3>1, <4>1
    <3> QED
      BY <1>1, <3>1, <3>3, <3>4 DEF Word
  <2>2. CASE raw < A - Echo
    <3> DEFINE x == raw + Echo
    <3>1. x \in 0..(Sums!Words - 1) /\ raw + Echo + more = x /\ Sums!Words * 0 + x = x
      BY <1>1, <1>5, <2>2
    <3>2. x \in Int
      BY <1>1, <1>5
    <3>3. Same(x, x)
      BY <3>2, SameReflexive
    <3>4. r = x
      <4> HIDE DEF x
      <4>1. x % Sums!Words = x
        BY <1>1, <3>1, Quotient
      <4> QED
        BY <1>5, <3>1, <4>1
    <3> QED
      BY <1>1, <3>1, <3>3, <3>4 DEF Word
  <2> QED
    BY <1>1, <1>5, <2>1, <2>2
<1>7. t \in Word /\ Same(t, Base * r)
  BY <1>6, SwappedIs
<1> HIDE DEF t
<1>8. Same(t, s + Base * Echo)
  <2>1. r \in Int /\ raw \in Int /\ t \in Int /\ s \in Int /\ raw + Echo \in Int
    BY <1>1, <1>5, <1>6, <1>7 DEF Word
  <2>2. Same(Base * r, Base * (raw + Echo))
    <3> DEFINE x == raw + Echo
               c == Base
    <3>1. Same(r, x) /\ x \in Int /\ r \in Int /\ c \in Int
      BY <1>1, <1>6, <2>1
    <3> HIDE DEF x, c
    <3>2. Same(c * r, c * x)
      BY <3>1, SameScales
    <3> QED
      BY <3>2 DEF x, c
  <2>3. Base * (raw + Echo) = Base * raw + Base * Echo
    BY <1>1, <2>1
  <2>4. Base * r \in Int /\ Base * raw \in Int /\ Base * Echo \in Int
    BY <1>1, <2>1
  <2>5. Same(Base * raw, s)
    BY <1>2, <2>1, <2>4, SameSymmetric
  <2>6. Same(Base * raw + Base * Echo, s + Base * Echo)
    BY <2>1, <2>4, <2>5, SameReflexive, SameAdds
  <2>7. Same(t, Base * raw + Base * Echo)
    <3>1. Same(Base * r, Base * raw + Base * Echo) /\ Base * raw + Base * Echo \in Int
      BY <2>2, <2>3, <2>4
    <3> QED
      BY <1>7, <2>1, <2>4, <3>1, SameTransitive
  <2>8. Base * raw + Base * Echo \in Int /\ s + Base * Echo \in Int
    BY <2>1, <2>4
  <2> QED
    BY <2>1, <2>6, <2>7, <2>8, SameTransitive
<1> QED
  BY <1>7, <1>8 DEF t, r, more, raw

LEMMA AnswerKeeps ==
  ASSUME SumsInv, Sums!Answer
  PROVE  SumsInv'
<1>1. /\ proto = "icmp" /\ head \in Heads /\ payload \in Sums!Payload /\ sum \in Word
      /\ original # <<>> /\ verdict = "none" /\ Sums!PeerAccepts /\ head[1] = Echo
      /\ proto' = proto /\ head' = [head EXCEPT ![1] = 0] /\ payload' = payload
      /\ original' = original /\ verdict' = verdict
  BY DEF SumsInv, SumsTypes, SumsHistory, SumsAgree, Sums!SumsAgree, Sums!Answer, Checked
<1>2. sum' \in Word /\ Same(sum', sum + Base * Echo)
  BY <1>1, AnswerAdds DEF Sums!Answer
<1>3. head' \in Heads /\ Base \in Nat /\ Echo \in Nat /\ 0 \in Sums!Byte
  <2>1. 0 \in Sums!Byte
    BY SumsAssumption DEF Sums!Byte
  <2> QED
    BY <1>1, <2>1, SumsAssumption DEF Heads
<1> DEFINE p == Plain(proto, head, sum, payload)
           q == Plain(proto, head', sum', payload)
           w == Sums!WordAt(head, 1)
           v == Sums!WordAt(head', 1)
<1>4. p \in Nat /\ q \in Nat /\ Same(p, 0)
  BY <1>1, <1>2, <1>3, PlainIs, Accepts
<1>5. w = Base * Echo + head[2] /\ v = head[2] /\ head[2] \in Nat
  <2>1. head[2] \in Nat /\ head'[1] = 0 /\ head'[2] = head[2]
    BY <1>1, SumsAssumption DEF Heads, Sums!Byte
  <2>2. w = Base * head[1] + head[2] /\ v = Base * head'[1] + head'[2]
    BY <1>1, <1>3 DEF Sums!WordAt, Sums!ByteAt, Heads
  <2>3. Base * 0 + head[2] = head[2]
    BY <1>3, <2>1
  <2> QED
    BY <1>1, <2>1, <2>2, <2>3
<1>6. Total(payload) \in Nat /\ sum \in Nat /\ sum' \in Nat /\ Base * Echo \in Nat
  <2>1. payload \in Strings /\ 0 \in Nat
    BY <1>1, StringsAre
  <2>2. Total(payload) \in Nat
    BY <2>1, AddedTotal
  <2>3. sum \in Nat /\ sum' \in Nat
    BY <1>1, <1>2, WordsFacts DEF Word
  <2>4. Base * Echo \in Nat
    BY <1>3
  <2> QED
    BY <2>2, <2>3, <2>4
<1>7. p = w + sum + Total(payload) /\ q = v + sum' + Total(payload)
  <2>1. p = 0 + (w + sum) + Total(payload) /\ q = 0 + (v + sum') + Total(payload)
    BY <1>1 DEF Plain
  <2> HIDE DEF p, q, w, v
  <2> QED
    BY <1>5, <1>6, <2>1
<1> HIDE DEF p, q, w, v
<1> DEFINE z == head[2] + Total(payload)
<1>8. p = z + (sum + Base * Echo) /\ q = z + sum' /\ z \in Int
  BY <1>5, <1>6, <1>7
<1> HIDE DEF z
<1>9. Same(q, p)
  <2>1. sum + Base * Echo \in Int /\ sum' \in Int
    BY <1>6
  <2>2. Same(z + sum', z + (sum + Base * Echo))
    BY <1>2, <1>8, <2>1, SameReflexive, SameAdds
  <2> QED
    BY <1>8, <2>2
<1>10. Same(q, 0)
  BY <1>4, <1>9, SameTransitive
<1>11. Sums!PeerAccepts'
  BY <1>1, <1>2, <1>3, <1>10, Accepts DEF q
<1>12. SumsTypes'
  BY <1>1, <1>2, <1>3 DEF SumsTypes, Checked
<1>13. SumsHistory' /\ SumsRight' /\ SumsAgree'
  BY <1>1, <1>11 DEF SumsHistory, SumsRight, SumsAgree, Sums!SumsAgree, Checked
<1> QED
  BY <1>12, <1>13 DEF SumsInv

LEMMA SumsInvariant == Sums!Spec => []SumsInv
<1>1. Sums!Init => SumsInv
  BY SumsStart
<1>2. SumsInv /\ [Sums!Next]_(Sums!sumVars) => SumsInv'
  <2>1. ASSUME SumsInv, Sums!Next PROVE SumsInv'
    BY <2>1, AddKeeps, FillKeeps, PingKeeps, DamageKeeps, CheckKeeps, AnswerKeeps DEF Sums!Next
  <2>2. ASSUME SumsInv, UNCHANGED Sums!sumVars PROVE SumsInv'
    BY <2>2 DEF SumsInv, SumsTypes, SumsHistory, SumsRight, SumsAgree, Sums!SumsAgree, Unharmed,
       Sums!PeerAccepts, Sums!FirstOf, Sums!Data, Sums!sumVars
  <2> QED
    BY <2>1, <2>2
<1> QED
  BY <1>1, <1>2, PTL DEF Sums!Spec

(* Every packet that leaves is accepted by whoever computes its sum as RFC *)
(* 1071 does; every intact packet that arrives is accepted, and none of    *)
(* which one byte was damaged; a ping's answer is right again; and         *)
(* sequence numbers add up modulo 2^32: for every base and every length of *)
(* packet (netstack.cpp:321, uip.c:250).                                   *)
THEOREM SumsAlwaysAgree == Sums!Spec => []SumsAgree
<1>1. SumsInv => SumsAgree
  BY DEF SumsInv
<1> QED
  BY <1>1, SumsInvariant, PTL
=============================================================================
