------------------------------ MODULE Ethernet ------------------------------
(***************************************************************************)
(* What is under IP: the link layer with the ARP table (Link), and the     *)
(* driver of the Ethernet chip, with its receive ring (EncRing) and the    *)
(* registers it reaches (EncRegisters).  They share no state: the frames   *)
(* that pass between them are inputs of each.                              *)
(***************************************************************************)
EXTENDS Naturals

CONSTANTS RxStop, Header, Lengths, MaxBad, Sending
CONSTANTS TX_COLLISION_RETRY_COUNT
CONSTANTS Host, Router, Mac, Slots, None

VARIABLES mem, wrpt, rdpt, rxen, count, next_frame_ptr, unread, torn, bad, taken
VARIABLES bank, bsel, cleared, todo
VARIABLES lan, arp_table, owed, wire, claimed

ringVars == <<mem, wrpt, rdpt, rxen, count, next_frame_ptr, unread, torn, bad, taken>>
regVars == <<bank, bsel, cleared, todo>>
lanVars == <<lan, arp_table, owed, wire, claimed>>

Ring == INSTANCE EncRing
Regs == INSTANCE EncRegisters
Lan == INSTANCE Link

ASSUME RingAssumption ==
  /\ Header \in Nat /\ Header > 0 /\ Header % 2 = 0
  /\ RxStop \in Nat /\ RxStop % 2 = 1
  /\ Lengths \subseteq Nat \ {0} /\ MaxBad \in Nat
ASSUME RegistersAssumption == TX_COLLISION_RETRY_COUNT \in Nat
ASSUME LinkAssumption ==
  Router \in Host /\ None \notin Host /\ None \notin Mac /\ Slots \in Nat \ {0}

\* The properties, by the names of their modules.
DriverFollowsChip == Ring!DriverFollowsChip
RoomReturns == Ring!RoomReturns
CommandMeetsRegister == Regs!CommandMeetsRegister
EntryIsLatest == Lan!EntryIsLatest
FarIsAnswered == Lan!FarIsAnswered
=============================================================================
