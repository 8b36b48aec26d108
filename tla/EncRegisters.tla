---------------------------- MODULE EncRegisters ----------------------------
(***************************************************************************)
(* The registers of the ENC28J60 as its driver reaches them                *)
(* (enc28j60_arch.cpp).  They lie in four banks, of which the chip shows   *)
(* the one in the lowest bits of ECON1; the driver remembers it in its     *)
(* static bank so as not to write it before each access.  A reset of the   *)
(* MCU clears what the driver remembers, at any point of a call, and the   *)
(* chip, which keeps its power, knows nothing of it until enc_init resets  *)
(* it too.                                                                 *)
(*                                                                         *)
(* A step is a command on the SPI bus, and a bank is the set of its bits,  *)
(* since the commands set and clear bits.  Left out: values of other       *)
(* registers, reads and writes of the memory of the chip, which need no    *)
(* bank, and the repetition of a read that waits for the chip.  Both       *)
(* halves of a register of 16 bits are one access.                         *)
(***************************************************************************)
EXTENDS SequencesExt, Naturals

CONSTANT TX_COLLISION_RETRY_COUNT

VARIABLES
  bank,      \* static of the driver
  bsel,      \* ECON1_BSEL1, ECON1_BSEL0 in the chip
  cleared,   \* set_bank is between its two commands
  todo       \* what the call that runs has still to do

regVars == <<bank, bsel, cleared, todo>>

BSEL0 == 0
BSEL1 == 1

Common == {"EIE", "EIR", "ECON1", "ECON2"}
Bank0 == {"ERDPT", "EWRPT", "ETXST", "ETXND", "ERXST", "ERXND", "ERXRDPT"}
Bank1 == {"EPMM0", "EPMCS", "ERXFCON", "EPKTCNT"}
Bank2 == {"MACON1", "MACON3", "MABBIPG", "MAIPG", "MAMXFL",
          "MICMD", "MIREGADR", "MIWR", "MIRDL", "MIRDH"}
Bank3 == {"MAADR0", "MAADR1", "MAADR2", "MAADR3", "MAADR4", "MAADR5", "MISTAT", "EREVID"}

(* address & BANK_MASK: the registers that all banks share count as bank 0. *)
BankOf(reg) ==
  CASE reg \in Common \cup Bank0 -> {}
    [] reg \in Bank1 -> {BSEL0}
    [] reg \in Bank2 -> {BSEL1}
    [] reg \in Bank3 -> {BSEL0, BSEL1}

(* What a call does: an access behind set_bank (read_reg, write_reg_8,     *)
(* write_reg_16), set_bank alone, a command on bits of a register without  *)
(* it (write_command), and the reset of the chip.                          *)
Regs(names) == [i \in DOMAIN names |-> [how |-> "access", reg |-> names[i]]]
Bank(reg) == <<[how |-> "bank", reg |-> reg]>>
Bits(reg) == <<[how |-> "bits", reg |-> reg]>>
SoftReset == <<[how |-> "reset", reg |-> "ECON1"]>>

WritePhy == Regs(<<"MIREGADR", "MIWR", "MISTAT">>)
ReadByte == Regs(<<"ERDPT">>)
WriteByte == Regs(<<"EWRPT">>)
GetRev == Regs(<<"EREVID">>)
Address == Regs(<<"MAADR5", "MAADR4", "MAADR3", "MAADR2", "MAADR1", "MAADR0">>)

(* enc_init behind the reset: rings, filters, MAC, PHY, interrupts.        *)
Setup ==
  Regs(<<"ERXST", "ERXRDPT", "ERXND", "ETXST", "ETXND",
         "ERXFCON", "EPMM0", "EPMCS", "MACON1">>)
    \o Bits("MACON3") \o Regs(<<"MAIPG", "MABBIPG", "MAMXFL">>) \o Address
    \o WritePhy \o Bank("ECON1") \o WritePhy
    \o Bits("EIE") \o Bits("ECON1") \o GetRev

(* Mutant: the chip is taken to be as after power came on.                 *)
EncInitUnreset == Setup

EncInit == SoftReset \o Setup

(* enc_poll: nothing arrived, a frame that failed, a good one.             *)
EncPoll ==
  LET failed == Regs(<<"EPKTCNT", "ERDPT">>) \o Bits("ECON2")
  IN  {Regs(<<"EPKTCNT">>), failed, failed \o Regs(<<"ERDPT", "ERXRDPT">>)}

(* enc_send: after each attempt that fails the status of the transmission  *)
(* is read, and a late collision leads to another attempt.                 *)
Attempt ==
  Bits("ECON1") \o Bits("ECON1") \o Bits("EIR") \o Bits("ECON1")
    \o Regs(<<"EIR">>) \o Bits("ECON1")
Attempts(n, success) ==
  FlattenSeq([i \in 1..n |->
    IF i = n /\ success THEN Attempt ELSE Attempt \o ReadByte])
EncSend ==
  {Regs(<<"EWRPT">>) \o WriteByte \o Regs(<<"ETXST", "ETXND">>) \o Attempts(n, success) :
     n \in 1..TX_COLLISION_RETRY_COUNT, success \in BOOLEAN}

EncPower == {Bits("ECON1") \o Bits("ECON2") \o Bits("ECON2"), Bits("ECON2") \o Bits("ECON1")}

EncLinkStatus ==
  Regs(<<"MIREGADR", "MICMD", "MISTAT", "MICMD", "MIRDL", "MIRDH">>)

(* net_init is over before anything else reaches the driver.               *)
Init == bank = {} /\ bsel = {} /\ cleared = FALSE /\ todo = EncInit

(* The next call: mac_get_address, mac_poll, mac_send, nic_power_off and   *)
(* nic_power_on, nic_is_active, nic_link_status.                           *)
Call ==
  /\ todo = <<>>
  /\ todo' \in {Address, GetRev, EncLinkStatus} \cup EncPoll \cup EncSend \cup EncPower
  /\ UNCHANGED <<bank, bsel, cleared>>

Now == Head(todo)
OtherBank == Now.how \in {"access", "bank"} /\ BankOf(Now.reg) # bank

(* set_bank: the bits of the old bank go, those of the new one come.       *)
ClearBank ==
  /\ todo # <<>> /\ OtherBank /\ ~cleared
  /\ bsel' = {} /\ cleared' = TRUE
  /\ UNCHANGED <<bank, todo>>
SetBank ==
  /\ todo # <<>> /\ OtherBank /\ cleared
  /\ bsel' = bsel \cup BankOf(Now.reg)
  /\ bank' = BankOf(Now.reg) /\ cleared' = FALSE
  /\ UNCHANGED todo

(* The command itself; ENC28J60_SOFT_RESET brings the chip back to bank 0. *)
Command ==
  /\ todo # <<>> /\ ~OtherBank
  /\ bsel' = IF Now.how = "reset" THEN {} ELSE bsel
  /\ todo' = Tail(todo)
  /\ UNCHANGED <<bank, cleared>>

(* The MCU starts again, and only it.                                      *)
McuReset ==
  /\ bank' = {} /\ cleared' = FALSE /\ todo' = EncInit
  /\ UNCHANGED bsel

Next == Call \/ ClearBank \/ SetBank \/ Command \/ McuReset

Spec == Init /\ [][Next]_regVars

-----------------------------------------------------------------------------
(* Every variable stays in its type.                                       *)
TypeOK ==
  /\ {bank, bsel} \subseteq SUBSET {BSEL0, BSEL1} /\ cleared \in BOOLEAN
  /\ todo \in Seq([how : {"access", "bank", "bits", "reset"},
                   reg : Common \cup Bank0 \cup Bank1 \cup Bank2 \cup Bank3])

(* What set_bank remembers can be relied on (enc28j60_arch.cpp:98): a      *)
(* command meets the register it is meant for and none of the same address *)
(* in another bank, over every order of calls and although the MCU may     *)
(* start again between any two commands, also those of set_bank.           *)
CommandMeetsRegister ==
  todo # <<>> /\ ~OtherBank /\ Now.how \in {"access", "bits"} /\ Now.reg \notin Common
    => bsel = BankOf(Now.reg)
=============================================================================
