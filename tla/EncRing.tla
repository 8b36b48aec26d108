------------------------------ MODULE EncRing ------------------------------
(***************************************************************************)
(* The ENC28J60 Ethernet chip as its driver (enc28j60_arch.cpp) uses it:   *)
(* a receive ring in the memory of the chip, where the chip writes frames, *)
(* each behind a header, and from which enc_poll reads one per call.       *)
(*                                                                         *)
(* Addresses and lengths are those of the code divided so that a small     *)
(* ring shows every position of a frame against the end of the ring; the   *)
(* bytes of a frame are not in the model, only where they lie.  The chip   *)
(* itself (Arrive) is modelled from what the driver relies on: frames      *)
(* start at even addresses, ERXRDPT is not written over, and a frame that  *)
(* does not fit is lost.  The SPI transfers are left out.                  *)
(***************************************************************************)
EXTENDS Naturals, Sequences

CONSTANTS
  RxStop,    \* RXSTOP_INIT, the last address of the ring, odd; RXSTART_INIT is 0
  Header,    \* length of the header of a frame, even: 6 in the chip
  Lengths,   \* lengths of frames, with their CRC
  MaxBad,    \* bound of the model: failed frames that come in a row
  Sending    \* TRUE if enc_send is called too

VARIABLES
  mem,              \* mem[a]: the header the chip wrote at a, or Blank
  wrpt,             \* ERXWRPT, where the chip writes the next frame
  rdpt,             \* ERXRDPT
  rxen,             \* ECON1_RXEN
  count,            \* EPKTCNT
  next_frame_ptr,   \* static of the driver
  unread,           \* history: where the frames not yet read start
  torn,             \* history: of these, the ones something wrote into
  bad,              \* failed frames since the last good one
  taken             \* what the last enc_poll handed over, or Nothing

encVars == <<mem, wrpt, rdpt, rxen, count, next_frame_ptr, unread, torn, bad, taken>>

Size == RxStop + 1
Around(a) == a % Size
Even(n) == n + (n % 2)
Blank == [next |-> Size, len |-> 0, ok |-> FALSE]
Nothing == [from |-> Size, start |-> Size, torn |-> FALSE]

\* The addresses of a frame of length len that starts at a.
Extent(a, len) == {Around(a + i) : i \in 0..(Header + len - 1)}

\* What the chip may still write (section 7.2.4 of its data sheet).
Free == IF wrpt = rdpt THEN RxStop ELSE (rdpt + Size - wrpt - 1) % Size

(* enc_init: the pointers of the ring, and reception on.                   *)
Init ==
  /\ mem = [a \in 0..RxStop |-> Blank]
  /\ wrpt = 0 /\ rdpt = 0 /\ rxen = TRUE /\ count = 0
  /\ next_frame_ptr = 0
  /\ unread = <<>> /\ torn = {} /\ bad = 0 /\ taken = Nothing

(* Something is written at the addresses where: headers there are gone,    *)
(* and the unread frames that hold one of them are torn.                   *)
Torn(where) ==
  {a \in {unread[i] : i \in DOMAIN unread} : Extent(a, mem[a].len) \cap where # {}}

(* The chip receives a frame.                                              *)
Arrive(len, ok) ==
  LET after == Around(wrpt + Even(Header + len))
      where == Extent(wrpt, Even(Header + len) - Header)
  IN  /\ rxen /\ Even(Header + len) <= Free
      /\ ~ok => bad < MaxBad
      /\ mem' = [a \in 0..RxStop |->
           IF a = wrpt THEN [next |-> after, len |-> len, ok |-> ok]
           ELSE IF a \in where THEN Blank ELSE mem[a]]
      /\ wrpt' = after /\ count' = count + 1
      /\ unread' = Append(unread, wrpt)
      /\ torn' = torn \cup Torn(where)
      /\ bad' = IF ok THEN 0 ELSE bad + 1
      /\ UNCHANGED <<rdpt, rxen, next_frame_ptr, taken>>

(* The address after the header: beyond the end it is brought back by      *)
(* RXSTOP_INIT, which is one less than the size of the ring.               *)
ReadPtr(a) == IF a + Header > RxStop THEN a + Header - RxStop ELSE a + Header

(* Mutants: everything received so far is given back; the frame at the     *)
(* start of the ring gives nothing back.                                   *)
ReleasedAll(next) == IF wrpt = 0 THEN RxStop ELSE wrpt - 1
ReleasedNotAtStart(next) == IF next = 0 THEN rdpt ELSE next - 1

(* ERXRDPT after a frame was read: just before the next one.               *)
Released(next) == IF next = 0 THEN RxStop ELSE next - 1

(* enc_poll finds a frame: the header is read at next_frame_ptr and the    *)
(* count goes down in any case, but only a good frame is handed over and   *)
(* only with it ERXRDPT moves.                                             *)
Poll ==
  LET h == mem[next_frame_ptr]
  IN  /\ count > 0
      /\ next_frame_ptr' = h.next
      /\ count' = count - 1
      /\ unread' = Tail(unread)
      /\ torn' = torn \ {Head(unread)}
      /\ IF h.ok
           THEN /\ taken' = [from |-> ReadPtr(next_frame_ptr), start |-> Head(unread),
                             torn |-> Head(unread) \in torn]
                /\ rdpt' = Released(h.next)
           ELSE UNCHANGED <<taken, rdpt>>
      /\ UNCHANGED <<mem, wrpt, rxen, bad>>

(* enc_send: whatever becomes of the up to three attempts, the control     *)
(* byte was written at TXSTART_INIT - 1, the last address of the ring.     *)
Send ==
  /\ Sending
  /\ mem' = [mem EXCEPT ![RxStop] = Blank]
  /\ torn' = torn \cup Torn({RxStop})
  /\ UNCHANGED <<wrpt, rdpt, rxen, count, next_frame_ptr, unread, bad, taken>>

(* enc_power_off and enc_power_on.                                         *)
Power(on) ==
  /\ rxen # on /\ rxen' = on
  /\ UNCHANGED <<mem, wrpt, rdpt, count, next_frame_ptr, unread, torn, bad, taken>>

Next ==
  \/ \E len \in Lengths, ok \in BOOLEAN : Arrive(len, ok)
  \/ Poll \/ Send
  \/ \E on \in BOOLEAN : Power(on)

Spec == Init /\ [][Next]_encVars

(* net_tick polls the chip again and again.                                *)
FairSpec == Spec /\ WF_encVars(Poll)

-----------------------------------------------------------------------------
(* Every variable stays in its type.                                       *)
TypeOK ==
  /\ mem \in [0..RxStop -> [next : 0..Size, len : Lengths \cup {0}, ok : BOOLEAN]]
  /\ {wrpt, rdpt, next_frame_ptr} \subseteq 0..RxStop
  /\ rxen \in BOOLEAN /\ count \in 0..Size /\ bad \in 0..MaxBad
  /\ unread \in Seq(0..RxStop) /\ torn \subseteq 0..RxStop

(* The driver does not lose step with the chip (enc28j60_arch.cpp:335):    *)
(* it expects the next frame where the oldest unread one starts, and what  *)
(* it gives back of the ring is never one it has not read, so the chip     *)
(* writes over none of them.  A control byte of enc_send may fall into     *)
(* one, but never into a header.                                           *)
DriverFollowsChip ==
  /\ count = Len(unread)
  /\ next_frame_ptr = IF unread = <<>> THEN wrpt ELSE Head(unread)
  /\ \A i \in DOMAIN unread :
       mem[unread[i]].next = IF i < Len(unread) THEN unread[i + 1] ELSE wrpt
  /\ \A a \in torn : RxStop \in Extent(a, mem[a].len)

(* The chip is never deaf for good (enc28j60_arch.cpp:365): although a     *)
(* failed frame does not give its place back, there is again and again     *)
(* room for one more frame.                                                *)
RoomReturns == \A len \in Lengths :
  (\A n \in Lengths : len <= n) => []<>(Free >= Even(Header + len))

(* The buffer receives the frame that arrived (enc28j60_arch.h:59): it is  *)
(* read from its first byte on and nothing has written into it.            *)
FrameArrivesWhole ==
  [][taken' # taken =>
       taken'.from = Around(taken'.start + Header) /\ ~taken'.torn]_encVars
=============================================================================
