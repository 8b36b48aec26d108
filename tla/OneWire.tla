------------------------------ MODULE OneWire ------------------------------
(***************************************************************************)
(* The two searches of the 1-Wire bus: OneWire::search, which keeps the    *)
(* last discrepancy, and DallasTemperature::alarmSearch, an older          *)
(* algorithm that keeps the pending junction.  Each call walks down the    *)
(* bits of the addresses that still answer, taking one branch wherever     *)
(* both occur, and has to come by every device once before it says that    *)
(* there are no more.                                                      *)
(*                                                                         *)
(* An address is a sequence of Bits bits of which the first FamilyBits are *)
(* the family code; the sequence is read as the bus transfers it, lowest   *)
(* bit first.  Devices come and go between calls, and may go in the middle *)
(* of one.  LastFamilyDiscrepancy, which no code reads, is left out.       *)
(***************************************************************************)
EXTENDS Naturals, Sequences

CONSTANTS Bits, FamilyBits, Address

VARIABLES
  bus,                  \* the devices that answer the search command
  ROM_NO, LastDiscrepancy, LastDeviceFlag,
  alarmSearchAddress, alarmSearchJunction, alarmSearchExhausted,
  found,                \* history: found[s], what search s has returned while
                        \* the bus did not change
  twice,                \* history: of these, some came twice
  over,                 \* history: over[s], that it has said there is no more
  steady                \* history: the bus has not changed since both began

romVars == <<ROM_NO, LastDiscrepancy, LastDeviceFlag>>
alarmVars == <<alarmSearchAddress, alarmSearchJunction, alarmSearchExhausted>>
wireVars == <<bus, romVars, alarmVars, found, twice, over, steady>>

Searches == {"search", "alarmSearch"}
NoBits == [i \in 1..Bits |-> 0]

Init ==
  /\ bus \in SUBSET Address
  /\ ROM_NO = NoBits /\ LastDiscrepancy = 0 /\ LastDeviceFlag = FALSE
  /\ alarmSearchAddress = NoBits /\ alarmSearchJunction = 0
  /\ alarmSearchExhausted = FALSE
  /\ found = [s \in Searches |-> {}] /\ over = [s \in Searches |-> FALSE]
  /\ twice = FALSE /\ steady = TRUE

(* reset: some device gives a presence pulse.                              *)
Present == bus # {}

\* The bits that the devices in on put on the bus at place i.
Heard(on, i) == {d[i] : d \in on}

\* After write_bit those stay that have this bit.
Staying(on, i, bit) == {d \in on : d[i] = bit}

(* Mutant: at the last discrepancy 0 is taken again.                       *)
DirectionStuck(i) == IF i < LastDiscrepancy THEN ROM_NO[i] ELSE 0

(* Where both bits answer: as last time before the last discrepancy, 1     *)
(* there and 0 behind it.                                                  *)
Direction(i) ==
  IF i < LastDiscrepancy THEN ROM_NO[i] ELSE IF i = LastDiscrepancy THEN 1 ELSE 0

(* One bit of search while the devices of on answer; w is the walk so far: *)
(* who answers, what was written and the last place left at 0.  A place    *)
(* where nobody answers ends the walk (on is empty from there).            *)
WalkBit(on, w, i) ==
  LET both == Heard(on, i) = {0, 1}
      dir == IF both THEN Direction(i) ELSE CHOOSE b \in Heard(on, i) : TRUE
  IN  IF on = {} THEN [w EXCEPT !.on = {}]
      ELSE [on |-> Staying(on, i, dir),
            rom |-> [w.rom EXCEPT ![i] = dir],
            zero |-> IF both /\ dir = 0 THEN i ELSE w.zero]

(* search, bit by bit: gone leave the bus before bit at.                   *)
Walk(gone, at) ==
  LET walk[i \in 1..(Bits + 1)] ==
        IF i = 1 THEN [on |-> bus, rom |-> ROM_NO, zero |-> 0]
        ELSE LET w == walk[i - 1]
             IN  WalkBit(IF i - 1 = at THEN w.on \ gone ELSE w.on, w, i - 1)
  IN  walk[Bits + 1]

(* What the caller sees of a call: an address, or that there is no more.   *)
(* The history is kept while the bus does not change.                      *)
Returns(s, rom) ==
  /\ IF steady'
       THEN found' = [found EXCEPT ![s] = @ \cup {rom}] /\ twice' = (twice \/ rom \in found[s])
       ELSE UNCHANGED <<found, twice>>
  /\ UNCHANGED over
ReturnsFalse(s) ==
  /\ over' = [over EXCEPT ![s] = TRUE]
  /\ UNCHANGED <<found, twice>>

(* OneWire::search.  An empty bus gives no presence pulse.  A search that  *)
(* fails, or finds an address with family code 0, starts over.             *)
Search(gone, at) ==
  LET w == Walk(gone, at)
      ok == ~LastDeviceFlag /\ Present /\ w.on # {}
      valid == \E i \in 1..FamilyBits : w.rom[i] = 1
  IN  /\ ~over["search"]
      /\ bus' = bus \ gone
      /\ steady' = (steady /\ gone \cap bus = {})
      /\ IF ok /\ valid
           THEN /\ ROM_NO' = w.rom /\ LastDiscrepancy' = w.zero
                /\ LastDeviceFlag' = (w.zero = 0)
                /\ Returns("search", w.rom)
           ELSE /\ ROM_NO' = IF LastDeviceFlag \/ ~Present THEN ROM_NO ELSE w.rom
                /\ LastDiscrepancy' = 0 /\ LastDeviceFlag' = FALSE
                /\ ReturnsFalse("search")
      /\ UNCHANGED alarmVars

(* In alarmSearch only a place before the junction that was left at 0 is   *)
(* still pending.                                                          *)
PendingBefore(i, bit) == bit = 0

(* One bit of alarmSearch; places count from 1 here and from 0 in the      *)
(* code, so that no junction is 0 instead of -1.                           *)
AlarmBit(on, w, i) ==
  LET both == Heard(on, i) = {0, 1}
      dir == IF ~both THEN CHOOSE b \in Heard(on, i) : TRUE
             ELSE IF i = w.junction THEN 1
             ELSE IF i < w.junction THEN w.rom[i] ELSE 0
      again == both /\ i < w.junction /\ PendingBefore(i, dir)
      new == both /\ i > w.junction
  IN  IF on = {} THEN [w EXCEPT !.on = {}]
      ELSE [on |-> Staying(on, i, dir),
            rom |-> [w.rom EXCEPT ![i] = dir],
            last |-> IF again THEN i ELSE w.last,
            junction |-> IF both /\ i = w.junction THEN w.last
                         ELSE IF new THEN i ELSE w.junction,
            done |-> w.done /\ ~again /\ ~new]

(* alarmSearch, bit by bit.                                                *)
AlarmWalk(gone, at) ==
  LET walk[i \in 1..(Bits + 1)] ==
        IF i = 1 THEN [on |-> bus, rom |-> alarmSearchAddress, last |-> 0,
                       junction |-> alarmSearchJunction, done |-> TRUE]
        ELSE LET w == walk[i - 1]
             IN  AlarmBit(IF i - 1 = at THEN w.on \ gone ELSE w.on, w, i - 1)
  IN  walk[Bits + 1]

(* DallasTemperature::alarmSearch.                                         *)
AlarmSearch(gone, at) ==
  LET w == AlarmWalk(gone, at)
  IN  /\ ~over["alarmSearch"]
      /\ bus' = bus \ gone
      /\ steady' = (steady /\ gone \cap bus = {})
      /\ IF alarmSearchExhausted \/ ~Present
           THEN UNCHANGED alarmVars /\ ReturnsFalse("alarmSearch")
           ELSE /\ alarmSearchAddress' = w.rom
                /\ alarmSearchJunction' = w.junction
                /\ alarmSearchExhausted' = (w.on # {} /\ w.done)
                /\ IF w.on = {} THEN ReturnsFalse("alarmSearch")
                   ELSE Returns("alarmSearch", w.rom)
      /\ UNCHANGED romVars

(* A device joins the bus, between two calls.                              *)
Join(d) ==
  /\ steady /\ d \notin bus
  /\ bus' = bus \cup {d} /\ steady' = FALSE
  /\ UNCHANGED <<romVars, alarmVars, found, twice, over>>

(* The caller begins again, as DallasTemperature::begin, getAddress and    *)
(* processAlarms do: reset_search and resetAlarmSearch.                    *)
Again ==
  /\ \A s \in Searches : over[s]
  /\ ROM_NO' = NoBits /\ LastDiscrepancy' = 0 /\ LastDeviceFlag' = FALSE
  /\ alarmSearchAddress' = NoBits /\ alarmSearchJunction' = 0
  /\ alarmSearchExhausted' = FALSE
  /\ found' = [s \in Searches |-> {}] /\ over' = [s \in Searches |-> FALSE]
  /\ twice' = FALSE /\ steady' = TRUE
  /\ UNCHANGED bus

\* Nobody leaves, or somebody does while the walk is at some bit.
Leaving == {<<{}, 1>>} \cup {<<{d}, i>> : d \in Address, i \in 1..Bits}

Next ==
  \/ \E l \in Leaving :
       /\ (steady \/ l[1] = {})
       /\ Search(l[1], l[2]) \/ AlarmSearch(l[1], l[2])
  \/ \E d \in Address : Join(d)
  \/ Again

Spec == Init /\ [][Next]_wireVars

-----------------------------------------------------------------------------
(* Every variable stays in its type.                                       *)
TypeOK ==
  /\ bus \subseteq Address
  /\ ROM_NO \in [1..Bits -> {0, 1}] /\ alarmSearchAddress \in [1..Bits -> {0, 1}]
  /\ LastDiscrepancy \in 0..Bits /\ alarmSearchJunction \in 0..Bits
  /\ {LastDeviceFlag, alarmSearchExhausted, twice, steady} \subseteq BOOLEAN
  /\ over \in [Searches -> BOOLEAN]

(* A search comes by every device on the bus exactly once and then says    *)
(* that there are no more (OneWire.cpp:354-368, DallasTemperature.cpp:     *)
(* 891-897), as long as the bus does not change; begin counts the devices  *)
(* and getAddress numbers them by it.                                      *)
SearchFindsEach ==
  steady =>
    /\ ~twice
    /\ \A s \in Searches : found[s] \subseteq bus /\ (over[s] => found[s] = bus)
=============================================================================
