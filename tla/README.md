# idOS in TLA+

idOS is a cooperative operating system for small microcontrollers (AVR, ESP)
with a native build. This directory holds a TLA+ model of its kernel, its
network from the Ethernet chip to the CoAP application, and its sensor drivers;
the TLC configurations that check the model on small instances; and proofs,
checked by TLAPS, of the safety properties of every part, for every number of
tasks, timers, connections, listeners, clients, hosts and devices. File names below are relative to
`src/src/`.

## 1. The system

One thread runs everything. `idos.cpp` initialises the hardware, starts the
tasks, and loops for ever over timers, autostrs, the network and *one* task at
a time. A task is a protothread: a C function with a resume point, which runs
until it yields or ends. Interrupts only count milliseconds and wake the CPU.

| component | state | operations | what makes it correct |
|---|---|---|---|
| scheduler (`os/kernel/sch.cpp`, `task.h`) | `sch_preem`, `sch_normal` (first, last), per task `next`, `status`, `pc` | `task_autostart`, `task_set_ready`, `task_runing`, `TASK_BEGIN/YIELD/END` | every READY task is in its queue once and in order; the preferent queue goes first; nothing READY is cut off |
| ipc (`os/kernel/ipc.h`) | the message of each task: flags `msg_src`, data | `task_ipc`, `udp_ipc`, `ipc_msg_timer` | what several senders tell a task before it runs adds up |
| timers (`os/sys/timer.cpp`) | `timer_list`, `timer_index`, per timer `active`, `msec_time`, message | `timer_set`, `timer_reset`, `timer_disable`, `timer_exec` | no timer fires early, none is passed over, the list stays a list |
| autostr (`os/sys/autostr.cpp`) | `autostr_list`, `autostr_index`, per autostr `active` | `autostr_set/reset/disable`, `autostr_exec` | every raised autostr wakes its task |
| main loop (`idos.cpp`) | where it is | `setup`, `loop`, `main` | nothing that waits for the loop waits for ever; the CPU sleeps only when idle |
| sleep clock (`os/sys/sleep.cpp`, `sleep_arch.cpp`) | `wdt_restart`, `wdt_duration`, `timer0_millis` | `sleep_init_arch`, `sleep_arch`, the watchdog interrupt | the millisecond counter agrees with real time after a sleep |
| net_tick (`os/sys/net/netstack.cpp`) | uIP's buffer, the periodic timer | poll a frame, answer it, poll every connection | what a task queued for sending goes out, and a datagram reaches its task before the next one overwrites it |
| udp (`transport/udp.cpp`) | lists of listeners, the sender | `udp_listener_begin/recv/send`, callbacks of uIP | a message is delivered to the listener of its port, an answer goes to the peer that asked |
| tcp (`transport/tcp.cpp`, `ip/uip/uip.c`) | uIP's connections: state, flags, what is outstanding, retransmissions; listeners with their message | `tcp_listener_begin`, `tcp_open`, `tcp_send`, the commands, every state of `uip_process`, `uipclient_appcall` | connections are not confused; an established one has a task that serves it; what is in flight can be sent again; handshakes end |
| link layer (`uip_arp.c`, `mac.cpp`, ping in `uip.c`) | the ARP table | a frame in, a frame out | an entry tells the truth; a host that keeps asking is answered |
| checksum (`netstack.cpp`, `uip.c`) | none | `chksum` and the sums over headers, `uip_add32` | the other end accepts what is sent, and damage to one byte is seen |
| coap server (`apps/coap/coap.cpp`) | resources, the resource demanded, the listener | one turn of the engine task | it answers whom it hears, with the resource the whole path names |
| coap client (`coap_client.cpp`) | clients, tokens and message ids | `coap_start_client`, `coap_get`, the other half of a turn | a task is told the answer to its request, and no earlier one |
| enc28j60 driver (`enc28j60_arch.cpp`) | `next_frame_ptr`, the registers of the receive ring, `bank` | init, poll, send, power, link status, addresses | the pointers of driver and chip agree, room that was used comes back, and every command meets the register it is meant for |
| 1-wire thermometers (`OneWire.cpp`, `DallasTemperature.cpp`) | the position of a search; resolutions; the scratchpad of each device | searches, conversions, readings, limits | every device is found once; nothing is read before its conversion is over; damage is not taken for a temperature |
| ultrasonic sensors (`NewPing.cpp`) | the deadlines of a ping | `ping`, `ping_median`, `ping_timer` | the time returned is that of this ping's echo |
| nrf24l01, bme280, ip addresses, uart, boards | | vendored code, conversions or pure input and output | |

Interaction. Tasks call `task_ipc`, `timer_set`, `autostr_set` and the
listeners' functions directly. Timers, autostrs and listeners hold a pointer to
their task and wake it with `task_set_ready`. All three do so from the main
loop, between tasks. The network flags `task->msg->msg_src` first; a timer
writes its own message and leaves the task's alone; an autostr writes nothing.

Hard behaviours: wake-ups, posts, yields and ends in any order over intrusive
lists whose pointers are left stale on purpose; a clock that moves in the
middle of a scan and wraps; loops that serve several things in a fixed order
while tasks keep waking each other; single slots (the message of a task, the
datagram of a listener, the one UDP sender) that a second arrival overwrites;
a watchdog interrupt that changes what the code after the sleep reads; peers
that answer late, twice, elsewhere or never; handshakes left half done; tables
that are too small for all; lines and sensors that fail in the middle of a
call. There is no persistence but the EEPROM of a thermometer and no
parallelism, so no crash recovery and no data race beyond the interrupts. `PROJECT.json` lists each hazard at its line.

## 2. Modules

| module | models | state and actions |
|---|---|---|
| `LinkedList` | intrusive lists | append as `task_set_ready`, `timer_set_sys` and `autostr_set_sys` write it; the sequence a list stands for |
| `ReadyQueue` | abstract: what the scheduler promises | one FIFO per priority and the holder of the CPU: `Enter`, `Grant`, `Release` |
| `Scheduler` | `sch.cpp`, `task.h`, `ipc.h` | the pointers of the code, `msg`, `cpu`; one action per function, `task_runing` split at the call of the task (`Dispatch`, then `Yield` or `End`) |
| `Timers` | `timer.cpp` | one action per function, `timer_exec` one iteration at a time (`Fire`, `Skip`), `Tick` for the clock interrupt |
| `AutoStr` | `autostr.cpp` | one action per function, `autostr_exec` one iteration at a time |
| `Kernel` | `idos.cpp` around them | the position `loc` in the loop, for a board or for the native build; composes `Scheduler` (EXTENDS), `Timers` and `AutoStr` (INSTANCE) |
| `MainLoop` | abstract: what the network relies on of the main loop | who has the turn and whom the network has called: `Run`, `Return`, `Tick`, `Call`, `Leave` |
| `Conversation` | abstract: what a listener that answers promises | one conversation at a time: `Hear`, `Answer`, `Leave` |
| `UdpStack` | `udp.cpp` over uIP, the UDP part of `netstack.cpp` | connections, listeners, the sender; one action per function of `udp.h`, `net_tick` one connection at a time (`PollListener`, `PollSender`, `PollNothing`), then one frame (`Receive`, `ReceiveNothing`) |
| `TcpStack` | `tcp.cpp`, the TCP of `uip.c` | connections and listeners; one action per state of a connection and kind of segment, per timer, and per call of a task |
| `Exchange` | abstract: what a CoAP client promises | `Ask`, `Tell`, `Take`: each question is answered once, by its own answer |
| `Coap` | `coap.cpp`, `coap_client.cpp`, over listeners as in `UdpStack` | clients, server, listeners; one action per turn of the engine, per `net_tick`, per call of a task |
| `Link` | `uip_arp.c`, ping, the checks of an IP packet, the part of `netstack.cpp` around them | ARP table, answers owed, the frame on the wire; one action per frame received, one for a frame that leaves |
| `Checksum` | the sums in `netstack.cpp`, `uip_add32`, the checksum of a ping's answer | one packet: summed, damaged or not, checked by the other end |
| `EncRing` | `enc28j60_arch.cpp` and the receive ring of the chip | headers in the ring, the pointers of both; `Arrive` (external) and one action per function |
| `EncRegisters` | `enc28j60_arch.cpp` down to its accesses to registers | the bank the driver remembers and the one the chip shows; one action per command on the bus, and a restart of the MCU between any two |
| `SleepClock` | `sleep.cpp`, `sleep_arch.cpp` | real time, the counter of milliseconds, the watchdog |
| `OneWire` | `OneWire::search`, `alarmSearch` | both walks down the bits of the addresses, one call per action, over a bus that changes |
| `DallasTemperature` | resolutions and conversions in `DallasTemperature.cpp` | those of the driver and of each device, in scratchpad and EEPROM |
| `Crc8` | `OneWire::crc8` | the CRC by two tables, as the driver computes it, and bit by bit, as a device does; constants only |
| `Thermometer` | the data of one device: scratchpad, temperature, limits | one action per function, with what the line does to each reading |
| `NewPing` | `NewPing.cpp` | the clock, the echo line and where the CPU waits |
| `Ethernet` | `Link`, `EncRing` and `EncRegisters` under one roof | their constants with what is assumed of them, their variables, and their properties by name |
| `Devices` | `SleepClock`, `OneWire`, `DallasTemperature`, `Thermometer` and `NewPing`, likewise | |
| `Packets` | `Checksum`, likewise | |
| `MCServices` | an instance for TLC of `Timers`, `AutoStr` and `Ethernet` | the variable `part` says which of their parts runs |
| `MCEnds` | an instance of `UdpStack`, `Devices` and `Packets` | likewise |
| other `MC*` | instances of one module each | |
| `LinkedListFacts`, `KernelProofs`, `TimersProofs`, `UdpProofs`, `TcpProofs`, `CoapProofs`, `EthernetProofs`, `DeviceProofs` | | theorems (section 5) |

The parts bundled in `MCServices` and `MCEnds`, and in `Ethernet` and `Devices`,
share no state with each other in the code. In a behaviour one of them runs and the others stay as they began, so
that each is checked in full and none multiplies the states of another. Where
modules do share state they are composed: `Kernel` with `Scheduler`, `Timers`
and `AutoStr`; `UdpStack` and `Coap` with what `Kernel` shows of the main loop;
`TcpStack` and `Link` with the part of `net_tick` that reaches them.

Choices worth knowing:

- The code of a task is left open: it posts to any *other* task, consumes flags
  of its own message, sets, restarts and stops the timers and autostrs it owns,
  and yields or ends. `SelfPost = TRUE` would let it post to itself, which the
  code does not survive and `os/sys/autostr.h:12-13` tells the programmer not
  to do; every run and theorem has `SelfPost = FALSE`.
- `Restart` says whether a task that has ended may run again from the top and
  come by its `timer_set` a second time. The runs that pass and the theorems
  have `Restart = FALSE`; `kernel_restart` shows why.
- The clock is unbounded in `time` and truncated to `ClockMod` wherever the code
  reads it. `due`, `woken`, `netWoken` and `passTime` are history variables that
  no guard reads; `rerun` remembers which declarations a task comes by again.
- The data of a message is a model value, and the flags are those the modelled
  senders set. Logging, event numbers and message status fields that no code
  reads are left out.
- In `Kernel`, `net_tick` may wake any task that owns a listener, any number of
  times in a call. What it does to the datagrams is the matter of `UdpStack`,
  which in turn keeps of the scheduler only what `MainLoop` says: tasks and
  `net_tick` take turns and, in the native build, a task woken by the network has
  run when `net_tick` comes again. Both modules are shown to implement it.
- `UdpStack` keeps of a datagram who sent it or whom it is for, and whether it
  is empty; no frame in flight is part of the state, because `mac_poll` may hand
  over anything or nothing at any time (frames are lost, doubled, reordered and
  forged by that alone). An address and its port are one `Peer`. `asker`,
  `owed`, `woken` and `wire` are history variables; only `owed` and `asker` are
  read by a guard, that of `ResponseTo`, and say when a task answers: in the
  turn in which it reads the message, once, as the CoAP engine
  (`apps/coap/coap.cpp:512`) and `examples/udp_server` do (`Late = FALSE`), or
  at any time (`Late = TRUE`).
- `TcpStack` asks of a sequence number only what `uip_process` asks of it: is it
  the next one, does it acknowledge all that is outstanding. The constant
  `Worlds` says in which worlds the stack is looked at: the empty world is an
  orderly exchange, and each of the features "reset" (peers abort connections),
  "piggyback" (a segment acknowledges data and brings data or a FIN), "shared"
  (several connections on one listener), "hasty" (a task sends or closes without
  waiting) and "stop" (tasks stop and restart connections) adds to it. A
  property that fails in one of them says so in its premise, which makes it a
  statement about where the code is safe; `NoTwins` and `HandshakesEnd` need
  none (with "stop" a connection may stay, stopped, in no state of TCP).
- `Coap` does the same: "late", "separate", "options" and "error" answers,
  "lossy" and "stray" traffic, requests the server does not answer ("silent"),
  a sequence of tokens that wraps ("wrap"), an "impatient" task, two "clients",
  and a client started "again". `Tokens` is the number of tokens and `Life` how
  many requests back the oldest answer may be; a token that wraps around onto
  one still under way is left out (`TokenIsNew`).
- `UIP_TCP` is commented out at `tcp.h:17`, and the checksum functions that uIP calls
  are written inside the body of `net_tick` (`netstack.cpp:126-500`), which C++ does
  not allow: at this commit the uIP build with TCP needs both put right first.
  The model takes each function as it is written.
- `EncRing` divides addresses and lengths so that a small ring shows a frame at
  every position against its end; `Checksum` computes with digits of base `Base`
  where the code has 256, so that every carry happens with short packets;
  `OneWire` has addresses of `Bits` bits where the bus has 64; `NewPing` counts time
  in steps at which the line is looked at. `Thermometer` has real bytes.
- `EncRegisters` has the bank as the set of its two bits, because `set_bank` first
  clears the old bits and then sets the new ones, and a reset of the MCU may fall
  in between. A reset clears the static `bank` and not the chip; that the first
  thing `enc_init` does is to reset the chip too is what `CommandMeetsRegister`
  hangs on. A read that waits for the chip is made once.
- A listener is given to `udp_listener_begin` again only while it has no
  connection, messages that tasks send are not empty, and a task sends only from
  a listener that has its connection (`udp_send_from` does not look).

## 3. Runs

| run | instance | what it shows |
|---|---|---|
| `sched_core` | one preferent and two normal tasks, one started twice | `QueueShape`, `PreemRuns`, `NormalRuns`; the pointers implement `ReadyQueue` |
| `services` | three timers of 0, 1 and 2 ms; four autostrs; a ring of 20 addresses; every call of the Ethernet driver; three hosts, two cards, an ARP table of two | `TimerListShape`, `NoEarlyFire`; `AutoListShape`; `DriverFollowsChip`, `RoomReturns`; `CommandMeetsRegister`; `EntryIsLatest`, `FarIsAnswered` |
| `ends` | UDP: two connections for an answering listener, an asking one and the sender, two tasks, two peers, both main loops; packets of up to three bytes; five addresses of four bits; three thermometers; one thermometer over five kinds of line; two distances | `ConnsAccountedFor`, `AnswersReachTheAsker`, `WokenFindsMessage`, `SenderIsFreed`, implements `Conversation`; `SumsAgree`; `ClockGoesForward`; `SearchFindsEach`; `AwaitsConversion`; `ReadingIsTrue`, `SettingsSurvive`; `EchoIsTrue`, `MedianIsMedian` |
| `kernel_arduino` | the loop of a board, two tasks, two timers, an autostr, a listener | it drives the scheduler as `Scheduler` allows; `NoWakeUpIsLost`, `SleepsOnlyWhenIdle`, `TimersServedEachPass`, `WokenRuns` |
| `tcp_core` | a listening and an opening task, two peers, two connections, six worlds | `NoTwins`, `ConnectedUnlessReset`, `EstablishedIsServed`, `InFlightIsInBuffer`, `HandshakesEnd` |
| `coap_core` | two clients, three resources, two peers with fourteen kinds of request, twelve worlds | `AnswerIsCurrent`, `ServerHearsEveryone`, `RightResource`, `GetIsAnswered`; it implements `Exchange` |
| `timers_wrap`, `arduino_net`, `kernel_restart`, `coap_clients`, `ring_wrap`, `sleep_clock` | | the counterexamples of section 6 |

`PROJECT.json` names the definition of every property, and for each a wrong
version of one definition of the code with which TLC finds it violated. The type
invariant of each module (`TypeOK`, `AutoTypeOK`, `KernelTypeOK`, `EndsTypeOK`,
`ServicesTypeOK`) holds on the same instances; it is not among the properties of
the runs, and those of `Scheduler`, `Timers`, `AutoStr`, `Kernel`, `UdpStack`,
`TcpStack`, `Coap`, `Link`, `EncRing`, `EncRegisters` and `SleepClock` are part of
what is proved.

Bounds of the kernel. Lists: three nodes reach every case of the code (append to
an empty list, behind the only node, behind several; remove the only node, the
head of several), four let a list be cut in the middle. The refinement compares
sequences, so `sched_core` has three tasks; the theorems of `KernelProofs` do
not depend on their number. A task started twice exercises `task_set_ready` on
a READY task during boot. Timers: the periods 0, 1 and 2 are due before, at and
after a tick in the middle of a scan; the clock stops at `Horizon`. In
`kernel_arduino` two tasks that wake each other are enough to keep the loop busy
for ever, two timers make the scan longer than one iteration, one of them (0 ms)
is due as soon as it is set.

Bounds of the network. UDP: two connections for three uses make `uip_udp_new` fail
and reuse a connection in every order, two peers let a second one speak to a
listener that is answering the first, and one task owns both listeners, as the
CoAP engine does, while the other only sends. TCP: two connections let a slot
be reused while the other is in any state and the table be full (`Slot` then
takes one in TIME_WAIT); one retransmission before giving up is enough, because
no code tells the second from the third. Each feature is looked at alone: two
features together are left to later work, and a premise that excludes a
feature excludes it in every combination. CoAP: two clients are what the search
of the list goes wrong with, three resources include a child and a name
of two characters, which a request may abbreviate; three tokens with `Life` = 1 let a late answer meet the
next request. The link layer has one host beyond the router and one on the
local network, and the local network is any set with the router in it, so that
the table of two is large enough in some behaviours and too small in others.

Bounds of the ends. Five addresses of four bits have junctions at every depth
but one, agree and differ in the family code, and the bus is any subset of them
that changes between calls and loses devices within them. The ring of 20 with headers of 4 and
frames of 1, 2 and 4 puts a frame at every distance from the end, the defect of
`ring_wrap` included: the pointers stay in step all the same, only the bytes
read are the wrong ones. `EncRegisters` is not cut down: it has every call the stack
makes of the driver and the three attempts of `enc_send`. With base 4 and up
to three bytes of payload behind two bytes of header, every carry into and out of
a digit happens, odd lengths included; a base of 256 only has more digits.

## 4. Fairness

The boot sequence, the main loop, `timer_exec`, `autostr_exec` and
`task_runing` are straight code on one thread: weak fairness of their next
step. A task has to return (`os/kernel/ipc.h:43-47`: the system is cooperative
and a task that does not yield stops it), so `Yield \/ End` is weakly fair. The
clock interrupt is weakly fair. Nothing is assumed of posts, of what a task does
with its timers, nor of the network. In `UdpStack` a task returns, `net_tick`
goes on once it has begun, and on a board it begins again and again whenever
tasks come to an end (strong fairness of `Tick`: `loop()` passes by `net_tick`
between any two tasks); of the native loop nothing like it is assumed, since it
stays inside `task_runing` while tasks keep waking each other
(`idos.cpp:135-142`).

In `TcpStack` a timer that runs does run out (`Expire`) and a connection is polled
again (`Poll`), as `net_tick` comes by every connection in each period; nothing is
assumed of peers or tasks. In `Coap` the engine, `net_tick` and a task that was told
go on, and a remote end that has a request answers it, only in the orderly world
(`Orderly`); in the others nothing is assumed and nothing about an answer's coming
is claimed. In `EncRing` the main loop polls the chip again and again. In `Link` an answer that waits departs, a host asks
again (weak fairness: UDP has no retry, its user has), and the router answers
an ARP request if it is asked often enough (strong fairness, because each frame
on the wire replaces the last one in the model).

`NormalRuns` is conditional, as the
code is: nothing limits how long preferent tasks hold the normal ones back.

## 5. Proofs

`LinkedListFacts`: the append and removal the code performs on pointers, as
operations on the one sequence those pointers stand for (`AppendToList`,
`DropHead`, `ListIsUnique`).

`KernelProofs`, on the scheduler: for any finite set of tasks, any priorities and boot
sequence, `SelfPost = FALSE`. The inductive invariant is `SchedInv`: types,
`QueueShape` and `RunningHoldsCpu`. `QueueShape` alone is not inductive:
`task_set_ready` decides by `status` alone whether a task is linked, so the
status has to agree with the links, and the running task, which is still the
head, must be the only one that is RUNNING. From it: `TypeCorrect`,
`QueuesAreWellFormed`, `FlagsAddUp`, and `SchedulerImplementsReadyQueue`, by
mapping each queue to the sequence it stands for without its running head.

`TimersProofs`, `Restart = FALSE`: `TimerListShape` with the types is inductive,
because it says where the index stands both during a scan (a node) and between
scans (the last node), and the same holds of the autostrs (`AutoStrInvariant`).
`NoEarlyFire` needs `Punctual` (the structure holds the moment itself) on top of
it, which is true only while no sum wraps (`NoWrap`): the proof's assumption is
exactly what `timers_wrap` violates.

`KernelProofs`, on the main loop: `KernelImplementsScheduler` shows that every step of either
main loop is a step of `Scheduler` or leaves it alone. It rests on `LoopInv`:
tasks run only inside `task_runing`, nothing is woken before the boot sequence
is over, and a scan stands on a real node. Through it `SchedInv` holds of the
system, and with it `NoWakeUpLost` (`WakeInv`) and `NativeRunsWokenFirst`, whose
point is that the native loop reaches `net_tick` only through an empty ready
queue, and an empty queue means that no task is READY. From all of them
`KernelTakesTurns`: both loops implement `MainLoop`, with `SelfPost = FALSE`.

`KernelImplementsParts` is the same for the timers and the autostrs, so that
`TimersInvariant` and `AutoStrInvariant` hold of the system too (under their
assumption), and the scans can be reasoned about inside the loop. `TimersAreServed`
and `SleepIsIdle` need what a scan has seen so far: `ScannedUpTo` says that every
node before the index in the list has been dealt with (`Covered`: it is not
active or was not due when the pass began; `Down`: it is not raised), and that a
finished scan has dealt with all; no task runs while a scan is under way
(`LoopControl`), so that only the clock moves. Their hypotheses are those of the
shape of the lists (`Restart = FALSE`), for the timers a board (the native loop runs several tasks between two scans) and
`NoWrap`, for the sleep `SelfPost = FALSE`; that the queues are empty when the CPU
falls asleep is `Asleep`, from `SchedInv`. `KernelTypeCorrect` adds the types.

`UdpProofs`: `StackInvariant` holds whenever tasks answer and gives
`ConnectionsAddUp` (inductive with the types alone: uIP finds a free connection
by its local port, and a free connection never has a listener left in it) and
`WokenTasksFindMessages`, which needs that net_tick and the tasks take turns
(`Turns`) and that an unread datagram has a connection (`Fresh`).
`AnswersAreAddressed` is not inductive: the remote is right at the moment of
leaving only because it was right while the datagram waited (`Addressed`), and
that because it was right when the task read what it answers (`Owed`). With
`UdpInv` the steps of `UdpStack` are those of `Conversation`
(`UdpImplementsConversation`). Both assume `~Late`, and section 6 says why.
`UdpTakesTurns` maps the steps of `UdpStack` to those of `MainLoop`, and the lemma
`TurnAllowed` is the converse of it: a task may run and return, and `net_tick` may be
called, in `UdpStack` whenever `MainLoop` lets them. What is shown of `UdpStack` is
therefore about every order in which the loops of `Kernel` call it
(`KernelTakesTurns`).

`TcpProofs`, for any numbers of connections, listeners and peers and in every
world: `TcpInv` is the types, `NoTwins` and `Attached` (a connection in a handshake
has a listener, or one of its port is listening). `Attached` is there for the
types: `uip_connected` gives the connection the listener of its port, and only
because a listener never stops listening is there one. `NoTwins` rests on one
observation, lemma by lemma: no callback to a task and no change of state changes
the ends of a connection (`SameEnds`), so only `Accept` and `Open` can make twins,
and both look through the whole table (`NewConnection`). From it
`NoTwinConnections` and `TcpTypeCorrect`.

The second half of `TcpProofs` is about who owns a listener: `OwnInv`, again
for any numbers and every world, each part with the world it needs in its
premise. A listener that opens has one slot (`OpenerHasOne`) and one that listens
keeps its port (`PortIsServers`, `PortsApart`); a slot out of use has no listener
(`Freed`); the buffer of a listener holds what its connection has in flight
(`Supplied`). None of them is inductive without the others, because a callback
decides by the listener it is given what happens to the connection. `Move`
says once what a step of one connection may do to itself (`Ends`) and to the
listeners (`Served`); a move keeps the invariant, and each action is shown to be one. From it
`ConnectedHasConnection`, `EveryoneIsServed` and `InFlightIsKept`. The proof of
the second failed at first for a good reason: with two servers and resets a slot
keeps the listener of the connection that was aborted in it, and the next SYN to
the other port revives it. `Untangled` is that premise, now in the properties
themselves (section 6).

`CoapProofs`, for any clients, resources, peers and requests, any number of tokens
and every world. `CoapInv` needs, besides the properties it proves, that a request
waits for the engine whole (`ServerWaits`), that a client's token is 0 or that of
its question until the sequence reaches 0 (`TokensAgree`), and that with one
client and no late answers one request is under way at most (`Alone`). The walk of
the server down the tree of resources is a recursive function over the options of
a request; that it arrives at the resource the segments name (`RightResource`) is
proved by induction over the options as well-foundedness of a set of numbers (the
least position at which the claim fails), which needs no theorem with an operator
for parameter. `CoapImplementsExchange` maps each action to a step of `Exchange`
or a stutter.

`EthernetProofs`, for any numbers and sizes, one part after the other:

- `Link`: `EntryIsLatest` with the types is inductive (`LinkInv`); that an entry is
  overwritten where the host has one, and only else put where one is free or thrown
  away, is the whole of it.
- `EncRegisters`: `RegInv`. What the driver remembers of the bank is what the chip
  shows, except between the two commands of `set_bank` and before `enc_init` has
  reset the chip (`BankIsKnown`); and the commands still to come that trust in the
  bank each stand behind an access that sets it (`TodoIsSound`). A restart of the MCU
  is harmless because the first command after it is the reset.
- `EncRing`: `RingInv`. The unread frames lie in their order between the driver's and
  the chip's pointer (`InOrder`), those and what the chip may still write fit into
  the ring (`RoomKept`), and a torn frame is an unread one (`TornKept`). All
  distances are counted round the ring (`Dist`).
- `Checksum`: `SumsInv`, which says of a damaged packet that it would be accepted only
  if it is what was sent. `Plus` is addition modulo the word of all ones (`PlusIs`,
  which follows apart from that whether the result is 0 or all ones, because the code
  treats the two differently), so `chksum` over the header and then the payload is
  the sum of all words (`ChksumAdds`, `SumOfAll`), as it is in RFC 1071
  (`AcceptsIs`). A changed byte changes that sum by less than all ones
  (`TotalChanges`, `SameNear`), which is why none is accepted. To swap the bytes of a
  word is a multiplication (`SwappedIs`), so a ping's answer has the right sum in
  spite of it (`AnswerAdds`); `uip_add32` is addition digit by digit (`AddIs`).
  It is assumed that lengths are below 2^16 (`SumsAssumption`).

`DeviceProofs`, likewise:

- `SleepClock`: while the CPU wakes up the counter holds the moment the watchdog
  ended the sleep and what it ran since (`ClockInv`), so the correction adds.
- `OneWire`: `WireInv`. The addresses are ordered by the first bit in which they
  differ, and what a search has found is what comes up to its last address in that
  order (`UpTo`, `Goes`); the last discrepancy is the last place at which a device
  branches off behind it (`Junctions`, `LastOf`). One step of the walk keeps to the
  devices that share the bits so far (`Down`, `DownStep`); over all bits, by
  induction as in `CoapProofs`, it ends at the next address (`NextComes`), and where
  there is no junction left there is no next one. Both searches are shown to walk
  alike, though they keep their places differently. The assumption is that no
  device has the family code 0, which `search` takes for a failure
  (`WireAssumption`).
- `DallasTemperature`: as long as the bus is the one that was counted, the driver's
  resolution is at least that of each device but a DS18S20 (`DallasInv`), because
  the devices that getAddress numbers are then all there are (`AllAddressed`). A
  resolution set for an absent device leaves that true with several devices, which
  are asked for theirs, and not with a single one; `steady` is false after that,
  after a recall that changes a resolution and after a change of the bus, until
  the next `begin`.
- `Crc8`: on the bits of a byte (`BitsOf`) the exclusive or takes the odd sums and a
  shift moves each bit and mixes one into three others (`XorOf`, `ShiftOf`). Eight
  shifts are therefore linear and lose nothing (`ShiftedIs`). The two tables of `crc8`
  hold the shifts of the low and of the high half of a byte (`TableIs`, from eight
  values by linearity), and so compute what the device does bit by bit (`LookedIs`,
  `CrcAgrees`). Two readings that differ in one byte have different CRCs
  (`CrcDiffers`): nothing behind that byte can undo the difference.
- `Thermometer`: `ThermoInv`. A reading that passes `isConnected` is the scratchpad as
  the device sent it (`OnlyClear`, from `CrcDiffers`); the temperature computed from
  it is the one measured, for both families and below 0 (`TemperatureIs`); and
  `hasAlarm` rounds as the device does (`AlarmIs`), whose flag `ThermoInv` ties to the
  limits as long as they are those of the last conversion. A setter writes only
  when its second reading was good, and then writes that reading's other bytes
  back as they were (`WriteKeeps`). Assumed are what the
  device can measure and the types of the calls (`ThermoAssumption`), and that the
  line changes at most one byte of a reading, is shorted, or has no device
  (`LinesAssumption`): eight bits of CRC cannot tell every damage apart.
- `NewPing`: `EchoInv` says what `max_time` means while a ping waits: the moment the
  line rose. `MedianInv` says that the first places of `uS` are the echoes so far
  in order, by a permutation (`Sorts`), which the insertion of `ping_median`
  keeps. It is assumed that callers ask for one ping at least: for none
  `ping_median` writes to an array of no length.

Only model-checked: the liveness properties (`PreemRuns`, `NormalRuns`, `WokenRuns`,
`RoomReturns`, `FarIsAnswered`, `SenderIsFreed`, `HandshakesEnd`, `GetIsAnswered`),
which are out of reach of the prover, as `ENABLED` is. Every invariant and every
action property of the passing runs is a theorem. What happens with `Restart`, `SelfPost` or `Late` TRUE is outside the
theorems.

## 6. Where code and documentation disagree

Each with a run whose counterexample shows it:

- `timers_wrap`: `msec_time <= msec_now()` on truncated sums fires at once when
  the sum wraps before the clock does. `net_tick` itself uses a comparison that
  survives the wrap (`netstack.cpp:153`).
- `arduino_net`: `netstack.h:119-121` expects every task woken by `net_tick` to
  run before `net_tick` is called again; `loop()` runs one task per call. In the
  native loop it holds, and is proved (`NativeRunsWokenFirst`).
- `kernel_restart`: a task that ends and is invoked again, as `task.h:148-149`
  allows, appends its static timer to the list a second time; the list becomes
  a cycle and `timer_exec` does not return.
- `coap_clients`: `coap_client_recv` goes on with the second client of the list for
  ever when the message is for the server (`coap_client.cpp:102`).
- `ring_wrap`: behind a header that ends at the end of the receive ring the driver
  reads from one byte too far on, because the wrap subtracts the last address
  instead of the size (`enc28j60_arch.cpp:329`, `377`).
- `sleep_clock`: the interrupt that ends the sleep replaces the moment from which
  the sleep is computed, so the millisecond counter gains a whole period
  however little of it was slept (`sleep_arch.cpp:154`).

What the premises of the properties say about where the code is safe:

- A connection that a peer resets leaves its listener CONNECTED: the callback
  ignores the abort (`ConnectedUnlessReset`).
- A listener shared by several connections, and a task that sends or closes
  before the last message is acknowledged, can leave an established connection
  with no task to serve it (`EstablishedIsServed`); a segment that both
  acknowledges and brings data empties no buffer, so that its message goes out
  again (`InFlightIsInBuffer`). With two servers a reset is enough for both
  (`Untangled`): `uip.c` ends the connection and leaves its `appstate` in the slot,
  a SYN to the other port takes the slot, and the callback looks for the listener
  of the port only if the slot holds none (`tcp.cpp:184-200`), so that the
  connection of one port calls back the listener of the other.
- With the sequence of tokens at 0 a client that expects nothing takes any answer
  with that token (`AnswerIsCurrent`, `ImplementsExchange` leave "wrap" out).
- `RightResource` is about requests that name a path in full, in a tree where no
  name begins another: `coap.cpp` compares only as many characters as the request
  has, and takes the first resource that fits.
- A request of a kind the server does not answer leaves its listener bound to
  that peer (`ServerHearsEveryone`). An answer in a message of its own ends the
  wait without its payload. A request that is lost is never repeated
  (`GetIsAnswered` holds in the orderly world only).
- When a device leaves the bus in the middle of an alarm search its address may be
  returned twice; `SearchFindsEach` is about a bus that does not change.
- The wait for a conversion is too short for a DS18S20, whose conversion always
  takes as long as one of 12 bits, when the driver holds a lower resolution;
  `AwaitsConversion` excludes that case.
- It is also too short after `setResolution` of an absent device on a bus with a
  single one: only the write is skipped (`DallasTemperature.cpp:286`), the driver
  takes the resolution over (317) and asks the device on the bus for its own only
  if there are several (318). With a device of 12 bits on parasite power and 9 bits
  asked of another address, `requestTemperatures` waits 94 ms and the device takes
  750. Without that premise in `steady`, TLC finds `AwaitsConversion` violated; the
  same holds of a resolution recalled from the EEPROM, and of a changed bus.

Seen while reading and not given a run: `udp.h:119-120` says that the remote of a
listener persists until a message of a different one arrives, but it is cleared
when anything leaves (`netstack.cpp:206`) and while it is set uIP drops the
datagrams of everybody else (`uip.c:1111-1117`), so that a second answer, or one
given in a later turn, goes to 0.0.0.0:0 or to whoever spoke since (with
`Late = TRUE`, `AnswersReachTheAsker` fails); a listener whose task does not answer
hears only its first peer; a datagram of `udp_send` leaves from port 0, because
its connection is freed before uIP writes the header (`udp.cpp:375`); `udp_send`
reports success when no connection was free (`udp.cpp:133`); the native loop does
not reach `timer_exec` and `net_tick` while tasks keep waking each other, as
`examples/concurrence/multitasking.cpp` does; `main()` never calls `autostr_exec`,
so an autostr does nothing in the native build; a task that has left its queue
keeps its old `next`, against `task.h:61` (harmless, because `task_set_ready`
clears it, as the mutant `EnqueueKeepsNext` shows); `tcp_listener_end` takes its
listener by value; `uip_arp_timer` is never called, so no ARP entry ages;
-55 degrees is the value that also means a disconnected thermometer
(`DEVICE_DISCONNECTED_RAW`); `enc_send` writes its control byte into the last byte
of the receive ring and waits for the chip without a limit
(`enc28j60_arch.cpp:482`), and everything it does after `write_byte` (460) lies outside a
transaction on the SPI bus, which `write_byte` and `read_byte` end.

## 7. Not modelled, and what is left

Not modelled, with the reason: `nrf24l01` (register access over SPI, unfinished in
the repository), `bme280` (a wrapper without state around a vendored library),
`ip.cpp` (stateless conversion of addresses), `uart` (redirection of output), the
board files (pins and clock; the clock is `time` in `Timers`), the build over the
lwIP of the ESP (`esp_net_udp_appcall`: another stack, outside the repository),
`tcp_listener_end`, the parts of uIP that are compiled out (reassembly, IPv6,
`uip_split`), urgent data, window and round-trip arithmetic, the transfers over
SPI and the timing of single bits on the 1-Wire bus.

What a continuation would take up, in this order:

1. `Coap` over the whole of `UdpStack`, with `udp_send_from` refused while the one
   sender is busy, which `coap_send` ignores.
2. Worlds of two features in `TcpStack` and `Coap`.

## 8. Running it

`tlc -config <run>.cfg <module>` for a run (module and properties in
`PROJECT.json`), `tlapm <module>.tla` for the modules with proofs. Every property of a
passing run has a mutant, a wrong version of one definition, written before
it and marked `Mutant`; with it in place TLC finds the property violated.
