------------------------------ MODULE UdpStack ------------------------------
(***************************************************************************)
(* UDP in idOS (os/sys/net/transport/udp.cpp) between the tasks and uIP:   *)
(* listeners with one buffer in each direction, the single sender for      *)
(* tasks without a listener, and the order in which net_tick polls every   *)
(* pseudo-connection and then receives one frame.                          *)
(*                                                                         *)
(* net_tick and the tasks alternate on one thread: `where' says whose turn *)
(* it is.  A frame that comes in belongs to no state: mac_poll may hand    *)
(* over any frame, or none.  Both main loops are modelled: `build' is      *)
(* chosen once.  In the native one a task woken by the network runs before *)
(* net_tick is called again (NativeRunsWokenFirst in KernelProofs), on a   *)
(* board it need not have.                                                 *)
(***************************************************************************)
EXTENDS Naturals, FiniteSets

CONSTANTS
  Task,       \* the tasks
  Listener,   \* every udp_listener_st
  TaskOf,     \* TaskOf[l]: udp_listener_st.task
  Port,       \* local ports
  PortOf,     \* PortOf[l]: the port given to udp_listener_begin
  Clients,    \* listeners that tasks also send from (coap_client.listener)
  Peer,       \* remote ends, an address with a port
  Nobody,     \* 0.0.0.0:0
  Null,       \* __null, and an empty buffer
  Conns,      \* UIP_UDP_CONNS
  NoPort,     \* lport 0: the connection is free
  AnyPort,    \* the port uip_udp_new picks itself
  Late        \* TRUE if a task may answer in a later turn, or twice

ASSUME UdpAssumption ==
  /\ TaskOf \in [Listener -> Task] /\ PortOf \in [Listener -> Port]
  /\ Clients \subseteq Listener
  /\ Nobody \notin Peer /\ Null \notin Task \cup Listener \cup Peer \cup {Nobody}
  /\ Conns \in Nat \ {0} /\ Null \notin 1..Conns
  /\ NoPort \notin Port /\ AnyPort \notin Port /\ NoPort # AnyPort
  /\ Late \in BOOLEAN

VARIABLES
  lport, remote, appstate,   \* uip_udp_conns
  udp_conn,                  \* udp_listener_st.udp_conn
  status,                    \* udp_listener_st.status
  msg_in,                    \* whose datagram is in the buffer, or Null
  msg_out,                   \* whom the waiting datagram is meant for, or Null
  sender,                    \* the same for udp_sender, while its send is up
  where, index,              \* "tasks", "poll" at connection index, "receive"
  runner,                    \* the task that runs, or Null
  build,                     \* "native" or "board"
  woken,                     \* history: woken by a datagram and not run since
  asker, owed,               \* history: whose message was read last; in this turn
  wire                       \* history: the last datagram that left

connVars == <<lport, remote, appstate>>
listenerVars == <<udp_conn, status, msg_in, msg_out>>
turnVars == <<where, index, runner, build>>
historyVars == <<woken, asker, owed, wire>>
udpVars == <<connVars, listenerVars, sender, turnVars, historyVars>>

Conn == 1..Conns
MsgStatus == {"UDP_MSG_NULL", "UDP_MSG_IN", "UDP_MSG_READED", "UDP_MSG_SENDED"}
Datagram == [to : Peer \cup {Nobody}, meant : Peer]

Init ==
  /\ lport = [c \in Conn |-> NoPort]
  /\ remote = [c \in Conn |-> Nobody]
  /\ appstate = [c \in Conn |-> Null]
  /\ udp_conn = [l \in Listener |-> Null]
  /\ status = [l \in Listener |-> "UDP_MSG_NULL"]
  /\ msg_in = [l \in Listener |-> Null]
  /\ msg_out = [l \in Listener |-> Null]
  /\ sender = Null
  /\ where = "tasks" /\ index = 1 /\ runner = Null
  /\ build \in {"native", "board"}
  /\ woken = {}
  /\ asker = [l \in Listener |-> Null]
  /\ owed = [l \in Listener |-> FALSE]
  /\ wire = Null

-----------------------------------------------------------------------------
(* The turn of the tasks.                                                  *)
StartTask(t) ==
  /\ where = "tasks" /\ runner = Null
  /\ runner' = t
  /\ woken' = {l \in woken : TaskOf[l] # t}
  /\ UNCHANGED <<connVars, listenerVars, sender, where, index, build, asker,
                 owed, wire>>

(* What the task read in this turn it has answered, or will not answer.    *)
EndTask ==
  /\ runner # Null
  /\ runner' = Null
  /\ owed' = [l \in Listener |-> FALSE]
  /\ UNCHANGED <<connVars, listenerVars, sender, where, index, build, woken,
                 asker, wire>>

(* uip_udp_new takes the first free connection, with a port of its own; it *)
(* does not touch appstate.                                                *)
FirstFree(c) == lport[c] = NoPort /\ \A d \in Conn : lport[d] = NoPort => c <= d
NoneFree == \A c \in Conn : lport[c] # NoPort

(* udp_listener_begin; without a free connection the listener stays deaf.  *)
Listen(l) ==
  /\ runner # Null
  /\ udp_conn[l] = Null
  /\ \/ \E c \in Conn :
          /\ FirstFree(c)
          /\ lport' = [lport EXCEPT ![c] = PortOf[l]]
          /\ remote' = [remote EXCEPT ![c] = Nobody]
          /\ appstate' = [appstate EXCEPT ![c] = l]
          /\ udp_conn' = [udp_conn EXCEPT ![l] = c]
     \/ NoneFree /\ UNCHANGED <<connVars, udp_conn>>
  /\ status' = [status EXCEPT ![l] = "UDP_MSG_NULL"]
  /\ msg_out' = [msg_out EXCEPT ![l] = Null]
  /\ UNCHANGED <<msg_in, sender, turnVars, historyVars>>

(* udp_recv.                                                               *)
Recv(l) ==
  /\ runner = TaskOf[l]
  /\ status[l] = "UDP_MSG_IN"
  /\ status' = [status EXCEPT ![l] = "UDP_MSG_READED"]
  /\ asker' = [asker EXCEPT ![l] = msg_in[l]]
  /\ owed' = [owed EXCEPT ![l] = TRUE]
  /\ UNCHANGED <<connVars, udp_conn, msg_in, msg_out, sender, turnVars, woken,
                 wire>>

(* udp_response_to, unless an answer is still waiting.                     *)
ResponseTo(l) ==
  /\ runner = TaskOf[l]
  /\ owed[l] \/ (Late /\ asker[l] # Null)
  /\ msg_out[l] = Null
  /\ msg_out' = [msg_out EXCEPT ![l] = asker[l]]
  /\ owed' = [owed EXCEPT ![l] = FALSE]
  /\ UNCHANGED <<connVars, udp_conn, status, msg_in, sender, turnVars, woken,
                 asker, wire>>

(* udp_send_from, by any task: whatever waits to leave is replaced, and so *)
(* is the remote of the connection.                                        *)
SendFrom(l, p) ==
  /\ runner # Null
  /\ l \in Clients /\ udp_conn[l] # Null
  /\ sender = Null
  /\ remote' = [remote EXCEPT ![udp_conn[l]] = p]
  /\ msg_out' = [msg_out EXCEPT ![l] = p]
  /\ UNCHANGED <<lport, appstate, udp_conn, status, msg_in, sender, turnVars,
                 historyVars>>

(* udp_send; with no connection free it does nothing (and returns true).   *)
Send(p) ==
  /\ runner # Null
  /\ sender = Null
  /\ \E c \in Conn :
       /\ FirstFree(c)
       /\ lport' = [lport EXCEPT ![c] = AnyPort]
       /\ remote' = [remote EXCEPT ![c] = p]
  /\ sender' = p
  /\ UNCHANGED <<appstate, listenerVars, turnVars, historyVars>>

-----------------------------------------------------------------------------
(* The turn of net_tick: first every connection is polled.                 *)
Tick ==
  /\ where = "tasks" /\ runner = Null
  /\ build = "native" => woken = {}
  /\ where' = "poll" /\ index' = 1
  /\ UNCHANGED <<connVars, listenerVars, sender, runner, build, historyVars>>

Onward ==
  /\ IF index < Conns THEN index' = index + 1 /\ where' = where
                      ELSE index' = index /\ where' = "receive"
  /\ UNCHANGED <<runner, build, woken, asker, owed>>

(* Mutant: the remote is not cleared.                                      *)
LeavesRemote(meant) ==
  /\ wire' \in {[to |-> remote[index], meant |-> meant], Null}
  /\ UNCHANGED remote

(* What leaves goes to the remote of the connection, which is cleared; if  *)
(* its hardware address is not known an ARP request goes in its place.     *)
Leaves(meant) ==
  /\ wire' \in {[to |-> remote[index], meant |-> meant], Null}
  /\ remote' = [remote EXCEPT ![index] = Nobody]

Used == lport[index] # NoPort

(* Mutants: the message stays in the buffer; the connection stays taken;   *)
(* the flag stays up.                                                      *)
PollListenerKeeps(l) ==
  /\ where = "poll" /\ Used
  /\ appstate[index] = l /\ msg_out[l] # Null
  /\ Leaves(msg_out[l])
  /\ status' = [status EXCEPT ![l] = "UDP_MSG_SENDED"]
  /\ Onward
  /\ UNCHANGED <<lport, appstate, udp_conn, msg_in, msg_out, sender>>
PollSenderKeeps ==
  /\ where = "poll" /\ Used
  /\ appstate[index] = Null /\ sender # Null
  /\ Leaves(sender)
  /\ sender' = Null
  /\ Onward
  /\ UNCHANGED <<lport, appstate, listenerVars>>

PollSenderBusy ==
  /\ where = "poll" /\ Used
  /\ appstate[index] = Null /\ sender # Null
  /\ Leaves(sender)
  /\ lport' = [lport EXCEPT ![index] = NoPort]
  /\ Onward
  /\ UNCHANGED <<appstate, listenerVars, sender>>

(* uipudp_appcall on a poll: the answer or request of the listener, ...    *)
PollListener(l) ==
  /\ where = "poll" /\ Used
  /\ appstate[index] = l /\ msg_out[l] # Null
  /\ Leaves(msg_out[l])
  /\ status' = [status EXCEPT ![l] = "UDP_MSG_SENDED"]
  /\ msg_out' = [msg_out EXCEPT ![l] = Null]
  /\ Onward
  /\ UNCHANGED <<lport, appstate, udp_conn, msg_in, sender>>

(* ... the message of the sender, whose connection is freed, ...           *)
PollSender ==
  /\ where = "poll" /\ Used
  /\ appstate[index] = Null /\ sender # Null
  /\ Leaves(sender)
  /\ lport' = [lport EXCEPT ![index] = NoPort]
  /\ sender' = Null
  /\ Onward
  /\ UNCHANGED <<appstate, listenerVars>>

(* ... or nothing.                                                         *)
PollNothing ==
  /\ where = "poll"
  /\ Used => IF appstate[index] = Null THEN sender = Null
                                       ELSE msg_out[appstate[index]] = Null
  /\ Onward
  /\ UNCHANGED <<connVars, listenerVars, sender, wire>>

(* The connection uip_process finds for a datagram of p to a local port.   *)
Accepts(c, p, port) == lport[c] = port /\ remote[c] \in {Nobody, p}
FirstMatch(c, p, port) ==
  Accepts(c, p, port) /\ \A d \in Conn : Accepts(d, p, port) => c <= d

(* Mutant: an empty datagram wakes the task too.                           *)
ReceiveWakes(p, port, full) ==
  /\ where = "receive" /\ where' = "tasks"
  /\ \E c \in Conn :
       /\ FirstMatch(c, p, port) /\ appstate[c] # Null
       /\ remote' = [remote EXCEPT ![c] = p]
       /\ status' = [status EXCEPT ![appstate[c]] = IF full THEN "UDP_MSG_IN" ELSE "UDP_MSG_NULL"]
       /\ msg_in' = IF full THEN [msg_in EXCEPT ![appstate[c]] = p] ELSE msg_in
       /\ woken' = woken \cup {appstate[c]}
  /\ UNCHANGED <<lport, appstate, udp_conn, msg_out, sender, index, runner,
                 build, asker, owed, wire>>

(* One frame is received: uip_input and uipudp_appcall with new data.  An  *)
(* empty datagram sets the remote and the status and wakes nobody.         *)
Receive(p, port, full) ==
  /\ where = "receive" /\ where' = "tasks"
  /\ \E c \in Conn :
       /\ FirstMatch(c, p, port) /\ appstate[c] # Null
       /\ remote' = [remote EXCEPT ![c] = p]
       /\ LET l == appstate[c] IN
            IF full
            THEN /\ status' = [status EXCEPT ![l] = "UDP_MSG_IN"]
                 /\ msg_in' = [msg_in EXCEPT ![l] = p]
                 /\ woken' = woken \cup {l}
            ELSE /\ status' = [status EXCEPT ![l] = "UDP_MSG_NULL"]
                 /\ UNCHANGED <<msg_in, woken>>
  /\ UNCHANGED <<lport, appstate, udp_conn, msg_out, sender, index, runner,
                 build, asker, owed, wire>>

(* No frame, or one that no listener is to see.                            *)
ReceiveNothing ==
  /\ where = "receive" /\ where' = "tasks"
  /\ UNCHANGED <<connVars, listenerVars, sender, index, runner, build,
                 historyVars>>

NetTick ==
  \/ Tick
  \/ (\E l \in Listener : PollListener(l)) \/ PollSender \/ PollNothing
  \/ (\E p \in Peer, port \in Port, full \in BOOLEAN : Receive(p, port, full))
  \/ ReceiveNothing

Next ==
  \/ \E t \in Task : StartTask(t)
  \/ EndTask
  \/ \E l \in Listener : Listen(l) \/ Recv(l) \/ ResponseTo(l)
  \/ \E l \in Listener, p \in Peer : SendFrom(l, p)
  \/ \E p \in Peer : Send(p)
  \/ NetTick

Spec == Init /\ [][Next]_udpVars

(* A task returns and net_tick goes through its connections.  Between two  *)
(* tasks the loop of a board always comes to net_tick; the native one does *)
(* only when the tasks leave it.                                           *)
FairSpec ==
  /\ Spec
  /\ WF_udpVars(EndTask)
  /\ WF_udpVars(NetTick /\ where # "tasks")
  /\ build = "board" => SF_udpVars(Tick)

-----------------------------------------------------------------------------
(* Every variable stays in its type.                                       *)
TypeOK ==
  /\ lport \in [Conn -> Port \cup {NoPort, AnyPort}]
  /\ remote \in [Conn -> Peer \cup {Nobody}]
  /\ appstate \in [Conn -> Listener \cup {Null}]
  /\ udp_conn \in [Listener -> Conn \cup {Null}]
  /\ status \in [Listener -> MsgStatus]
  /\ msg_in \in [Listener -> Peer \cup {Null}]
  /\ msg_out \in [Listener -> Peer \cup {Null}]
  /\ sender \in Peer \cup {Null}
  /\ where \in {"tasks", "poll", "receive"} /\ index \in Conn
  /\ runner \in Task \cup {Null}
  /\ build \in {"native", "board"}
  /\ woken \in SUBSET Listener
  /\ asker \in [Listener -> Peer \cup {Null}] /\ owed \in [Listener -> BOOLEAN]
  /\ wire \in Datagram \cup {Null}

(* Connections are neither lost nor shared: one for each listener that got *)
(* one, with its port, one for the message in the sender, and no other.    *)
ConnsAccountedFor ==
  /\ \A l \in Listener, c \in Conn :
       udp_conn[l] = c <=> (lport[c] # NoPort /\ appstate[c] = l)
  /\ \A c \in Conn : appstate[c] # Null => lport[c] = PortOf[appstate[c]]
  /\ IF sender = Null
       THEN \A c \in Conn : lport[c] # NoPort => appstate[c] # Null
       ELSE \E c \in Conn : \A d \in Conn :
              d = c <=> (lport[d] # NoPort /\ appstate[d] = Null)

(* What leaves goes to the peer it is meant for: the one whose message was *)
(* answered, or the one it was addressed to, although the connection of a  *)
(* listener has a single remote, which every datagram and every task that  *)
(* sends from it change (udp.h:117-120).                                   *)
AnswersReachTheAsker == wire # Null => wire.to = wire.meant

(* A task that a datagram woke finds it with udp_recv when it runs, in the *)
(* build whose loop runs it before the next net_tick.                      *)
WokenFindsMessage ==
  build = "native" => \A l \in woken : status[l] = "UDP_MSG_IN"

(* A listener that only answers holds one conversation at a time.          *)
Talk == [l \in Listener \ Clients |->
           IF udp_conn[l] = Null THEN Nobody ELSE remote[udp_conn[l]]]
TalkStage == [l \in Listener \ Clients |->
                IF msg_out[l] # Null THEN "answering"
                ELSE IF Talk[l] = Nobody THEN "idle" ELSE "heard"]
CV == INSTANCE Conversation WITH Listener <- Listener \ Clients,
                                 peer <- Talk, stage <- TalkStage
ImplementsConversation == CV!CSpec

(* Tasks and net_tick take the turns of the main loop.                     *)
ML == INSTANCE MainLoop WITH
        cpu <- runner, ticking <- (where # "tasks"), called <- {TaskOf[l] : l \in woken}
ImplementsMainLoop == ML!LSpec

(* What was accepted for sending leaves and makes room for the next.       *)
SenderIsFreed == build = "board" => (sender # Null ~> sender = Null)
=============================================================================
