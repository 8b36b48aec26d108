----------------------------- MODULE UdpProofs -----------------------------
(***************************************************************************)
(* What UdpStack promises for any number of tasks, listeners, peers and    *)
(* connections, when a task answers a message in the turn in which it      *)
(* reads it (Late = FALSE).                                                *)
(*                                                                         *)
(* UdpInv strengthens ConnsAccountedFor, AnswersReachTheAsker and          *)
(* WokenFindsMessage.  The three alone are not inductive: what leaves by a *)
(* connection is right because the remote of the connection is already     *)
(* right while the datagram waits (Addressed), and that because it was     *)
(* right when the task read the message it answers (Owed, Fresh).          *)
(***************************************************************************)
EXTENDS UdpStack, TLAPS

(* What waits to leave waits at a connection set to the peer it is for.    *)
Addressed ==
  /\ \A l \in Listener : msg_out[l] # Null =>
       /\ udp_conn[l] # Null
       /\ remote[udp_conn[l]] = msg_out[l]
  /\ \A c \in Conn : lport[c] # NoPort /\ appstate[c] = Null => remote[c] = sender

(* A datagram not read yet came from the remote of the connection, unless  *)
(* something is about to leave by it.                                      *)
Fresh ==
  \A l \in Listener : status[l] = "UDP_MSG_IN" =>
    /\ udp_conn[l] # Null /\ msg_in[l] # Null
    /\ msg_out[l] = Null => remote[udp_conn[l]] = msg_in[l]

(* So did one that was read in this turn.                                  *)
Owed ==
  \A l \in Listener : owed[l] =>
    /\ runner = TaskOf[l]
    /\ udp_conn[l] # Null /\ asker[l] # Null
    /\ msg_out[l] = Null => remote[udp_conn[l]] = asker[l]

(* Tasks and net_tick take turns, and in the native build net_tick runs    *)
(* when no task is left that it woke.                                      *)
Turns ==
  /\ runner # Null => where = "tasks"
  /\ build = "native" /\ where # "tasks" => woken = {}
  /\ \A l \in woken : TaskOf[l] # runner

StackInv ==
  TypeOK /\ ConnsAccountedFor /\ Fresh /\ Turns /\ WokenFindsMessage

UdpInv == StackInv /\ Addressed /\ Owed /\ AnswersReachTheAsker

-----------------------------------------------------------------------------
(* A listener and its connection point to each other, and a connection     *)
(* that is free belongs to nobody.                                         *)
LEMMA Owner ==
  ASSUME TypeOK, ConnsAccountedFor
  PROVE  /\ \A l \in Listener : udp_conn[l] # Null =>
              /\ udp_conn[l] \in Conn
              /\ lport[udp_conn[l]] # NoPort
              /\ appstate[udp_conn[l]] = l
         /\ \A c \in Conn : lport[c] = NoPort => appstate[c] = Null
         /\ \A c \in Conn : appstate[c] # Null =>
              /\ appstate[c] \in Listener
              /\ udp_conn[appstate[c]] = c
<1>1. \A c \in Conn : lport[c] = NoPort => appstate[c] = Null
  BY UdpAssumption DEF TypeOK, ConnsAccountedFor
<1> QED  BY <1>1 DEF TypeOK, ConnsAccountedFor

(* The first conjunct of UdpInv.                                           *)
LEMMA TypeStep ==
  ASSUME TypeOK, [Next]_udpVars
  PROVE  TypeOK'
<1> USE DEF TypeOK, MsgStatus
<1>1. ASSUME NEW t \in Task, StartTask(t)  PROVE TypeOK'
  BY <1>1 DEF StartTask, connVars, listenerVars
<1>2. CASE EndTask
  BY <1>2 DEF EndTask, connVars, listenerVars
<1>3. ASSUME NEW l \in Listener, Listen(l)  PROVE TypeOK'
  <2>1. PortOf[l] \in Port  BY UdpAssumption
  <2>2. /\ lport' \in [Conn -> Port \cup {NoPort, AnyPort}]
        /\ remote' \in [Conn -> Peer \cup {Nobody}]
        /\ appstate' \in [Conn -> Listener \cup {Null}]
        /\ udp_conn' \in [Listener -> Conn \cup {Null}]
    <3>1. CASE UNCHANGED <<connVars, udp_conn>>  BY <3>1 DEF connVars
    <3>2. CASE \E c \in Conn :
                 /\ lport' = [lport EXCEPT ![c] = PortOf[l]]
                 /\ remote' = [remote EXCEPT ![c] = Nobody]
                 /\ appstate' = [appstate EXCEPT ![c] = l]
                 /\ udp_conn' = [udp_conn EXCEPT ![l] = c]
      BY <3>2, <2>1
    <3> QED  BY <1>3, <3>1, <3>2 DEF Listen
  <2> QED  BY <1>3, <2>2 DEF Listen, turnVars, historyVars
<1>4. ASSUME NEW l \in Listener, Recv(l)  PROVE TypeOK'
  BY <1>4 DEF Recv, connVars, turnVars
<1>5. ASSUME NEW l \in Listener, ResponseTo(l)  PROVE TypeOK'
  BY <1>5 DEF ResponseTo, connVars, turnVars
<1>6. ASSUME NEW l \in Listener, NEW p \in Peer, SendFrom(l, p)  PROVE TypeOK'
  BY <1>6 DEF SendFrom, turnVars, historyVars
<1>7. ASSUME NEW p \in Peer, Send(p)  PROVE TypeOK'
  BY <1>7 DEF Send, listenerVars, turnVars, historyVars
<1>8. CASE Tick
  BY <1>8, UdpAssumption DEF Tick, connVars, listenerVars, historyVars, Conn
<1>9. Onward => index' \in Conn /\ where' \in {"tasks", "poll", "receive"}
  BY UdpAssumption DEF Onward, Conn
<1>10. ASSUME NEW meant \in Peer, Leaves(meant)
       PROVE  wire' \in Datagram \cup {Null} /\ remote' \in [Conn -> Peer \cup {Nobody}]
  BY <1>10 DEF Leaves, Datagram
<1>11. ASSUME NEW l \in Listener, PollListener(l)  PROVE TypeOK'
  <2>1. msg_out[l] \in Peer  BY <1>11 DEF PollListener
  <2>2. Onward /\ Leaves(msg_out[l])  BY <1>11 DEF PollListener
  <2>3. /\ index' \in Conn /\ where' \in {"tasks", "poll", "receive"}
        /\ wire' \in Datagram \cup {Null}
        /\ remote' \in [Conn -> Peer \cup {Nobody}]
    BY <2>1, <2>2, <1>9, <1>10
  <2> QED  BY <1>11, <2>3 DEF PollListener, Onward
<1>12. CASE PollSender
  <2>1. sender \in Peer  BY <1>12 DEF PollSender
  <2>2. Onward /\ Leaves(sender)  BY <1>12 DEF PollSender
  <2>3. /\ index' \in Conn /\ where' \in {"tasks", "poll", "receive"}
        /\ wire' \in Datagram \cup {Null}
        /\ remote' \in [Conn -> Peer \cup {Nobody}]
    BY <2>1, <2>2, <1>9, <1>10
  <2> QED  BY <1>12, <2>3 DEF PollSender, Onward, listenerVars
<1>13. CASE PollNothing
  BY <1>13, <1>9 DEF PollNothing, Onward, connVars, listenerVars
<1>14. ASSUME NEW p \in Peer, NEW port \in Port, NEW full \in BOOLEAN,
              Receive(p, port, full)
       PROVE  TypeOK'
  BY <1>14 DEF Receive
<1>15. CASE ReceiveNothing
  BY <1>15 DEF ReceiveNothing, connVars, listenerVars, historyVars
<1>16. CASE UNCHANGED udpVars
  BY <1>16 DEF udpVars, connVars, listenerVars, turnVars, historyVars
<1> QED
  BY <1>1, <1>2, <1>3, <1>4, <1>5, <1>6, <1>7, <1>8, <1>11, <1>12, <1>13,
     <1>14, <1>15, <1>16 DEF Next, NetTick

(* ConnsAccountedFor and the type invariant are inductive by themselves.   *)
LEMMA ConnsStep ==
  ASSUME TypeOK, ConnsAccountedFor, [Next]_udpVars
  PROVE  ConnsAccountedFor'
<1> USE DEF TypeOK, ConnsAccountedFor
<1>0. UNCHANGED <<lport, appstate, udp_conn, sender>> => ConnsAccountedFor'
  OBVIOUS
<1>1. ASSUME NEW l \in Listener, Listen(l)  PROVE ConnsAccountedFor'
  <2>1. CASE UNCHANGED <<connVars, udp_conn>>
    BY <1>1, <2>1, <1>0 DEF Listen, connVars
  <2>2. ASSUME NEW c \in Conn, FirstFree(c),
               lport' = [lport EXCEPT ![c] = PortOf[l]],
               appstate' = [appstate EXCEPT ![c] = l],
               udp_conn' = [udp_conn EXCEPT ![l] = c]
        PROVE  ConnsAccountedFor'
    <3>1. lport[c] = NoPort /\ appstate[c] = Null
      BY <2>2, Owner DEF FirstFree
    <3>2. PortOf[l] # NoPort /\ l # Null /\ Null \notin Conn
      BY UdpAssumption DEF Conn
    <3>3. udp_conn[l] = Null /\ sender' = sender
      BY <1>1 DEF Listen
    <3>4. \A m \in Listener, d \in Conn :
            udp_conn'[m] = d <=> (lport'[d] # NoPort /\ appstate'[d] = m)
      BY <2>2, <3>1, <3>2, <3>3
    <3>5. \A d \in Conn : appstate'[d] # Null => lport'[d] = PortOf[appstate'[d]]
      BY <2>2
    <3>6. \A d \in Conn : (lport'[d] # NoPort /\ appstate'[d] = Null)
                          <=> (lport[d] # NoPort /\ appstate[d] = Null)
      BY <2>2, <3>1, <3>2
    <3> QED  BY <3>3, <3>4, <3>5, <3>6
  <2> QED  BY <1>1, <2>1, <2>2 DEF Listen
<1>2. ASSUME NEW p \in Peer, Send(p)  PROVE ConnsAccountedFor'
  <2>1. PICK c \in Conn : FirstFree(c) /\ lport' = [lport EXCEPT ![c] = AnyPort]
    BY <1>2 DEF Send
  <2>2. lport[c] = NoPort /\ appstate[c] = Null
    BY <2>1, Owner DEF FirstFree
  <2>3. /\ sender = Null /\ sender' = p /\ p # Null /\ AnyPort # NoPort
        /\ appstate' = appstate /\ udp_conn' = udp_conn
    BY <1>2, UdpAssumption DEF Send, listenerVars
  <2>4. \A m \in Listener, d \in Conn :
          udp_conn'[m] = d <=> (lport'[d] # NoPort /\ appstate'[d] = m)
    BY <2>1, <2>2, <2>3, UdpAssumption
  <2>5. \A d \in Conn : appstate'[d] # Null => lport'[d] = PortOf[appstate'[d]]
    BY <2>1, <2>2, <2>3
  <2>6. \A d \in Conn : d = c <=> (lport'[d] # NoPort /\ appstate'[d] = Null)
    BY <2>1, <2>2, <2>3
  <2> QED  BY <2>3, <2>4, <2>5, <2>6
<1>3. CASE PollSender
  <2>1. /\ lport[index] # NoPort /\ appstate[index] = Null /\ sender # Null
        /\ lport' = [lport EXCEPT ![index] = NoPort] /\ sender' = Null
        /\ appstate' = appstate /\ udp_conn' = udp_conn
    BY <1>3 DEF PollSender, Used, listenerVars
  <2>2. \A m \in Listener, d \in Conn :
          udp_conn'[m] = d <=> (lport'[d] # NoPort /\ appstate'[d] = m)
    BY <2>1, UdpAssumption
  <2>3. \A d \in Conn : appstate'[d] # Null => lport'[d] = PortOf[appstate'[d]]
    BY <2>1
  <2>4. \A d \in Conn : lport'[d] # NoPort => appstate'[d] # Null
    BY <2>1
  <2> QED  BY <2>1, <2>2, <2>3, <2>4
<1>4. CASE \/ \E t \in Task : StartTask(t)
           \/ EndTask \/ Tick \/ PollNothing \/ ReceiveNothing
  BY <1>4, <1>0 DEF StartTask, EndTask, Tick, PollNothing, ReceiveNothing,
                    connVars, listenerVars
<1>5. CASE \E l \in Listener : Recv(l) \/ ResponseTo(l) \/ PollListener(l)
  BY <1>5, <1>0 DEF Recv, ResponseTo, PollListener, connVars
<1>6. CASE \E l \in Listener, p \in Peer : SendFrom(l, p)
  BY <1>6, <1>0 DEF SendFrom
<1>7. CASE \E p \in Peer, port \in Port, full \in BOOLEAN : Receive(p, port, full)
  BY <1>7, <1>0 DEF Receive
<1>8. CASE UNCHANGED udpVars
  BY <1>8, <1>0 DEF udpVars, connVars, listenerVars
<1> QED
  BY <1>1, <1>2, <1>3, <1>4, <1>5, <1>6, <1>7, <1>8 DEF Next, NetTick

(* Addressed: whoever changes the remote of a connection either has found  *)
(* it free, or changes what waits there as well, or sets it to what it is. *)
LEMMA AddressedStep ==
  ASSUME ~Late, TypeOK, ConnsAccountedFor, Addressed, Owed, [Next]_udpVars
  PROVE  Addressed'
<1> USE DEF TypeOK, Addressed
<1>0. UNCHANGED <<lport, remote, appstate, udp_conn, msg_out, sender>> => Addressed'
  OBVIOUS
<1>1. ASSUME NEW l \in Listener, Listen(l)  PROVE Addressed'
  <2>1. /\ udp_conn[l] = Null /\ sender' = sender
        /\ msg_out' = [msg_out EXCEPT ![l] = Null]
    BY <1>1 DEF Listen
  <2>2. CASE UNCHANGED <<connVars, udp_conn>>
    BY <2>1, <2>2 DEF connVars
  <2>3. ASSUME NEW c \in Conn, FirstFree(c),
               lport' = [lport EXCEPT ![c] = PortOf[l]],
               remote' = [remote EXCEPT ![c] = Nobody],
               appstate' = [appstate EXCEPT ![c] = l],
               udp_conn' = [udp_conn EXCEPT ![l] = c]
        PROVE  Addressed'
    <3>1. \A m \in Listener : m # l => udp_conn[m] # c
      BY <2>3 DEF FirstFree, ConnsAccountedFor
    <3>2. l # Null  BY UdpAssumption
    <3> QED  BY <2>1, <2>3, <3>1, <3>2
  <2> QED  BY <1>1, <2>2, <2>3 DEF Listen
<1>2. ASSUME NEW l \in Listener, ResponseTo(l)  PROVE Addressed'
  BY <1>2 DEF ResponseTo, connVars, Owed
<1>3. ASSUME NEW l \in Listener, NEW p \in Peer, SendFrom(l, p)  PROVE Addressed'
  <2>1. /\ udp_conn[l] \in Conn /\ appstate[udp_conn[l]] = l
        /\ \A m \in Listener : m # l => udp_conn[m] # udp_conn[l]
    BY <1>3, Owner DEF SendFrom
  <2>2. l # Null  BY UdpAssumption
  <2> QED  BY <1>3, <2>1, <2>2 DEF SendFrom
<1>4. ASSUME NEW p \in Peer, Send(p)  PROVE Addressed'
  <2>1. PICK c \in Conn : /\ FirstFree(c)
                          /\ lport' = [lport EXCEPT ![c] = AnyPort]
                          /\ remote' = [remote EXCEPT ![c] = p]
    BY <1>4 DEF Send
  <2>2. \A m \in Listener : udp_conn[m] # c
    BY <2>1 DEF FirstFree, ConnsAccountedFor
  <2>3. /\ sender = Null /\ sender' = p
        /\ UNCHANGED <<appstate, udp_conn, msg_out>>
    BY <1>4 DEF Send, listenerVars
  <2>4. \A d \in Conn : lport[d] # NoPort => appstate[d] # Null
    BY <2>3 DEF ConnsAccountedFor
  <2> QED  BY <2>1, <2>2, <2>3, <2>4
<1>5. ASSUME NEW l \in Listener, PollListener(l)  PROVE Addressed'
  <2>1. /\ appstate[index] = l /\ lport[index] # NoPort /\ l # Null
        /\ remote' = [remote EXCEPT ![index] = Nobody]
        /\ msg_out' = [msg_out EXCEPT ![l] = Null]
        /\ UNCHANGED <<lport, appstate, udp_conn, sender>>
    BY <1>5, UdpAssumption DEF PollListener, Used, Leaves
  <2>2. \A m \in Listener : m # l => udp_conn[m] # index
    BY <2>1 DEF ConnsAccountedFor
  <2> QED  BY <2>1, <2>2
<1>6. CASE PollSender
  <2>1. /\ appstate[index] = Null /\ lport[index] # NoPort
        /\ remote' = [remote EXCEPT ![index] = Nobody]
        /\ lport' = [lport EXCEPT ![index] = NoPort]
        /\ sender # Null /\ sender' = Null
        /\ UNCHANGED <<appstate, udp_conn, msg_out>>
    BY <1>6 DEF PollSender, Used, Leaves, listenerVars
  <2>2. \A m \in Listener : udp_conn[m] # index
    BY <2>1, UdpAssumption DEF ConnsAccountedFor
  <2>3. \A c \in Conn : lport'[c] # NoPort => appstate'[c] # Null
    BY <2>1 DEF ConnsAccountedFor
  <2> QED  BY <2>1, <2>2, <2>3
<1>7. ASSUME NEW p \in Peer, NEW port \in Port, NEW full \in BOOLEAN,
             Receive(p, port, full)
      PROVE  Addressed'
  <2>1. PICK c \in Conn : /\ FirstMatch(c, p, port) /\ appstate[c] # Null
                          /\ remote' = [remote EXCEPT ![c] = p]
    BY <1>7 DEF Receive
  <2>2. /\ remote[c] \in {Nobody, p}
        /\ UNCHANGED <<lport, appstate, udp_conn, msg_out, sender>>
    BY <1>7, <2>1 DEF Receive, FirstMatch, Accepts
  <2>3. \A m \in Listener : msg_out[m] # Null => msg_out[m] # Nobody
    BY UdpAssumption
  <2> QED  BY <2>1, <2>2, <2>3
<1>8. CASE \/ \E t \in Task : StartTask(t)
           \/ EndTask \/ Tick \/ PollNothing \/ ReceiveNothing
  BY <1>8, <1>0 DEF StartTask, EndTask, Tick, PollNothing, ReceiveNothing,
                    connVars, listenerVars
<1>9. CASE \E l \in Listener : Recv(l)
  BY <1>9, <1>0 DEF Recv, connVars
<1>10. CASE UNCHANGED udpVars
  BY <1>10, <1>0 DEF udpVars, connVars, listenerVars
<1> QED
  BY <1>1, <1>2, <1>3, <1>4, <1>5, <1>6, <1>7, <1>8, <1>9, <1>10
     DEF Next, NetTick

(* Fresh: what changes the remote of a listener without sending from it is *)
(* a datagram to that listener.                                            *)
LEMMA FreshStep ==
  ASSUME TypeOK, ConnsAccountedFor, Fresh, [Next]_udpVars
  PROVE  Fresh'
<1> USE DEF TypeOK, Fresh
<1>0. UNCHANGED <<remote, udp_conn, status, msg_in, msg_out>> => Fresh'
  OBVIOUS
<1>1. ASSUME NEW l \in Listener, Listen(l)  PROVE Fresh'
  <2>1. /\ udp_conn[l] = Null
        /\ status' = [status EXCEPT ![l] = "UDP_MSG_NULL"]
        /\ msg_out' = [msg_out EXCEPT ![l] = Null] /\ msg_in' = msg_in
    BY <1>1 DEF Listen
  <2>2. CASE UNCHANGED <<connVars, udp_conn>>
    BY <2>1, <2>2 DEF connVars
  <2>3. ASSUME NEW c \in Conn, FirstFree(c),
               remote' = [remote EXCEPT ![c] = Nobody],
               udp_conn' = [udp_conn EXCEPT ![l] = c]
        PROVE  Fresh'
    <3>1. \A m \in Listener : m # l => udp_conn[m] # c
      BY <2>3 DEF FirstFree, ConnsAccountedFor
    <3> QED  BY <2>1, <2>3, <3>1
  <2> QED  BY <1>1, <2>2, <2>3 DEF Listen
<1>2. ASSUME NEW l \in Listener, Recv(l)  PROVE Fresh'
  BY <1>2 DEF Recv, connVars
<1>3. ASSUME NEW l \in Listener, ResponseTo(l)  PROVE Fresh'
  BY <1>3 DEF ResponseTo, connVars
<1>4. ASSUME NEW l \in Listener, NEW p \in Peer, SendFrom(l, p)  PROVE Fresh'
  <2>1. \A m \in Listener : m # l => udp_conn[m] # udp_conn[l]
    BY <1>4, Owner DEF SendFrom
  <2>2. p # Null  BY UdpAssumption
  <2> QED  BY <1>4, <2>1, <2>2 DEF SendFrom
<1>5. ASSUME NEW p \in Peer, Send(p)  PROVE Fresh'
  <2>1. PICK c \in Conn : FirstFree(c) /\ remote' = [remote EXCEPT ![c] = p]
    BY <1>5 DEF Send
  <2>2. \A m \in Listener : udp_conn[m] # c
    BY <2>1 DEF FirstFree, ConnsAccountedFor
  <2> QED  BY <1>5, <2>1, <2>2 DEF Send, listenerVars
<1>6. ASSUME NEW l \in Listener, PollListener(l)  PROVE Fresh'
  <2>1. /\ appstate[index] = l /\ lport[index] # NoPort
        /\ remote' = [remote EXCEPT ![index] = Nobody]
        /\ status' = [status EXCEPT ![l] = "UDP_MSG_SENDED"]
        /\ msg_out' = [msg_out EXCEPT ![l] = Null]
        /\ UNCHANGED <<udp_conn, msg_in>>
    BY <1>6 DEF PollListener, Used, Leaves
  <2>2. \A m \in Listener : m # l => udp_conn[m] # index
    BY <2>1 DEF ConnsAccountedFor
  <2> QED  BY <2>1, <2>2
<1>7. CASE PollSender
  <2>1. /\ appstate[index] = Null
        /\ remote' = [remote EXCEPT ![index] = Nobody]
        /\ UNCHANGED <<udp_conn, status, msg_in, msg_out>>
    BY <1>7 DEF PollSender, Leaves, listenerVars
  <2>2. \A m \in Listener : udp_conn[m] # index
    BY <2>1, UdpAssumption DEF ConnsAccountedFor
  <2> QED  BY <2>1, <2>2
<1>8. ASSUME NEW p \in Peer, NEW port \in Port, NEW full \in BOOLEAN,
             Receive(p, port, full)
      PROVE  Fresh'
  <2>1. PICK c \in Conn :
          /\ appstate[c] # Null
          /\ remote' = [remote EXCEPT ![c] = p]
          /\ \/ /\ status' = [status EXCEPT ![appstate[c]] = "UDP_MSG_IN"]
                /\ msg_in' = [msg_in EXCEPT ![appstate[c]] = p]
             \/ /\ status' = [status EXCEPT ![appstate[c]] = "UDP_MSG_NULL"]
                /\ msg_in' = msg_in
    BY <1>8 DEF Receive
  <2>2. /\ appstate[c] \in Listener /\ udp_conn[appstate[c]] = c
        /\ \A m \in Listener : m # appstate[c] => udp_conn[m] # c
    BY <2>1, Owner DEF ConnsAccountedFor
  <2>3. p # Null /\ Null \notin Conn  BY UdpAssumption DEF Conn
  <2>4. UNCHANGED <<udp_conn, msg_out>>  BY <1>8 DEF Receive
  <2> QED  BY <2>1, <2>2, <2>3, <2>4
<1>9. CASE \/ \E t \in Task : StartTask(t)
           \/ EndTask \/ Tick \/ PollNothing \/ ReceiveNothing
  BY <1>9, <1>0 DEF StartTask, EndTask, Tick, PollNothing, ReceiveNothing,
                    connVars, listenerVars
<1>10. CASE UNCHANGED udpVars
  BY <1>10, <1>0 DEF udpVars, connVars, listenerVars
<1> QED
  BY <1>1, <1>2, <1>3, <1>4, <1>5, <1>6, <1>7, <1>8, <1>9, <1>10
     DEF Next, NetTick

(* Owed: nothing is owed while net_tick runs.                              *)
LEMMA OwedStep ==
  ASSUME ~Late, TypeOK, ConnsAccountedFor, Fresh, Owed, Turns, [Next]_udpVars
  PROVE  Owed'
<1> USE DEF TypeOK, Owed
<1>0. UNCHANGED <<remote, udp_conn, msg_out, runner, asker, owed>> => Owed'
  OBVIOUS
<1>1. runner = Null => \A l \in Listener : ~owed[l]
  BY UdpAssumption
<1>2. CASE runner = Null /\ owed' = owed
  BY <1>1, <1>2
<1>3. CASE EndTask
  BY <1>3 DEF EndTask
<1>4. ASSUME NEW l \in Listener, Listen(l)  PROVE Owed'
  <2>1. /\ udp_conn[l] = Null
        /\ msg_out' = [msg_out EXCEPT ![l] = Null]
        /\ UNCHANGED <<runner, asker, owed>>
    BY <1>4 DEF Listen, turnVars, historyVars
  <2>2. CASE UNCHANGED <<connVars, udp_conn>>
    BY <2>1, <2>2 DEF connVars
  <2>3. ASSUME NEW c \in Conn, FirstFree(c),
               remote' = [remote EXCEPT ![c] = Nobody],
               udp_conn' = [udp_conn EXCEPT ![l] = c]
        PROVE  Owed'
    <3>1. \A m \in Listener : m # l => udp_conn[m] # c
      BY <2>3 DEF FirstFree, ConnsAccountedFor
    <3> QED  BY <2>1, <2>3, <3>1
  <2> QED  BY <1>4, <2>2, <2>3 DEF Listen
<1>5. ASSUME NEW l \in Listener, Recv(l)  PROVE Owed'
  BY <1>5 DEF Recv, connVars, turnVars, Fresh
<1>6. ASSUME NEW l \in Listener, ResponseTo(l)  PROVE Owed'
  BY <1>6 DEF ResponseTo, connVars, turnVars
<1>7. ASSUME NEW l \in Listener, NEW p \in Peer, SendFrom(l, p)  PROVE Owed'
  <2>1. \A m \in Listener : m # l => udp_conn[m] # udp_conn[l]
    BY <1>7, Owner DEF SendFrom
  <2>2. p # Null  BY UdpAssumption
  <2> QED  BY <1>7, <2>1, <2>2 DEF SendFrom, turnVars, historyVars
<1>8. ASSUME NEW p \in Peer, Send(p)  PROVE Owed'
  <2>1. PICK c \in Conn : FirstFree(c) /\ remote' = [remote EXCEPT ![c] = p]
    BY <1>8 DEF Send
  <2>2. \A m \in Listener : udp_conn[m] # c
    BY <2>1 DEF FirstFree, ConnsAccountedFor
  <2> QED  BY <1>8, <2>1, <2>2 DEF Send, listenerVars, turnVars, historyVars
<1>9. CASE \E t \in Task : StartTask(t)
  BY <1>2, <1>9 DEF StartTask
<1>10. CASE NetTick
  <2>1. owed' = owed
    BY <1>10 DEF NetTick, Tick, PollListener, PollSender, PollNothing, Onward,
                 Receive, ReceiveNothing, historyVars
  <2>2. runner = Null
    BY <1>10 DEF NetTick, Tick, PollListener, PollSender, PollNothing, Receive,
                 ReceiveNothing, Turns
  <2> QED  BY <1>2, <2>1, <2>2
<1>11. CASE UNCHANGED udpVars
  BY <1>11, <1>0 DEF udpVars, connVars, listenerVars, turnVars, historyVars
<1> QED
  BY <1>3, <1>4, <1>5, <1>6, <1>7, <1>8, <1>9, <1>10, <1>11 DEF Next

(* Turns: only Receive wakes a task, and it hands the turn back.           *)
LEMMA TurnsStep ==
  ASSUME TypeOK, Turns, [Next]_udpVars
  PROVE  Turns'
<1> USE DEF TypeOK, Turns
<1>1. UNCHANGED <<where, runner, build, woken>> => Turns'
  OBVIOUS
<1>2. CASE \E t \in Task : StartTask(t)
  BY <1>2 DEF StartTask
<1>3. CASE EndTask
  BY <1>3, UdpAssumption DEF EndTask
<1>4. CASE \/ \E l \in Listener : Listen(l) \/ Recv(l) \/ ResponseTo(l)
           \/ \E l \in Listener, p \in Peer : SendFrom(l, p)
           \/ \E p \in Peer : Send(p)
  BY <1>4, <1>1 DEF Listen, Recv, ResponseTo, SendFrom, Send, turnVars,
                    historyVars
<1>5. CASE Tick
  BY <1>5 DEF Tick, historyVars
<1>6. CASE (\E l \in Listener : PollListener(l)) \/ PollSender \/ PollNothing
  BY <1>6 DEF PollListener, PollSender, PollNothing, Onward
<1>7. CASE \E p \in Peer, port \in Port, full \in BOOLEAN : Receive(p, port, full)
  <2>1. /\ where = "receive" /\ where' = "tasks" /\ runner' = runner
        /\ woken' \subseteq Listener /\ build' = build
    BY <1>7 DEF Receive
  <2>2. runner = Null /\ \A l \in Listener : TaskOf[l] # runner
    BY <2>1, UdpAssumption
  <2> QED  BY <2>1, <2>2
<1>8. CASE ReceiveNothing
  BY <1>8 DEF ReceiveNothing, historyVars
<1>9. CASE UNCHANGED udpVars
  BY <1>9, <1>1 DEF udpVars, turnVars, historyVars
<1> QED
  BY <1>2, <1>3, <1>4, <1>5, <1>6, <1>7, <1>8, <1>9 DEF Next, NetTick

(* What a connection sends was addressed before.                           *)
LEMMA AnswersStep ==
  ASSUME TypeOK, ConnsAccountedFor, Addressed, AnswersReachTheAsker,
         [Next]_udpVars
  PROVE  AnswersReachTheAsker'
<1> USE DEF AnswersReachTheAsker
<1>1. ASSUME NEW l \in Listener, PollListener(l)  PROVE AnswersReachTheAsker'
  <2>1. /\ index \in Conn /\ lport[index] # NoPort
        /\ appstate[index] = l /\ msg_out[l] # Null
        /\ wire' \in {[to |-> remote[index], meant |-> msg_out[l]], Null}
    BY <1>1 DEF PollListener, Used, Leaves, TypeOK
  <2>2. remote[index] = msg_out[l]
    BY <2>1 DEF ConnsAccountedFor, Addressed
  <2> QED  BY <2>1, <2>2
<1>2. CASE PollSender
  <2>1. /\ index \in Conn /\ lport[index] # NoPort /\ appstate[index] = Null
        /\ wire' \in {[to |-> remote[index], meant |-> sender], Null}
    BY <1>2 DEF PollSender, Used, Leaves, TypeOK
  <2>2. remote[index] = sender
    BY <2>1 DEF Addressed
  <2> QED  BY <2>1, <2>2
<1>3. CASE wire' = wire
  BY <1>3
<1> QED
  BY <1>1, <1>2, <1>3
     DEF Next, NetTick, StartTask, EndTask, Listen, Recv, ResponseTo, SendFrom,
         Send, Tick, PollNothing, Receive, ReceiveNothing, udpVars, historyVars

(* The status of a listener changes by its own task or in net_tick.        *)
LEMMA WokenStep ==
  ASSUME TypeOK, Fresh, Turns, WokenFindsMessage, [Next]_udpVars
  PROVE  WokenFindsMessage'
<1> USE DEF WokenFindsMessage, TypeOK
<1>1. ASSUME NEW l \in Listener, Listen(l)  PROVE WokenFindsMessage'
  <2>1. status[l] # "UDP_MSG_IN"
    BY <1>1 DEF Listen, Fresh
  <2> QED  BY <1>1, <2>1 DEF Listen, turnVars, historyVars
<1>2. ASSUME NEW l \in Listener, Recv(l)  PROVE WokenFindsMessage'
  BY <1>2 DEF Recv, turnVars, Turns
<1>3. ASSUME NEW l \in Listener, PollListener(l)  PROVE WokenFindsMessage'
  BY <1>3 DEF PollListener, Onward, Turns
<1>4. ASSUME NEW p \in Peer, NEW port \in Port, NEW full \in BOOLEAN,
             Receive(p, port, full)
      PROVE  WokenFindsMessage'
  <2>1. PICK c \in Conn :
          /\ appstate[c] # Null
          /\ IF full
             THEN /\ status' = [status EXCEPT ![appstate[c]] = "UDP_MSG_IN"]
                  /\ woken' = woken \cup {appstate[c]}
             ELSE woken' = woken
    BY <1>4 DEF Receive
  <2>2. appstate[c] \in Listener  BY <2>1
  <2>3. build = "native" => woken = {}  BY <1>4 DEF Receive, Turns
  <2>4. build' = build  BY <1>4 DEF Receive
  <2> QED  BY <2>1, <2>2, <2>3, <2>4
<1>5. CASE \E t \in Task : StartTask(t)
  BY <1>5 DEF StartTask, listenerVars
<1>6. CASE UNCHANGED <<build, status, woken>>
  BY <1>6
<1> QED
  BY <1>1, <1>2, <1>3, <1>4, <1>5, <1>6
     DEF Next, NetTick, EndTask, ResponseTo, SendFrom, Send, Tick, PollSender,
         PollNothing, ReceiveNothing, Onward, udpVars, listenerVars, turnVars,
         historyVars

-----------------------------------------------------------------------------
(* Whenever tasks answer, connections, turns and unread datagrams are in   *)
(* order.                                                                  *)
THEOREM StackInvariant == Spec => []StackInv
<1>1. Init => StackInv
  BY UdpAssumption DEF Init, StackInv, TypeOK, MsgStatus, ConnsAccountedFor,
     Fresh, Turns, WokenFindsMessage, Conn
<1>2. StackInv /\ [Next]_udpVars => StackInv'
  BY TypeStep, ConnsStep, FreshStep, TurnsStep, WokenStep DEF StackInv
<1> QED  BY <1>1, <1>2, PTL DEF Spec

(* UdpInv holds if they answer in the turn in which they read.             *)
THEOREM UdpInvariant ==
  ASSUME ~Late
  PROVE  Spec => []UdpInv
<1>1. Init => UdpInv
  <2>1. Init => StackInv
    BY UdpAssumption DEF Init, StackInv, TypeOK, MsgStatus, ConnsAccountedFor,
       Fresh, Turns, WokenFindsMessage, Conn
  <2>2. Init => Addressed /\ Owed /\ AnswersReachTheAsker
    BY DEF Init, Addressed, Owed, AnswersReachTheAsker
  <2> QED  BY <2>1, <2>2 DEF UdpInv
<1>2. UdpInv /\ [Next]_udpVars => UdpInv'
  BY TypeStep, ConnsStep, AddressedStep, FreshStep, OwedStep, TurnsStep,
     AnswersStep, WokenStep DEF UdpInv, StackInv
<1> QED  BY <1>1, <1>2, PTL DEF Spec

(* No connection is lost or shared, whenever tasks answer.                 *)
THEOREM ConnectionsAddUp == Spec => []ConnsAccountedFor
<1>1. StackInv => ConnsAccountedFor  BY DEF StackInv
<1> QED  BY <1>1, StackInvariant, PTL

(* In the native build a task that was woken finds the datagram.           *)
THEOREM WokenTasksFindMessages == Spec => []WokenFindsMessage
<1>1. StackInv => WokenFindsMessage  BY DEF StackInv
<1> QED  BY <1>1, StackInvariant, PTL

(* What leaves goes to the peer it is meant for.                           *)
THEOREM AnswersAreAddressed ==
  ASSUME ~Late
  PROVE  Spec => []AnswersReachTheAsker
<1>1. UdpInv => AnswersReachTheAsker  BY DEF UdpInv
<1> QED  BY <1>1, UdpInvariant, PTL

-----------------------------------------------------------------------------
(* The refinement.  A step that leaves the remote, the connection and the  *)
(* waiting datagram of every answering listener alone is a stutter.        *)
Answering == Listener \ Clients

LEMMA TalkUnchanged ==
  ASSUME TypeOK, ConnsAccountedFor,
         \A l \in Answering :
           /\ msg_out'[l] = Null <=> msg_out[l] = Null
           /\ \/ /\ udp_conn'[l] = udp_conn[l]
                 /\ udp_conn[l] # Null => remote'[udp_conn[l]] = remote[udp_conn[l]]
              \/ udp_conn[l] = Null /\ remote'[udp_conn'[l]] = Nobody
  PROVE  UNCHANGED <<Talk, TalkStage>>
<1>1. Talk' = Talk
  BY DEF Talk, Answering
<1>2. TalkStage' = TalkStage
  BY <1>1 DEF TalkStage, Answering
<1> QED  BY <1>1, <1>2

LEMMA TalkStep ==
  ASSUME UdpInv, ~Late, [Next]_udpVars
  PROVE  [CV!CNext]_(CV!talkVars)
<1> DEFINE Goal == [CV!CNext]_(CV!talkVars)
<1> USE DEF UdpInv, StackInv, TypeOK
<1>0. UNCHANGED <<Talk, TalkStage>> => Goal
  BY DEF CV!talkVars
<1>1. ASSUME UNCHANGED <<remote, udp_conn, msg_out>>  PROVE Goal
  BY <1>1, <1>0, TalkUnchanged
<1>2. ASSUME NEW l \in Listener, Listen(l)  PROVE Goal
  <2>1. /\ udp_conn[l] = Null /\ msg_out[l] = Null
        /\ msg_out' = [msg_out EXCEPT ![l] = Null]
    BY <1>2 DEF Listen, Addressed
  <2>2. CASE UNCHANGED <<connVars, udp_conn>>
    BY <2>1, <2>2, <1>1 DEF connVars
  <2>3. ASSUME NEW c \in Conn, FirstFree(c),
               remote' = [remote EXCEPT ![c] = Nobody],
               udp_conn' = [udp_conn EXCEPT ![l] = c]
        PROVE  Goal
    <3>1. \A m \in Listener : m # l => udp_conn[m] # c
      BY <2>3 DEF FirstFree, ConnsAccountedFor
    <3> QED  BY <2>1, <2>3, <3>1, <1>0, TalkUnchanged DEF Answering
  <2> QED  BY <1>2, <2>2, <2>3 DEF Listen
<1>3. ASSUME NEW l \in Listener, ResponseTo(l)  PROVE Goal
  <2>1. /\ owed[l] /\ msg_out[l] = Null /\ asker[l] \in Peer
        /\ msg_out' = [msg_out EXCEPT ![l] = asker[l]]
        /\ udp_conn[l] # Null /\ remote[udp_conn[l]] = asker[l]
        /\ UNCHANGED <<remote, udp_conn>>
    BY <1>3 DEF ResponseTo, connVars, Owed
  <2>2. asker[l] # Null /\ asker[l] # Nobody
    BY <2>1, UdpAssumption
  <2>3. Talk' = Talk
    BY <2>1 DEF Talk
  <2>4. CASE l \in Clients
    <3>1. \A m \in Answering : msg_out'[m] = msg_out[m]
      BY <2>1, <2>4 DEF Answering
    <3> QED  BY <2>1, <3>1, <1>0, TalkUnchanged DEF Answering
  <2>5. CASE l \in Answering
    <3>1. Talk[l] = asker[l] /\ TalkStage[l] = "heard"
      BY <2>1, <2>2, <2>5 DEF Talk, TalkStage, Answering
    <3>2. TalkStage' = [TalkStage EXCEPT ![l] = "answering"]
      <4>1. \A m \in Answering :
              TalkStage'[m] = IF m = l THEN "answering" ELSE TalkStage[m]
        BY <2>1, <2>2, <2>3 DEF TalkStage, Answering
      <4> QED  BY <4>1 DEF TalkStage, Answering
    <3> QED  BY <2>3, <2>5, <3>1, <3>2 DEF CV!CNext, CV!Answer, Answering
  <2> QED  BY <2>4, <2>5 DEF Answering
<1>4. ASSUME NEW l \in Listener, NEW p \in Peer, SendFrom(l, p)  PROVE Goal
  <2>1. /\ \A m \in Listener : m # l => udp_conn[m] # udp_conn[l]
        /\ l \notin Answering
    BY <1>4, Owner DEF SendFrom, Answering
  <2> QED  BY <1>4, <2>1, <1>0, TalkUnchanged DEF SendFrom, Answering
<1>5. ASSUME NEW p \in Peer, Send(p)  PROVE Goal
  <2>1. PICK c \in Conn : FirstFree(c) /\ remote' = [remote EXCEPT ![c] = p]
    BY <1>5 DEF Send
  <2>2. \A m \in Listener : udp_conn[m] # c
    BY <2>1 DEF FirstFree, ConnsAccountedFor
  <2> QED
    BY <1>5, <2>1, <2>2, <1>0, TalkUnchanged DEF Send, listenerVars, Answering
<1>6. ASSUME NEW l \in Listener, PollListener(l)  PROVE Goal
  <2>1. /\ lport[index] # NoPort /\ appstate[index] = l /\ msg_out[l] # Null
        /\ remote' = [remote EXCEPT ![index] = Nobody]
        /\ msg_out' = [msg_out EXCEPT ![l] = Null]
        /\ udp_conn' = udp_conn
    BY <1>6 DEF PollListener, Used, Leaves
  <2>2. /\ udp_conn[l] = index /\ index # Null
        /\ \A m \in Listener : m # l => udp_conn[m] # index
    BY <2>1, UdpAssumption DEF ConnsAccountedFor, Conn
  <2>3. CASE l \in Clients
    BY <2>1, <2>2, <2>3, <1>0, TalkUnchanged DEF Answering
  <2>4. CASE l \in Answering
    <3>1. TalkStage[l] = "answering"
      BY <2>1, <2>4 DEF TalkStage, Answering
    <3>2. \A m \in Answering : Talk'[m] = IF m = l THEN Nobody ELSE Talk[m]
      BY <2>1, <2>2 DEF Talk, Answering
    <3>3. \A m \in Answering :
            TalkStage'[m] = IF m = l THEN "idle" ELSE TalkStage[m]
      BY <2>1, <2>2, <3>2 DEF TalkStage, Answering
    <3>4. /\ Talk' = [Talk EXCEPT ![l] = Nobody]
          /\ TalkStage' = [TalkStage EXCEPT ![l] = "idle"]
      BY <3>2, <3>3 DEF Talk, TalkStage, Answering
    <3> QED  BY <2>4, <3>1, <3>4 DEF CV!CNext, CV!Leave, Answering
  <2> QED  BY <2>3, <2>4 DEF Answering
<1>7. CASE PollSender
  <2>1. /\ appstate[index] = Null
        /\ remote' = [remote EXCEPT ![index] = Nobody]
        /\ UNCHANGED <<udp_conn, msg_out>>
    BY <1>7 DEF PollSender, Leaves, listenerVars
  <2>2. \A m \in Listener : udp_conn[m] # index
    BY <2>1, UdpAssumption DEF ConnsAccountedFor
  <2> QED  BY <2>1, <2>2, <1>0, TalkUnchanged DEF Answering
<1>8. ASSUME NEW p \in Peer, NEW port \in Port, NEW full \in BOOLEAN,
             Receive(p, port, full)
      PROVE  Goal
  <2>1. PICK c \in Conn : /\ appstate[c] # Null
                          /\ remote[c] \in {Nobody, p}
                          /\ remote' = [remote EXCEPT ![c] = p]
    BY <1>8 DEF Receive, FirstMatch, Accepts
  <2> DEFINE l == appstate[c]
  <2>2. /\ l \in Listener /\ udp_conn[l] = c /\ c # Null
        /\ \A m \in Listener : m # l => udp_conn[m] # c
        /\ UNCHANGED <<udp_conn, msg_out>>
    BY <1>8, <2>1, Owner, UdpAssumption DEF Receive, ConnsAccountedFor, Conn
  <2>3. p # Nobody /\ \A m \in Listener : msg_out[m] # Null => msg_out[m] # Nobody
    BY UdpAssumption
  <2>4. CASE l \in Clients
    BY <2>1, <2>2, <2>4, <1>0, TalkUnchanged DEF Answering
  <2>5. CASE msg_out[l] # Null
    <3>1. remote[c] = p
      BY <2>1, <2>2, <2>3, <2>5 DEF Addressed
    <3> QED  BY <2>1, <2>2, <3>1, <1>0, TalkUnchanged DEF Answering
  <2>6. CASE l \in Answering /\ msg_out[l] = Null
    <3>1. Talk[l] = remote[c]
      BY <2>2, <2>6 DEF Talk, Answering
    <3>2. TalkStage[l] = "idle" \/ (TalkStage[l] = "heard" /\ Talk[l] = p)
      BY <2>1, <2>6, <3>1 DEF TalkStage, Answering
    <3>3. \A m \in Answering : Talk'[m] = IF m = l THEN p ELSE Talk[m]
      BY <2>1, <2>2 DEF Talk, Answering
    <3>4. \A m \in Answering :
            TalkStage'[m] = IF m = l THEN "heard" ELSE TalkStage[m]
      BY <2>2, <2>3, <2>6, <3>3 DEF TalkStage, Answering
    <3>5. /\ Talk' = [Talk EXCEPT ![l] = p]
          /\ TalkStage' = [TalkStage EXCEPT ![l] = "heard"]
      BY <3>3, <3>4 DEF Talk, TalkStage, Answering
    <3> QED  BY <2>6, <3>2, <3>5 DEF CV!CNext, CV!Hear, Answering
  <2> QED  BY <2>2, <2>4, <2>5, <2>6 DEF Answering
<1>9. CASE \/ \E t \in Task : StartTask(t)
           \/ EndTask \/ Tick \/ PollNothing \/ ReceiveNothing
  BY <1>9, <1>1 DEF StartTask, EndTask, Tick, PollNothing, ReceiveNothing,
                    connVars, listenerVars
<1>10. CASE \E l \in Listener : Recv(l)
  BY <1>10, <1>1 DEF Recv, connVars
<1>11. CASE UNCHANGED udpVars
  BY <1>11, <1>1 DEF udpVars, connVars, listenerVars
<1> HIDE DEF UdpInv, StackInv, TypeOK
<1> QED
  BY <1>2, <1>3, <1>4, <1>5, <1>6, <1>7, <1>8, <1>9, <1>10, <1>11
     DEF Next, NetTick

(* A listener that answers holds one conversation at a time, and the       *)
(* answer closes the one that is open.                                     *)
THEOREM UdpImplementsConversation ==
  ASSUME ~Late
  PROVE  Spec => ImplementsConversation
<1>1. Init => CV!CInit
  BY DEF Init, CV!CInit, Talk, TalkStage
<1>2. UdpInv /\ [Next]_udpVars => [CV!CNext]_(CV!talkVars)
  BY TalkStep
<1> QED
  BY <1>1, <1>2, UdpInvariant, PTL DEF Spec, ImplementsConversation, CV!CSpec

-----------------------------------------------------------------------------
(* The turns of the main loop: each step of UdpStack is one of them or     *)
(* leaves them alone, ...                                                  *)
LEMMA TurnTaken ==
  ASSUME TypeOK, Turns, [Next]_udpVars
  PROVE  [ML!LNext]_(ML!turnVars)
<1> USE DEF ML!turnVars
<1>1. \A l \in woken : TaskOf[l] \in Task /\ l \in Listener
  BY UdpAssumption DEF TypeOK
<1>2. ASSUME NEW t \in Task, StartTask(t) PROVE ML!LNext
  <2>1. {TaskOf[l] : l \in woken'} = {TaskOf[l] : l \in woken} \ {t}
    BY <1>2 DEF StartTask
  <2>2. ML!Run(t)
    BY <1>2, <2>1 DEF StartTask, ML!Run
  <2> QED
    BY <2>2 DEF ML!LNext
<1>3. CASE EndTask
  <2>1. ML!Return
    BY <1>3 DEF EndTask, ML!Return
  <2> QED
    BY <2>1 DEF ML!LNext
<1>4. CASE Tick
  <2>1. build = "native" => {TaskOf[l] : l \in woken} = {}
    BY <1>4 DEF Tick
  <2>2. ML!Tick
    BY <1>4, <2>1 DEF Tick, historyVars, ML!Tick
  <2> QED
    BY <2>2 DEF ML!LNext
<1>5. ASSUME where = "poll", Onward PROVE [ML!LNext]_(ML!turnVars)
  BY <1>5 DEF Onward
<1>6. ASSUME NEW p \in Peer, NEW port \in Port, NEW full \in BOOLEAN,
             Receive(p, port, full)
      PROVE  ML!LNext
  <2>1. /\ where = "receive" /\ where' = "tasks" /\ UNCHANGED <<runner, build>>
        /\ runner = Null
    BY <1>6 DEF Receive, Turns
  <2>2. CASE woken' = woken
    <3>1. ML!Leave
      BY <2>1, <2>2 DEF ML!Leave
    <3> QED
      BY <3>1 DEF ML!LNext
  <2>3. CASE woken' # woken
    <3>1. PICK l \in Listener : woken' = woken \cup {l}
      BY <1>6, <2>3 DEF Receive, TypeOK
    <3>2. {TaskOf[m] : m \in woken'} = {TaskOf[m] : m \in woken} \cup {TaskOf[l]}
      BY <3>1
    <3>3. TaskOf[l] \in Task /\ ML!Call(TaskOf[l])
      BY <2>1, <3>1, <3>2, UdpAssumption DEF ML!Call
    <3> QED
      BY <3>3 DEF ML!LNext
  <2> QED
    BY <2>2, <2>3
<1>7. CASE ReceiveNothing
  <2>1. ML!Leave
    BY <1>7 DEF ReceiveNothing, historyVars, ML!Leave
  <2> QED
    BY <2>1 DEF ML!LNext
<1>8. ASSUME NEW l \in Listener, Listen(l) \/ Recv(l) \/ ResponseTo(l) \/ PollListener(l)
      PROVE  [ML!LNext]_(ML!turnVars)
  BY <1>5, <1>8 DEF Listen, Recv, ResponseTo, PollListener, turnVars, historyVars
<1>9. ASSUME NEW l \in Listener, NEW p \in Peer, SendFrom(l, p)
      PROVE  UNCHANGED ML!turnVars
  BY <1>9 DEF SendFrom, turnVars, historyVars
<1>10. ASSUME NEW p \in Peer, Send(p)
       PROVE  UNCHANGED ML!turnVars
  BY <1>10 DEF Send, turnVars, historyVars
<1>11. CASE PollSender \/ PollNothing
  BY <1>5, <1>11 DEF PollSender, PollNothing
<1>12. CASE UNCHANGED udpVars
  BY <1>12 DEF udpVars, turnVars, historyVars
<1> QED
  BY <1>2, <1>3, <1>4, <1>6, <1>7, <1>8, <1>9, <1>10, <1>11, <1>12 DEF Next, NetTick

(* ... and what the main loop may do, it may do here: nothing but the      *)
(* turns decides when a task runs and when net_tick is called.             *)
LEMMA TurnAllowed ==
  ASSUME UNCHANGED <<connVars, listenerVars, sender, asker, wire>>
  PROVE  /\ \A t \in Task :
              ML!Run(t) /\ woken' = {l \in woken : TaskOf[l] # t}
                /\ UNCHANGED <<where, index, owed>> => StartTask(t)
         /\ ML!Return /\ owed' = [l \in Listener |-> FALSE]
              /\ UNCHANGED <<where, index, woken>> => EndTask
         /\ ML!Tick /\ where' = "poll" /\ index' = 1 /\ UNCHANGED <<woken, owed>> => Tick
<1>1. {TaskOf[l] : l \in woken} = {} => woken = {}
  OBVIOUS
<1> QED
  BY <1>1 DEF ML!Run, ML!Return, ML!Tick, StartTask, EndTask, Tick, historyVars,
     ML!turnVars

(* UDP runs in the turns that the main loop takes: what is shown of        *)
(* UdpStack is shown of the stack under the loops of idos.cpp, which take  *)
(* no others (KernelTakesTurns).                                           *)
THEOREM UdpTakesTurns == Spec => ImplementsMainLoop
<1>1. Init => ML!LInit
  BY DEF Init, ML!LInit
<1>2. StackInv /\ [Next]_udpVars => [ML!LNext]_(ML!turnVars)
  BY TurnTaken DEF StackInv
<1> QED
  BY <1>1, <1>2, StackInvariant, PTL DEF Spec, ImplementsMainLoop, ML!LSpec
=============================================================================
