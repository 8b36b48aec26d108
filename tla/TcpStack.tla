------------------------------ MODULE TcpStack ------------------------------
(***************************************************************************)
(* TCP in idOS: the connections of uIP (uip_process in uip.c), the         *)
(* listeners the tasks share with them, and the callback between the two   *)
(* (transport/tcp.cpp).  Everything runs on one thread, so an action is    *)
(* one call: a poll of one connection by net_tick, one segment received,   *)
(* or one call of a task.  The order in which net_tick makes them          *)
(* (UdpStack) is left open here, and so is what wakes the task that owns a *)
(* listener and what it reads.                                             *)
(*                                                                         *)
(* Sequence numbers are abstracted to what uip_process asks of them: is    *)
(* the segment the next one expected, does it acknowledge all that is      *)
(* outstanding.  A timer may run out at any tick.  Any segment may come    *)
(* from any peer at any time; `world' says what peers and tasks may do     *)
(* beyond an orderly exchange:                                             *)
(*   "reset"      peers abort connections and refuse to open them          *)
(*   "piggyback"  a segment acknowledges data and brings data or a FIN     *)
(*   "shared"     several connections use one listener                     *)
(*   "hasty"      a task sends or closes whenever it likes                 *)
(*   "stop"       tasks stop and restart connections                       *)
(***************************************************************************)
EXTENDS Naturals, FiniteSets

CONSTANTS
  Listener,    \* every tcp_listener_st
  Servers,     \* those given to tcp_listener_begin
  PortOf,      \* PortOf[l]: the port of server l
  Ephemeral,   \* the ports uip_connect picks from
  Peer,        \* remote ends, an address with a port
  Null,        \* NULL
  Conns,       \* UIP_CONNS
  MaxRtx,      \* UIP_MAXRTX
  MaxSynRtx,   \* UIP_MAXSYNRTX
  ListenPorts, \* UIP_LISTENPORTS
  Worlds       \* the worlds considered

Features == {"reset", "piggyback", "shared", "hasty", "stop"}

ASSUME TcpAssumption ==
  /\ Servers \subseteq Listener /\ Null \notin Listener /\ Null \notin Peer
  /\ \A l, m \in Servers : PortOf[l] = PortOf[m] => l = m
  /\ Conns \in Nat \ {0} /\ MaxRtx \in Nat /\ MaxSynRtx \in 0..MaxRtx
  /\ ListenPorts \in Nat /\ Worlds \subseteq SUBSET Features

VARIABLES
  conn,       \* uip_conns
  listener,   \* the state of every listener
  listening,  \* tcp_listeners and uip_listenports
  world       \* what peers and tasks do

tcpVars == <<conn, listener, listening, world>>

Conn == 1..Conns
Waiting == {"SYN_RCVD", "SYN_SENT", "FIN_WAIT_1", "FIN_WAIT_2", "CLOSING",
            "TIME_WAIT", "LAST_ACK"}
TcpState == Waiting \cup {"CLOSED", "ESTABLISHED"}
ListenerState == {"OFFLINE", "CONNECTED", "DISCONNECT", "STOP", "STOPED",
                  "RESTART", "CONNECTING"}

\* stopped is the flag UIP_STOPPED of tcpstateflags; out says what len counts.
UipConn == [state : TcpState, stopped : BOOLEAN,
            lport : {PortOf[l] : l \in Servers} \cup Ephemeral \cup {Null},
            peer : Peer \cup {Null}, out : {"none", "syn", "data", "fin"},
            nrtx : 0..MaxRtx, app : Listener \cup {Null}]
\* msg_out is "acked" if uIP has an acknowledgement of it that the listener
\* does not know of.
TcpListener == [state : ListenerState, msg_out : {"empty", "waits", "acked"}]
Segment == [kind : {"SYN", "SYNACK", "ACK", "FIN", "RST"}, data : BOOLEAN,
            expected : BOOLEAN, acks : BOOLEAN]

(* Of a connection that is not used only the listener still counts.        *)
Unused(app) == [state |-> "CLOSED", stopped |-> FALSE, lport |-> Null,
                peer |-> Null, out |-> "none", nrtx |-> 0, app |-> app]

Init ==
  /\ conn = [c \in Conn |-> Unused(Null)]
  /\ listener = [l \in Listener |-> [state |-> "OFFLINE", msg_out |-> "empty"]]
  /\ listening = {}
  /\ world \in Worlds

\* tcpstateflags # UIP_CLOSED
Live(k) == k.state # "CLOSED" \/ k.stopped
\* An assignment to tcpstateflags.
Becomes(k, state) == [k EXCEPT !.state = state, !.stopped = FALSE]

-----------------------------------------------------------------------------
(* uipclient_appcall: the callback on connection k with the flags of uIP.  *)
(* Its result is the connection, the listeners, the flags as they are      *)
(* after the call, and whether there is data to send.                      *)

(* uip_connected(): the peer accepted an open, or the listener of the port *)
(* gets the connection.                                                    *)
Enter(k, ls) ==
  IF k.app = Null
  THEN LET l == CHOOSE l \in listening : PortOf[l] = k.lport IN
       [k |-> [k EXCEPT !.app = l], ls |-> [ls EXCEPT ![l].state = "CONNECTED"]]
  ELSE [k |-> k,
        ls |-> IF ls[k.app].state = "CONNECTING"
               THEN [ls EXCEPT ![k.app].state = "CONNECTED"]
               ELSE ls]

(* The rest of it, with listener l: first the wish of the task, and what   *)
(* uIP has to say in this call is then ignored; else what uIP has to say,  *)
(* of which an abort is not.                                               *)
Serve(k, ls, l, flags) ==
  LET s == ls[l]
      Result(kk, state, msg, ff) ==
        [k |-> kk, flags |-> ff, sends |-> FALSE,
         ls |-> [ls EXCEPT ![l] = [state |-> state, msg_out |-> msg]]]
  IN IF s.state = "STOP"
     THEN Result([k EXCEPT !.stopped = TRUE], "STOPED", s.msg_out, flags)
     ELSE IF s.state = "RESTART" /\ k.stopped
     THEN Result([k EXCEPT !.stopped = FALSE], "CONNECTING", s.msg_out,
                 flags \cup {"NEWDATA"})
     ELSE IF s.state = "RESTART"
     THEN Result(k, s.state, s.msg_out, flags)
     ELSE IF s.state = "DISCONNECT"
     THEN Result([k EXCEPT !.app = Null], "OFFLINE", s.msg_out, {"CLOSE"})
     ELSE IF "NEWDATA" \in flags
     THEN Result(k, s.state, s.msg_out, flags)
     ELSE IF flags \cap {"CLOSE", "TIMEDOUT"} # {}
     THEN Result([k EXCEPT !.app = Null], "OFFLINE", s.msg_out, flags)
     ELSE IF "ACKDATA" \in flags
     THEN Result(k, s.state, "empty", flags)
     ELSE [k |-> k, ls |-> ls, flags |-> flags,
           sends |-> flags \cap {"POLL", "REXMIT"} # {} /\ s.msg_out # "empty"]

(* Mutant: the acknowledgement does not empty the buffer.                  *)
AppCallKeeps(k, ls, flags) ==
  LET e == IF "CONNECTED" \in flags THEN Enter(k, ls) ELSE [k |-> k, ls |-> ls]
      r == Serve(e.k, e.ls, e.k.app, flags)
  IN IF e.k.app = Null
     THEN [k |-> k, ls |-> ls, flags |-> flags, sends |-> FALSE]
     ELSE IF flags = {"ACKDATA"} THEN [r EXCEPT !.ls = e.ls] ELSE r

AppCall(k, ls, flags) ==
  LET e == IF "CONNECTED" \in flags THEN Enter(k, ls) ELSE [k |-> k, ls |-> ls]
  IN IF e.k.app = Null
     THEN [k |-> k, ls |-> ls, flags |-> flags, sends |-> FALSE]
     ELSE Serve(e.k, e.ls, e.k.app, flags)

(* The label appsend: close if the task asked for it, send what it gave.   *)
AppSend(r) ==
  IF "CLOSE" \in r.flags
  THEN [r EXCEPT !.k = [Becomes(r.k, "FIN_WAIT_1") EXCEPT !.out = "fin", !.nrtx = 0]]
  ELSE [r EXCEPT !.k.out = IF r.sends /\ @ = "none" THEN "data" ELSE @,
                 !.k.nrtx = 0]

Put(c, r) ==
  /\ conn' = [conn EXCEPT ![c] = IF Live(r.k) THEN r.k ELSE Unused(r.k.app)]
  /\ listener' = r.ls
  /\ UNCHANGED <<listening, world>>

-----------------------------------------------------------------------------
(* UIP_TIMER: net_tick goes by connection c.                               *)
Poll(c) ==
  /\ conn[c].state = "ESTABLISHED" /\ conn[c].out = "none"
  /\ Put(c, AppSend(AppCall(conn[c], listener, {"POLL"})))

(* TIME_WAIT and FIN_WAIT_2 only wait for their time to pass.              *)
Timeout(c) ==
  /\ conn[c].state \in {"TIME_WAIT", "FIN_WAIT_2"} /\ ~conn[c].stopped
  /\ Put(c, [k |-> Becomes(conn[c], "CLOSED"), ls |-> listener])

(* The timer of what is outstanding runs out.                              *)
RunsOut(k) ==
  /\ Live(k) /\ k.out # "none"
  /\ ~(k.state \in {"TIME_WAIT", "FIN_WAIT_2"} /\ ~k.stopped)
Exhausted(k) ==
  \/ k.nrtx = MaxRtx
  \/ k.state \in {"SYN_SENT", "SYN_RCVD"} /\ k.nrtx = MaxSynRtx

(* Mutant: what is sent again is not counted.                              *)
RetransmitUncounted(c) ==
  /\ RunsOut(conn[c]) /\ ~Exhausted(conn[c])
  /\ Put(c, IF conn[c].state = "ESTABLISHED"
            THEN AppCall(conn[c], listener, {"REXMIT"})
            ELSE [k |-> conn[c], ls |-> listener])

(* The connection is given up, with a reset to the peer ...                *)
GiveUp(c) ==
  /\ RunsOut(conn[c]) /\ Exhausted(conn[c])
  /\ Put(c, AppCall(Becomes(conn[c], "CLOSED"), listener, {"TIMEDOUT"}))

(* ... or what is outstanding is sent again; if it is data the listener    *)
(* has to give it again, and a close it asks for there is not heard.       *)
Retransmit(c) ==
  LET k == [conn[c] EXCEPT !.nrtx = @ + 1] IN
  /\ RunsOut(conn[c]) /\ ~Exhausted(conn[c])
  /\ Put(c, IF k.state = "ESTABLISHED" THEN AppCall(k, listener, {"REXMIT"})
                                       ELSE [k |-> k, ls |-> listener])

-----------------------------------------------------------------------------
(* The slot for a new connection: the first unused one, else one in        *)
(* TIME_WAIT, the oldest in the code.  Its appstate is left as it was.     *)
Slot(c) ==
  \/ ~Live(conn[c]) /\ \A d \in 1..(c - 1) : Live(conn[d])
  \/ /\ \A d \in Conn : Live(conn[d])
     /\ conn[c].state = "TIME_WAIT" /\ ~conn[c].stopped

(* Mutant: connections that are being opened or closed are not looked at.  *)
SamePairOpen(k, p, port) ==
  k.state = "ESTABLISHED" /\ k.peer = p /\ k.lport = port

SamePair(k, p, port) == Live(k) /\ k.peer = p /\ k.lport = port

(* A SYN to a port that is listened to and to no connection.  Anything     *)
(* else without a connection is answered with a reset, or dropped.         *)
Accept(c, p, l) ==
  /\ l \in listening
  /\ \A d \in Conn : ~SamePair(conn[d], p, PortOf[l])
  /\ Slot(c)
  /\ "shared" \notin world =>
       \A d \in Conn : Live(conn[d]) /\ conn[d].state # "TIME_WAIT" =>
                         conn[d].lport # PortOf[l]
  /\ conn' = [conn EXCEPT ![c] = [Becomes(@, "SYN_RCVD") EXCEPT
                !.lport = PortOf[l], !.peer = p, !.out = "syn", !.nrtx = 0]]
  /\ UNCHANGED <<listener, listening, world>>

(* What peers may send to k in this world.                                 *)
Orderly(k, seg) ==
  /\ "reset" \notin world =>
       /\ seg.kind # "RST"
       /\ k.state = "SYN_SENT" => seg.kind = "SYNACK" /\ seg.acks
  /\ "piggyback" \notin world =>
       /\ ~(seg.acks /\ k.out = "data" /\ (seg.data \/ seg.kind = "FIN"))
       /\ ~(seg.data /\ seg.kind = "FIN")

(* The segment belongs to connection c.                                    *)
Hears(c, seg) ==
  /\ Live(conn[c])
  /\ \A d \in 1..(c - 1) : ~SamePair(conn[d], conn[c].peer, conn[c].lport)
  /\ Orderly(conn[c], seg)

Reset(c, seg) ==
  /\ seg.kind = "RST" /\ Hears(c, seg)
  /\ Put(c, AppCall(Becomes(conn[c], "CLOSED"), listener, {"ABORT"}))

(* A segment that is not the next one is answered with an ACK and nothing  *)
(* else; a SYNACK that answers a SYN has no number to compare.             *)
InOrder(k, seg) ==
  seg.data \/ seg.kind \in {"SYN", "SYNACK", "FIN"} =>
    seg.expected \/ (k.state = "SYN_SENT" /\ seg.kind = "SYNACK")

(* The acknowledgement of what is outstanding: connection, listeners and   *)
(* flags after it.                                                         *)
Acked(k, seg) == seg.acks /\ k.out # "none"
AfterAck(k, seg) == IF Acked(k, seg) THEN [k EXCEPT !.out = "none"] ELSE k
AckFlag(k, seg) == IF Acked(k, seg) THEN {"ACKDATA"} ELSE {}
AckSeen(k, seg) ==
  IF Acked(k, seg) /\ k.out = "data" /\ k.app # Null
  THEN [listener EXCEPT ![k.app].msg_out = IF @ = "waits" THEN "acked" ELSE @]
  ELSE listener
NewData(seg) == IF seg.data THEN {"NEWDATA"} ELSE {}

Process(c, seg, state) ==
  /\ conn[c].state = state /\ seg.kind # "RST"
  /\ InOrder(conn[c], seg) /\ Hears(c, seg)

(* Mutants: the callback is not told of the connection; of its end.        *)
InSynRcvdSilent(c, seg) ==
  /\ Process(c, seg, "SYN_RCVD") /\ Acked(conn[c], seg)
  /\ Put(c, AppSend(AppCall(Becomes(AfterAck(conn[c], seg), "ESTABLISHED"),
                            listener, NewData(seg))))
InLastAckSilent(c, seg) ==
  /\ Process(c, seg, "LAST_ACK") /\ Acked(conn[c], seg)
  /\ Put(c, [k |-> Becomes(AfterAck(conn[c], seg), "CLOSED"), ls |-> listener])

(* The handshake of an accepted connection ends, ...                       *)
InSynRcvd(c, seg) ==
  /\ Process(c, seg, "SYN_RCVD") /\ Acked(conn[c], seg)
  /\ Put(c, AppSend(AppCall(Becomes(AfterAck(conn[c], seg), "ESTABLISHED"),
                            listener, {"CONNECTED"} \cup NewData(seg))))

(* ... that of an opened one does, or anything but its SYNACK aborts it.   *)
InSynSent(c, seg) ==
  LET k == AfterAck(conn[c], seg)
      aborted == AppCall(k, listener, {"ABORT"}) IN
  /\ Process(c, seg, "SYN_SENT")
  /\ Put(c, IF Acked(conn[c], seg) /\ seg.kind = "SYNACK"
            THEN AppSend(AppCall(Becomes(k, "ESTABLISHED"), listener,
                                 {"CONNECTED", "NEWDATA"}))
            ELSE [aborted EXCEPT !.k = Becomes(@, "CLOSED")])

(* The peer closes: not while data is outstanding.                         *)
PeerCloses(c, seg) ==
  LET k == AfterAck(conn[c], seg)
      r == AppCall(k, AckSeen(conn[c], seg),
                   AckFlag(conn[c], seg) \cup {"CLOSE"} \cup NewData(seg)) IN
  /\ Process(c, seg, "ESTABLISHED")
  /\ seg.kind = "FIN" /\ ~conn[c].stopped /\ k.out = "none"
  /\ Put(c, [r EXCEPT !.k = [Becomes(@, "LAST_ACK") EXCEPT !.out = "fin", !.nrtx = 0]])

(* Data, which a stopped connection does not take, or an acknowledgement.  *)
InEstablished(c, seg) ==
  LET flags == AckFlag(conn[c], seg) \cup
                 (IF conn[c].stopped THEN {} ELSE NewData(seg)) IN
  /\ Process(c, seg, "ESTABLISHED")
  /\ seg.kind = "FIN" => conn[c].stopped
  /\ flags # {}
  /\ Put(c, AppSend(AppCall(AfterAck(conn[c], seg), AckSeen(conn[c], seg), flags)))

(* The rest of the way to CLOSED.                                          *)
InLastAck(c, seg) ==
  /\ Process(c, seg, "LAST_ACK") /\ Acked(conn[c], seg)
  /\ Put(c, AppCall(Becomes(AfterAck(conn[c], seg), "CLOSED"), listener, {"CLOSE"}))

InFinWait1(c, seg) ==
  LET k == AfterAck(conn[c], seg)
      acked == Acked(conn[c], seg) IN
  /\ Process(c, seg, "FIN_WAIT_1")
  /\ IF seg.kind = "FIN"
     THEN Put(c, AppCall(Becomes(k, IF acked THEN "TIME_WAIT" ELSE "CLOSING"),
                         listener, {"CLOSE"}))
     ELSE acked /\ Put(c, [k |-> Becomes(k, "FIN_WAIT_2"), ls |-> listener])

InFinWait2(c, seg) ==
  /\ Process(c, seg, "FIN_WAIT_2") /\ seg.kind = "FIN"
  /\ Put(c, AppCall(Becomes(conn[c], "TIME_WAIT"), listener, {"CLOSE"}))

InClosing(c, seg) ==
  /\ Process(c, seg, "CLOSING") /\ Acked(conn[c], seg)
  /\ Put(c, [k |-> Becomes(AfterAck(conn[c], seg), "TIME_WAIT"), ls |-> listener])

(* A connection that was stopped by the call that closed it is in no state *)
(* of TCP and yet not unused.                                              *)
InNoState(c, seg) ==
  /\ Process(c, seg, "CLOSED") /\ Acked(conn[c], seg)
  /\ Put(c, [k |-> AfterAck(conn[c], seg), ls |-> listener])

-----------------------------------------------------------------------------
(* The calls of the tasks.  tcp_listener_begin:                            *)
Begin(l) ==
  /\ l \in Servers \ listening /\ Cardinality(listening) < ListenPorts
  /\ listening' = listening \cup {l}
  /\ listener' = [listener EXCEPT ![l].msg_out = "empty"]
  /\ UNCHANGED <<conn, world>>

(* tcp_open, with a local port no connection uses.                         *)
Open(l, p, port, c) ==
  /\ "shared" \notin world =>
       /\ l \notin Servers /\ listener[l].state = "OFFLINE"
       /\ \A d \in Conn : Live(conn[d]) => conn[d].app # l
  /\ \A d \in Conn : Live(conn[d]) => conn[d].lport # port
  /\ Slot(c)
  /\ conn' = [conn EXCEPT ![c] = [Becomes(@, "SYN_SENT") EXCEPT
                !.lport = port, !.peer = p, !.out = "syn", !.nrtx = 0, !.app = l]]
  /\ listener' = [listener EXCEPT ![l].state = "CONNECTING"]
  /\ UNCHANGED <<listening, world>>

(* tcp_send: one message at a time.                                        *)
Send(l) ==
  /\ listener[l].msg_out = "empty"
  /\ "hasty" \notin world => listener[l].state = "CONNECTED"
  /\ listener' = [listener EXCEPT ![l].msg_out = "waits"]
  /\ UNCHANGED <<conn, listening, world>>

(* tcp_conn_close, tcp_conn_stop and tcp_conn_restart.                     *)
Command(l, command) ==
  /\ command # "DISCONNECT" => "stop" \in world
  /\ "hasty" \notin world =>
       listener[l].state \in {"CONNECTED", "STOPED"} /\ listener[l].msg_out = "empty"
  /\ listener' = [listener EXCEPT ![l].state = command]
  /\ UNCHANGED <<conn, listening, world>>

Expire(c) == Timeout(c) \/ GiveUp(c) \/ Retransmit(c)

Receive(c, seg) ==
  \/ Reset(c, seg)
  \/ InSynRcvd(c, seg) \/ InSynSent(c, seg)
  \/ PeerCloses(c, seg) \/ InEstablished(c, seg)
  \/ InLastAck(c, seg) \/ InFinWait1(c, seg) \/ InFinWait2(c, seg)
  \/ InClosing(c, seg) \/ InNoState(c, seg)

Next ==
  \/ \E c \in Conn : Poll(c) \/ Expire(c)
  \/ \E c \in Conn, p \in Peer, l \in Servers : Accept(c, p, l)
  \/ \E c \in Conn, seg \in Segment : Receive(c, seg)
  \/ \E l \in Listener : Begin(l) \/ Send(l)
  \/ \E l \in Listener, p \in Peer, port \in Ephemeral, c \in Conn : Open(l, p, port, c)
  \/ \E l \in Listener, command \in {"DISCONNECT", "STOP", "RESTART"} : Command(l, command)

Spec == Init /\ [][Next]_tcpVars

(* net_tick comes by every connection again and again, so a timer that     *)
(* runs does run out, and a task that was polled is polled again.          *)
FairSpec ==
  Spec /\ \A c \in Conn : WF_tcpVars(Expire(c)) /\ WF_tcpVars(Poll(c))

-----------------------------------------------------------------------------
(* Every variable stays in its type.                                       *)
TypeOK ==
  /\ conn \in [Conn -> UipConn]
  /\ listener \in [Listener -> TcpListener]
  /\ listening \in SUBSET Servers
  /\ world \in Worlds

(* No two connections in use have the same port and the same remote, so    *)
(* that a segment belongs to one of them, whichever slots are reused.      *)
NoTwins ==
  \A c, d \in Conn :
    /\ c # d /\ Live(conn[c]) /\ Live(conn[d])
    /\ conn[c].lport = conn[d].lport
    => conn[c].peer # conn[d].peer

(* tcp_connected is true only of a listener with an active connection      *)
(* (tcp.h:186-191); a peer that closes with data still in the segment is   *)
(* not noticed before the connection is gone.                              *)
Active(l) == \E c \in Conn : conn[c].state \in {"ESTABLISHED", "LAST_ACK"} /\ conn[c].app = l
ConnectedIsActive == \A l \in Listener : listener[l].state = "CONNECTED" => Active(l)

(* The same, unless a peer resets a connection, which the callback ignores *)
(* (uip_aborted).                                                          *)
ConnectedUnlessReset == "reset" \notin world => ConnectedIsActive

(* A connection cannot have got the listener of another port.  A slot      *)
(* keeps its appstate when a reset ends its connection, and the next SYN   *)
(* to any port can take the slot: with two servers the connection then     *)
(* calls back the listener that was left there.                            *)
Untangled ==
  (\A l, m \in listening : l = m) \/ world \cap {"reset", "stop"} = {}

(* An established connection has a listener to read and close it, if its   *)
(* task closes only what it has seen acknowledged and no two connections   *)
(* have got the same listener.                                             *)
EstablishedIsServed ==
  world \cap {"shared", "hasty"} = {} /\ Untangled =>
    \A c \in Conn : conn[c].state = "ESTABLISHED" => conn[c].app # Null

(* What is in flight still waits in the buffer of its listener, where the  *)
(* callback takes it from if it has to be sent again, and what the peer    *)
(* has acknowledged is not sent a second time.                             *)
InFlightIsInBuffer ==
  world \cap {"piggyback", "shared", "hasty"} = {} /\ Untangled =>
    \A c \in Conn : conn[c].state = "ESTABLISHED" /\ conn[c].out = "data" =>
      conn[c].app # Null /\ listener[conn[c].app].msg_out = "waits"

(* A connection that is being opened or closed gets there, whatever the    *)
(* peer sends or does not send; only where tasks stop connections can one  *)
(* stay in the table that is neither.                                      *)
HandshakesEnd ==
  \A c \in Conn : conn[c].state \in Waiting ~>
    \/ conn[c].state = "ESTABLISHED" \/ ~Live(conn[c])
    \/ conn[c].state = "CLOSED" /\ "stop" \in world
=============================================================================
