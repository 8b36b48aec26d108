----------------------------- MODULE TcpProofs -----------------------------
(***************************************************************************)
(* Theorems about TcpStack, for any number of connections, listeners and   *)
(* peers, and in every world.                                              *)
(*                                                                         *)
(* NoTwins needs that no call back to a task changes the ends of a         *)
(* connection, and that every action but Accept and Open is one of a       *)
(* connection in use.  Types need Attached: a connection that is about to  *)
(* be established has a listener, or one of its port is listening.         *)
(*                                                                         *)
(* That a connection has its listener, and its listener what it sent, is   *)
(* proved in the second half, from who owns a listener: OwnInv.            *)
(***************************************************************************)
EXTENDS TcpStack, TLAPS

Listeners == [Listener -> TcpListener]

(* A connection in a handshake has a listener, or a listener to come.      *)
HasListener(k) ==
  /\ k.state = "SYN_SENT" => k.app # Null
  /\ k.state = "SYN_RCVD" =>
       k.app # Null \/ \E l \in listening : PortOf[l] = k.lport
Attached == \A c \in Conn : HasListener(conn[c])

TcpInv == TypeOK /\ Attached /\ NoTwins

(* What the callback and AppSend return.                                   *)
IsResult(r) ==
  /\ r = [k |-> r.k, ls |-> r.ls, flags |-> r.flags, sends |-> r.sends]
  /\ r.k \in UipConn /\ r.ls \in Listeners

(* r is a result for the connection k: its ends are still those of k.      *)
SameEnds(r, k) == r.lport = k.lport /\ r.peer = k.peer

-----------------------------------------------------------------------------
(* uip_connected() gives the connection a listener, and leaves its ends.   *)
LEMMA EnterResult ==
  ASSUME NEW k \in UipConn, NEW ls \in Listeners, listening \subseteq Servers,
         k.app # Null \/ \E l \in listening : PortOf[l] = k.lport
  PROVE  /\ Enter(k, ls).k \in UipConn /\ Enter(k, ls).ls \in Listeners
         /\ Enter(k, ls).k.app # Null
         /\ Enter(k, ls).k.state = k.state /\ SameEnds(Enter(k, ls).k, k)
<1>1. CASE k.app = Null
  <2> DEFINE l == CHOOSE l \in listening : PortOf[l] = k.lport
  <2>1. l \in Listener /\ l # Null
    BY <1>1, TcpAssumption
  <2>2. [k EXCEPT !.app = l] \in UipConn
    BY <2>1 DEF UipConn
  <2>3. [ls EXCEPT ![l].state = "CONNECTED"] \in Listeners
    BY <2>1 DEF Listeners, TcpListener, ListenerState
  <2>4. Enter(k, ls) = [k |-> [k EXCEPT !.app = l], ls |-> [ls EXCEPT ![l].state = "CONNECTED"]]
    BY <1>1 DEF Enter
  <2> QED
    BY <2>1, <2>2, <2>3, <2>4 DEF UipConn, SameEnds
<1>2. CASE k.app # Null
  <2>1. k.app \in Listener
    BY <1>2 DEF UipConn
  <2>2. [ls EXCEPT ![k.app].state = "CONNECTED"] \in Listeners
    BY <2>1 DEF Listeners, TcpListener, ListenerState
  <2> QED
    BY <1>2, <2>2 DEF Enter, SameEnds
<1> QED
  BY <1>1, <1>2

(* The rest of the callback changes neither the ends nor the state.        *)
LEMMA ServeResult ==
  ASSUME NEW k \in UipConn, NEW ls \in Listeners, NEW l \in Listener, NEW flags
  PROVE  /\ IsResult(Serve(k, ls, l, flags))
         /\ Serve(k, ls, l, flags).k.state = k.state
         /\ SameEnds(Serve(k, ls, l, flags).k, k)
<1> DEFINE Result(kk, state, msg, ff) ==
             [k |-> kk, flags |-> ff, sends |-> FALSE,
              ls |-> [ls EXCEPT ![l] = [state |-> state, msg_out |-> msg]]]
           out == ls[l].msg_out
           stops == [k EXCEPT !.stopped = TRUE]
           goes == [k EXCEPT !.stopped = FALSE]
           leaves == [k EXCEPT !.app = Null]
           nothing == [k |-> k, ls |-> ls, flags |-> flags,
                       sends |-> flags \cap {"POLL", "REXMIT"} # {} /\ out # "empty"]
           Good(r) == IsResult(r) /\ r.k.state = k.state /\ SameEnds(r.k, k)
<1>1. /\ ls[l].state \in ListenerState
      /\ out \in {"empty", "waits", "acked"}
  BY DEF Listeners, TcpListener
<1>2. ASSUME NEW kk \in UipConn, kk.state = k.state, SameEnds(kk, k),
             NEW state \in ListenerState, NEW msg \in {"empty", "waits", "acked"}, NEW ff
      PROVE  Good(Result(kk, state, msg, ff))
  <2>1. [ls EXCEPT ![l] = [state |-> state, msg_out |-> msg]] \in Listeners
    BY <1>2 DEF Listeners, TcpListener
  <2> QED
    BY <1>2, <2>1 DEF IsResult
<1>3. /\ stops \in UipConn /\ stops.state = k.state /\ SameEnds(stops, k)
      /\ goes \in UipConn /\ goes.state = k.state /\ SameEnds(goes, k)
      /\ leaves \in UipConn /\ leaves.state = k.state /\ SameEnds(leaves, k)
      /\ SameEnds(k, k)
  BY DEF UipConn, SameEnds
<1>4. {"STOPED", "CONNECTING", "OFFLINE", "RESTART"} \subseteq ListenerState
  BY DEF ListenerState
<1>5. Good(nothing)
  BY <1>3 DEF IsResult
<1>6. \/ Serve(k, ls, l, flags) = Result(stops, "STOPED", out, flags)
      \/ Serve(k, ls, l, flags) = Result(goes, "CONNECTING", out, flags \cup {"NEWDATA"})
      \/ Serve(k, ls, l, flags) = Result(k, ls[l].state, out, flags)
      \/ Serve(k, ls, l, flags) = Result(leaves, "OFFLINE", out, {"CLOSE"})
      \/ Serve(k, ls, l, flags) = Result(leaves, "OFFLINE", out, flags)
      \/ Serve(k, ls, l, flags) = Result(k, ls[l].state, "empty", flags)
      \/ Serve(k, ls, l, flags) = nothing
  BY Zenon DEF Serve
<1> HIDE DEF Result, out, stops, goes, leaves, nothing, Good
<1>7. Good(Serve(k, ls, l, flags))
  BY <1>1, <1>2, <1>3, <1>4, <1>5, <1>6
<1> QED
  BY <1>7 DEF Good

(* The callback: a connection that has no listener gets one only when it   *)
(* is established.                                                         *)
LEMMA AppCallResult ==
  ASSUME NEW k \in UipConn, NEW ls \in Listeners, NEW flags, listening \subseteq Servers,
         "CONNECTED" \in flags =>
           k.app # Null \/ \E l \in listening : PortOf[l] = k.lport
  PROVE  /\ IsResult(AppCall(k, ls, flags))
         /\ AppCall(k, ls, flags).k.state = k.state
         /\ SameEnds(AppCall(k, ls, flags).k, k)
<1>1. CASE "CONNECTED" \in flags
  <2> DEFINE e == Enter(k, ls)
  <2>1. /\ e.k \in UipConn /\ e.ls \in Listeners /\ e.k.app # Null
        /\ e.k.state = k.state /\ SameEnds(e.k, k)
    BY <1>1, EnterResult
  <2>2. e.k.app \in Listener
    BY <2>1 DEF UipConn
  <2>3. AppCall(k, ls, flags) = Serve(e.k, e.ls, e.k.app, flags)
    BY <1>1, <2>1 DEF AppCall
  <2> HIDE DEF e
  <2> QED
    BY <2>1, <2>2, <2>3, ServeResult DEF SameEnds
<1>2. CASE "CONNECTED" \notin flags /\ k.app # Null
  <2>1. k.app \in Listener
    BY <1>2 DEF UipConn
  <2>2. AppCall(k, ls, flags) = Serve(k, ls, k.app, flags)
    BY <1>2 DEF AppCall
  <2> QED
    BY <2>1, <2>2, ServeResult
<1>3. CASE "CONNECTED" \notin flags /\ k.app = Null
  <2>1. AppCall(k, ls, flags) = [k |-> k, ls |-> ls, flags |-> flags, sends |-> FALSE]
    BY <1>3 DEF AppCall
  <2> QED
    BY <2>1 DEF IsResult, SameEnds
<1> QED
  BY <1>1, <1>2, <1>3

(* What follows the callback leaves the ends too, and may close.           *)
LEMMA AppSendResult ==
  ASSUME NEW r, IsResult(r)
  PROVE  /\ AppSend(r).k \in UipConn /\ AppSend(r).ls \in Listeners
         /\ AppSend(r).k.state \in {r.k.state, "FIN_WAIT_1"}
         /\ SameEnds(AppSend(r).k, r.k)
<1> DEFINE closes == [Becomes(r.k, "FIN_WAIT_1") EXCEPT !.out = "fin", !.nrtx = 0]
<1>0. MaxRtx \in Nat
  BY TcpAssumption
<1>1. CASE "CLOSE" \in r.flags
  <2>1. /\ closes \in UipConn /\ closes.state = "FIN_WAIT_1"
        /\ SameEnds(closes, r.k)
    <3>1. r.k \in UipConn
      BY DEF IsResult
    <3>2. \A k \in UipConn : LET b == Becomes(k, "FIN_WAIT_1") IN
             b \in UipConn /\ b.state = "FIN_WAIT_1" /\ SameEnds(b, k)
      BY DEF UipConn, Becomes, TcpState, Waiting, SameEnds
    <3>3. ASSUME NEW b \in UipConn
          PROVE  LET n == [b EXCEPT !.out = "fin", !.nrtx = 0] IN
             n \in UipConn /\ n.state = b.state /\ SameEnds(n, b)
      <4>1. 0 \in 0..MaxRtx
        BY <1>0
      <4> QED
        BY <4>1 DEF UipConn, SameEnds
    <3> QED
      BY <3>1, <3>2, <3>3 DEF SameEnds
  <2>2. AppSend(r).k = closes /\ AppSend(r).ls = r.ls
    BY <1>1 DEF AppSend, IsResult
  <2> QED
    BY <2>1, <2>2 DEF IsResult
<1>2. CASE "CLOSE" \notin r.flags
  <2> DEFINE out == IF r.sends /\ r.k.out = "none" THEN "data" ELSE r.k.out
             sent == [r.k EXCEPT !.out = out, !.nrtx = 0]
  <2>1. sent \in UipConn /\ sent.state = r.k.state /\ SameEnds(sent, r.k)
    <3>1. r.k \in UipConn /\ out \in {"none", "syn", "data", "fin"}
      BY DEF IsResult, UipConn
    <3>2. ASSUME NEW k \in UipConn, NEW o \in {"none", "syn", "data", "fin"}
          PROVE  LET n == [k EXCEPT !.out = o, !.nrtx = 0] IN
             n \in UipConn /\ n.state = k.state /\ SameEnds(n, k)
      <4>1. 0 \in 0..MaxRtx
        BY <1>0
      <4> QED
        BY <4>1 DEF UipConn, SameEnds
    <3> QED
      BY <3>1, <3>2
  <2>2. AppSend(r).k = sent /\ AppSend(r).ls = r.ls
    BY <1>2 DEF AppSend, IsResult, UipConn
  <2> QED
    BY <2>1, <2>2 DEF IsResult
<1> QED
  BY <1>1, <1>2

-----------------------------------------------------------------------------
(* A step of a connection in use that leaves its ends keeps the invariant. *)
LEMMA PutKeeps ==
  ASSUME TcpInv, NEW c \in Conn, NEW r, Put(c, r), Live(conn[c]),
         r.k \in UipConn, r.ls \in Listeners, SameEnds(r.k, conn[c]),
         \/ r.k.state \notin {"SYN_SENT", "SYN_RCVD"}
         \/ r.k.state = conn[c].state /\ r.k.app = conn[c].app
  PROVE  TcpInv'
<1> DEFINE new == IF Live(r.k) THEN r.k ELSE Unused(r.k.app)
<1>0. MaxRtx \in Nat
  BY TcpAssumption
<1>1. /\ conn' = [conn EXCEPT ![c] = new] /\ listener' = r.ls
      /\ listening' = listening /\ world' = world
  BY DEF Put
<1>2. new \in UipConn
  <2>1. Unused(r.k.app) \in UipConn
    BY <1>0 DEF Unused, UipConn, TcpState
  <2> QED
    BY <2>1
<1>3. Live(new) => new = r.k
  BY DEF Live, Unused
<1>4. HasListener(r.k)
  BY DEF TcpInv, Attached, HasListener, SameEnds
<1>5. HasListener(new)
  BY <1>4 DEF HasListener, Unused
<1> HIDE DEF new
<1>6. conn'[c] = new /\ \A d \in Conn : d # c => conn'[d] = conn[d]
  BY <1>1 DEF TcpInv, TypeOK
<1>7. TypeOK'
  BY <1>1, <1>2 DEF TcpInv, TypeOK, Listeners
<1>8. Attached'
  BY <1>1, <1>5, <1>6 DEF TcpInv, Attached, HasListener
<1>9. NoTwins'
  BY <1>3, <1>6 DEF TcpInv, NoTwins, SameEnds
<1> QED
  BY <1>7, <1>8, <1>9 DEF TcpInv

(* The conversions of a connection that the steps make.                    *)
LEMMA BecomesResult ==
  ASSUME NEW k \in UipConn, NEW state \in TcpState
  PROVE  /\ Becomes(k, state) \in UipConn /\ Becomes(k, state).state = state
         /\ SameEnds(Becomes(k, state), k)
  BY DEF UipConn, Becomes, SameEnds

LEMMA AckResult ==
  ASSUME NEW k \in UipConn, NEW seg, TypeOK
  PROVE  /\ AfterAck(k, seg) \in UipConn /\ AfterAck(k, seg).state = k.state
         /\ AfterAck(k, seg).app = k.app
         /\ SameEnds(AfterAck(k, seg), k)
         /\ AckSeen(k, seg) \in Listeners
<1>1. /\ AfterAck(k, seg) \in UipConn /\ AfterAck(k, seg).state = k.state
      /\ AfterAck(k, seg).app = k.app
      /\ SameEnds(AfterAck(k, seg), k)
  BY DEF AfterAck, UipConn, SameEnds
<1>2. AckSeen(k, seg) \in Listeners
  <2>1. ASSUME NEW l \in Listener, NEW out \in {"empty", "waits", "acked"}
        PROVE  [listener EXCEPT ![l].msg_out = out] \in Listeners
    BY DEF TypeOK, Listeners, TcpListener
  <2>2. CASE Acked(k, seg) /\ k.out = "data" /\ k.app # Null
    <3>1. k.app \in Listener
      BY <2>2 DEF UipConn
    <3>2. listener[k.app].msg_out \in {"empty", "waits", "acked"}
      BY <3>1 DEF TypeOK, TcpListener
    <3>3. AckSeen(k, seg) = [listener EXCEPT ![k.app].msg_out =
            IF listener[k.app].msg_out = "waits" THEN "acked" ELSE listener[k.app].msg_out]
      BY <2>2 DEF AckSeen
    <3> QED
      BY <2>1, <3>1, <3>2, <3>3
  <2>3. CASE ~(Acked(k, seg) /\ k.out = "data" /\ k.app # Null)
    BY <2>3 DEF AckSeen, TypeOK, Listeners
  <2> QED
    BY <2>2, <2>3
<1> QED
  BY <1>1, <1>2

(* A step that only calls back, on a connection in use.                    *)
LEMMA CallKeeps ==
  ASSUME TcpInv, NEW c \in Conn, Live(conn[c]),
         NEW k \in UipConn, NEW ls \in Listeners, NEW flags, SameEnds(k, conn[c]),
         "CONNECTED" \in flags => HasListener(conn[c]) /\ k.app = conn[c].app
                                   /\ conn[c].state \in {"SYN_SENT", "SYN_RCVD"},
         k.state \notin {"SYN_SENT", "SYN_RCVD"},
         \/ Put(c, AppCall(k, ls, flags))
         \/ Put(c, AppSend(AppCall(k, ls, flags)))
         \/ Put(c, [k |-> k, ls |-> ls])
  PROVE  TcpInv'
<1> DEFINE r == AppCall(k, ls, flags)
<1>1. IsResult(r) /\ r.k.state = k.state /\ SameEnds(r.k, k)
  <2>1. listening \subseteq Servers
    BY DEF TcpInv, TypeOK
  <2>2. "CONNECTED" \in flags => k.app # Null \/ \E l \in listening : PortOf[l] = k.lport
    BY DEF HasListener, SameEnds
  <2> QED
    BY <2>1, <2>2, AppCallResult
<1> HIDE DEF r
<1>2. CASE Put(c, r)
  <2>1. r.k \in UipConn /\ r.ls \in Listeners
    BY <1>1 DEF IsResult
  <2> QED
    BY <1>1, <1>2, <2>1, PutKeeps DEF SameEnds
<1>3. CASE Put(c, AppSend(r))
  <2>1. /\ AppSend(r).k \in UipConn /\ AppSend(r).ls \in Listeners
        /\ AppSend(r).k.state \in {r.k.state, "FIN_WAIT_1"}
        /\ SameEnds(AppSend(r).k, r.k)
    BY <1>1, AppSendResult
  <2> QED
    BY <1>1, <1>3, <2>1, PutKeeps DEF SameEnds
<1>4. CASE Put(c, [k |-> k, ls |-> ls])
  <2> DEFINE q == [k |-> k, ls |-> ls]
  <2>1. q.k = k /\ q.ls = ls /\ Put(c, q)
    BY <1>4
  <2> HIDE DEF q
  <2> QED
    BY <2>1, PutKeeps
<1> QED
  BY <1>2, <1>3, <1>4 DEF r

-----------------------------------------------------------------------------
(* One lemma for what time does, one for what the peer does, one for what  *)
(* the tasks do.                                                           *)
LEMMA TimerSteps ==
  ASSUME TcpInv, NEW c \in Conn, Poll(c) \/ Expire(c)
  PROVE  TcpInv'
<1>0. conn[c] \in UipConn /\ listener \in Listeners /\ SameEnds(conn[c], conn[c])
  BY DEF TcpInv, TypeOK, Listeners, SameEnds
<1>1. CASE Poll(c)
  BY <1>0, <1>1, CallKeeps DEF Poll, Live
<1>2. CASE Timeout(c)
  <2>1. /\ Becomes(conn[c], "CLOSED") \in UipConn
        /\ Becomes(conn[c], "CLOSED").state = "CLOSED"
        /\ SameEnds(Becomes(conn[c], "CLOSED"), conn[c])
    BY <1>0, BecomesResult DEF TcpState
  <2>2. Live(conn[c])
    BY <1>2 DEF Timeout, Live
  <2> QED
    BY <1>0, <1>2, <2>1, <2>2, CallKeeps DEF Timeout
<1>3. CASE GiveUp(c)
  <2>1. /\ Becomes(conn[c], "CLOSED") \in UipConn
        /\ Becomes(conn[c], "CLOSED").state = "CLOSED"
        /\ SameEnds(Becomes(conn[c], "CLOSED"), conn[c])
    BY <1>0, BecomesResult DEF TcpState
  <2> QED
    BY <1>0, <1>3, <2>1, CallKeeps DEF GiveUp, RunsOut
<1>4. CASE Retransmit(c)
  <2> DEFINE k == [conn[c] EXCEPT !.nrtx = @ + 1]
  <2>1. conn[c].nrtx + 1 \in 0..MaxRtx
    <3>1. conn[c].nrtx \in 0..MaxRtx /\ conn[c].nrtx # MaxRtx /\ MaxRtx \in Nat
      BY <1>0, <1>4, TcpAssumption DEF Retransmit, Exhausted, UipConn
    <3> QED
      BY <3>1
  <2>2. /\ k \in UipConn /\ k.state = conn[c].state /\ k.app = conn[c].app
        /\ SameEnds(k, conn[c])
    BY <1>0, <2>1 DEF UipConn, SameEnds
  <2>3. Live(conn[c])
    BY <1>4 DEF Retransmit, RunsOut
  <2>4. Put(c, IF k.state = "ESTABLISHED" THEN AppCall(k, listener, {"REXMIT"})
                                          ELSE [k |-> k, ls |-> listener])
    BY <1>4 DEF Retransmit
  <2> HIDE DEF k
  <2>5. CASE k.state = "ESTABLISHED"
    BY <1>0, <2>2, <2>3, <2>4, <2>5, CallKeeps
  <2>6. CASE k.state # "ESTABLISHED"
    <3> DEFINE r == [k |-> k, ls |-> listener]
    <3>1. r.k = k /\ r.ls = listener /\ Put(c, r)
      BY <2>4, <2>6
    <3> HIDE DEF r
    <3> QED
      BY <1>0, <2>2, <2>3, <3>1, PutKeeps
  <2> QED
    BY <2>5, <2>6
<1> QED
  BY <1>1, <1>2, <1>3, <1>4 DEF Expire

(* A connection of the listener's that a peer opens is a new one: Accept   *)
(* looks for one with the same ends in every state of the table.           *)
LEMMA NewConnection ==
  ASSUME TcpInv, NEW c \in Conn, NEW k \in UipConn, NEW ls \in Listeners, Live(k),
         \A d \in Conn : ~SamePair(conn[d], k.peer, k.lport),
         HasListener(k),
         conn' = [conn EXCEPT ![c] = k], listener' = ls,
         UNCHANGED <<listening, world>>
  PROVE  TcpInv'
<1>1. conn'[c] = k /\ \A d \in Conn : d # c => conn'[d] = conn[d]
  BY DEF TcpInv, TypeOK
<1>2. TypeOK'
  BY DEF TcpInv, TypeOK, Listeners
<1>3. Attached'
  BY <1>1 DEF TcpInv, Attached, HasListener
<1>4. NoTwins'
  BY <1>1 DEF TcpInv, NoTwins, SamePair
<1> QED
  BY <1>2, <1>3, <1>4 DEF TcpInv

LEMMA AcceptKeeps ==
  ASSUME TcpInv, NEW c \in Conn, NEW p \in Peer, NEW l \in Servers, Accept(c, p, l)
  PROVE  TcpInv'
<1> DEFINE b == Becomes(conn[c], "SYN_RCVD")
           k == [b EXCEPT !.lport = PortOf[l], !.peer = p, !.out = "syn", !.nrtx = 0]
<1>0. conn[c] \in UipConn /\ listener \in Listeners /\ 0 \in 0..MaxRtx
  BY TcpAssumption DEF TcpInv, TypeOK, Listeners
<1>1. b \in UipConn /\ b.state = "SYN_RCVD"
  BY <1>0, BecomesResult DEF TcpState, Waiting
<1>2. conn' = [conn EXCEPT ![c] = k] /\ listener' = listener /\ UNCHANGED <<listening, world>>
  BY DEF Accept, TcpInv, TypeOK
<1> HIDE DEF b
<1>3. /\ k \in UipConn /\ k.state = "SYN_RCVD" /\ k.lport = PortOf[l] /\ k.peer = p
  BY <1>0, <1>1 DEF UipConn
<1> HIDE DEF k
<1>4. Live(k) /\ HasListener(k)
  BY <1>3 DEF Live, HasListener, Accept
<1>5. \A d \in Conn : ~SamePair(conn[d], k.peer, k.lport)
  BY <1>3 DEF Accept
<1> QED
  BY <1>0, <1>2, <1>3, <1>4, <1>5, NewConnection
LEMMA OpenKeeps ==
  ASSUME TcpInv, NEW c \in Conn, NEW p \in Peer, NEW l \in Listener,
         NEW port \in Ephemeral, Open(l, p, port, c)
  PROVE  TcpInv'
<1> DEFINE b == Becomes(conn[c], "SYN_SENT")
           k == [b EXCEPT !.lport = port, !.peer = p, !.out = "syn", !.nrtx = 0, !.app = l]
           ls == [listener EXCEPT ![l].state = "CONNECTING"]
<1>0. conn[c] \in UipConn /\ listener \in Listeners /\ 0 \in 0..MaxRtx /\ l # Null
  BY TcpAssumption DEF TcpInv, TypeOK, Listeners
<1>1. b \in UipConn /\ b.state = "SYN_SENT"
  BY <1>0, BecomesResult DEF TcpState, Waiting
<1>2. conn' = [conn EXCEPT ![c] = k] /\ listener' = ls /\ UNCHANGED <<listening, world>>
  BY DEF Open, TcpInv, TypeOK
<1>3. ls \in Listeners
  BY <1>0 DEF Listeners, TcpListener, ListenerState
<1> HIDE DEF b
<1>4. /\ k \in UipConn /\ k.state = "SYN_SENT" /\ k.lport = port /\ k.peer = p /\ k.app = l
  BY <1>0, <1>1 DEF UipConn
<1> HIDE DEF k, ls
<1>5. Live(k) /\ HasListener(k)
  BY <1>0, <1>4 DEF Live, HasListener
<1>6. \A d \in Conn : ~SamePair(conn[d], k.peer, k.lport)
  BY <1>4 DEF Open, SamePair
<1> QED
  BY <1>2, <1>3, <1>4, <1>5, <1>6, NewConnection

LEMMA TaskSteps ==
  ASSUME TcpInv, NEW l \in Listener,
         \/ Begin(l) \/ Send(l)
         \/ \E command \in {"DISCONNECT", "STOP", "RESTART"} : Command(l, command)
  PROVE  TcpInv'
<1>0. /\ listener \in Listeners /\ conn' = conn /\ world' = world
      /\ listening \subseteq listening' /\ listening' \subseteq Servers
  BY DEF TcpInv, TypeOK, Listeners, Begin, Send, Command
<1>1. listener' \in Listeners
  <2>1. CASE Begin(l)
    BY <1>0, <2>1 DEF Begin, Listeners, TcpListener
  <2>2. CASE Send(l)
    BY <1>0, <2>2 DEF Send, Listeners, TcpListener
  <2>3. ASSUME NEW command \in {"DISCONNECT", "STOP", "RESTART"}, Command(l, command)
        PROVE  listener' \in Listeners
    BY <1>0, <2>3 DEF Command, Listeners, TcpListener, ListenerState
  <2> QED
    BY <2>1, <2>2, <2>3
<1>2. TypeOK'
  BY <1>0, <1>1 DEF TcpInv, TypeOK, Listeners
<1>3. Attached' /\ NoTwins'
  BY <1>0 DEF TcpInv, Attached, HasListener, NoTwins
<1> QED
  BY <1>2, <1>3 DEF TcpInv

LEMMA PeerSteps ==
  ASSUME TcpInv, NEW c \in Conn, NEW seg \in Segment, Receive(c, seg)
  PROVE  TcpInv'
<1> DEFINE k0 == conn[c]
           k == AfterAck(k0, seg)
           ls == AckSeen(k0, seg)
<1>0. /\ k0 \in UipConn /\ listener \in Listeners /\ HasListener(k0) /\ SameEnds(k0, k0)
      /\ TypeOK /\ listening \subseteq Servers
  BY DEF TcpInv, TypeOK, Listeners, Attached, SameEnds
<1>1. /\ k \in UipConn /\ k.state = k0.state /\ k.app = k0.app /\ SameEnds(k, k0)
      /\ ls \in Listeners
  BY <1>0, AckResult
<1>2. ASSUME NEW b \in UipConn, SameEnds(b, k0), NEW state \in TcpState
      PROVE  /\ Becomes(b, state) \in UipConn /\ Becomes(b, state).state = state
             /\ SameEnds(Becomes(b, state), k0)
  BY <1>2, BecomesResult DEF SameEnds
<1>3. /\ {"CLOSED", "ESTABLISHED", "LAST_ACK", "TIME_WAIT", "CLOSING", "FIN_WAIT_2"} \subseteq TcpState
      /\ \A state \in TcpState : Becomes(k, state).app = k0.app
  BY <1>1 DEF TcpState, Waiting, Becomes, UipConn
<1>4. Live(k0)
  BY DEF Receive, Reset, InSynRcvd, InSynSent, PeerCloses, InEstablished, InLastAck,
         InFinWait1, InFinWait2, InClosing, InNoState, Process, Hears
<1>5. CASE Reset(c, seg)
  BY <1>0, <1>2, <1>3, <1>4, <1>5, CallKeeps DEF Reset
<1>6. CASE InSynRcvd(c, seg)
  <2>1. k0.state = "SYN_RCVD"
    BY <1>6 DEF InSynRcvd, Process
  <2> QED
    BY <1>0, <1>1, <1>2, <1>3, <1>4, <1>6, <2>1, CallKeeps DEF InSynRcvd
<1>7. CASE InSynSent(c, seg)
  <2> DEFINE a == AppCall(k, listener, {"ABORT"})
             r == [a EXCEPT !.k = Becomes(a.k, "CLOSED")]
  <2>1. k0.state = "SYN_SENT"
    BY <1>7 DEF InSynSent, Process
  <2>2. CASE Acked(k0, seg) /\ seg.kind = "SYNACK"
    <3>1. Put(c, AppSend(AppCall(Becomes(k, "ESTABLISHED"), listener, {"CONNECTED", "NEWDATA"})))
      BY <1>7, <2>2 DEF InSynSent
    <3> QED
      BY <1>0, <1>1, <1>2, <1>3, <1>4, <2>1, <3>1, CallKeeps
  <2>3. CASE ~(Acked(k0, seg) /\ seg.kind = "SYNACK")
    <3>1. Put(c, r)
      BY <1>7, <2>3 DEF InSynSent
    <3>2. IsResult(a) /\ SameEnds(a.k, k0)
      BY <1>0, <1>1, AppCallResult DEF SameEnds
    <3>3. r.k = Becomes(a.k, "CLOSED") /\ r.ls = a.ls
      BY <3>2 DEF IsResult
    <3> HIDE DEF r, a
    <3>4. /\ r.k \in UipConn /\ r.k.state = "CLOSED" /\ SameEnds(r.k, k0)
          /\ r.ls \in Listeners
      BY <1>2, <1>3, <3>2, <3>3 DEF IsResult
    <3> QED
      BY <1>4, <3>1, <3>4, PutKeeps
  <2> QED
    BY <2>2, <2>3
<1>8. CASE PeerCloses(c, seg)
  <2> DEFINE a == AppCall(k, ls, AckFlag(k0, seg) \cup {"CLOSE"} \cup NewData(seg))
             b == Becomes(a.k, "LAST_ACK")
             n == [b EXCEPT !.out = "fin", !.nrtx = 0]
             r == [a EXCEPT !.k = n]
  <2>1. Put(c, r)
    BY <1>8 DEF PeerCloses
  <2>2. "CONNECTED" \notin AckFlag(k0, seg) \cup {"CLOSE"} \cup NewData(seg)
    BY DEF AckFlag, NewData
  <2>3. IsResult(a) /\ SameEnds(a.k, k0)
    BY <1>0, <1>1, <2>2, AppCallResult DEF SameEnds
  <2>4. r.k = n /\ r.ls = a.ls
    BY <2>3 DEF IsResult
  <2> HIDE DEF r, a
  <2>5. b \in UipConn /\ b.state = "LAST_ACK" /\ SameEnds(b, k0)
    BY <1>2, <1>3, <2>3 DEF IsResult
  <2> HIDE DEF b
  <2>6. 0 \in 0..MaxRtx
    BY TcpAssumption
  <2>7. n \in UipConn /\ n.state = "LAST_ACK" /\ SameEnds(n, k0)
    BY <2>5, <2>6 DEF UipConn, SameEnds
  <2> HIDE DEF n
  <2> QED
    BY <1>4, <2>1, <2>3, <2>4, <2>7, PutKeeps DEF IsResult
<1>9. CASE InEstablished(c, seg)
  <2> DEFINE flags == AckFlag(k0, seg) \cup (IF k0.stopped THEN {} ELSE NewData(seg))
  <2>1. k0.state = "ESTABLISHED" /\ "CONNECTED" \notin flags
    BY <1>9 DEF InEstablished, Process, AckFlag, NewData
  <2>2. Put(c, AppSend(AppCall(k, ls, flags)))
    BY <1>9 DEF InEstablished
  <2> HIDE DEF flags
  <2> QED
    BY <1>1, <1>4, <2>1, <2>2, CallKeeps
<1>10. CASE InLastAck(c, seg)
  <2> DEFINE b == Becomes(k, "CLOSED")
  <2>1. b \in UipConn /\ b.state = "CLOSED" /\ SameEnds(b, k0)
    BY <1>1, <1>2, <1>3
  <2>2. Put(c, AppCall(b, listener, {"CLOSE"}))
    BY <1>10 DEF InLastAck
  <2> HIDE DEF b
  <2> QED
    BY <1>0, <1>4, <2>1, <2>2, CallKeeps
<1>11. CASE InFinWait1(c, seg)
  <2>1. \E state \in {"TIME_WAIT", "CLOSING", "FIN_WAIT_2"} :
          \/ Put(c, AppCall(Becomes(k, state), listener, {"CLOSE"}))
          \/ Put(c, [k |-> Becomes(k, state), ls |-> listener])
    BY <1>11 DEF InFinWait1
  <2>2. PICK state \in {"TIME_WAIT", "CLOSING", "FIN_WAIT_2"} :
          \/ Put(c, AppCall(Becomes(k, state), listener, {"CLOSE"}))
          \/ Put(c, [k |-> Becomes(k, state), ls |-> listener])
    BY <2>1
  <2> DEFINE b == Becomes(k, state)
  <2>3. b \in UipConn /\ b.state = state /\ SameEnds(b, k0)
    BY <1>1, <1>2, <1>3
  <2>4. \/ Put(c, AppCall(b, listener, {"CLOSE"}))
        \/ Put(c, [k |-> b, ls |-> listener])
    BY <2>2
  <2> HIDE DEF b
  <2> QED
    BY <1>0, <1>4, <2>3, <2>4, CallKeeps
<1>12. CASE InFinWait2(c, seg)
  BY <1>0, <1>2, <1>3, <1>4, <1>12, CallKeeps DEF InFinWait2
<1>13. CASE InClosing(c, seg)
  <2> DEFINE b == Becomes(k, "TIME_WAIT")
  <2>1. b \in UipConn /\ b.state = "TIME_WAIT" /\ SameEnds(b, k0)
    BY <1>1, <1>2, <1>3
  <2>2. Put(c, [k |-> b, ls |-> listener])
    BY <1>13 DEF InClosing
  <2> HIDE DEF b
  <2> QED
    BY <1>0, <1>4, <2>1, <2>2, CallKeeps
<1>14. CASE InNoState(c, seg)
  BY <1>0, <1>1, <1>4, <1>14, CallKeeps DEF InNoState, Process
<1> HIDE DEF k, ls
<1> QED
  BY <1>5, <1>6, <1>7, <1>8, <1>9, <1>10, <1>11, <1>12, <1>13, <1>14 DEF Receive

-----------------------------------------------------------------------------
LEMMA TcpInvAtFirst == Init => TcpInv
<1> SUFFICES ASSUME Init PROVE TcpInv
  OBVIOUS
<1>1. Unused(Null) \in UipConn
  BY TcpAssumption DEF Unused, UipConn, TcpState
<1>2. TypeOK
  BY <1>1 DEF Init, TypeOK, TcpListener, ListenerState
<1>3. Attached /\ NoTwins
  BY DEF Init, Attached, HasListener, NoTwins, Live, Unused
<1> QED
  BY <1>2, <1>3 DEF TcpInv

LEMMA TcpInvStutters == TcpInv /\ UNCHANGED tcpVars => TcpInv'
  BY DEF tcpVars, TcpInv, TypeOK, Attached, HasListener, NoTwins

LEMMA TcpInvIsInvariant == Spec => []TcpInv
<1>1. TcpInv /\ [Next]_tcpVars => TcpInv'
  <2> SUFFICES ASSUME TcpInv, [Next]_tcpVars PROVE TcpInv'
    OBVIOUS
  <2>1. CASE UNCHANGED tcpVars
    BY <2>1, TcpInvStutters
  <2>2. CASE Next
    BY <2>2, TimerSteps, AcceptKeeps, PeerSteps, TaskSteps, OpenKeeps DEF Next
  <2> QED
    BY <2>1, <2>2
<1> QED
  BY <1>1, TcpInvAtFirst, PTL DEF Spec

(* Whatever peers and tasks do, a connection has its ports, its peer and   *)
(* its listener from where they may come, and nrtx stays below UIP_MAXRTX. *)
THEOREM TcpTypeCorrect == Spec => []TypeOK
<1>1. TcpInv => TypeOK
  BY DEF TcpInv
<1> QED
  BY <1>1, TcpInvIsInvariant, PTL

(* No two connections in use have the same port and the same remote,       *)
(* whichever slots uip_connect and an incoming SYN take, in any world.     *)
THEOREM NoTwinConnections == Spec => []NoTwins
<1>1. TcpInv => NoTwins
  BY DEF TcpInv
<1> QED
  BY <1>1, TcpInvIsInvariant, PTL

-----------------------------------------------------------------------------
(***************************************************************************)
(* Who owns a listener.  What the callback finds in a listener is about    *)
(* the connection it is called for only because the two are tied: by the   *)
(* states below, which all steps keep together.                            *)
(***************************************************************************)
Tidy == world \cap {"shared", "hasty"} = {}
Kept(f) == world \cap f = {}

\* What holds of one connection, and of one listener.
Shaped(k) ==
  /\ k.state \in {"FIN_WAIT_1", "FIN_WAIT_2", "CLOSING", "TIME_WAIT"} => k.app = Null
  /\ k.state = "ESTABLISHED" => k.out \in {"none", "data"}
  /\ k.state \in {"SYN_RCVD", "SYN_SENT"} => k.out = "syn"
Commanded(s) == s.state \in {"DISCONNECT", "STOP", "RESTART"}

(* Only tasks stop, and their commands wait for the buffer to be empty.    *)
NoStops ==
  "stop" \notin world =>
    /\ \A c \in Conn : ~conn[c].stopped
    /\ \A l \in Listener : listener[l].state \notin {"STOP", "STOPED", "RESTART"}
CommandsWait ==
  Tidy => \A l \in Listener : Commanded(listener[l]) => listener[l].msg_out = "empty"

(* An unused slot is without a listener, unless its connection was reset   *)
(* or stopped.                                                             *)
Freed ==
  world \cap {"reset", "stop"} = {} =>
    \A c \in Conn : ~Live(conn[c]) => conn[c].app = Null

(* A listener that opens has one slot; one that listens has its port, and  *)
(* one connection of that port at a time.                                  *)
OpenerHasOne ==
  Tidy => \A l \in Listener \ Servers :
    /\ \A c, d \in Conn : conn[c].app = l /\ conn[d].app = l => c = d
    /\ listener[l].state = "OFFLINE" => \A c \in Conn : conn[c].app # l
OpenersOpen ==
  Tidy => \A c \in Conn : conn[c].state = "SYN_SENT" => conn[c].app \notin Servers
ServersListen ==
  Tidy => \A c \in Conn : conn[c].app \in Servers => conn[c].app \in listening
PortsApart ==
  Tidy => \A c, d \in Conn :
    /\ Live(conn[c]) /\ conn[c].state # "TIME_WAIT"
    /\ Live(conn[d]) /\ conn[d].state # "TIME_WAIT"
    /\ conn[c].lport = conn[d].lport
    => c = d
PortIsServers ==
  Tidy /\ Untangled =>
    \A c \in Conn : conn[c].state \in {"SYN_RCVD", "ESTABLISHED"} /\ conn[c].app \in Servers =>
      conn[c].lport = PortOf[conn[c].app]

(* So what is in flight waits in the buffer.                               *)
Supplied(k, ls) ==
  k.state = "ESTABLISHED" =>
    k.app # Null /\ (k.out = "data" => ls[k.app].msg_out # "empty")
AllSupplied == Tidy /\ Untangled => \A c \in Conn : Supplied(conn[c], listener)
NoneMissed ==
  Tidy /\ Untangled /\ "piggyback" \notin world =>
    \A l \in Listener : listener[l].msg_out # "acked"

OwnInv ==
  /\ TcpInv /\ \A c \in Conn : Shaped(conn[c])
  /\ ConnectedUnlessReset
  /\ NoStops /\ CommandsWait /\ Freed
  /\ OpenerHasOne /\ OpenersOpen /\ ServersListen /\ PortsApart /\ PortIsServers
  /\ AllSupplied /\ NoneMissed

-----------------------------------------------------------------------------
(* A connection takes the listener of its port at the end of a handshake.  *)
Takes(old, k) ==
  /\ old.state = "SYN_RCVD" /\ old.app = Null
  /\ k.app \in listening /\ PortOf[k.app] = old.lport

(* What a step of one connection may do: from old to k, listeners to ls.   *)
Ends(old, k) ==
  /\ Live(k) => SameEnds(k, old)
  /\ k.app = old.app \/ k.app = Null \/ Takes(old, k)
  /\ k.state \in {"SYN_RCVD", "SYN_SENT"} => k.state = old.state /\ k.app = old.app
  /\ k.state = "ESTABLISHED" => old.state \in {"SYN_RCVD", "SYN_SENT", "ESTABLISHED"}
  /\ old.state = "TIME_WAIT" => k.state = "TIME_WAIT" \/ ~Live(k)
  /\ Shaped(k)
  /\ Kept({"reset", "stop"}) => Live(k) \/ k.app = Null
  /\ "stop" \notin world => ~k.stopped

Others(old, k, ls) ==
  \A l \in Listener : ls[l] = listener[l] \/ l = old.app \/ l = k.app

Served(old, k, ls, l) ==
  /\ ls[l].state = "OFFLINE" => listener[l].state = "OFFLINE" \/ k.app = Null
  /\ "stop" \notin world => ls[l].state \notin {"STOP", "STOPED", "RESTART"}
  /\ "reset" \notin world /\ ls[l].state = "CONNECTED" =>
       \/ k.state \in {"ESTABLISHED", "LAST_ACK"} /\ k.app = l
       \/ /\ listener[l].state = "CONNECTED"
          /\ old.state \notin {"ESTABLISHED", "LAST_ACK"} \/ old.app # l
  /\ Tidy /\ Commanded(ls[l]) => ls[l].msg_out = "empty"
  /\ ls[l].msg_out = "empty" =>
       \/ listener[l].msg_out = "empty"
       \/ old.state = "ESTABLISHED" /\ old.app = l
  /\ Tidy /\ Untangled /\ "piggyback" \notin world => ls[l].msg_out # "acked"

Move(old, k, ls) ==
  /\ Ends(old, k) /\ Others(old, k, ls)
  /\ \A l \in Listener : Served(old, k, ls, l)
  /\ Tidy /\ Untangled => Supplied(k, ls)

(* A move of one connection in use keeps what ties them.                   *)
LEMMA MoveKeeps ==
  ASSUME OwnInv, TcpInv', NEW c \in Conn, NEW k \in UipConn, NEW ls \in Listeners,
         Live(conn[c]), conn' = [conn EXCEPT ![c] = k], listener' = ls,
         UNCHANGED <<listening, world>>, Move(conn[c], k, ls)
  PROVE  OwnInv'
<1>1. conn'[c] = k /\ \A d \in Conn : d # c => conn'[d] = conn[d]
  BY DEF OwnInv, TcpInv, TypeOK
<1>2. \A d \in Conn : conn[d] \in UipConn /\ (conn[d].app \in Listener \/ conn[d].app = Null)
  BY DEF OwnInv, TcpInv, TypeOK, UipConn
<1>3. listening \subseteq Servers /\ Servers \subseteq Listener /\ Null \notin Listener
  BY TcpAssumption DEF OwnInv, TcpInv, TypeOK
<1>4. Ends(conn[c], k) /\ Others(conn[c], k, ls) /\ \A l \in Listener : Served(conn[c], k, ls, l)
  BY DEF Move
<1>5. (\A d \in Conn : Shaped(conn'[d])) /\ NoStops' /\ CommandsWait' /\ Freed'
  <2>1. \A d \in Conn : Shaped(conn'[d])
    BY <1>1, <1>4 DEF OwnInv, Ends
  <2>2. NoStops'
    BY <1>1, <1>4 DEF OwnInv, Ends, Served, NoStops
  <2>3. CommandsWait'
    BY <1>4 DEF Served, CommandsWait, Tidy
  <2>4. Freed'
    BY <1>1, <1>4 DEF OwnInv, Ends, Freed, Kept, Live
  <2> QED
    BY <2>1, <2>2, <2>3, <2>4
<1>6. ConnectedUnlessReset'
  <2> SUFFICES ASSUME "reset" \notin world, NEW l \in Listener, ls[l].state = "CONNECTED"
               PROVE  Active(l)'
    BY DEF ConnectedUnlessReset, ConnectedIsActive
  <2>1. CASE k.state \in {"ESTABLISHED", "LAST_ACK"} /\ k.app = l
    BY <1>1, <2>1 DEF Active
  <2>2. CASE ~(k.state \in {"ESTABLISHED", "LAST_ACK"} /\ k.app = l)
    <3>1. /\ listener[l].state = "CONNECTED"
          /\ conn[c].state \notin {"ESTABLISHED", "LAST_ACK"} \/ conn[c].app # l
      BY <1>4, <2>2 DEF Served
    <3>2. PICK d \in Conn : conn[d].state \in {"ESTABLISHED", "LAST_ACK"} /\ conn[d].app = l
      BY <3>1 DEF OwnInv, ConnectedUnlessReset, ConnectedIsActive, Active
    <3>3. d # c
      BY <3>1, <3>2
    <3> QED
      BY <1>1, <3>2, <3>3 DEF Active
  <2> QED
    BY <2>1, <2>2
<1>7. OpenerHasOne'
  <2> SUFFICES ASSUME Tidy, NEW l \in Listener \ Servers
               PROVE  /\ \A d, e \in Conn : conn'[d].app = l /\ conn'[e].app = l => d = e
                      /\ ls[l].state = "OFFLINE" => \A d \in Conn : conn'[d].app # l
    BY DEF OpenerHasOne, Tidy
  <2>1. k.app = l => conn[c].app = l
    BY <1>3, <1>4 DEF Ends, Takes
  <2>2. \A d, e \in Conn : conn[d].app = l /\ conn[e].app = l => d = e
    BY DEF OwnInv, OpenerHasOne
  <2>3. \A d, e \in Conn : conn'[d].app = l /\ conn'[e].app = l => d = e
    BY <1>1, <2>1, <2>2
  <2>4. ASSUME ls[l].state = "OFFLINE", NEW d \in Conn PROVE conn'[d].app # l
    <3>1. CASE listener[l].state = "OFFLINE"
      BY <1>1, <2>1, <3>1 DEF OwnInv, OpenerHasOne
    <3>2. CASE listener[l].state # "OFFLINE"
      <4>1. k.app = Null /\ l # Null
        BY <1>3, <1>4, <2>4, <3>2 DEF Served
      <4>2. conn[c].app = l
        BY <1>4, <2>4, <3>2, <4>1 DEF Others
      <4> QED
        BY <1>1, <2>2, <4>1, <4>2
    <3> QED
      BY <3>1, <3>2
  <2> QED
    BY <2>3, <2>4
<1>8. OpenersOpen' /\ ServersListen'
  BY <1>1, <1>3, <1>4, TcpAssumption DEF OwnInv, Ends, Takes, OpenersOpen, ServersListen, Tidy
<1>9. PortsApart'
  <2>1. Live(k) /\ k.state # "TIME_WAIT" => conn[c].state # "TIME_WAIT" /\ k.lport = conn[c].lport
    BY <1>4 DEF Ends, SameEnds
  <2> QED
    BY <1>1, <2>1 DEF OwnInv, PortsApart, Tidy
<1>10. PortIsServers'
  <2>1. Tidy /\ Untangled /\ k.state \in {"SYN_RCVD", "ESTABLISHED"} /\ k.app \in Servers =>
          k.lport = PortOf[k.app]
    <3>1. k.state \in {"SYN_RCVD", "ESTABLISHED"} => Live(k)
      BY DEF Live
    <3> QED
      BY <1>3, <1>4, <3>1 DEF OwnInv, PortIsServers, OpenersOpen, Ends, Takes, SameEnds
  <2> QED
    BY <1>1, <2>1 DEF OwnInv, PortIsServers, Tidy, Untangled
<1>11. AllSupplied'
  <2> SUFFICES ASSUME Tidy, Untangled, NEW d \in Conn PROVE Supplied(conn'[d], ls)
    BY DEF AllSupplied, Tidy, Untangled
  <2>1. CASE d = c
    BY <1>1, <2>1 DEF Move
  <2>2. CASE d # c
    <3> SUFFICES ASSUME conn[d].state = "ESTABLISHED", conn[d].out = "data",
                        ls[conn[d].app].msg_out = "empty"
                 PROVE  FALSE
      BY <1>1, <2>2 DEF OwnInv, AllSupplied, Supplied
    <3> DEFINE l == conn[d].app
    <3>1. l \in Listener /\ listener[l].msg_out # "empty"
      BY <1>2 DEF OwnInv, AllSupplied, Supplied
    <3>2. conn[c].state = "ESTABLISHED" /\ conn[c].app = l
      BY <1>4, <3>1 DEF Served
    <3>3. l \in Servers
      BY <2>2, <3>1, <3>2 DEF OwnInv, OpenerHasOne
    <3>4. conn[c].lport = conn[d].lport
      BY <3>2, <3>3 DEF OwnInv, PortIsServers
    <3> QED
      BY <2>2, <3>2, <3>4 DEF OwnInv, PortsApart, Live
  <2> QED
    BY <2>1, <2>2
<1>12. NoneMissed'
  BY <1>4 DEF Served, NoneMissed, Tidy, Untangled
<1> QED
  BY <1>5, <1>6, <1>7, <1>8, <1>9, <1>10, <1>11, <1>12 DEF OwnInv

-----------------------------------------------------------------------------
(* The outcomes of the callback for connection k of listener l: the wish   *)
(* of the task, or the end of the connection, or what uIP has to say.      *)
Outcome(k, ls, l, flags, r) ==
  LET s == ls[l]
      t == r.ls[l] IN
  \/ /\ s.state = "STOP" /\ t.state = "STOPED" /\ t.msg_out = s.msg_out
     /\ r.k.app = k.app /\ r.flags = flags /\ r.sends = FALSE
  \/ /\ s.state = "RESTART" /\ t.state = "CONNECTING" /\ t.msg_out = s.msg_out
     /\ r.k.app = k.app /\ r.k.stopped = FALSE
     /\ r.flags = flags \cup {"NEWDATA"} /\ r.sends = FALSE
  \/ /\ s.state = "DISCONNECT" /\ t.state = "OFFLINE" /\ t.msg_out = s.msg_out
     /\ r.k.app = Null /\ r.k.stopped = k.stopped
     /\ r.flags = {"CLOSE"} /\ r.sends = FALSE
  \/ /\ ~Commanded(s)
     /\ flags \cap {"CLOSE", "TIMEDOUT"} # {} /\ "NEWDATA" \notin flags
     /\ t.state = "OFFLINE" /\ t.msg_out = s.msg_out
     /\ r.k.app = Null /\ r.k.stopped = k.stopped /\ r.flags = flags /\ r.sends = FALSE
  \/ /\ ~Commanded(s) /\ "ACKDATA" \in flags
     /\ t.state = s.state /\ t.msg_out = "empty"
     /\ r.k = k /\ r.flags = flags /\ r.sends = FALSE
  \/ /\ s.state \notin {"STOP", "DISCONNECT"}
     /\ r.k = k /\ r.ls = ls /\ r.flags = flags
     /\ s.state = "RESTART" \/ "NEWDATA" \in flags
          \/ flags \cap {"CLOSE", "TIMEDOUT", "ACKDATA"} = {}
     /\ r.sends => flags \cap {"POLL", "REXMIT"} # {} /\ s.msg_out # "empty"

LEMMA ServeOutcome ==
  ASSUME NEW k \in UipConn, NEW ls \in Listeners, NEW l \in Listener, NEW flags
  PROVE  LET r == Serve(k, ls, l, flags) IN
         /\ r.k.out = k.out /\ \A m \in Listener : m # l => r.ls[m] = ls[m]
         /\ Outcome(k, ls, l, flags, r)
<1> DEFINE Result(kk, state, msg, ff) ==
             [k |-> kk, flags |-> ff, sends |-> FALSE,
              ls |-> [ls EXCEPT ![l] = [state |-> state, msg_out |-> msg]]]
           s == ls[l]
           stops == [k EXCEPT !.stopped = TRUE]
           goes == [k EXCEPT !.stopped = FALSE]
           leaves == [k EXCEPT !.app = Null]
           gives == flags \cap {"POLL", "REXMIT"} # {} /\ s.msg_out # "empty"
           nothing == [k |-> k, ls |-> ls, flags |-> flags, sends |-> gives]
           r == Serve(k, ls, l, flags)
<1> SUFFICES /\ r.k.out = k.out /\ \A m \in Listener : m # l => r.ls[m] = ls[m]
             /\ Outcome(k, ls, l, flags, r)
  OBVIOUS
<1>1. /\ stops.out = k.out /\ stops.app = k.app
      /\ goes.out = k.out /\ goes.app = k.app /\ goes.stopped = FALSE
      /\ leaves.out = k.out /\ leaves.app = Null /\ leaves.stopped = k.stopped
      /\ k.out = k.out
  BY DEF UipConn
<1>2. ASSUME NEW kk, kk.out = k.out, NEW state, NEW msg, NEW ff, r = Result(kk, state, msg, ff)
      PROVE  /\ r.k = kk /\ r.flags = ff /\ r.sends = FALSE
             /\ r.ls[l].state = state /\ r.ls[l].msg_out = msg
             /\ r.k.out = k.out /\ \A m \in Listener : m # l => r.ls[m] = ls[m]
  <2>1. [ls EXCEPT ![l] = [state |-> state, msg_out |-> msg]][l] = [state |-> state, msg_out |-> msg]
    BY DEF Listeners
  <2> HIDE DEF r
  <2> QED
    BY <1>2, <2>1 DEF Listeners
<1>3. [ls EXCEPT ![l] = [state |-> s.state, msg_out |-> s.msg_out]] = ls
  <2>1. ls[l] = [state |-> s.state, msg_out |-> s.msg_out]
    BY DEF Listeners, TcpListener
  <2> QED
    BY <2>1 DEF Listeners
<1>4. CASE s.state = "STOP"
  <2>1. r = Result(stops, "STOPED", s.msg_out, flags)
    BY <1>4, Zenon DEF Serve
  <2> HIDE DEF Result, stops, r
  <2>2. /\ r.k = stops /\ r.flags = flags /\ r.sends = FALSE
        /\ r.ls[l].state = "STOPED" /\ r.ls[l].msg_out = s.msg_out
        /\ r.k.out = k.out /\ \A m \in Listener : m # l => r.ls[m] = ls[m]
    BY <1>1, <1>2, <2>1
  <2> QED
    BY <1>1, <1>4, <2>2 DEF Outcome
<1>5. CASE s.state = "RESTART" /\ k.stopped
  <2>1. r = Result(goes, "CONNECTING", s.msg_out, flags \cup {"NEWDATA"})
    BY <1>5, Zenon DEF Serve
  <2> HIDE DEF Result, goes, r
  <2>2. /\ r.k = goes /\ r.flags = flags \cup {"NEWDATA"} /\ r.sends = FALSE
        /\ r.ls[l].state = "CONNECTING" /\ r.ls[l].msg_out = s.msg_out
        /\ r.k.out = k.out /\ \A m \in Listener : m # l => r.ls[m] = ls[m]
    BY <1>1, <1>2, <2>1
  <2> QED
    BY <1>1, <1>5, <2>2 DEF Outcome
<1>6. CASE \/ s.state = "RESTART" /\ ~k.stopped
           \/ ~Commanded(s) /\ "NEWDATA" \in flags
  <2>1. r = Result(k, s.state, s.msg_out, flags)
    BY <1>6, Zenon DEF Serve, Commanded
  <2>2. r.ls = ls
    BY <1>3, <2>1
  <2> HIDE DEF Result, r
  <2> QED
    BY <1>2, <1>6, <2>1, <2>2 DEF Outcome, Commanded
<1>7. CASE s.state = "DISCONNECT"
  <2>1. r = Result(leaves, "OFFLINE", s.msg_out, {"CLOSE"})
    BY <1>7, Zenon DEF Serve
  <2> HIDE DEF Result, leaves, r
  <2>2. /\ r.k = leaves /\ r.flags = {"CLOSE"} /\ r.sends = FALSE
        /\ r.ls[l].state = "OFFLINE" /\ r.ls[l].msg_out = s.msg_out
        /\ r.k.out = k.out /\ \A m \in Listener : m # l => r.ls[m] = ls[m]
    BY <1>1, <1>2, <2>1
  <2> QED
    BY <1>1, <1>7, <2>2 DEF Outcome
<1>8. CASE ~Commanded(s) /\ "NEWDATA" \notin flags /\ flags \cap {"CLOSE", "TIMEDOUT"} # {}
  <2>1. r = Result(leaves, "OFFLINE", s.msg_out, flags)
    BY <1>8, Zenon DEF Serve, Commanded
  <2> HIDE DEF Result, leaves, r
  <2>2. /\ r.k = leaves /\ r.flags = flags /\ r.sends = FALSE
        /\ r.ls[l].state = "OFFLINE" /\ r.ls[l].msg_out = s.msg_out
        /\ r.k.out = k.out /\ \A m \in Listener : m # l => r.ls[m] = ls[m]
    BY <1>1, <1>2, <2>1
  <2> QED
    BY <1>1, <1>8, <2>2 DEF Outcome, Commanded
<1>9. CASE /\ ~Commanded(s) /\ "NEWDATA" \notin flags
           /\ flags \cap {"CLOSE", "TIMEDOUT"} = {} /\ "ACKDATA" \in flags
  <2>1. r = Result(k, s.state, "empty", flags)
    BY <1>9, Zenon DEF Serve, Commanded
  <2> HIDE DEF Result, r
  <2>2. /\ r.k = k /\ r.flags = flags /\ r.sends = FALSE
        /\ r.ls[l].state = s.state /\ r.ls[l].msg_out = "empty"
        /\ r.k.out = k.out /\ \A m \in Listener : m # l => r.ls[m] = ls[m]
    BY <1>1, <1>2, <2>1
  <2> QED
    BY <1>1, <1>9, <2>2 DEF Outcome
<1>10. CASE /\ ~Commanded(s) /\ "NEWDATA" \notin flags
            /\ flags \cap {"CLOSE", "TIMEDOUT"} = {} /\ "ACKDATA" \notin flags
  <2>1. r = nothing
    BY <1>10, Zenon DEF Serve, Commanded
  <2> HIDE DEF r, gives
  <2>2. r.k = k /\ r.ls = ls /\ r.flags = flags /\ r.sends = gives
    BY <2>1
  <2>3. r.sends => flags \cap {"POLL", "REXMIT"} # {} /\ s.msg_out # "empty"
    BY <2>2, Zenon DEF gives
  <2> QED
    BY <1>10, <2>2, <2>3 DEF Outcome, Commanded
<1>11. CASE ~Commanded(s)
  BY <1>6, <1>8, <1>9, <1>10, <1>11, Zenon
<1>12. CASE s.state = "RESTART"
  BY <1>5, <1>6, <1>12, Zenon
<1> QED
  BY <1>4, <1>7, <1>11, <1>12, Zenon DEF Commanded

(* The whole callback, for a connection whose listener it need not find.   *)
LEMMA CallOutcome ==
  ASSUME NEW k \in UipConn, NEW ls \in Listeners, NEW flags, "CONNECTED" \notin flags,
         listening \subseteq Servers
  PROVE  LET r == AppCall(k, ls, flags) IN
         /\ IsResult(r) /\ r.k.state = k.state /\ SameEnds(r.k, k) /\ r.k.out = k.out
         /\ \A m \in Listener : m # k.app => r.ls[m] = ls[m]
         /\ \/ k.app = Null /\ r.k = k /\ r.ls = ls /\ r.flags = flags /\ r.sends = FALSE
            \/ k.app \in Listener /\ Outcome(k, ls, k.app, flags, r)
<1> DEFINE r == AppCall(k, ls, flags)
<1>1. IsResult(r) /\ r.k.state = k.state /\ SameEnds(r.k, k)
  BY AppCallResult
<1>2. CASE k.app = Null
  <2>1. r = [k |-> k, ls |-> ls, flags |-> flags, sends |-> FALSE]
    BY <1>2 DEF AppCall
  <2>2. r.k = k /\ r.ls = ls /\ r.flags = flags /\ r.sends = FALSE
    BY <2>1
  <2> QED
    BY <1>1, <1>2, <2>2
<1>3. CASE k.app # Null
  <2>1. k.app \in Listener
    BY <1>3 DEF UipConn
  <2>2. r = Serve(k, ls, k.app, flags)
    BY <1>3 DEF AppCall
  <2> QED
    BY <1>1, <2>1, <2>2, ServeOutcome
<1> QED
  BY <1>2, <1>3

(* What AppSend adds to it.                                                *)
LEMMA SendOutcome ==
  ASSUME NEW r, IsResult(r)
  PROVE  LET n == AppSend(r) IN
         /\ n.k \in UipConn /\ SameEnds(n.k, r.k) /\ n.k.app = r.k.app /\ n.ls = r.ls
         /\ "CLOSE" \in r.flags =>
              n.k.state = "FIN_WAIT_1" /\ n.k.out = "fin" /\ n.k.stopped = FALSE
         /\ "CLOSE" \notin r.flags =>
              /\ n.k.state = r.k.state /\ n.k.stopped = r.k.stopped
              /\ n.k.out = IF r.sends /\ r.k.out = "none" THEN "data" ELSE r.k.out
<1> DEFINE n == AppSend(r)
<1>1. n.k \in UipConn /\ SameEnds(n.k, r.k)
  BY AppSendResult
<1>2. r.k \in UipConn
  BY DEF IsResult
<1>3. CASE "CLOSE" \in r.flags
  <2> DEFINE b == Becomes(r.k, "FIN_WAIT_1")
             closes == [b EXCEPT !.out = "fin", !.nrtx = 0]
  <2>1. n.k = closes /\ n.ls = r.ls
    BY <1>3 DEF AppSend, IsResult
  <2>2. b \in UipConn /\ b.state = "FIN_WAIT_1" /\ b.stopped = FALSE /\ b.app = r.k.app
    BY <1>2 DEF Becomes, UipConn, TcpState, Waiting
  <2> HIDE DEF b
  <2>3. /\ closes.state = "FIN_WAIT_1" /\ closes.out = "fin" /\ closes.stopped = FALSE
        /\ closes.app = r.k.app
    BY <2>2 DEF UipConn
  <2> QED
    BY <1>1, <1>3, <2>1, <2>3
<1>4. CASE "CLOSE" \notin r.flags
  <2> DEFINE out == IF r.sends /\ r.k.out = "none" THEN "data" ELSE r.k.out
             sent == [r.k EXCEPT !.out = out, !.nrtx = 0]
  <2>1. n.k = sent /\ n.ls = r.ls
    BY <1>4 DEF AppSend, IsResult, UipConn
  <2>2. /\ sent.state = r.k.state /\ sent.stopped = r.k.stopped
        /\ sent.app = r.k.app /\ sent.out = out
    BY <1>2 DEF UipConn
  <2> QED
    BY <1>1, <1>4, <2>1, <2>2
<1> QED
  BY <1>3, <1>4

(* A connection that is given back is one that only keeps its listener.    *)
LEMMA PutMoves ==
  ASSUME OwnInv, TcpInv', NEW c \in Conn, Live(conn[c]), NEW r,
         r.k \in UipConn, r.ls \in Listeners, Put(c, r), Move(conn[c], r.k, r.ls)
  PROVE  OwnInv'
<1> DEFINE old == conn[c]
           k == r.k
           new == IF Live(k) THEN k ELSE Unused(k.app)
<1>1. /\ conn' = [conn EXCEPT ![c] = new] /\ listener' = r.ls
      /\ UNCHANGED <<listening, world>>
  BY DEF Put
<1>2. CASE Live(k)
  BY <1>1, <1>2, MoveKeeps
<1>3. CASE ~Live(k)
  <2> DEFINE u == Unused(k.app)
  <2>1. /\ u.state = k.state /\ u.app = k.app /\ ~Live(u) /\ u.stopped = FALSE
        /\ k.state = "CLOSED"
    BY <1>3 DEF Live, Unused
  <2>2. u \in UipConn
    BY TcpAssumption DEF Unused, UipConn, TcpState
  <2>3. new = u
    BY <1>3
  <2> HIDE DEF u
  <2>4. Move(old, u, r.ls)
    BY <1>3, <2>1 DEF Move, Ends, Others, Served, Shaped, Supplied, Takes, SameEnds
  <2> QED
    BY <1>1, <2>2, <2>3, <2>4, MoveKeeps
<1> QED
  BY <1>2, <1>3

-----------------------------------------------------------------------------
(* The moves.  Without the callback, or where there is no one to call:     *)
LEMMA QuietMoves ==
  ASSUME OwnInv, NEW c \in Conn, NEW k \in UipConn,
         SameEnds(k, conn[c]), k.app = conn[c].app, Shaped(k),
         k.state # "ESTABLISHED",
         \/ k.state = conn[c].state
         \/ /\ k.state \notin {"SYN_SENT", "SYN_RCVD"}
            /\ conn[c].state \notin {"ESTABLISHED", "LAST_ACK"}
            /\ conn[c].state = "TIME_WAIT" => k.state = "CLOSED",
         k.stopped => conn[c].stopped,
         Live(k) \/ k.app = Null \/ "stop" \in world,
         ~Live(k) \/ k.state # "CLOSED" \/ conn[c].state = "CLOSED"
  PROVE  Move(conn[c], k, listener)
<1>1. Shaped(conn[c]) /\ Supplied(k, listener)
  BY DEF OwnInv, Supplied
<1>2. Ends(conn[c], k)
  BY <1>1 DEF Ends, OwnInv, NoStops, Kept, Live
<1>3. ASSUME NEW l \in Listener PROVE Served(conn[c], k, listener, l)
  BY DEF Served, OwnInv, NoStops, CommandsWait, NoneMissed
<1> QED
  BY <1>1, <1>2, <1>3 DEF Move, Others

(* The end of a connection, which the callback is told of.                 *)
LEMMA EndMoves ==
  ASSUME OwnInv, NEW c \in Conn, NEW k \in UipConn, NEW n \in UipConn, NEW flags,
         k.app = conn[c].app, n.app = AppCall(k, listener, flags).k.app,
         flags \in {{"CLOSE"}, {"TIMEDOUT"}, {"ABORT"}},
         flags = {"ABORT"} => "reset" \in world,
         n.state = "CLOSED", SameEnds(n, conn[c]),
         \/ n.stopped = FALSE
         \/ k.stopped = FALSE /\ n.stopped = AppCall(k, listener, flags).k.stopped
  PROVE  Move(conn[c], n, AppCall(k, listener, flags).ls)
<1> DEFINE r == AppCall(k, listener, flags)
           old == conn[c]
<1>1. /\ listener \in Listeners /\ listening \subseteq Servers
      /\ "CONNECTED" \notin flags /\ "ACKDATA" \notin flags /\ "NEWDATA" \notin flags
      /\ Shaped(old)
  BY DEF OwnInv, TcpInv, TypeOK, Listeners
<1>2. /\ \A m \in Listener : m # k.app => r.ls[m] = listener[m]
      /\ \/ k.app = Null /\ r.k = k /\ r.ls = listener
         \/ k.app \in Listener /\ Outcome(k, listener, k.app, flags, r)
  <2>1. \A m \in Listener : m # k.app => r.ls[m] = listener[m]
    BY <1>1, CallOutcome
  <2>2. \/ k.app = Null /\ r.k = k /\ r.ls = listener
        \/ k.app \in Listener /\ Outcome(k, listener, k.app, flags, r)
    BY <1>1, CallOutcome
  <2> QED
    BY <2>1, <2>2
<1> HIDE DEF r
<1>3. CASE k.app = Null
  <2>1. r.ls = listener /\ n.app = Null /\ n.stopped = FALSE
    BY <1>2, <1>3, TcpAssumption DEF r
  <2>2. Ends(old, n)
    BY <1>1, <1>3, <2>1 DEF Ends, Shaped, Live
  <2>3. ASSUME NEW l \in Listener PROVE Served(old, n, listener, l)
    BY <1>3, TcpAssumption DEF Served, OwnInv, NoStops, CommandsWait, NoneMissed
  <2> QED
    BY <2>1, <2>2, <2>3 DEF Move, Others, Supplied, r
<1>4. CASE k.app # Null
  <2> DEFINE l == k.app
             s == listener[l]
             t == r.ls[l]
  <2>1. /\ l \in Listener /\ n.app \in {Null, l}
        /\ \/ /\ s.state = "STOP" /\ t.state = "STOPED" /\ t.msg_out = s.msg_out
           \/ /\ s.state = "RESTART" /\ t.state = "CONNECTING" /\ t.msg_out = s.msg_out
           \/ /\ t.state = "OFFLINE" /\ t.msg_out = s.msg_out /\ n.app = Null
              /\ n.stopped = FALSE
           \/ /\ r.ls = listener /\ n.stopped = FALSE
              /\ s.state = "RESTART" \/ "reset" \in world
    BY <1>1, <1>2, <1>4 DEF Outcome, OwnInv, NoStops, r
  <2>2. Ends(old, n)
    <3>1. "stop" \notin world => n.stopped = FALSE
      BY <2>1 DEF OwnInv, NoStops
    <3>2. Kept({"reset", "stop"}) => n.app = Null
      BY <2>1 DEF OwnInv, NoStops, Kept
    <3>3. old.state # "TIME_WAIT"
      BY <1>1, <1>4 DEF Shaped
    <3> QED
      BY <2>1, <3>1, <3>2, <3>3 DEF Ends, Shaped
  <2>3. ASSUME NEW m \in Listener, m # l PROVE Served(old, n, r.ls, m)
    BY <1>2, <2>3 DEF Served, OwnInv, NoStops, CommandsWait, NoneMissed
  <2>4. Served(old, n, r.ls, l)
    BY <2>1 DEF Served, OwnInv, NoStops, CommandsWait, NoneMissed, Commanded
  <2>5. Others(old, n, r.ls)
    BY <1>2 DEF Others
  <2> QED
    BY <2>2, <2>3, <2>4, <2>5 DEF Move, Supplied, r
<1> QED
  BY <1>3, <1>4

(* What an acknowledgement does to the listeners, and what with.           *)
Seen(old, k, ls, flags) ==
  /\ \A l \in Listener :
       /\ ls[l].state = listener[l].state
       /\ ls[l].msg_out = "empty" <=> listener[l].msg_out = "empty"
       /\ ls[l] = listener[l] \/ l = old.app
  /\ \/ k.out = old.out /\ "ACKDATA" \notin flags
     \/ k.out = "none"
  /\ "piggyback" \notin world =>
       \/ ls = listener
       \/ flags = {"ACKDATA"} /\ old.out = "data"

(* An established connection is called back, and sends or not.             *)
LEMMA ActiveMoves ==
  ASSUME OwnInv, NEW c \in Conn, NEW k \in UipConn, NEW n \in UipConn,
         NEW ls \in Listeners, NEW flags,
         conn[c].state = "ESTABLISHED", k.state = "ESTABLISHED",
         k.app = conn[c].app, SameEnds(k, conn[c]), k.stopped = conn[c].stopped,
         flags \cap {"CONNECTED", "CLOSE", "TIMEDOUT"} = {},
         Seen(conn[c], k, ls, flags),
         \/ n = AppSend(AppCall(k, ls, flags)).k
         \/ n = AppCall(k, ls, flags).k /\ k.out = "data" /\ "ACKDATA" \notin flags
  PROVE  Move(conn[c], n, AppCall(k, ls, flags).ls)
<1> DEFINE r == AppCall(k, ls, flags)
           old == conn[c]
           sent == r.sends /\ k.out = "none"
<1>0. listening \subseteq Servers /\ "CONNECTED" \notin flags
  BY DEF OwnInv, TcpInv, TypeOK
<1>1. /\ listener \in Listeners /\ Shaped(old) /\ Shaped(k) /\ "CLOSE" \notin flags /\ "TIMEDOUT" \notin flags
  BY DEF OwnInv, TcpInv, TypeOK, Listeners, Shaped, Seen
<1>2. /\ IsResult(r) /\ r.k.state = k.state /\ SameEnds(r.k, k) /\ r.k.out = k.out
      /\ \A m \in Listener : m # k.app => r.ls[m] = ls[m]
      /\ \/ k.app = Null /\ r.k = k /\ r.ls = ls /\ r.flags = flags /\ r.sends = FALSE
         \/ k.app \in Listener /\ Outcome(k, ls, k.app, flags, r)
  BY <1>0, CallOutcome
<1>5. /\ n.app = r.k.app /\ SameEnds(n, old)
      /\ \/ n.state = "FIN_WAIT_1" /\ n.stopped = FALSE /\ "CLOSE" \in r.flags
         \/ /\ n.state = "ESTABLISHED" /\ n.stopped = r.k.stopped
            /\ n.out \in {k.out, "data"}
            /\ n.out = "data" => k.out = "data" \/ r.sends
            /\ "CLOSE" \notin r.flags \/ k.out = "data"
  <2> HIDE DEF r, sent
  <2>1. SameEnds(r.k, old) /\ r.k.state = "ESTABLISHED"
    BY <1>2 DEF SameEnds
  <2>2. CASE n = AppSend(r).k
    <3>1. /\ SameEnds(n, r.k) /\ n.app = r.k.app
          /\ "CLOSE" \in r.flags => n.state = "FIN_WAIT_1" /\ n.stopped = FALSE
          /\ "CLOSE" \notin r.flags =>
               /\ n.state = r.k.state /\ n.stopped = r.k.stopped
               /\ n.out = IF r.sends /\ r.k.out = "none" THEN "data" ELSE r.k.out
      BY <1>2, <2>2, SendOutcome
    <3>2. SameEnds(n, old)
      BY <2>1, <3>1 DEF SameEnds
    <3> QED
      BY <1>2, <2>1, <3>1, <3>2
  <2>3. CASE n = r.k /\ k.out = "data"
    BY <1>2, <2>1, <2>3
  <2> QED
    BY <2>2, <2>3 DEF r
<1> HIDE DEF r
<1>6. ASSUME NEW m \in Listener, m # k.app PROVE Served(old, n, r.ls, m)
  BY <1>2, <1>6 DEF Seen, Served, OwnInv, NoStops, CommandsWait, NoneMissed, Commanded
<1>7. Others(old, n, r.ls)
  BY <1>2 DEF Others, Seen
<1>8. CASE k.app = Null
  <2>1. n.app = Null /\ n.state = "ESTABLISHED" /\ n.stopped = old.stopped /\ n.out \in {"none", "data"}
    BY <1>1, <1>2, <1>5, <1>8, TcpAssumption DEF Shaped
  <2>2. Ends(old, n)
    BY <1>5, <1>8, <2>1 DEF Ends, Shaped, Live, OwnInv, NoStops
  <2>3. ~(Tidy /\ Untangled)
    BY <1>8 DEF OwnInv, AllSupplied, Supplied
  <2> QED
    BY <1>6, <1>7, <1>8, <2>2, <2>3, TcpAssumption DEF Move, r
<1>9. CASE k.app # Null
  <2> DEFINE l == k.app
             s0 == listener[l]
             s == ls[l]
             t == r.ls[l]
  <2>1. l \in Listener /\ Outcome(k, ls, l, flags, r) /\ old.app = l
    BY <1>2, <1>9
  <2>2. /\ s.state = s0.state /\ (s.msg_out = "empty" <=> s0.msg_out = "empty")
        /\ (k.out = "data" => old.out = "data" /\ "ACKDATA" \notin flags)
    BY <2>1 DEF Seen
  <2>3. Tidy /\ Untangled /\ old.out = "data" => s.msg_out # "empty" /\ ~Commanded(s)
    BY <2>1, <2>2 DEF OwnInv, AllSupplied, Supplied, CommandsWait, Commanded
  <2>4. CASE s.state = "DISCONNECT"
    <3>1. n.app = Null /\ t.state = "OFFLINE" /\ t.msg_out = s.msg_out /\ ~(n.stopped /\ ~k.stopped)
      BY <1>5, <2>1, <2>4 DEF Outcome, Commanded
    <3>2. n.state = "FIN_WAIT_1" \/ (n.state = "ESTABLISHED" /\ k.out = "data" /\ n.out = "data")
      BY <1>5, <2>1, <2>4 DEF Outcome, Commanded
    <3>3. Ends(old, n)
      BY <1>5, <3>1, <3>2 DEF Ends, Shaped, Live, OwnInv, NoStops
    <3>4. Served(old, n, r.ls, l)
      BY <2>1, <2>2, <2>3, <2>4, <3>1 DEF Served, Commanded, Seen, OwnInv, NoneMissed
    <3>5. Tidy /\ Untangled => Supplied(n, r.ls)
      BY <2>2, <2>3, <2>4, <3>2 DEF Supplied, Commanded
    <3> QED
      BY <1>6, <1>7, <3>3, <3>4, <3>5 DEF Move, r
  <2>5. CASE s.state # "DISCONNECT"
    <3>1. /\ n.app = l /\ n.state = "ESTABLISHED" /\ n.stopped = r.k.stopped
          /\ n.out \in {"none", "data"}
      BY <1>1, <1>5, <2>1, <2>5 DEF Outcome, Shaped, Commanded
    <3>2. n.out = "data" => t.msg_out # "empty" \/ (k.out = "data" /\ t.msg_out = s.msg_out)
      BY <1>5, <2>1, <2>2, <2>5 DEF Outcome, Commanded
    <3>3. Ends(old, n)
      BY <1>5, <2>1, <2>2, <3>1 DEF Ends, Shaped, Live, OwnInv, NoStops, Outcome
    <3>4. Served(old, n, r.ls, l)
      <4>1. \/ /\ s.state = "STOP" \/ s.state = "RESTART"
               /\ t.msg_out = s.msg_out /\ t.state \in {"STOPED", "CONNECTING"}
            \/ /\ t.state = s.state /\ t.msg_out = "empty" /\ ~Commanded(s)
            \/ /\ t = s
               /\ flags # {"ACKDATA"} \/ Commanded(s)
        BY <2>1, <2>5, <3>1 DEF Outcome, Commanded
      <4> QED
        BY <2>1, <2>2, <2>3, <2>5, <3>1, <4>1
           DEF Served, Commanded, Seen, OwnInv, NoStops, CommandsWait, NoneMissed
    <3>5. Tidy /\ Untangled => Supplied(n, r.ls)
      BY <1>9, <2>2, <2>3, <3>1, <3>2 DEF Supplied
    <3> QED
      BY <1>6, <1>7, <3>3, <3>4, <3>5 DEF Move, r
  <2> QED
    BY <2>4, <2>5
<1> QED
  BY <1>8, <1>9

(* The peer closes.                                                        *)
LEMMA LastAckMoves ==
  ASSUME OwnInv, NEW c \in Conn, NEW k \in UipConn, NEW n \in UipConn,
         NEW ls \in Listeners, NEW flags,
         conn[c].state = "ESTABLISHED", k.app = conn[c].app,
         "CONNECTED" \notin flags, Seen(conn[c], k, ls, flags), "CLOSE" \in flags,
         n.state = "LAST_ACK", n.app = AppCall(k, ls, flags).k.app,
         n.stopped = FALSE, SameEnds(n, conn[c])
  PROVE  Move(conn[c], n, AppCall(k, ls, flags).ls)
<1> DEFINE r == AppCall(k, ls, flags)
           old == conn[c]
           l == k.app
           s == ls[l]
           t == r.ls[l]
<1>0. listening \subseteq Servers /\ Null \notin Listener
  BY TcpAssumption DEF OwnInv, TcpInv, TypeOK
<1>1. /\ IsResult(r) /\ r.k.state = k.state /\ SameEnds(r.k, k) /\ r.k.out = k.out
      /\ \A m \in Listener : m # k.app => r.ls[m] = ls[m]
      /\ \/ k.app = Null /\ r.k = k /\ r.ls = ls /\ r.flags = flags /\ r.sends = FALSE
         \/ k.app \in Listener /\ Outcome(k, ls, k.app, flags, r)
  BY <1>0, CallOutcome
<1> HIDE DEF r
<1>2. "piggyback" \notin world => ls = listener
  BY DEF Seen
<1>3. ASSUME NEW m \in Listener, m # l PROVE Served(old, n, r.ls, m)
  BY <1>1, <1>3 DEF Seen, Served, OwnInv, NoStops, CommandsWait, NoneMissed, Commanded
<1>4. ASSUME l \in Listener PROVE Served(old, n, r.ls, l)
  <2>1. s.state = listener[l].state /\ (s.msg_out = "empty" <=> listener[l].msg_out = "empty")
    BY <1>4 DEF Seen
  <2>2. \/ /\ s.state \in {"STOP", "RESTART"} /\ t.state \in {"STOPED", "CONNECTING"}
           /\ t.msg_out = s.msg_out
        \/ t.state = "OFFLINE" /\ n.app = Null /\ t.msg_out = s.msg_out
        \/ t.state = s.state /\ ~Commanded(s) /\ t.msg_out = "empty" /\ n.app = l
        \/ t = s /\ n.app = l
    BY <1>0, <1>1, <1>4 DEF Outcome, Commanded, r
  <2> QED
    BY <1>2, <1>4, <2>1, <2>2 DEF Served, OwnInv, NoStops, CommandsWait, NoneMissed, Commanded
<1>5. n.app \in {l, Null} /\ Others(old, n, r.ls)
  BY <1>1 DEF Others, Seen, Outcome, r
<1>6. Ends(old, n)
  BY <1>5 DEF Ends, Shaped, Live
<1> QED
  BY <1>3, <1>4, <1>5, <1>6 DEF Move, Supplied, r

(* The connection is established: its listener hears of it, or the         *)
(* connection gets the listener of its port.                               *)
LEMMA EnterOutcome ==
  ASSUME OwnInv, NEW c \in Conn, NEW k \in UipConn, NEW flags, "CONNECTED" \in flags,
         HasListener(conn[c]), conn[c].state \in {"SYN_SENT", "SYN_RCVD"},
         k.app = conn[c].app, SameEnds(k, conn[c])
  PROVE  LET r == AppCall(k, listener, flags)
             e == Enter(k, listener)
             l == e.k.app IN
         /\ IsResult(r) /\ r.k.state = k.state /\ SameEnds(r.k, k) /\ r.k.out = k.out
         /\ l \in Listener /\ (l = k.app \/ (k.app = Null /\ l \in listening /\ PortOf[l] = k.lport))
         /\ e.k.stopped = k.stopped
         /\ \A m \in Listener : m # l => r.ls[m] = listener[m]
         /\ e.ls[l].msg_out = listener[l].msg_out
         /\ \/ e.ls[l].state = "CONNECTED"
            \/ e.ls[l].state = listener[l].state /\ k.app = l
         /\ Outcome(e.k, e.ls, l, flags, r)
<1> DEFINE r == AppCall(k, listener, flags)
           e == Enter(k, listener)
           l == e.k.app
<1>1. /\ listening \subseteq Servers /\ listener \in Listeners /\ Servers \subseteq Listener
      /\ Null \notin Listener
      /\ k.app # Null \/ \E m \in listening : PortOf[m] = k.lport
  BY TcpAssumption DEF OwnInv, TcpInv, TypeOK, Listeners, HasListener, SameEnds
<1>2. IsResult(r) /\ r.k.state = k.state /\ SameEnds(r.k, k)
  BY <1>1, AppCallResult
<1>3. e.k \in UipConn /\ e.ls \in Listeners /\ l # Null
  BY <1>1, EnterResult
<1>4. l \in Listener
  BY <1>3 DEF UipConn
<1>5. /\ l = k.app \/ (k.app = Null /\ l \in listening /\ PortOf[l] = k.lport)
      /\ e.k.stopped = k.stopped /\ e.k.out = k.out
      /\ \A m \in Listener : m # l => e.ls[m] = listener[m]
      /\ e.ls[l].msg_out = listener[l].msg_out
      /\ \/ e.ls[l].state = "CONNECTED"
         \/ e.ls[l].state = listener[l].state /\ k.app = l
  <2>1. ASSUME NEW m \in Listener
        PROVE  LET new == [listener EXCEPT ![m].state = "CONNECTED"] IN
               /\ new[m].state = "CONNECTED" /\ new[m].msg_out = listener[m].msg_out
               /\ \A o \in Listener : o # m => new[o] = listener[o]
    BY <1>1 DEF Listeners, TcpListener
  <2>2. CASE k.app = Null
    <3> DEFINE m == CHOOSE m \in listening : PortOf[m] = k.lport
    <3>1. e = [k |-> [k EXCEPT !.app = m], ls |-> [listener EXCEPT ![m].state = "CONNECTED"]]
      BY <2>2 DEF Enter
    <3>2. m \in listening /\ PortOf[m] = k.lport /\ m \in Listener
      BY <1>1, <2>2
    <3> HIDE DEF m
    <3>3. /\ e.k = [k EXCEPT !.app = m] /\ e.ls = [listener EXCEPT ![m].state = "CONNECTED"]
          /\ l = m /\ e.k.stopped = k.stopped /\ e.k.out = k.out
      BY <3>1 DEF UipConn
    <3> HIDE DEF e
    <3> QED
      BY <2>1, <2>2, <3>2, <3>3
  <2>3. CASE k.app # Null
    <3>1. e.k = k /\ e.ls = IF listener[k.app].state = "CONNECTING"
                            THEN [listener EXCEPT ![k.app].state = "CONNECTED"]
                            ELSE listener
      BY <2>3 DEF Enter
    <3> HIDE DEF e
    <3> QED
      BY <1>4, <2>1, <3>1
  <2> QED
    BY <2>2, <2>3
<1>6. r = Serve(e.k, e.ls, l, flags)
  BY <1>3 DEF AppCall
<1> HIDE DEF e
<1>7. /\ r.k.out = e.k.out /\ \A m \in Listener : m # l => r.ls[m] = e.ls[m]
      /\ Outcome(e.k, e.ls, l, flags, r)
  BY <1>3, <1>4, <1>6, ServeOutcome
<1> QED
  BY <1>2, <1>4, <1>5, <1>7 DEF e

LEMMA ConnectMoves ==
  ASSUME OwnInv, NEW c \in Conn, NEW k \in UipConn, NEW flags,
         flags \subseteq {"CONNECTED", "NEWDATA"}, "CONNECTED" \in flags,
         conn[c].state \in {"SYN_SENT", "SYN_RCVD"},
         k.state = "ESTABLISHED", k.app = conn[c].app, SameEnds(k, conn[c]),
         k.stopped = FALSE, k.out = "none"
  PROVE  LET n == AppSend(AppCall(k, listener, flags)) IN
         n.k \in UipConn /\ n.ls \in Listeners /\ Move(conn[c], n.k, n.ls)
<1> DEFINE r == AppCall(k, listener, flags)
           e == Enter(k, listener)
           l == e.k.app
           n == AppSend(r)
           old == conn[c]
           s == e.ls[l]
           t == r.ls[l]
<1>1. HasListener(old) /\ listening \subseteq Servers /\ Null \notin Listener
  BY TcpAssumption DEF OwnInv, TcpInv, TypeOK, Attached
<1>2. /\ IsResult(r) /\ r.k.state = k.state /\ SameEnds(r.k, k) /\ r.k.out = k.out
      /\ l \in Listener /\ (l = k.app \/ (k.app = Null /\ l \in listening /\ PortOf[l] = k.lport))
      /\ e.k.stopped = k.stopped
      /\ \A m \in Listener : m # l => r.ls[m] = listener[m]
      /\ s.msg_out = listener[l].msg_out
      /\ \/ s.state = "CONNECTED"
         \/ s.state = listener[l].state /\ k.app = l
      /\ Outcome(e.k, e.ls, l, flags, r)
  BY <1>1, EnterOutcome
<1>3. /\ n.k \in UipConn /\ SameEnds(n.k, r.k) /\ n.k.app = r.k.app /\ n.ls = r.ls
      /\ "CLOSE" \in r.flags =>
           n.k.state = "FIN_WAIT_1" /\ n.k.out = "fin" /\ n.k.stopped = FALSE
      /\ "CLOSE" \notin r.flags =>
           /\ n.k.state = r.k.state /\ n.k.stopped = r.k.stopped
           /\ n.k.out = IF r.sends /\ r.k.out = "none" THEN "data" ELSE r.k.out
  BY <1>2, SendOutcome
<1> HIDE DEF r, n, e
<1>4. /\ t.msg_out = s.msg_out
      /\ \/ /\ n.k.app = Null /\ n.k.state = "FIN_WAIT_1" /\ n.k.stopped = FALSE
            /\ t.state = "OFFLINE"
         \/ /\ n.k.app = l /\ n.k.state = "ESTABLISHED" /\ n.k.out = "none"
            /\ \/ s.state = "STOP" /\ t.state = "STOPED"
               \/ s.state = "RESTART" /\ t.state = "CONNECTING"
               \/ t.state = s.state /\ n.k.stopped = FALSE
  BY <1>2, <1>3 DEF Outcome, Commanded
<1>5. "stop" \notin world => s.state \notin {"STOP", "STOPED", "RESTART"}
  BY <1>2 DEF OwnInv, NoStops
<1>6. Ends(old, n.k)
  <2>1. n.k.app = old.app \/ n.k.app = Null \/ Takes(old, n.k)
    BY <1>1, <1>2, <1>4 DEF HasListener, Takes, SameEnds
  <2>2. "stop" \notin world => n.k.stopped = FALSE
    BY <1>4, <1>5
  <2> QED
    BY <1>2, <1>3, <1>4, <2>1, <2>2 DEF Ends, Shaped, Live, SameEnds
<1>7. Others(old, n.k, n.ls)
  <2>1. ASSUME NEW m \in Listener, n.ls[m] # listener[m] PROVE m = old.app \/ m = n.k.app
    <3>1. m = l
      BY <1>2, <1>3, <2>1
    <3>2. CASE k.app = l
      BY <3>1, <3>2
    <3>3. CASE k.app = Null
      <4>1. s.state = "CONNECTED"
        BY <1>1, <1>2, <3>3
      <4> QED
        BY <1>2, <1>3, <1>4, <3>1, <4>1 DEF Outcome
    <3> QED
      BY <1>2, <3>2, <3>3
  <2> QED
    BY <2>1 DEF Others
<1>8. ASSUME NEW m \in Listener PROVE Served(old, n.k, n.ls, m)
  <2>1. CASE m = l
    BY <1>1, <1>2, <1>3, <1>4, <1>5, <2>1
       DEF Served, OwnInv, NoStops, CommandsWait, NoneMissed, Commanded
  <2>2. CASE m # l
    BY <1>2, <1>3, <2>2 DEF Served, OwnInv, NoStops, CommandsWait, NoneMissed, Commanded
  <2> QED
    BY <2>1, <2>2
<1>9. Supplied(n.k, n.ls)
  BY <1>1, <1>2, <1>4 DEF Supplied
<1> QED
  BY <1>2, <1>3, <1>6, <1>7, <1>8, <1>9 DEF Move, IsResult, n, r

-----------------------------------------------------------------------------
(* The steps.                                                              *)
LEMMA TimerOwn ==
  ASSUME OwnInv, NEW c \in Conn, Poll(c) \/ Expire(c)
  PROVE  OwnInv'
<1> DEFINE old == conn[c]
<1>0. /\ TcpInv' /\ old \in UipConn /\ listener \in Listeners /\ SameEnds(old, old)
      /\ Shaped(old) /\ listening \subseteq Servers
  BY TimerSteps DEF OwnInv, TcpInv, TypeOK, Listeners, SameEnds
<1>1. CASE Poll(c)
  <2> DEFINE r == AppCall(old, listener, {"POLL"})
             n == AppSend(r)
  <2>1. old.state = "ESTABLISHED" /\ old.out = "none" /\ Put(c, n) /\ Live(old)
    BY <1>1 DEF Poll, Live
  <2>2. Seen(old, old, listener, {"POLL"})
    BY DEF Seen
  <2>3. IsResult(r)
    BY <1>0, AppCallResult
  <2>4. n.k \in UipConn /\ n.ls = r.ls /\ r.ls \in Listeners
    BY <2>3, SendOutcome DEF IsResult
  <2>5. Move(old, n.k, r.ls)
    BY <1>0, <2>1, <2>2, <2>4, ActiveMoves
  <2> HIDE DEF r, n
  <2> QED
    BY <1>0, <2>1, <2>4, <2>5, PutMoves
<1>2. CASE Timeout(c)
  <2> DEFINE k == Becomes(old, "CLOSED")
             r == [k |-> k, ls |-> listener]
  <2>1. Put(c, r) /\ Live(old) /\ old.state \in {"TIME_WAIT", "FIN_WAIT_2"}
    BY <1>2 DEF Timeout, Live
  <2>2. /\ k \in UipConn /\ k.state = "CLOSED" /\ k.stopped = FALSE /\ k.app = old.app
        /\ SameEnds(k, old)
    BY <1>0 DEF Becomes, UipConn, TcpState, SameEnds
  <2>3. r.k = k /\ r.ls = listener
    OBVIOUS
  <2> HIDE DEF k, r
  <2>4. k.app = Null /\ Shaped(k)
    BY <1>0, <2>1, <2>2 DEF Shaped
  <2>5. Move(old, k, listener)
    BY <1>0, <2>1, <2>2, <2>4, QuietMoves DEF Live
  <2> QED
    BY <1>0, <2>1, <2>2, <2>3, <2>5, PutMoves
<1>3. CASE GiveUp(c)
  <2> DEFINE k == Becomes(old, "CLOSED")
             r == AppCall(k, listener, {"TIMEDOUT"})
  <2>1. Put(c, r) /\ Live(old)
    BY <1>3 DEF GiveUp, RunsOut
  <2>2. /\ k \in UipConn /\ k.state = "CLOSED" /\ k.stopped = FALSE /\ k.app = old.app
        /\ SameEnds(k, old)
    BY <1>0 DEF Becomes, UipConn, TcpState, SameEnds
  <2> HIDE DEF k
  <2>3. IsResult(r) /\ r.k.state = k.state /\ SameEnds(r.k, k)
    BY <1>0, <2>2, AppCallResult
  <2>4. /\ r.k \in UipConn /\ r.ls \in Listeners /\ r.k.state = "CLOSED"
        /\ SameEnds(r.k, old)
    BY <2>2, <2>3 DEF IsResult, SameEnds
  <2>5. Move(old, r.k, r.ls)
    BY <2>2, <2>4, EndMoves
  <2> HIDE DEF r
  <2> QED
    BY <1>0, <2>1, <2>4, <2>5, PutMoves
<1>4. CASE Retransmit(c)
  <2> DEFINE k == [old EXCEPT !.nrtx = @ + 1]
             called == AppCall(k, listener, {"REXMIT"})
             quiet == [k |-> k, ls |-> listener]
  <2>1. /\ Put(c, IF k.state = "ESTABLISHED" THEN called ELSE quiet)
        /\ Live(old) /\ old.out # "none"
    BY <1>4 DEF Retransmit, RunsOut
  <2>2. old.nrtx + 1 \in 0..MaxRtx
    <3>1. old.nrtx \in 0..MaxRtx /\ old.nrtx # MaxRtx /\ MaxRtx \in Nat
      BY <1>0, <1>4, TcpAssumption DEF Retransmit, Exhausted, UipConn
    <3> QED
      BY <3>1
  <2>3. /\ k \in UipConn /\ k.state = old.state /\ k.stopped = old.stopped
        /\ k.app = old.app /\ k.out = old.out /\ SameEnds(k, old)
    BY <1>0, <2>2 DEF UipConn, SameEnds
  <2> HIDE DEF k
  <2>4. CASE k.state = "ESTABLISHED"
    <3>1. k.out = "data"
      BY <1>0, <2>1, <2>3, <2>4 DEF Shaped
    <3>2. Seen(old, k, listener, {"REXMIT"})
      BY <2>3 DEF Seen
    <3>3. IsResult(called)
      BY <1>0, <2>3, AppCallResult
    <3>4. called.k \in UipConn /\ called.ls \in Listeners
      BY <3>3 DEF IsResult
    <3>5. Move(old, called.k, called.ls)
      BY <1>0, <2>3, <2>4, <3>1, <3>2, <3>4, ActiveMoves
    <3>6. Put(c, called)
      BY <2>1, <2>4
    <3> HIDE DEF called
    <3> QED
      BY <1>0, <2>1, <3>4, <3>5, <3>6, PutMoves
  <2>5. CASE k.state # "ESTABLISHED"
    <3>1. Put(c, quiet) /\ quiet.k = k /\ quiet.ls = listener
      BY <2>1, <2>5
    <3> HIDE DEF quiet
    <3>2. Shaped(k) /\ Live(k)
      BY <1>0, <2>1, <2>3 DEF Shaped, Live
    <3>3. Move(old, k, listener)
      BY <2>3, <2>5, <3>2, QuietMoves
    <3> QED
      BY <1>0, <2>1, <2>3, <3>1, <3>3, PutMoves
  <2> QED
    BY <2>4, <2>5
<1> QED
  BY <1>1, <1>2, <1>3, <1>4 DEF Expire

(* Without "piggyback" an acknowledgement of data comes alone.             *)
LEMMA AckedSeen ==
  ASSUME OwnInv, NEW c \in Conn, NEW seg, Orderly(conn[c], seg),
         NEW flags, "ACKDATA" \in flags => Acked(conn[c], seg),
         Acked(conn[c], seg) /\ ~seg.data /\ seg.kind # "FIN" => flags = {"ACKDATA"}
  PROVE  Seen(conn[c], AfterAck(conn[c], seg), AckSeen(conn[c], seg), flags)
<1> DEFINE old == conn[c]
           k == AfterAck(old, seg)
           ls == AckSeen(old, seg)
           l == old.app
<1>0. old \in UipConn /\ listener \in Listeners
  BY DEF OwnInv, TcpInv, TypeOK, Listeners
<1>1. \A m \in Listener :
        /\ ls[m].state = listener[m].state
        /\ ls[m].msg_out = "empty" <=> listener[m].msg_out = "empty"
        /\ ls[m] = listener[m] \/ m = l
  <2>1. CASE Acked(old, seg) /\ old.out = "data" /\ l # Null
    <3> DEFINE msg == IF listener[l].msg_out = "waits" THEN "acked" ELSE listener[l].msg_out
               new == [listener EXCEPT ![l].msg_out = msg]
    <3>1. l \in Listener /\ ls = new
      BY <1>0, <2>1 DEF UipConn, AckSeen
    <3>2. msg = "empty" <=> listener[l].msg_out = "empty"
      OBVIOUS
    <3>3. /\ new[l].state = listener[l].state /\ new[l].msg_out = msg
          /\ \A m \in Listener : m # l => new[m] = listener[m]
      BY <1>0, <3>1 DEF Listeners, TcpListener
    <3> HIDE DEF msg, new, ls
    <3> QED
      BY <3>1, <3>2, <3>3
  <2>2. CASE ~(Acked(old, seg) /\ old.out = "data" /\ l # Null)
    BY <2>2 DEF AckSeen
  <2> QED
    BY <2>1, <2>2
<1>2. \/ k.out = old.out /\ "ACKDATA" \notin flags
      \/ k.out = "none"
  BY <1>0 DEF AfterAck, UipConn
<1>3. "piggyback" \notin world =>
        \/ ls = listener
        \/ flags = {"ACKDATA"} /\ old.out = "data"
  BY DEF AckSeen, Orderly, Acked
<1> QED
  BY <1>1, <1>2, <1>3 DEF Seen

LEMMA PeerOwn ==
  ASSUME OwnInv, NEW c \in Conn, NEW seg \in Segment, Receive(c, seg)
  PROVE  OwnInv'
<1> DEFINE old == conn[c]
           k == AfterAck(old, seg)
           ls == AckSeen(old, seg)
<1>0. /\ TcpInv' /\ old \in UipConn /\ listener \in Listeners /\ SameEnds(old, old)
      /\ TypeOK /\ Shaped(old) /\ listening \subseteq Servers
  BY PeerSteps DEF OwnInv, TcpInv, TypeOK, Listeners, SameEnds
<1>1. /\ k \in UipConn /\ k.state = old.state /\ k.app = old.app /\ SameEnds(k, old)
      /\ ls \in Listeners
  BY <1>0, AckResult
<1>2. /\ k.stopped = old.stopped /\ k.out \in {old.out, "none"}
      /\ Acked(old, seg) => k.out = "none"
  BY <1>0 DEF AfterAck, UipConn, Acked
<1>3. ASSUME NEW b \in UipConn, NEW state \in TcpState
      PROVE  LET n == Becomes(b, state) IN
             /\ n \in UipConn /\ n.state = state /\ n.stopped = FALSE
             /\ n.app = b.app /\ n.out = b.out /\ SameEnds(n, b)
  BY DEF Becomes, UipConn, SameEnds
<1>4. {"CLOSED", "ESTABLISHED", "LAST_ACK", "TIME_WAIT", "CLOSING", "FIN_WAIT_2"} \subseteq TcpState
  BY DEF TcpState, Waiting
<1>5. Live(old) /\ Orderly(old, seg)
  BY DEF Receive, Reset, InSynRcvd, InSynSent, PeerCloses, InEstablished, InLastAck,
         InFinWait1, InFinWait2, InClosing, InNoState, Process, Hears
(* The end of the connection, with what is told of it.                     *)
<1>6. ASSUME NEW b \in UipConn, NEW n \in UipConn, NEW flags, NEW r,
             r.k = n, r.ls = AppCall(b, listener, flags).ls,
             Put(c, r), b.app = old.app, SameEnds(n, old), n.state = "CLOSED",
             n.app = AppCall(b, listener, flags).k.app,
             flags \in {{"CLOSE"}, {"TIMEDOUT"}, {"ABORT"}},
             flags = {"ABORT"} => "reset" \in world,
             \/ n.stopped = FALSE
             \/ b.stopped = FALSE /\ n.stopped = AppCall(b, listener, flags).k.stopped
      PROVE  OwnInv'
  <2>1. AppCall(b, listener, flags).ls \in Listeners
    <3>1. "CONNECTED" \notin flags
      BY <1>6
    <3> QED
      BY <1>0, <3>1, AppCallResult DEF IsResult
  <2>2. Move(old, n, AppCall(b, listener, flags).ls)
    BY <1>6, EndMoves
  <2> QED
    BY <1>0, <1>5, <1>6, <2>1, <2>2, PutMoves
(* A step that calls no one.                                               *)
<1>7. ASSUME NEW n \in UipConn, NEW r, r.k = n, r.ls = listener, Put(c, r),
             SameEnds(n, old), n.app = old.app, n.stopped => old.stopped,
             \/ n.state = old.state /\ old.state = "CLOSED"
             \/ /\ n.state \in {"TIME_WAIT", "CLOSING", "FIN_WAIT_2"}
                /\ old.state \in {"FIN_WAIT_1", "FIN_WAIT_2", "CLOSING"}
      PROVE  OwnInv'
  <2>1. Shaped(n) /\ n.state # "ESTABLISHED"
    BY <1>0, <1>7 DEF Shaped
  <2>2. Live(n) \/ n.app = Null \/ "stop" \in world
    BY <1>5, <1>7 DEF Live, OwnInv, NoStops
  <2>3. Move(old, n, listener)
    BY <1>7, <2>1, <2>2, QuietMoves DEF Live
  <2> QED
    BY <1>0, <1>5, <1>7, <2>3, PutMoves
<1>8. CASE Reset(c, seg)
  <2> DEFINE b == Becomes(old, "CLOSED")
             r == AppCall(b, listener, {"ABORT"})
  <2>1. Put(c, r) /\ "reset" \in world
    BY <1>8 DEF Reset, Hears, Orderly
  <2>2. /\ b \in UipConn /\ b.state = "CLOSED" /\ b.stopped = FALSE
        /\ b.app = old.app /\ SameEnds(b, old)
    BY <1>0, <1>3, <1>4
  <2> HIDE DEF b
  <2>3. IsResult(r) /\ r.k.state = b.state /\ SameEnds(r.k, b)
    BY <1>0, <2>2, AppCallResult
  <2>4. r.k \in UipConn /\ SameEnds(r.k, old) /\ r.k.state = "CLOSED"
    BY <2>2, <2>3 DEF IsResult, SameEnds
  <2> QED
    BY <1>6, <2>1, <2>2, <2>4
<1>9. CASE InLastAck(c, seg)
  <2> DEFINE b == Becomes(k, "CLOSED")
             r == AppCall(b, listener, {"CLOSE"})
  <2>1. Put(c, r)
    BY <1>9 DEF InLastAck
  <2>2. /\ b \in UipConn /\ b.state = "CLOSED" /\ b.stopped = FALSE
        /\ b.app = old.app /\ SameEnds(b, old)
    BY <1>1, <1>3, <1>4 DEF SameEnds
  <2> HIDE DEF b
  <2>3. IsResult(r) /\ r.k.state = b.state /\ SameEnds(r.k, b)
    BY <1>0, <2>2, AppCallResult
  <2>4. r.k \in UipConn /\ SameEnds(r.k, old) /\ r.k.state = "CLOSED"
    BY <2>2, <2>3 DEF IsResult, SameEnds
  <2>5. {"CLOSE"} # {"ABORT"}
    OBVIOUS
  <2> QED
    BY <1>6, <2>1, <2>2, <2>4, <2>5
<1>10. CASE InSynRcvd(c, seg)
  <2> DEFINE b == Becomes(k, "ESTABLISHED")
             flags == {"CONNECTED"} \cup NewData(seg)
             n == AppSend(AppCall(b, listener, flags))
  <2>1. old.state = "SYN_RCVD" /\ Acked(old, seg) /\ Put(c, n)
    BY <1>10 DEF InSynRcvd, Process
  <2>2. /\ b \in UipConn /\ b.state = "ESTABLISHED" /\ b.stopped = FALSE
        /\ b.app = old.app /\ b.out = "none" /\ SameEnds(b, old)
    BY <1>1, <1>2, <1>3, <1>4, <2>1 DEF SameEnds
  <2>3. flags \subseteq {"CONNECTED", "NEWDATA"} /\ "CONNECTED" \in flags
    BY DEF NewData
  <2> HIDE DEF b, flags
  <2>4. n.k \in UipConn /\ n.ls \in Listeners /\ Move(old, n.k, n.ls)
    BY <2>1, <2>2, <2>3, ConnectMoves
  <2> HIDE DEF n
  <2> QED
    BY <1>0, <1>5, <2>1, <2>4, PutMoves
<1>11. CASE InSynSent(c, seg)
  <2>1. old.state = "SYN_SENT" /\ old.out = "syn" /\ seg.kind # "RST"
    BY <1>0, <1>11 DEF InSynSent, Process, Shaped
  <2>2. CASE Acked(old, seg) /\ seg.kind = "SYNACK"
    <3> DEFINE b == Becomes(k, "ESTABLISHED")
               flags == {"CONNECTED", "NEWDATA"}
               n == AppSend(AppCall(b, listener, flags))
    <3>1. Put(c, n)
      BY <1>11, <2>2 DEF InSynSent
    <3>2. /\ b \in UipConn /\ b.state = "ESTABLISHED" /\ b.stopped = FALSE
          /\ b.app = old.app /\ b.out = "none" /\ SameEnds(b, old)
      BY <1>1, <1>2, <1>3, <1>4, <2>2 DEF SameEnds
    <3> HIDE DEF b
    <3>3. n.k \in UipConn /\ n.ls \in Listeners /\ Move(old, n.k, n.ls)
      BY <2>1, <3>2, ConnectMoves
    <3> HIDE DEF n
    <3> QED
      BY <1>0, <1>5, <3>1, <3>3, PutMoves
  <2>3. CASE ~(Acked(old, seg) /\ seg.kind = "SYNACK")
    <3> DEFINE a == AppCall(k, listener, {"ABORT"})
               n == Becomes(a.k, "CLOSED")
               r == [a EXCEPT !.k = n]
    <3>1. Put(c, r)
      BY <1>11, <2>3 DEF InSynSent
    <3>2. "reset" \in world
      BY <1>5, <2>1, <2>3 DEF Orderly, Acked
    <3>3. IsResult(a) /\ SameEnds(a.k, k)
      BY <1>0, <1>1, AppCallResult
    <3>4. r.k = n /\ r.ls = a.ls
      BY <3>3 DEF IsResult
    <3>5. /\ n \in UipConn /\ n.state = "CLOSED" /\ n.stopped = FALSE /\ n.app = a.k.app
          /\ SameEnds(n, old)
      BY <1>1, <1>3, <1>4, <3>3 DEF IsResult, SameEnds
    <3> HIDE DEF r, n
    <3> QED
      BY <1>1, <1>6, <3>1, <3>2, <3>4, <3>5
  <2> QED
    BY <2>2, <2>3
<1>12. CASE PeerCloses(c, seg)
  <2> DEFINE flags == AckFlag(old, seg) \cup {"CLOSE"} \cup NewData(seg)
             a == AppCall(k, ls, flags)
             b == Becomes(a.k, "LAST_ACK")
             n == [b EXCEPT !.out = "fin", !.nrtx = 0]
             r == [a EXCEPT !.k = n]
  <2>1. old.state = "ESTABLISHED" /\ seg.kind = "FIN" /\ Put(c, r)
    BY <1>12 DEF PeerCloses, Process
  <2>2. /\ "CONNECTED" \notin flags /\ "CLOSE" \in flags
        /\ "ACKDATA" \in flags => Acked(old, seg)
    BY DEF AckFlag, NewData
  <2> HIDE DEF flags
  <2>3. Seen(old, k, ls, flags)
    BY <1>5, <2>1, <2>2, AckedSeen
  <2>4. IsResult(a) /\ SameEnds(a.k, k)
    BY <1>0, <1>1, <2>2, AppCallResult
  <2>5. r.k = n /\ r.ls = a.ls
    BY <2>4 DEF IsResult
  <2>6. /\ b \in UipConn /\ b.state = "LAST_ACK" /\ b.stopped = FALSE /\ b.app = a.k.app
        /\ SameEnds(b, old)
    BY <1>1, <1>3, <1>4, <2>4 DEF IsResult, SameEnds
  <2> HIDE DEF r, b
  <2>7. 0 \in 0..MaxRtx
    BY TcpAssumption
  <2>8. /\ n \in UipConn /\ n.state = "LAST_ACK" /\ n.stopped = FALSE /\ n.app = a.k.app
        /\ SameEnds(n, old)
    BY <2>6, <2>7 DEF UipConn, SameEnds
  <2> HIDE DEF n
  <2>9. Move(old, n, a.ls)
    BY <1>1, <2>1, <2>2, <2>3, <2>8, LastAckMoves
  <2> QED
    BY <1>0, <1>5, <2>1, <2>4, <2>5, <2>8, <2>9, PutMoves DEF IsResult
<1>13. CASE InEstablished(c, seg)
  <2> DEFINE flags == AckFlag(old, seg) \cup (IF old.stopped THEN {} ELSE NewData(seg))
             a == AppCall(k, ls, flags)
             n == AppSend(a)
  <2>1. old.state = "ESTABLISHED" /\ Put(c, n)
    BY <1>13 DEF InEstablished, Process
  <2>2. /\ flags \cap {"CONNECTED", "CLOSE", "TIMEDOUT"} = {} /\ "CONNECTED" \notin flags
        /\ "ACKDATA" \in flags => Acked(old, seg)
        /\ Acked(old, seg) /\ ~seg.data => flags = {"ACKDATA"}
    BY DEF AckFlag, NewData
  <2> HIDE DEF flags
  <2>3. Seen(old, k, ls, flags)
    BY <1>5, <2>2, AckedSeen
  <2>4. IsResult(a)
    BY <1>0, <1>1, <2>2, AppCallResult
  <2>5. n.k \in UipConn /\ n.ls = a.ls /\ a.ls \in Listeners
    BY <2>4, SendOutcome DEF IsResult
  <2>6. Move(old, n.k, a.ls)
    BY <1>1, <1>2, <2>1, <2>2, <2>3, <2>5, ActiveMoves
  <2> HIDE DEF a, n
  <2> QED
    BY <1>0, <1>5, <2>1, <2>5, <2>6, PutMoves
<1>14. CASE InFinWait1(c, seg) \/ InFinWait2(c, seg) \/ InClosing(c, seg)
  <2>1. \E state \in {"TIME_WAIT", "CLOSING", "FIN_WAIT_2"}, b \in {old, k} :
          /\ old.state \in {"FIN_WAIT_1", "FIN_WAIT_2", "CLOSING"}
          /\ \/ Put(c, AppCall(Becomes(b, state), listener, {"CLOSE"}))
             \/ Put(c, [k |-> Becomes(b, state), ls |-> listener])
    BY <1>14 DEF InFinWait1, InFinWait2, InClosing, Process
  <2>2. PICK state \in {"TIME_WAIT", "CLOSING", "FIN_WAIT_2"}, b \in {old, k} :
          /\ old.state \in {"FIN_WAIT_1", "FIN_WAIT_2", "CLOSING"}
          /\ \/ Put(c, AppCall(Becomes(b, state), listener, {"CLOSE"}))
             \/ Put(c, [k |-> Becomes(b, state), ls |-> listener])
    BY <2>1
  <2> DEFINE n == Becomes(b, state)
             r == [k |-> n, ls |-> listener, flags |-> {"CLOSE"}, sends |-> FALSE]
             q == [k |-> n, ls |-> listener]
  <2>3. b \in UipConn /\ b.app = Null /\ b.app = old.app /\ SameEnds(b, old)
    BY <1>0, <1>1, <2>2 DEF Shaped
  <2>4. /\ n \in UipConn /\ n.state = state /\ n.stopped = FALSE
        /\ n.app = Null /\ n.app = old.app /\ SameEnds(n, old)
    <3>1. state \in TcpState
      BY <1>4
    <3>2. /\ n \in UipConn /\ n.state = state /\ n.stopped = FALSE
          /\ n.app = b.app /\ n.out = b.out /\ SameEnds(n, b)
      BY <1>3, <2>3, <3>1
    <3> QED
      BY <2>3, <3>2 DEF SameEnds
  <2> HIDE DEF n
  <2>5. AppCall(n, listener, {"CLOSE"}) = r
    BY <2>4 DEF AppCall
  <2>6. Put(c, r) \/ Put(c, q)
    BY <2>2, <2>5 DEF n
  <2>7. r.k = n /\ r.ls = listener /\ q.k = n /\ q.ls = listener
    OBVIOUS
  <2> HIDE DEF r, q
  <2> QED
    BY <1>7, <2>2, <2>4, <2>6, <2>7
<1>15. CASE InNoState(c, seg)
  <2> DEFINE q == [k |-> k, ls |-> listener]
  <2>1. Put(c, q) /\ old.state = "CLOSED"
    BY <1>15 DEF InNoState, Process
  <2>2. q.k = k /\ q.ls = listener
    OBVIOUS
  <2> HIDE DEF q
  <2> QED
    BY <1>1, <1>2, <1>7, <2>1, <2>2
<1> HIDE DEF k, ls
<1> QED
  BY <1>8, <1>9, <1>10, <1>11, <1>12, <1>13, <1>14, <1>15 DEF Receive

(* A new connection takes a slot whose listener, if it still has one, is   *)
(* what a reset or a stop left there.                                      *)
LEMMA FreeSlot ==
  ASSUME OwnInv, NEW c \in Conn, Slot(c)
  PROVE  /\ conn[c].state \in {"CLOSED", "TIME_WAIT"}
         /\ Live(conn[c]) => conn[c].state = "TIME_WAIT"
         /\ Kept({"reset", "stop"}) => conn[c].app = Null
  BY DEF OwnInv, Slot, Live, Shaped, Freed, Kept

LEMMA AcceptOwn ==
  ASSUME OwnInv, NEW c \in Conn, NEW p \in Peer, NEW l \in Servers, Accept(c, p, l)
  PROVE  OwnInv'
<1> DEFINE b == Becomes(conn[c], "SYN_RCVD")
           k == [b EXCEPT !.lport = PortOf[l], !.peer = p, !.out = "syn", !.nrtx = 0]
<1>0. /\ TcpInv' /\ conn[c] \in UipConn /\ 0 \in 0..MaxRtx
      /\ \A d \in Conn : Shaped(conn[d])
      /\ Null \notin Servers /\ l \in listening
  <2>1. TcpInv'
    BY AcceptKeeps DEF OwnInv
  <2>2. 0 \in 0..MaxRtx /\ Null \notin Servers
    BY TcpAssumption
  <2> QED
    BY <2>1, <2>2 DEF OwnInv, TcpInv, TypeOK, Accept
<1>1. b \in UipConn /\ b.state = "SYN_RCVD" /\ b.stopped = FALSE /\ b.app = conn[c].app
  BY <1>0 DEF Becomes, UipConn, TcpState, Waiting
<1>2. conn' = [conn EXCEPT ![c] = k] /\ UNCHANGED <<listener, listening, world>>
  BY DEF Accept, OwnInv, TcpInv, TypeOK
<1> HIDE DEF b
<1>3. /\ k.state = "SYN_RCVD" /\ k.stopped = FALSE /\ k.app = conn[c].app
      /\ k.out = "syn" /\ k.lport = PortOf[l]
  BY <1>0, <1>1 DEF UipConn
<1> HIDE DEF k
<1>4. conn'[c] = k /\ \A d \in Conn : d # c => conn'[d] = conn[d]
  BY <1>2 DEF OwnInv, TcpInv, TypeOK
<1>5. \A d \in Conn : conn'[d].app = conn[d].app
  BY <1>3, <1>4
<1>6. /\ conn[c].state \in {"CLOSED", "TIME_WAIT"}
      /\ Live(conn[c]) => conn[c].state = "TIME_WAIT"
      /\ Kept({"reset", "stop"}) => conn[c].app = Null
  BY FreeSlot DEF Accept
<1>7. \A d \in Conn : Shaped(conn'[d])
  BY <1>0, <1>3, <1>4 DEF Shaped
<1>8. ConnectedUnlessReset' /\ NoStops' /\ Freed'
  BY <1>2, <1>3, <1>4, <1>6
     DEF OwnInv, ConnectedUnlessReset, ConnectedIsActive, Active, NoStops, Freed, Live
<1>9. CommandsWait' /\ NoneMissed'
  BY <1>2 DEF OwnInv, CommandsWait, NoneMissed, Tidy, Untangled
<1>10. OpenerHasOne' /\ OpenersOpen' /\ ServersListen'
  BY <1>2, <1>3, <1>4, <1>5 DEF OwnInv, OpenerHasOne, OpenersOpen, ServersListen, Tidy
<1>11. PortsApart'
  <2>1. Tidy => \A d \in Conn : Live(conn[d]) /\ conn[d].state # "TIME_WAIT" =>
                                  conn[d].lport # PortOf[l]
    BY DEF Accept, Tidy
  <2> QED
    BY <1>2, <1>3, <1>4, <2>1 DEF OwnInv, PortsApart, Tidy
<1>12. PortIsServers'
  <2>1. Tidy /\ Untangled /\ conn[c].app \in Servers => conn[c].app = l
    BY <1>0, <1>6 DEF OwnInv, ServersListen, Untangled, Kept
  <2> QED
    BY <1>2, <1>3, <1>4, <2>1 DEF OwnInv, PortIsServers, Tidy, Untangled
<1>13. AllSupplied'
  BY <1>2, <1>3, <1>4 DEF OwnInv, AllSupplied, Supplied, Tidy, Untangled
<1> QED
  BY <1>0, <1>7, <1>8, <1>9, <1>10, <1>11, <1>12, <1>13 DEF OwnInv

LEMMA OpenOwn ==
  ASSUME OwnInv, NEW c \in Conn, NEW p \in Peer, NEW l \in Listener,
         NEW port \in Ephemeral, Open(l, p, port, c)
  PROVE  OwnInv'
<1> DEFINE b == Becomes(conn[c], "SYN_SENT")
           k == [b EXCEPT !.lport = port, !.peer = p, !.out = "syn", !.nrtx = 0, !.app = l]
<1>0. /\ TcpInv' /\ conn[c] \in UipConn /\ 0 \in 0..MaxRtx /\ l # Null
      /\ \A d \in Conn : Shaped(conn[d])
  BY OpenKeeps, TcpAssumption DEF OwnInv, TcpInv, TypeOK
<1>1. b \in UipConn /\ b.state = "SYN_SENT" /\ b.stopped = FALSE
  BY <1>0 DEF Becomes, UipConn, TcpState, Waiting
<1>2. conn' = [conn EXCEPT ![c] = k] /\ UNCHANGED <<listening, world>>
  BY DEF Open, OwnInv, TcpInv, TypeOK
<1> HIDE DEF b
<1>3. /\ k.state = "SYN_SENT" /\ k.stopped = FALSE /\ k.app = l
      /\ k.out = "syn" /\ k.lport = port
  BY <1>0, <1>1 DEF UipConn
<1> HIDE DEF k
<1>4. conn'[c] = k /\ \A d \in Conn : d # c => conn'[d] = conn[d]
  BY <1>2 DEF OwnInv, TcpInv, TypeOK
<1>5. /\ listener'[l].state = "CONNECTING"
      /\ \A m \in Listener : m # l => listener'[m] = listener[m]
      /\ \A m \in Listener : listener'[m].msg_out = listener[m].msg_out
  BY DEF Open, OwnInv, TcpInv, TypeOK, TcpListener
<1>6. /\ conn[c].state \in {"CLOSED", "TIME_WAIT"}
      /\ Live(conn[c]) => conn[c].state = "TIME_WAIT"
  BY FreeSlot DEF Open
<1>7. \A d \in Conn : Shaped(conn'[d])
  BY <1>0, <1>3, <1>4 DEF Shaped
<1>8. ConnectedUnlessReset'
  <2> SUFFICES ASSUME "reset" \notin world, NEW m \in Listener, listener'[m].state = "CONNECTED"
               PROVE  Active(m)'
    BY <1>2 DEF ConnectedUnlessReset, ConnectedIsActive
  <2>1. listener[m].state = "CONNECTED"
    BY <1>5
  <2> QED
    BY <1>4, <1>6, <2>1 DEF OwnInv, ConnectedUnlessReset, ConnectedIsActive, Active
<1>9. NoStops' /\ Freed' /\ CommandsWait' /\ NoneMissed'
  <2>1. NoStops' /\ Freed'
    BY <1>2, <1>3, <1>4, <1>5 DEF OwnInv, NoStops, Freed, Live
  <2>2. CommandsWait' /\ NoneMissed'
    BY <1>2, <1>5 DEF OwnInv, CommandsWait, Commanded, NoneMissed, Tidy, Untangled
  <2> QED
    BY <2>1, <2>2
<1>10. Tidy => l \notin Servers /\ listener[l].state = "OFFLINE"
  BY DEF Open, Tidy
<1>11. OpenerHasOne' /\ OpenersOpen' /\ ServersListen' /\ PortIsServers'
  <2>1. Tidy => \A d \in Conn : conn[d].app # l
    BY <1>10 DEF OwnInv, OpenerHasOne
  <2>2. OpenerHasOne'
    BY <1>2, <1>3, <1>4, <1>5, <2>1 DEF OwnInv, OpenerHasOne, Tidy
  <2>3. OpenersOpen' /\ ServersListen' /\ PortIsServers'
    BY <1>2, <1>3, <1>4, <1>10
       DEF OwnInv, OpenersOpen, ServersListen, PortIsServers, Tidy, Untangled
  <2> QED
    BY <2>2, <2>3
<1>12. PortsApart'
  <2>1. \A d \in Conn : Live(conn[d]) => conn[d].lport # port
    BY DEF Open
  <2> QED
    BY <1>2, <1>3, <1>4, <2>1 DEF OwnInv, PortsApart, Tidy
<1>13. AllSupplied'
  <2>1. \A d \in Conn : conn[d].app # Null => conn[d].app \in Listener
    BY DEF OwnInv, TcpInv, TypeOK, UipConn
  <2> QED
    BY <1>2, <1>3, <1>4, <1>5, <2>1 DEF OwnInv, AllSupplied, Supplied, Tidy, Untangled
<1> QED
  BY <1>0, <1>7, <1>8, <1>9, <1>11, <1>12, <1>13 DEF OwnInv

LEMMA TaskOwn ==
  ASSUME OwnInv, NEW l \in Listener,
         \/ Begin(l) \/ Send(l)
         \/ \E command \in {"DISCONNECT", "STOP", "RESTART"} : Command(l, command)
  PROVE  OwnInv'
<1>1. TcpInv'
  BY TaskSteps DEF OwnInv
<1>2. /\ conn' = conn /\ world' = world /\ listening \subseteq listening'
      /\ Untangled' => Untangled
      /\ \A m \in Listener : m # l => listener'[m] = listener[m]
      /\ listener[l] \in TcpListener
      /\ \A d \in Conn : conn[d].app \in Listener \cup {Null}
  BY DEF OwnInv, TcpInv, TypeOK, Begin, Send, Command, Untangled, UipConn
<1>3. \/ /\ listener'[l].state = listener[l].state /\ listener'[l].msg_out = "empty"
         /\ Tidy => \A d \in Conn : conn[d].app # l
      \/ /\ listener'[l].state = listener[l].state /\ listener'[l].msg_out = "waits"
         /\ Tidy => ~Commanded(listener[l])
      \/ /\ Commanded(listener'[l]) /\ listener'[l].msg_out = listener[l].msg_out
         /\ "stop" \notin world => listener'[l].state = "DISCONNECT"
         /\ Tidy => listener[l].msg_out = "empty"
  <2>1. CASE Begin(l)
    BY <2>1 DEF Begin, OwnInv, TcpInv, TypeOK, TcpListener, ServersListen
  <2>2. CASE Send(l)
    BY <2>2 DEF Send, OwnInv, TcpInv, TypeOK, TcpListener, Tidy, Commanded
  <2>3. ASSUME NEW command \in {"DISCONNECT", "STOP", "RESTART"}, Command(l, command)
        PROVE  /\ Commanded(listener'[l]) /\ listener'[l].msg_out = listener[l].msg_out
               /\ "stop" \notin world => listener'[l].state = "DISCONNECT"
               /\ Tidy => listener[l].msg_out = "empty"
    BY <2>3 DEF Command, OwnInv, TcpInv, TypeOK, TcpListener, Tidy, Commanded
  <2> QED
    BY <2>1, <2>2, <2>3
<1>4. (\A d \in Conn : Shaped(conn'[d])) /\ Freed'
  BY <1>2 DEF OwnInv, Freed
<1>5. ConnectedUnlessReset'
  <2> SUFFICES ASSUME "reset" \notin world, NEW m \in Listener, listener'[m].state = "CONNECTED"
               PROVE  Active(m)'
    BY <1>2 DEF ConnectedUnlessReset, ConnectedIsActive
  <2>1. listener[m].state = "CONNECTED"
    BY <1>2, <1>3 DEF Commanded
  <2> QED
    BY <1>2, <2>1 DEF OwnInv, ConnectedUnlessReset, ConnectedIsActive, Active
<1>6. NoStops' /\ CommandsWait' /\ NoneMissed'
  BY <1>2, <1>3 DEF OwnInv, NoStops, CommandsWait, Commanded, NoneMissed, Tidy
<1>7. OpenerHasOne' /\ OpenersOpen' /\ ServersListen' /\ PortsApart' /\ PortIsServers'
  <2>1. \A m \in Listener : listener'[m].state = "OFFLINE" => listener[m].state = "OFFLINE"
    BY <1>2, <1>3 DEF Commanded
  <2> QED
    BY <1>2, <2>1
       DEF OwnInv, OpenerHasOne, OpenersOpen, ServersListen, PortsApart, PortIsServers, Tidy
<1>8. AllSupplied'
  BY <1>2, <1>3 DEF OwnInv, AllSupplied, Supplied, Tidy
<1> QED
  BY <1>1, <1>4, <1>5, <1>6, <1>7, <1>8 DEF OwnInv

LEMMA OwnInvIsInvariant == Spec => []OwnInv
<1>1. Init => OwnInv
  <2> SUFFICES ASSUME Init PROVE OwnInv
    OBVIOUS
  <2>1. TcpInv
    BY TcpInvAtFirst
  <2>2. \A c \in Conn : /\ conn[c].state = "CLOSED" /\ conn[c].stopped = FALSE
                        /\ conn[c].app = Null
    BY DEF Init, Unused
  <2>3. \A l \in Listener : listener[l].state = "OFFLINE" /\ listener[l].msg_out = "empty"
    BY DEF Init
  <2> QED
    BY <2>1, <2>2, <2>3, TcpAssumption
       DEF OwnInv, Shaped, ConnectedUnlessReset, ConnectedIsActive, NoStops, CommandsWait,
           Commanded, Freed, OpenerHasOne, OpenersOpen, ServersListen, PortsApart, Live,
           PortIsServers, AllSupplied, Supplied, NoneMissed
<1>2. OwnInv /\ [Next]_tcpVars => OwnInv'
  <2> SUFFICES ASSUME OwnInv, [Next]_tcpVars PROVE OwnInv'
    OBVIOUS
  <2>1. CASE UNCHANGED tcpVars
    <3>1. TcpInv'
      BY <2>1, TcpInvStutters DEF OwnInv
    <3> QED
      BY <2>1, <3>1
         DEF tcpVars, OwnInv, ConnectedUnlessReset, ConnectedIsActive, Active, NoStops,
             CommandsWait, Freed, OpenerHasOne, OpenersOpen, ServersListen, PortsApart,
             PortIsServers, AllSupplied, NoneMissed, Tidy, Untangled
  <2>2. CASE Next
    BY <2>2, TimerOwn, AcceptOwn, PeerOwn, TaskOwn, OpenOwn DEF Next
  <2> QED
    BY <2>1, <2>2
<1> QED
  BY <1>1, <1>2, PTL DEF Spec

(* tcp_connected is true only of a listener with an active connection, for *)
(* any number of them, in every world without resets.                      *)
THEOREM ConnectedHasConnection == Spec => []ConnectedUnlessReset
<1>1. OwnInv => ConnectedUnlessReset
  BY DEF OwnInv
<1> QED
  BY <1>1, OwnInvIsInvariant, PTL

(* No established connection loses its listener.                           *)
THEOREM EveryoneIsServed == Spec => []EstablishedIsServed
<1>1. OwnInv => EstablishedIsServed
  BY DEF OwnInv, AllSupplied, Supplied, EstablishedIsServed, Tidy
<1> QED
  BY <1>1, OwnInvIsInvariant, PTL

(* What has to be sent again is still there to be sent.                    *)
THEOREM InFlightIsKept == Spec => []InFlightIsInBuffer
<1>1. OwnInv => InFlightIsInBuffer
  <2> SUFFICES ASSUME OwnInv, world \cap {"piggyback", "shared", "hasty"} = {}, Untangled,
                      NEW c \in Conn, conn[c].state = "ESTABLISHED", conn[c].out = "data"
               PROVE  conn[c].app # Null /\ listener[conn[c].app].msg_out = "waits"
    BY DEF InFlightIsInBuffer
  <2>1. conn[c].app # Null /\ listener[conn[c].app].msg_out # "empty"
    BY DEF OwnInv, AllSupplied, Supplied, Tidy
  <2>2. conn[c].app \in Listener
    BY <2>1 DEF OwnInv, TcpInv, TypeOK, UipConn
  <2>3. listener[conn[c].app].msg_out # "acked"
    BY <2>2 DEF OwnInv, NoneMissed, Tidy
  <2> QED
    BY <2>1, <2>2, <2>3 DEF OwnInv, TcpInv, TypeOK, TcpListener
<1> QED
  BY <1>1, OwnInvIsInvariant, PTL
=============================================================================
