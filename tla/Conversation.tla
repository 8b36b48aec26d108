---------------------------- MODULE Conversation ----------------------------
(***************************************************************************)
(* What a UDP listener that answers requests promises (udp.h:117-134): it  *)
(* holds one conversation at a time.  From the first datagram of a peer    *)
(* until the answer has left, it hears nobody else, and the answer goes to *)
(* that peer.                                                              *)
(***************************************************************************)
CONSTANTS Listener,   \* the listeners that answer
          Peer,       \* remote ends
          Nobody      \* no remote end

VARIABLES peer,       \* whom each listener is talking with
          stage       \* how far the conversation is

talkVars == <<peer, stage>>

Stage == {"idle", "heard", "answering"}

CInit ==
  /\ peer = [l \in Listener |-> Nobody]
  /\ stage = [l \in Listener |-> "idle"]

(* A peer speaks to a listener that is free, or speaks again.              *)
Hear(l, p) ==
  /\ stage[l] = "idle" \/ (stage[l] = "heard" /\ peer[l] = p)
  /\ peer' = [peer EXCEPT ![l] = p]
  /\ stage' = [stage EXCEPT ![l] = "heard"]

(* The task of the listener hands over its answer.                         *)
Answer(l) ==
  /\ stage[l] = "heard"
  /\ stage' = [stage EXCEPT ![l] = "answering"]
  /\ UNCHANGED peer

(* The answer leaves and the listener is free.                             *)
Leave(l) ==
  /\ stage[l] = "answering"
  /\ peer' = [peer EXCEPT ![l] = Nobody]
  /\ stage' = [stage EXCEPT ![l] = "idle"]

CNext == \E l \in Listener : (\E p \in Peer : Hear(l, p)) \/ Answer(l) \/ Leave(l)

CSpec == CInit /\ [][CNext]_talkVars
=============================================================================
