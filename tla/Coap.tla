-------------------------------- MODULE Coap --------------------------------
(***************************************************************************)
(* The CoAP application: the engine task (apps/coap/coap.cpp), which       *)
(* serves the resources of this device and hands the answers to requests   *)
(* over to the clients that made them, and the clients (coap_client.cpp).  *)
(* The engine runs to its next TASK_YIELD without interruption, so a turn  *)
(* of it is one action, as are a call of net_tick and a call of a task.    *)
(*                                                                         *)
(* The listeners are those of UdpStack: one buffer for what came in, one   *)
(* for what is to leave, and a remote that only a departure clears.  All   *)
(* clients ask one remote end, which `world' allows more than to answer    *)
(* each request once, in the acknowledgement, with a payload and no        *)
(* option; it also says what the tasks do:                                 *)
(*   "late"      answers come twice or after the next request              *)
(*   "separate"  answers come in a message of their own                    *)
(*   "options"   answers have options                                      *)
(*   "error"     answers with an error code                                *)
(*   "wrap"      the sequence of tokens wraps around to zero               *)
(*   "impatient" a task asks again without waiting for the answer          *)
(*   "clients"   there is more than one client                             *)
(*   "again"     a client is started twice, as when its task is restarted  *)
(*   "lossy"     requests are lost, on the way or to an ARP request        *)
(*   "silent"    the server is asked what it does not answer               *)
(*   "stray"     the server gets empty messages that are not a ping        *)
(***************************************************************************)
EXTENDS Naturals, Sequences, FiniteSets, SequencesExt

CONSTANTS
  Client,      \* every coap_client_st
  Null,        \* NULL
  None,        \* nothing to wait for, no message of task_ipc
  Ack,         \* an empty acknowledgement
  Tokens,      \* how many tokens there are, 2^16
  Life,        \* the network delivers nothing older than so many requests
  Resource,    \* the resources, a sequence in the order of their list
  Uri,         \* Uri[r]: its uri_path, a sequence of characters
  Parent,      \* Parent[r]
  Gets, Puts,  \* resources with the callback
  Peer,        \* remote ends that ask the server
  Nobody,      \* 0.0.0.0:0
  Request,     \* what they may ask
  Worlds       \* the worlds considered

Features == {"late", "separate", "options", "error", "wrap", "impatient",
             "clients", "again", "lossy", "silent", "stray"}

ASSUME CoapAssumption ==
  /\ Null \notin Client \cup Peer /\ Nobody \notin Peer
  /\ {Null, None, Ack} \cap 0..Tokens = {} /\ Ack # Null
  /\ Tokens \in Nat /\ Life \in 1..(Tokens - 2)
  /\ Worlds \subseteq SUBSET Features

VARIABLES
  head, next,         \* coap_clients and coap_client_st.next
  token,              \* coap_client_st.token
  awaits,             \* coap_client_st.message_id has not been answered
  seq,                \* message_token_seq
  out,                \* what a client's listener is to send: a token, or Ack
  unread,             \* the listeners with status UDP_MSG_IN
  msg_in,             \* the buffer of every listener
  flags,              \* msg_src of the engine task
  note,               \* what task_ipc left for the task of a client, with
                      \* the token of the request it answers
  remote,             \* the remote of the server's listener
  reply,              \* what the server's listener is to send
  resource_demanded, send_len,
  stuck,              \* the engine does not come back
  asking,             \* history: the token each task waits for the answer of
  answered,           \* history: what the reply answers, with the resource
  network,            \* the requests that may still be answered
  build, world

clientVars == <<head, next, token, awaits, seq, out, note>>
serverVars == <<remote, reply, answered, resource_demanded, send_len>>
coapVars == <<clientVars, serverVars, unread, msg_in, flags, stuck, asking,
              network, build, world>>

Token == 0..(Tokens - 1)
Server == "coap_listener"
Listener == Client \cup {Server}
Type == {"CON", "NON", "ACK", "RST"}

\* The answer to a client: plain if the payload mark follows the token.
Answer == [type : Type, ok : BOOLEAN, plain : BOOLEAN, token : Token]
Reply == [type : {"ACK", "RST"}, payload : BOOLEAN, code :
           {"0.00", "2.04", "2.05", "4.00", "4.02", "4.03", "4.04", "4.05", "4.15"}]

\* What a task is woken with, and the token of the request it answers.
Note == [what : {"null", "payload"}, answers : Token]
Option == [number : {"path", "format", "accept", "block2", "malformed", "other"},
           name : Seq(Nat), plain : BOOLEAN]
ASSUME MessageAssumption ==
  /\ Server \notin Client /\ Null \notin Reply /\ None \notin Note
  /\ Null \notin Range(Resource) /\ Resource \in Seq(Range(Resource))
  /\ \A q \in Request :
       /\ q.kind \in {"broken", "ping", "stray", "request"} /\ q.con \in BOOLEAN
       /\ q.options \in Seq(Option)

Init ==
  /\ world \in Worlds
  /\ head = Null /\ next = [c \in Client |-> Null]
  /\ token = [c \in Client |-> 0] /\ awaits = [c \in Client |-> FALSE]
  /\ seq \in IF "wrap" \in world THEN Token ELSE Token \ {0}
  /\ out = [c \in Client |-> Null]
  /\ unread = {} /\ msg_in = [l \in Listener |-> Null]
  /\ flags = {} /\ note = [c \in Client |-> None]
  /\ remote = Nobody /\ reply = Null /\ answered = Null
  /\ resource_demanded = Null /\ send_len = 0
  /\ stuck = FALSE
  /\ asking = [c \in Client |-> None] /\ network = {}
  /\ build \in {"native", "board"}

-----------------------------------------------------------------------------
(* The tasks that use a client.                                            *)
Started == {c \in Client : c = head \/ \E d \in Client : next[d] = c}

(* coap_start_client: the client is appended to the list; a list without   *)
(* an end is followed for ever.                                            *)
StartClient(c) ==
  /\ ~stuck
  /\ IF "again" \in world THEN asking[c] = None ELSE c \notin Started
  /\ "clients" \in world \/ Started \subseteq {c}
  /\ token' = [token EXCEPT ![c] = 0]
  /\ out' = [out EXCEPT ![c] = Null]
  /\ IF head = Null
     THEN head' = c /\ UNCHANGED <<next, stuck>>
     ELSE \/ \E d \in Started :
               /\ next[d] = Null
               /\ next' = [next EXCEPT ![d] = c]
               /\ UNCHANGED <<head, stuck>>
          \/ /\ \A d \in Started : next[d] # Null
             /\ stuck' = TRUE
             /\ UNCHANGED <<head, next>>
  /\ unread' = unread \ {c}
  /\ UNCHANGED <<awaits, seq, note, serverVars, msg_in, flags, asking, network,
                 build, world>>

(* Without "wrap" the sequence is never zero: fewer than 2^16 requests.    *)
NextToken ==
  IF seq = Tokens - 1 THEN (IF "wrap" \in world THEN 0 ELSE 1) ELSE seq + 1

(* A token does not come round again (2^16 requests) while a message with  *)
(* it is under way or unread.                                              *)
Leaving == {out[c] : c \in Client} \cap Token
TokenIsNew ==
  seq \notin network \cup Leaving \cup {msg_in[c].token : c \in unread \ {Server}}

(* Mutant: the token kept is the one of the next request.                  *)
GetLateToken(c) ==
  /\ ~stuck /\ c \in Started /\ note[c] = None /\ TokenIsNew
  /\ "impatient" \notin world => asking[c] = None
  /\ token' = [token EXCEPT ![c] = NextToken]
  /\ awaits' = [awaits EXCEPT ![c] = TRUE]
  /\ out' = [out EXCEPT ![c] = seq]
  /\ asking' = [asking EXCEPT ![c] = seq]
  /\ seq' = NextToken
  /\ flags' = flags \cup {"TASK"}
  /\ UNCHANGED <<head, next, note, serverVars, unread, msg_in, stuck, network,
                 build, world>>

(* coap_get: the request waits in the listener, and the engine is told,    *)
(* although it has nothing to do.                                          *)
Get(c) ==
  /\ ~stuck /\ c \in Started /\ note[c] = None /\ TokenIsNew
  /\ "impatient" \notin world => asking[c] = None
  /\ token' = [token EXCEPT ![c] = seq]
  /\ awaits' = [awaits EXCEPT ![c] = TRUE]
  /\ out' = [out EXCEPT ![c] = seq]
  /\ asking' = [asking EXCEPT ![c] = seq]
  /\ seq' = NextToken
  /\ flags' = flags \cup {"TASK"}
  /\ UNCHANGED <<head, next, note, serverVars, unread, msg_in, stuck, network,
                 build, world>>

(* coap_received.                                                          *)
Received(c) ==
  /\ ~stuck /\ note[c] # None
  /\ note' = [note EXCEPT ![c] = None]
  /\ asking' = [asking EXCEPT ![c] = None]
  /\ UNCHANGED <<head, next, token, awaits, seq, out, serverVars, unread,
                 msg_in, flags, stuck, network, build, world>>

-----------------------------------------------------------------------------
(* A turn of the engine begins with every variable of the last one reset,  *)
(* and both flags cleared.                                                 *)
(* Mutant: the resource stays.                                             *)
FreshButResource == [resource |-> resource_demanded, len |-> 0]
Fresh == [resource |-> Null, len |-> 0]

NetworkSeen == "NETWORK" \in flags

BeginTurn == ~stuck /\ flags # {} /\ flags' = {}

(* coap_client_recv looks at the first client and then, for ever, at its   *)
(* successor.                                                              *)
Second == IF head = Null THEN Null ELSE next[head]

Recv(c) ==
  /\ unread' = unread \ {c}
  /\ \/ c = head /\ c \in unread
     \/ head # Null /\ head \notin unread /\ c = Second /\ c \in unread
RecvNone == head = Null \/ (head \notin unread /\ Second = Null)
RecvForever ==
  /\ head # Null /\ head \notin unread
  /\ Second # Null /\ Second \notin unread

TurnIdle ==
  /\ BeginTurn /\ ~NetworkSeen
  /\ resource_demanded' = Fresh.resource /\ send_len' = Fresh.len
  /\ UNCHANGED <<clientVars, remote, reply, answered, unread, msg_in, stuck, asking,
                 network, build, world>>

TurnForever ==
  /\ BeginTurn /\ NetworkSeen /\ RecvForever
  /\ stuck' = TRUE
  /\ UNCHANGED <<clientVars, serverVars, unread, msg_in, asking, network, build,
                 world>>

(* A message for client c is handled, and none of the server in this turn. *)
(* Mutant: a token of the right length will do.                            *)
MatchesAny(c) == token[c] # 0
Matches(c) == msg_in[c].token = token[c]

(* Mutant: the client goes on to expect the answer.                        *)
TellKeeps(c, what) ==
  /\ note' = [note EXCEPT ![c] = [what |-> what, answers |-> token[c]]]
  /\ UNCHANGED token

Tell(c, what) ==
  /\ note' = [note EXCEPT ![c] = [what |-> what, answers |-> token[c]]]
  /\ token' = [token EXCEPT ![c] = 0]

(* The acknowledgement of the request, or its rejection, ...               *)
Settles(c) == msg_in[c].type \in {"ACK", "RST"} /\ awaits[c]
ClientAcked(c) ==
  /\ Settles(c)
  /\ awaits' = [awaits EXCEPT ![c] = FALSE]
  /\ CASE msg_in[c].type = "RST" -> Tell(c, "null")
       [] ~msg_in[c].ok -> UNCHANGED <<token, note>>
       [] msg_in[c].plain -> Tell(c, "payload")
       [] OTHER -> token' = [token EXCEPT ![c] = 0] /\ UNCHANGED note
  /\ UNCHANGED out

(* ... or any other message with its token, which ends the wait without    *)
(* the payload, and is acknowledged if it asks for it and there is room.   *)
ClientOther(c) ==
  /\ ~Settles(c)
  /\ out' = [out EXCEPT ![c] =
               IF msg_in[c].type = "CON" /\ @ = Null THEN Ack ELSE @]
  /\ Tell(c, "null")
  /\ UNCHANGED awaits

TurnClient(c) ==
  /\ BeginTurn /\ NetworkSeen /\ Recv(c)
  /\ IF Matches(c) THEN ClientAcked(c) \/ ClientOther(c)
                   ELSE UNCHANGED <<token, awaits, out, note>>
  /\ resource_demanded' = Fresh.resource /\ send_len' = Fresh.len
  /\ UNCHANGED <<head, next, seq, remote, reply, answered, msg_in, stuck, asking, network,
                 build, world>>

-----------------------------------------------------------------------------
(* The server.                                                             *)

(* A segment of the path names the first resource of the list that has the *)
(* right parent and whose name begins with it.                             *)
Names(r, parent, name) == IsPrefix(name, Uri[r]) /\ Parent[r] = parent

Lookup(parent, name) ==
  LET found == {i \in DOMAIN Resource : Names(Resource[i], parent, name)}
  IN IF found = {} THEN Null
     ELSE Resource[CHOOSE i \in found : \A j \in found : i <= j]

NotFound(code) ==
  CASE code = "GET" -> "4.04" [] code \in {"POST", "DELETE"} -> "4.05"
    [] OTHER -> "4.03"

(* One option: it may move on to a resource or end the walk with an error. *)
Walk(code, option, at) ==
  LET number == option.number IN
  IF at.error # "" THEN at
  ELSE CASE number = "malformed" -> [at EXCEPT !.error = "4.00"]
         [] number = "path" ->
              LET r == Lookup(at.resource, option.name) IN
              IF r = Null THEN [resource |-> r, error |-> NotFound(code)]
                          ELSE [resource |-> r, error |-> ""]
         [] number \in {"format", "accept"} ->
              IF option.plain THEN at ELSE [at EXCEPT !.error = "4.15"]
         [] number = "block2" -> at
         [] OTHER -> [at EXCEPT !.error = "4.02"]

(* All of them, from the resource the turn begins with.                    *)
Options(q) ==
  LET at[i \in 0..Len(q.options)] ==
        IF i = 0 THEN [resource |-> Fresh.resource, error |-> ""]
                 ELSE Walk(q.code, q.options[i], at[i - 1])
  IN at[Len(q.options)]

(* coap_response; an empty message and 4.00 end with the token.            *)
Response(type, code, len) ==
  [type |-> type, code |-> code, payload |-> len # 0 /\ code \notin {"0.00", "4.00"}]
Rst(code) == Response("RST", code, Fresh.len)

(* What is left of the request when its options are read: the method, with *)
(* the results of the callbacks; a request that names no resource is not   *)
(* answered.                                                               *)
Method(q, r, got, put) ==
  CASE q.code = "GET" /\ r \in Gets ->
         [reply |-> IF got /\ q.con THEN Response("ACK", "2.05", 1) ELSE Null, len |-> 1]
    [] q.code = "PUT" /\ r \in Puts ->
         [len |-> Fresh.len,
          reply |-> IF put /\ q.con THEN Response("ACK", "2.04", Fresh.len)
                    ELSE IF ~put THEN Response("ACK", "4.00", 0) ELSE Null]
    [] OTHER -> [reply |-> Rst("4.05"), len |-> Fresh.len]

(* Mutant: a request with an unknown option is dropped.                    *)
ServeSilent(q, got, put) ==
  LET at == Options(q)
      end == [reply |-> Null, len |-> Fresh.len]
      m == IF at.error = "4.02" THEN end
           ELSE IF at.error # "" THEN [end EXCEPT !.reply = Rst(at.error)]
           ELSE IF at.resource = Null THEN end
           ELSE Method(q, at.resource, got, put)
  IN [reply |-> m.reply, resource |-> at.resource, len |-> m.len]

Serve(q, got, put) ==
  LET at == Options(q)
      end == [reply |-> Null, len |-> Fresh.len]
      m == IF at.error # "" THEN [end EXCEPT !.reply = Rst(at.error)]
           ELSE IF at.resource = Null THEN end
           ELSE Method(q, at.resource, got, put)
  IN [reply |-> m.reply, resource |-> at.resource, len |-> m.len]

(* A message that is not well formed, a ping, a request, or another empty  *)
(* message, of which the engine reads what an older message left behind it.*)
Served(q, got, put) ==
  LET Short(r) == [reply |-> r, resource |-> Fresh.resource, len |-> Fresh.len] IN
  CASE q.kind = "broken" -> {Short(Rst("4.00"))}
    [] q.kind = "ping" -> {Short(Response("RST", "0.00", 0))}
    [] q.kind = "request" -> {Serve(q, got, put)}
    [] OTHER -> {Short(Null)} \cup
                {Short(Rst(e)) : e \in {"4.00", "4.02", "4.03", "4.05", "4.15"}}

(* The flag of the network means that there is a message for one of them.  *)
(* coap_response gives way to a reply that has not left.                   *)
TurnServer(got, put) ==
  /\ BeginTurn /\ NetworkSeen /\ RecvNone /\ Server \in unread
  /\ "silent" \notin world => got
  /\ unread' = unread \ {Server}
  /\ \E s \in Served(msg_in[Server], got, put) :
       /\ reply' = IF reply = Null THEN s.reply ELSE reply
       /\ answered' = [request |-> msg_in[Server], resource |-> s.resource]
       /\ resource_demanded' = s.resource /\ send_len' = s.len
  /\ msg_in' = [msg_in EXCEPT ![Server] = Null]
  /\ UNCHANGED <<clientVars, remote, stuck, asking, network, build, world>>

Turn ==
  \/ TurnIdle \/ TurnForever
  \/ \E c \in Client : TurnClient(c)
  \/ \E got, put \in BOOLEAN : TurnServer(got, put)

-----------------------------------------------------------------------------
(* net_tick: what waits leaves, then one frame comes in.  On the native    *)
(* loop the tasks it wakes run first (NativeRunsWokenFirst).               *)
Ticks ==
  /\ ~stuck
  /\ build = "native" => flags = {} /\ \A c \in Client : note[c] = None
  /\ out' = [c \in Client |-> Null] /\ reply' = Null /\ answered' = Null
  /\ UNCHANGED <<head, next, token, awaits, seq, note, resource_demanded,
                 send_len, stuck, asking, build, world>>

Recent(t) == (seq + Tokens - t) % Tokens <= Life + 1

(* The requests that may be answered, with those of left on their way.     *)
Travels(left, kept) ==
  network' = left \cup
    (IF "late" \in world THEN {t \in network : Recent(t)}
     ELSE IF left = {} THEN kept ELSE {})
Departs(kept) ==
  \E left \in SUBSET Leaving :
    ("lossy" \notin world => left = Leaving) /\ Travels(left, kept)

HeardBy == IF reply # Null THEN Nobody ELSE remote

TickQuiet ==
  /\ Ticks /\ Departs(network)
  /\ remote' = HeardBy
  /\ UNCHANGED <<unread, msg_in, flags>>

(* All clients have the same local port, and a departure clears the        *)
(* remote: the first one hears every answer.                               *)
Answers ==
  LET May(feature, S) == IF feature \in world THEN S ELSE {} IN
  [type : {"ACK"} \cup May("separate", {"CON", "NON"}) \cup May("error", {"RST"}),
   ok : {TRUE} \cup May("error", {FALSE}),
   plain : {TRUE} \cup May("options", {FALSE}),
   token : network]

TickAnswer(a) ==
  /\ head # Null
  /\ Ticks /\ Departs(network \ {a.token})
  /\ remote' = HeardBy
  /\ msg_in' = [msg_in EXCEPT ![head] = a]
  /\ unread' = unread \cup {head}
  /\ flags' = flags \cup {"NETWORK"}

Proper(q) ==
  /\ q.kind = "stray" => "stray" \in world
  /\ q.kind = "request" /\ "silent" \notin world =>
       q.con /\ \E i \in DOMAIN q.options : q.options[i].number = "path"

TickRequest(p, q) ==
  /\ Proper(q) /\ HeardBy \in {Nobody, p}
  /\ Ticks /\ Departs(network)
  /\ remote' = p
  /\ msg_in' = [msg_in EXCEPT ![Server] = q]
  /\ unread' = unread \cup {Server}
  /\ flags' = flags \cup {"NETWORK"}

NetTick ==
  \/ TickQuiet
  \/ \E a \in Answers : TickAnswer(a)
  \/ \E p \in Peer, q \in Request : TickRequest(p, q)

Next ==
  \/ \E c \in Client : StartClient(c) \/ Get(c) \/ Received(c)
  \/ Turn
  \/ NetTick

Spec == Init /\ [][Next]_coapVars

(* Where peers and tasks keep to the simple exchange: a task that is ready *)
(* runs and net_tick is called (Scheduler, Kernel), and a remote end that  *)
(* has a request answers it.                                               *)
Orderly(A) == world = {} /\ A
FairSpec ==
  /\ Spec
  /\ WF_coapVars(Orderly(Turn)) /\ WF_coapVars(Orderly(TickQuiet))
  /\ \A c \in Client : WF_coapVars(Orderly(Received(c)))
  /\ SF_coapVars(Orderly(\E a \in Answers : TickAnswer(a)))

-----------------------------------------------------------------------------
(* Every variable stays in its type.                                       *)
TypeOK ==
  /\ head \in Client \cup {Null} /\ next \in [Client -> Client \cup {Null}]
  /\ token \in [Client -> Token] /\ awaits \in [Client -> BOOLEAN]
  /\ seq \in Token /\ network \subseteq Token
  /\ out \in [Client -> Token \cup {Null, Ack}]
  /\ unread \subseteq Listener
  /\ msg_in \in [Listener -> Answer \cup Request \cup {Null}]
  /\ \A c \in Client : msg_in[c] \in Answer \cup {Null}
  /\ msg_in[Server] \in Request \cup {Null}
  /\ answered \in [request : Request, resource : Range(Resource) \cup {Null}] \cup {Null}
  /\ flags \subseteq {"TASK", "NETWORK"}
  /\ note \in [Client -> Note \cup {None}]
  /\ remote \in Peer \cup {Nobody} /\ reply \in Reply \cup {Null}
  /\ resource_demanded \in Range(Resource) \cup {Null} /\ send_len \in {0, 1}
  /\ asking \in [Client -> Token \cup {None}]
  /\ stuck \in BOOLEAN /\ build \in {"native", "board"} /\ world \in Worlds

(* coap_client_recv returns the client that received something, or NULL    *)
(* (coap_client.h:53-58).                                                  *)
ClientRecvReturns == ~stuck

Payload(c) == note[c] # None /\ note[c].what = "payload"

(* What a task is woken with is the answer to the request it waits for,    *)
(* and still in the buffer that the engine points it to, although another  *)
(* answer may come in before the task runs; the native loop runs it first. *)
AnswerIsCurrent ==
  "wrap" \notin world /\ (build = "native" \/ world \cap {"late", "clients"} = {}) =>
    \A c \in Client : Payload(c) => msg_in[c].token = asking[c]

(* A task that waits for its answer is told once for each request; not if  *)
(* it asks again meanwhile, nor with a token that is zero, which is also   *)
(* that of a client that expects nothing.                                  *)
Regular == world \cap {"impatient", "wrap"} = {}
Asked == [c \in Client |-> IF Regular THEN asking[c] ELSE None]
Told == [c \in Client |-> IF Regular /\ note[c] # None THEN note[c].answers ELSE None]
EX == INSTANCE Exchange WITH asked <- Asked, told <- Told
ImplementsExchange == EX!ExSpec

(* The server's listener hears one peer only while it owes that peer an    *)
(* answer: if every request it gets is of those that are answered.         *)
ServerHearsEveryone ==
  world \cap {"silent", "stray"} = {} =>
    (remote # Nobody => reply # Null \/ Server \in unread)

(* The resource that serves a request is the one its whole path names,     *)
(* whatever was demanded before; where no uri_path begins another one, and *)
(* the request does not abbreviate.                                        *)
Segments(q) ==
  LET names[i \in 0..Len(q.options)] ==
        IF i = 0 THEN <<>>
        ELSE IF q.options[i].number = "path"
               THEN Append(names[i - 1], q.options[i].name) ELSE names[i - 1]
  IN names[Len(q.options)]
IsPath(r, names) ==
  \E chain \in [DOMAIN names -> Range(Resource)] :
    /\ names # <<>> /\ chain[Len(names)] = r /\ Parent[chain[1]] = Null
    /\ \A i \in DOMAIN names :
         /\ Uri[chain[i]] = names[i]
         /\ i > 1 => Parent[chain[i]] = chain[i - 1]
Unambiguous(q) ==
  /\ \A r, s \in Range(Resource) : IsPrefix(Uri[r], Uri[s]) => Uri[r] = Uri[s]
  /\ \A i \in DOMAIN q.options : q.options[i].number = "path" =>
       \E r \in Range(Resource) : Uri[r] = q.options[i].name
RightResource ==
  reply # Null /\ reply.code \in {"2.04", "2.05"} =>
    /\ answered.resource # Null
    /\ Unambiguous(answered.request) =>
         IsPath(answered.resource, Segments(answered.request))

(* A task that asks is answered, by a remote end that answers every        *)
(* request it gets with the payload in the acknowledgement.                *)
GetIsAnswered ==
  world = {} => \A c \in Client : asking[c] # None ~> Payload(c)
=============================================================================
