------------------------------ MODULE Exchange ------------------------------
(***************************************************************************)
(* What the CoAP engine promises to a task that uses one client            *)
(* (coap_client.h:85-102, coap.cpp:385-390): it asks one question at a     *)
(* time, and each question is answered once, by the answer to that         *)
(* question and no earlier one.                                            *)
(***************************************************************************)
CONSTANTS Client,   \* the clients
          Token,    \* what tells questions apart
          None      \* no question

VARIABLES asked,    \* the question under way
          told      \* the question whose answer the task has been woken for

exchangeVars == <<asked, told>>

ExInit == asked = [c \in Client |-> None] /\ told = [c \in Client |-> None]

Ask(c, t) ==
  /\ asked[c] = None /\ told[c] = None
  /\ asked' = [asked EXCEPT ![c] = t] /\ UNCHANGED told
Tell(c) ==
  /\ asked[c] # None /\ told[c] = None
  /\ told' = [told EXCEPT ![c] = asked[c]] /\ UNCHANGED asked
Take(c) ==
  /\ told[c] # None /\ told[c] = asked[c]
  /\ asked' = [asked EXCEPT ![c] = None] /\ told' = [told EXCEPT ![c] = None]

ExNext == \E c \in Client : (\E t \in Token : Ask(c, t)) \/ Tell(c) \/ Take(c)
ExSpec == ExInit /\ [][ExNext]_exchangeVars
=============================================================================
