------------------------------ MODULE MCCoap ------------------------------
(* Finite instances of Coap.                                               *)
EXTENDS Coap

CONSTANTS c1, c2

\* .well-known, which never answers, and battery with a child that can be set.
MCResource == <<"discover", "battery", "limit">>
MCUri == [r \in Range(MCResource) |->
            CASE r = "discover" -> <<1>> [] r = "battery" -> <<2, 3>> [] OTHER -> <<4>>]
MCParent == [r \in Range(MCResource) |-> IF r = "limit" THEN "battery" ELSE Null]

Opt(number, name, plain) == [number |-> number, name |-> name, plain |-> plain]
Seg(name) == Opt("path", name, TRUE)
Req(kind, con, code, options) ==
  [kind |-> kind, con |-> con, code |-> code, options |-> options]
MCRequest ==
  {Req("broken", TRUE, "GET", <<>>), Req("ping", TRUE, "GET", <<>>),
   Req("stray", FALSE, "GET", <<>>),
   Req("request", TRUE, "GET", <<Seg(<<2, 3>>), Opt("accept", <<>>, TRUE)>>),
   Req("request", TRUE, "GET", <<Seg(<<2>>)>>),
   Req("request", FALSE, "GET", <<Seg(<<2, 3>>)>>),
   Req("request", TRUE, "GET", <<Seg(<<4>>)>>),
   Req("request", TRUE, "PUT", <<Seg(<<2, 3>>), Seg(<<4>>), Opt("format", <<>>, TRUE)>>),
   Req("request", TRUE, "PUT", <<Seg(<<2, 3>>), Opt("format", <<>>, FALSE)>>),
   Req("request", TRUE, "PUT", <<Opt("block2", <<>>, TRUE)>>),
   Req("request", TRUE, "PUT", <<Seg(<<5>>)>>),
   Req("request", TRUE, "POST", <<Seg(<<2, 3>>)>>),
   Req("request", TRUE, "GET", <<Seg(<<2, 3>>), Opt("other", <<>>, TRUE)>>),
   Req("request", TRUE, "GET", <<Opt("malformed", <<>>, TRUE), Seg(<<2, 3>>)>>)}

MCWorlds == {{}} \cup {{f} : f \in Features}
MCClients == {{"clients"}}
=============================================================================
