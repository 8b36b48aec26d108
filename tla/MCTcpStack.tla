----------------------------- MODULE MCTcpStack -----------------------------
(* Finite instances of TcpStack.                                           *)
EXTENDS TcpStack

\* srv listens to port 80, cli opens connections.
CONSTANTS srv, cli
MCPortOf == [l \in Servers |-> 80]

\* The orderly world, and those with one of the features.
MCWorlds == {{}} \cup {{f} : f \in Features}
MCResets == {{"reset"}}
=============================================================================
