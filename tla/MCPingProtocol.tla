--------------------------- MODULE MCPingProtocol ---------------------------
(* Values for the constants of PingProtocol.                               *)
EXTENDS PingProtocol

CONSTANTS runner, runner2, client

MCNode == {runner, client}
MCThreeNodes == {runner, runner2, client}

\* Shorter exchanges: what the hazards need of the script.
PingOnly == <<"ping">>
PingStart == <<"ping", "start">>

\* Who asks: the client alone, or every node, as they really do.
ClientAsks == [n \in Node |-> IF n = client THEN 1 ELSE 0]
AllAsk == [n \in Node |-> 1]
=============================================================================
