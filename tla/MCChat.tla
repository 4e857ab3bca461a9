------------------------------- MODULE MCChat -------------------------------
(* Values for the constants of Chat: of two clients the pings of one.      *)
EXTENDS Chat

CONSTANTS a, b

MCChatter == {a, b}
MCPings == [c \in Chatter |-> IF c = a THEN 2 ELSE 0]
=============================================================================
