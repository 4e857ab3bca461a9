---------------------------- MODULE MCSendProto ----------------------------
(* Values for the constants of SendProto: up to three calls to two peers,  *)
(* two of them to the same one.                                            *)
EXTENDS SendProto

CONSTANTS c1, c2, c3, p1, p2

MCTwoCalls == {c1, c2}
MCThreeCalls == {c1, c2, c3}
MCPeer == {p1, p2}
MCTarget == [c \in Call |-> IF c = c3 THEN p2 ELSE p1]
=============================================================================
