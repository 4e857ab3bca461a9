---------------------------- MODULE MCSignedPing ----------------------------
(* Values for the constants of SignedPing: two requests one way, one back. *)
EXTENDS SignedPing

CONSTANTS a, b, q1, q2, q3

MCNode == {a, b}
MCRequest == {q1, q2, q3}
MCFrom == [q \in Request |-> IF q = q3 THEN b ELSE a]
MCTo == [q \in Request |-> IF q = q3 THEN a ELSE b]
=============================================================================
