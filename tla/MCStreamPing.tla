---------------------------- MODULE MCStreamPing ----------------------------
(* Values for the constants of StreamPing.                                 *)
EXTENDS StreamPing

CONSTANTS toRunner, toClient

MCStream == {toRunner, toClient}

\* A stream to a node runner, and one to a client or the relay.
MCAnswers == [s \in Stream |-> IF s = toRunner THEN {"PING", "TEST"} ELSE {"PING"}]
=============================================================================
