----------------------------- MODULE Messenger -----------------------------
(***************************************************************************)
(* What a call of sendProtoMessage (src/ping/ping.go) promises, with none  *)
(* of its streams: the caller learns TRUE, FALSE, or never learns because  *)
(* its process panics; a message that was reported sent reaches the        *)
(* handler of the peer at most once and in any order with respect to the   *)
(* other messages, because every message has a stream of its own; a        *)
(* message that was not reported sent never reaches it.                    *)
(***************************************************************************)
EXTENDS Naturals

CONSTANT Call                   \* the calls of sendProtoMessage

VARIABLES
  result,                       \* what each call told its caller
  inflight,                     \* the calls whose message is on its way
  deliveries                    \* how often each message reached a handler

messengerVars == <<result, inflight, deliveries>>

Result == {"none", "true", "false", "panic"}

MessengerTypeOK ==
  /\ result \in [Call -> Result]
  /\ inflight \in SUBSET Call
  /\ deliveries \in [Call -> Nat]

MessengerInit ==
  /\ result = [c \in Call |-> "none"]
  /\ inflight = {}
  /\ deliveries = [c \in Call |-> 0]

\* The call reports a message that is on its way, or that is already lost.
SendTrue(c) ==
  /\ result[c] = "none"
  /\ result' = [result EXCEPT ![c] = "true"]
  /\ inflight' \in {inflight, inflight \cup {c}}
  /\ UNCHANGED deliveries

\* The call reports a failure, or the process panics inside it.
SendNothing(c, r) ==
  /\ result[c] = "none"
  /\ result' = [result EXCEPT ![c] = r]
  /\ UNCHANGED <<inflight, deliveries>>

SendFalse(c) == SendNothing(c, "false")
SendPanic(c) == SendNothing(c, "panic")

\* The peer reads the message to its end and starts the handler.
Handle(c) ==
  /\ c \in inflight
  /\ inflight' = inflight \ {c}
  /\ deliveries' = [deliveries EXCEPT ![c] = @ + 1]
  /\ UNCHANGED result

\* Streams are reset before the peer has read their end: one, or all those of
\* a connection.
Lose(S) ==
  /\ S # {}
  /\ S \subseteq inflight
  /\ inflight' = inflight \ S
  /\ UNCHANGED <<result, deliveries>>

MessengerNext ==
  \/ \E c \in Call : SendTrue(c) \/ SendFalse(c) \/ SendPanic(c) \/ Handle(c)
  \/ \E S \in SUBSET inflight : Lose(S)

MessengerSpec == MessengerInit /\ [][MessengerNext]_messengerVars
=============================================================================
