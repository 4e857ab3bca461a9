--------------------------- MODULE StreamControl ---------------------------
(***************************************************************************)
(* The isStreaming flag of src/ping/ping.go and the request handlers that  *)
(* read and write it (startstream.go, stopstream.go, status.go).           *)
(*                                                                         *)
(* The flag is one package variable: all the requests a process receives,  *)
(* from all its peers, share it. libp2p runs every inbound stream's        *)
(* handler in a goroutine of its own and nothing locks the flag (the mutex *)
(* of PingProtocol is never taken), so each access is a step of its own:   *)
(* the test of the flag, the assignment, and the second reading that fills *)
(* the IsStreaming field of the response.                                  *)
(***************************************************************************)
EXTENDS Naturals

CONSTANTS
  Node,                         \* processes
  Call,                         \* handler invocations
  Home,                         \* the process that runs each of them
  Op                            \* the kind of request each of them handles

FlagOp == {"start", "stop", "status"}

ASSUME CallAssumption == Home \in [Call -> Node] /\ Op \in [Call -> FlagOp]

VARIABLES
  isStreaming,                  \* the flag of each process
  at,                           \* where each handler is
  saw,                          \* what its test of the flag read
  streaming                     \* the IsStreaming field of its response

controlVars == <<isStreaming, at, saw, streaming>>

ControlTypeOK ==
  /\ isStreaming \in [Node -> BOOLEAN]
  /\ at \in [Call -> {"idle", "tested", "written", "answered"}]
  /\ saw \in [Call -> BOOLEAN]
  /\ streaming \in [Call -> BOOLEAN]

ControlInit ==
  /\ isStreaming = [n \in Node |-> FALSE]
  /\ at = [c \in Call |-> "idle"]
  /\ saw = [c \in Call |-> FALSE]
  /\ streaming = [c \in Call |-> FALSE]

\* [A bug it must not have: the test is the wrong way round.]
TestInverted(c) ==
  /\ at[c] = "idle"
  /\ saw' = [saw EXCEPT ![c] = ~isStreaming[Home[c]]]
  /\ at' = [at EXCEPT ![c] = "tested"]
  /\ UNCHANGED <<isStreaming, streaming>>

\* if !isStreaming / if isStreaming
Test(c) ==
  /\ at[c] = "idle"
  /\ saw' = [saw EXCEPT ![c] = isStreaming[Home[c]]]
  /\ at' = [at EXCEPT ![c] = "tested"]
  /\ UNCHANGED <<isStreaming, streaming>>

\* [A bug it must not have: start and stop do not look at the flag first.]
MustAlwaysWrite(c) == Op[c] \in {"start", "stop"}

\* [A bug it must not have: the stop reports the stream but leaves it.]
MustWriteStart(c) == Op[c] = "start" /\ ~saw[c]

\* A start that saw no stream sets the flag; a stop that saw one clears it.
\* The others leave it alone.
MustWrite(c) == \/ Op[c] = "start" /\ ~saw[c]
                \/ Op[c] = "stop" /\ saw[c]

\* [A bug it must not have: the stop assigns what the start assigns.]
WrittenAlike(c) == Op[c] \in {"start", "stop"}

Written(c) == Op[c] = "start"

Write(c) ==
  /\ at[c] = "tested"
  /\ MustWrite(c)
  /\ isStreaming' = [isStreaming EXCEPT ![Home[c]] = Written(c)]
  /\ at' = [at EXCEPT ![c] = "written"]
  /\ UNCHANGED <<saw, streaming>>

\* [A bug it must not have: the IsStreaming field is left at its default.]
AnswerUnfilled(c) ==
  /\ at[c] = IF MustWrite(c) THEN "written" ELSE "tested"
  /\ at' = [at EXCEPT ![c] = "answered"]
  /\ UNCHANGED <<isStreaming, saw, streaming>>

\* The response is built. Start and Status read the flag again for it; the
\* response of Stop carries no more than the identifiers of the request.
Answer(c) ==
  /\ at[c] = IF MustWrite(c) THEN "written" ELSE "tested"
  /\ streaming' = [streaming EXCEPT ![c] = Op[c] # "stop" /\ isStreaming[Home[c]]]
  /\ at' = [at EXCEPT ![c] = "answered"]
  /\ UNCHANGED <<isStreaming, saw>>

HandlerStep(c) == Test(c) \/ Write(c) \/ Answer(c)

ControlDone == (\A c \in Call : at[c] = "answered") /\ UNCHANGED controlVars

ControlNext == (\E c \in Call : HandlerStep(c)) \/ ControlDone

ControlSpec == ControlInit /\ [][ControlNext]_controlVars

\* Every handler that runs comes to its response.
FairControlSpec == ControlSpec /\ \A c \in Call : WF_controlVars(HandlerStep(c))

-----------------------------------------------------------------------------

\* What the handler's own accesses tell it about the flag: what it wrote, or
\* else what it read. The StatusMessage of the response is made from this:
\* "SUCCESS" and "ALREADY_STREAMING" both say that there is a stream.
Known(c) == IF MustWrite(c) THEN Written(c) ELSE saw[c]

\* "Status asks if the target is already stream a project": the two fields of
\* an answer, StatusMessage and IsStreaming, say the same.
StatusNotTorn ==
  \A c \in Call : at[c] = "answered" /\ Op[c] = "status" => streaming[c] = Known(c)
=============================================================================
