----------------------------- MODULE SignedPing -----------------------------
(***************************************************************************)
(* The signed ping protocol (src/protocols/customprotocol.go), an earlier  *)
(* form of src/ping: every message carries its author, the author's key    *)
(* and a signature, and the process that asks keeps its requests in a      *)
(* table, under a mutex, until a response with their id comes. Messages    *)
(* travel as Messenger specifies: one stream each, with no retry. The      *)
(* mutex makes each access to the table one step.                          *)
(***************************************************************************)
EXTENDS Naturals, FiniteSets

CONSTANTS
  Node,
  Request,                      \* the calls of Ping, named by their uuid
  From, To,                     \* who asks, and the target
  MaxFault                      \* bound: failed sends, lost messages, restarts

ASSUME RequestAssumption ==
  /\ From \in [Request -> Node] /\ To \in [Request -> Node]
  /\ \A q \in Request : From[q] # To[q]
ASSUME FaultAssumption == MaxFault \in Nat

Message == {"req", "rsp"} \X Request
Sender(m) == IF m[1] = "req" THEN From[m[2]] ELSE To[m[2]]
Receiver(m) == IF m[1] = "req" THEN To[m[2]] ELSE From[m[2]]

VARIABLES
  caller,                       \* the goroutine of each call of Ping
  requests,                     \* the table of each process
  handler,                      \* the handler of each message
  result, inflight, deliveries, \* the network: see Messenger
  answered,                     \* history: the requests whose answer was matched
  forgotten,                    \* history: those that were lost with a table
  faults

netVars == <<result, inflight, deliveries>>
history == <<answered, forgotten>>
vars == <<caller, requests, handler, netVars, history, faults>>

Net == INSTANCE Messenger WITH Call <- Message

\* "waiting" is a handler that offers its token to the channel.
TypeOK ==
  /\ caller \in [Request -> {"start", "stored", "returned", "gone"}]
  /\ requests \in [Node -> SUBSET Request]
  /\ handler \in [Message -> {"none", "running", "refused", "unknown",
                              "waiting", "done", "gone"}]
  /\ Net!MessengerTypeOK
  /\ answered \in SUBSET Request
  /\ forgotten \in SUBSET Request
  /\ faults \in 0..MaxFault

Init ==
  /\ caller = [q \in Request |-> "start"]
  /\ requests = [n \in Node |-> {}]
  /\ handler = [m \in Message |-> "none"]
  /\ Net!MessengerInit
  /\ answered = {}
  /\ forgotten = {}
  /\ faults = 0

Fault == faults < MaxFault /\ faults' = faults + 1

-----------------------------------------------------------------------------
(* Signatures. A key is named by the node that owns it.                    *)

\* A response has the id of its request.
NewMessageData(m) ==
  [kind |-> m[1], id |-> m[2], nodeId |-> Sender(m), nodePubKey |-> Sender(m), sign |-> {}]

\* A signature is as good as the key and the data it was made with.
SignData(data, key) == {<<key, data>>}

Signed(m) == [NewMessageData(m) EXCEPT !.sign = SignData(NewMessageData(m), Sender(m))]

VerifyData(data, sign, peerId, key) == key = peerId /\ sign = SignData(data, key)

\* [A bug it must not have: the data is verified with the signature in it.]
AuthenticateWhole(data) == VerifyData(data, data.sign, data.nodeId, data.nodePubKey)

\* The signature was made before it was put into the message.
AuthenticateMessage(data) ==
  VerifyData([data EXCEPT !.sign = {}], data.sign, data.nodeId, data.nodePubKey)

-----------------------------------------------------------------------------
(* Sending: one call of sendProtoMessage.                                  *)

SendProtoMessage(m) ==
  \/ Net!SendTrue(m) /\ m \in inflight' /\ UNCHANGED faults
  \/ Net!SendFalse(m) /\ Fault

-----------------------------------------------------------------------------
(* Ping.                                                                   *)

\* The request is in the table before its message can be answered.
Store(q) ==
  /\ caller[q] = "start"
  /\ caller' = [caller EXCEPT ![q] = "stored"]
  /\ requests' = [requests EXCEPT ![From[q]] = @ \cup {q}]
  /\ UNCHANGED <<handler, netVars, history, faults>>

\* Whether it was sent or not, it stays there.
SendRequest(q) ==
  /\ caller[q] = "stored"
  /\ SendProtoMessage(<<"req", q>>)
  /\ caller' = [caller EXCEPT ![q] = "returned"]
  /\ UNCHANGED <<requests, handler, history>>

Ping(q) == Store(q) \/ SendRequest(q)

-----------------------------------------------------------------------------
(* The handlers.                                                           *)

MoveTo(m, place) == handler' = [handler EXCEPT ![m] = place]

\* The message is read to its end and verified.
Receive(m) ==
  /\ handler[m] = "none"
  /\ Net!Handle(m)
  /\ MoveTo(m, IF AuthenticateMessage(Signed(m)) THEN "running" ELSE "refused")
  /\ UNCHANGED <<caller, requests, history, faults>>

\* onPingRequest goes on to done whether its response was sent or not.
OnPingRequest(q) ==
  /\ handler[<<"req", q>>] = "running"
  /\ SendProtoMessage(<<"rsp", q>>)
  /\ MoveTo(<<"req", q>>, "waiting")
  /\ UNCHANGED <<caller, requests, history>>

\* [A bug it must not have: the entry is left in the table.]
OnPingResponseKeeps(q) ==
  /\ handler[<<"rsp", q>>] = "running"
  /\ IF q \in requests[From[q]]
     THEN answered' = answered \cup {q} /\ MoveTo(<<"rsp", q>>, "waiting")
     ELSE MoveTo(<<"rsp", q>>, "unknown") /\ UNCHANGED answered
  /\ UNCHANGED <<caller, requests, netVars, forgotten, faults>>

\* [A bug it must not have: the table is kept by peer, not by id.]
OnPingResponseByPeer(q) ==
  /\ handler[<<"rsp", q>>] = "running"
  /\ IF q \in requests[From[q]]
     THEN /\ requests' = [requests EXCEPT ![From[q]] = {r \in @ : To[r] # To[q]}]
          /\ answered' = answered \cup {q}
          /\ MoveTo(<<"rsp", q>>, "waiting")
     ELSE MoveTo(<<"rsp", q>>, "unknown") /\ UNCHANGED <<requests, answered>>
  /\ UNCHANGED <<caller, netVars, forgotten, faults>>

\* [A bug it must not have: any response is taken for an answer.]
OnPingResponseAny(q) ==
  /\ handler[<<"rsp", q>>] = "running"
  /\ requests' = [requests EXCEPT ![From[q]] = @ \ {q}]
  /\ answered' = answered \cup {q}
  /\ MoveTo(<<"rsp", q>>, "waiting")
  /\ UNCHANGED <<caller, netVars, forgotten, faults>>

\* Under the mutex: the request is removed, or not found.
OnPingResponse(q) ==
  /\ handler[<<"rsp", q>>] = "running"
  /\ IF q \in requests[From[q]]
     THEN /\ requests' = [requests EXCEPT ![From[q]] = @ \ {q}]
          /\ answered' = answered \cup {q}
          /\ MoveTo(<<"rsp", q>>, "waiting")
     ELSE MoveTo(<<"rsp", q>>, "unknown") /\ UNCHANGED <<requests, answered>>
  /\ UNCHANGED <<caller, netVars, forgotten, faults>>

HandlerStep(m) ==
  Receive(m) \/ (IF m[1] = "req" THEN OnPingRequest(m[2]) ELSE OnPingResponse(m[2]))

-----------------------------------------------------------------------------
(* What is around it.                                                      *)

\* The program that uses the protocol receives a token; for how long it does,
\* the package leaves to it.
TakeToken(m) ==
  /\ handler[m] = "waiting"
  /\ MoveTo(m, "done")
  /\ UNCHANGED <<caller, requests, netVars, history, faults>>

LoseMessage(m) ==
  /\ Net!Lose({m})
  /\ Fault
  /\ UNCHANGED <<caller, requests, handler, history>>

\* A process ends and starts again under its identity: its table, its
\* goroutines and what was on its way to it are gone.
Restart(n) ==
  /\ Fault
  /\ requests' = [requests EXCEPT ![n] = {}]
  /\ caller' = [q \in Request |->
       IF From[q] = n /\ caller[q] = "stored" THEN "gone" ELSE caller[q]]
  /\ handler' = [m \in Message |->
       IF Receiver(m) = n /\ handler[m] \in {"running", "waiting"} THEN "gone" ELSE handler[m]]
  /\ inflight' = {m \in inflight : Receiver(m) # n}
  /\ forgotten' = forgotten \cup requests[n]
  /\ UNCHANGED <<result, deliveries, answered>>

Next ==
  \/ \E q \in Request : Ping(q)
  \/ \E m \in Message : HandlerStep(m) \/ TakeToken(m) \/ LoseMessage(m)
  \/ \E n \in Node : Restart(n)

Spec == Init /\ [][Next]_vars

\* Go schedules the calls and the handlers; a stream that is not reset is read.
FairSpec ==
  /\ Spec
  /\ \A q \in Request : WF_vars(Ping(q))
  /\ \A m \in Message : WF_vars(HandlerStep(m))

-----------------------------------------------------------------------------
(* What is checked and proved.                                             *)

\* The table of a process: its own requests, from the call to the answer.
TableOK(q) ==
  /\ \A n \in Node : q \in requests[n] => From[q] = n
  /\ caller[q] = "start" => q \notin requests[From[q]] \cup answered \cup forgotten
  /\ caller[q] = "stored" => q \in requests[From[q]]
  /\ caller[q] = "gone" => q \in forgotten
  /\ caller[q] = "returned" => q \in requests[From[q]] \cup answered \cup forgotten
  /\ q \in requests[From[q]] => q \notin answered \cup forgotten
  /\ q \in answered => q \notin forgotten

\* A message is handled after it was sent, and answered after it was handled.
OrderOK(q) ==
  /\ result[<<"req", q>>] # "none" <=> caller[q] = "returned"
  /\ \A m \in {<<"req", q>>, <<"rsp", q>>} :
       /\ m \in inflight => result[m] = "true" /\ handler[m] = "none"
       /\ handler[m] # "none" => result[m] = "true"
  /\ result[<<"rsp", q>>] # "none" => handler[<<"req", q>>] \notin {"none", "running", "refused"}
  /\ q \in answered => handler[<<"rsp", q>>] \in {"waiting", "done", "gone"}
  /\ handler[<<"rsp", q>>] \in {"waiting", "done"} => q \in answered
  /\ handler[<<"rsp", q>>] = "unknown" => q \in forgotten

\* The inductive invariant of the proofs.
SignedInv == TypeOK /\ \A q \in Request : TableOK(q) /\ OrderOK(q)

\* "Failed to locate request data boject for response" comes only to a process
\* that has lost its table: no response overtakes its request into the table,
\* and none removes the entry of another.
UnknownOnlyAfterRestart ==
  \A q \in Request : handler[<<"rsp", q>>] = "unknown" => q \in forgotten

\* The table grows with every request that is not answered: that of a failed
\* send, for which there can be no answer, is never removed.
FailedStayPending ==
  \A q \in Request :
    result[<<"req", q>>] = "false" /\ q \notin forgotten => q \in requests[From[q]]

\* The protocol implements RequestTable.
StatusOf(q) ==
  IF caller[q] = "start" THEN "new"
  ELSE IF q \in answered THEN "answered"
  ELSE IF q \in requests[From[q]] THEN "pending" ELSE "forgotten"

Table == INSTANCE RequestTable WITH
           status <- [q \in Request |-> StatusOf(q)],
           served <- {q \in Request : result[<<"rsp", q>>] = "true"}
Promise == Table!TableSpec

\* As long as nothing fails, a request that has been made is always on its way:
\* every signature is accepted, and no step of the two processes drops it.
OnItsWay ==
  \A q \in Request : faults = 0 /\ caller[q] # "start" =>
    \/ caller[q] = "stored"
    \/ \E m \in {<<"req", q>>, <<"rsp", q>>} : m \in inflight \/ handler[m] = "running"
    \/ q \in answered

\* A request that is in the table is answered, unless something fails: both
\* ends agree on what is signed, and nobody waits for the channel first.
AnsweredUnlessFault ==
  \A q \in Request : (caller[q] = "stored") ~> (q \in answered \/ faults > 0)
=============================================================================
