-------------------------- MODULE SignedPingProofs --------------------------
(* Theorems about SignedPing, for any processes and requests.              *)
EXTENDS SignedPing, TLAPS

(* A message is a request or the response to one, and its ends are nodes.  *)
LEMMA MessageParts ==
  ASSUME NEW m \in Message
  PROVE  /\ m[2] \in Request
         /\ m = <<"req", m[2]>> \/ m = <<"rsp", m[2]>>
         /\ Sender(m) \in Node /\ Receiver(m) \in Node
  BY RequestAssumption DEF Message, Sender, Receiver

(* The request and the response of a call are messages, and all differ.    *)
LEMMA PairsDiffer ==
  /\ \A q \in Request : <<"req", q>> \in Message /\ <<"rsp", q>> \in Message
  /\ \A q, r \in Request : /\ <<"req", q>> # <<"rsp", r>>
                           /\ <<"req", q>> = <<"req", r>> <=> q = r
                           /\ <<"rsp", q>> = <<"rsp", r>> <=> q = r
  /\ \A q \in Request : /\ Receiver(<<"req", q>>) = To[q]
                        /\ Receiver(<<"rsp", q>>) = From[q]
  BY DEF Message, Receiver

(* A send touches what is known of its own message, and of no other.       *)
LEMMA SendFrame ==
  ASSUME TypeOK, NEW m \in Message, SendProtoMessage(m)
  PROVE  /\ Net!MessengerTypeOK' /\ faults' \in 0..MaxFault
         /\ result[m] = "none" /\ result'[m] \in {"true", "false"}
         /\ m \in inflight' \ inflight => result'[m] = "true"
         /\ \A x \in Message \ {m} :
              result'[x] = result[x] /\ (x \in inflight' <=> x \in inflight)
<1>. USE FaultAssumption
     DEF TypeOK, Net!MessengerTypeOK, Net!Result, Fault, SendProtoMessage,
         Net!SendTrue, Net!SendFalse, Net!SendNothing
<1>1. CASE Net!SendTrue(m) /\ m \in inflight' /\ UNCHANGED faults
  BY <1>1
<1>2. CASE Net!SendFalse(m) /\ Fault
  BY <1>2
<1>. QED
  BY <1>1, <1>2

(* A handler that moves leaves the others where they are.                  *)
LEMMA MoveFrame ==
  ASSUME TypeOK, NEW m \in Message,
         NEW place \in {"none", "running", "refused", "unknown", "waiting", "done", "gone"},
         MoveTo(m, place)
  PROVE  /\ handler' \in [Message -> {"none", "running", "refused", "unknown",
                                       "waiting", "done", "gone"}]
         /\ handler'[m] = place
         /\ \A x \in Message \ {m} : handler'[x] = handler[x]
  BY DEF TypeOK, MoveTo

(* Before any call of Ping the invariant holds.                            *)
LEMMA InitSignedInv == Init => SignedInv
  BY RequestAssumption, FaultAssumption
     DEF Init, SignedInv, TypeOK, TableOK, OrderOK, Message,
         Net!MessengerInit, Net!MessengerTypeOK, Net!Result

(* Ping keeps the invariant: the request is in the table before it can be  *)
(* sent.                                                                   *)
LEMMA PingSignedInv ==
  ASSUME SignedInv, NEW q \in Request, Ping(q)
  PROVE  SignedInv'
<1>. USE RequestAssumption DEF SignedInv, netVars, history
<1>1. CASE Store(q)
  BY <1>1 DEF Store, TypeOK, TableOK, OrderOK, Net!MessengerTypeOK
<1>2. CASE SendRequest(q)
  <2>0. PICK m \in Message : m = <<"req", q>>
    BY PairsDiffer
  <2>1. /\ SendProtoMessage(m) /\ caller[q] = "stored"
        /\ UNCHANGED <<requests, handler, history>>
        /\ caller' = [caller EXCEPT ![q] = "returned"]
    BY <1>2, <2>0 DEF SendRequest
  <2>2. TypeOK'
    BY <2>1, SendFrame DEF TypeOK
  <2>3. \A r \in Request : TableOK(r)'
    BY <2>1 DEF TypeOK, TableOK
  <2>4. \A r \in Request : r # q => OrderOK(r)'
    BY <2>0, <2>1, SendFrame, PairsDiffer DEF TypeOK, OrderOK
  <2>5. OrderOK(q)'
    <3>1. <<"rsp", q>> \in Message \ {m}
      BY <2>0, PairsDiffer
    <3>2. result'[m] # "none" /\ caller'[q] = "returned"
      BY <2>1, SendFrame DEF TypeOK
    <3>. QED
      BY <2>0, <2>1, <3>1, <3>2, SendFrame DEF OrderOK
  <2>. QED
    BY <2>2, <2>3, <2>4, <2>5
<1>. QED
  BY <1>1, <1>2 DEF Ping

(* The handlers keep it: a response removes its own request, and finds it  *)
(* unless the table was lost.                                              *)
LEMMA HandlerSignedInv ==
  ASSUME SignedInv, NEW m \in Message, HandlerStep(m)
  PROVE  SignedInv'
<1>. USE RequestAssumption DEF SignedInv, netVars, history
<1>1. CASE Receive(m)
  <2>1. PICK place \in {"running", "refused"} : MoveTo(m, place)
    BY <1>1 DEF Receive
  <2>2. /\ handler[m] = "none" /\ m \in inflight /\ inflight' = inflight \ {m}
        /\ UNCHANGED <<caller, requests, result, answered, forgotten, faults>>
    BY <1>1 DEF Receive, Net!Handle
  <2>3. TypeOK'
    BY <1>1, <2>1, <2>2, MoveFrame DEF TypeOK, Receive, Net!Handle, Net!MessengerTypeOK
  <2>4. \A r \in Request : TableOK(r)'
    BY <2>2 DEF TableOK
  <2>5. \A r \in Request : OrderOK(r)'
    <3>1. TAKE r \in Request
    <3>2. PICK a \in Message, b \in Message : a = <<"req", r>> /\ b = <<"rsp", r>> /\ a # b
      BY PairsDiffer
    <3>3. result[m] = "true" /\ \A x \in Message \ {m} : handler'[x] = handler[x]
      <4>1. OrderOK(m[2]) /\ m \in {<<"req", m[2]>>, <<"rsp", m[2]>>}
        BY MessageParts
      <4>2. result[m] = "true"
        BY <2>2, <4>1 DEF OrderOK
      <4>. QED
        BY <2>1, <4>2, MoveFrame
    <3>4. handler'[m] \in {"running", "refused"}
      BY <2>1, MoveFrame
    <3>5. CASE m = b
      BY <2>2, <3>2, <3>3, <3>4, <3>5 DEF OrderOK
    <3>6. CASE m # b
      BY <2>2, <3>2, <3>3, <3>4, <3>6 DEF OrderOK
    <3>. QED
      BY <3>5, <3>6
  <2>. QED
    BY <2>3, <2>4, <2>5
<1>2. ASSUME NEW q \in Request, m = <<"req", q>>, OnPingRequest(q)
      PROVE  SignedInv'
  <2>0. PICK a \in Message : a = <<"rsp", q>>
    BY PairsDiffer
  <2>1. /\ SendProtoMessage(a) /\ handler[m] = "running" /\ MoveTo(m, "waiting")
        /\ UNCHANGED <<caller, requests, answered, forgotten>>
    BY <1>2, <2>0 DEF OnPingRequest
  <2>2. TypeOK'
    BY <2>1, SendFrame, MoveFrame DEF TypeOK
  <2>3. \A r \in Request : TableOK(r)'
    BY <2>1 DEF TableOK
  <2>4. \A r \in Request : r # q => OrderOK(r)'
    BY <1>2, <2>0, <2>1, SendFrame, MoveFrame, PairsDiffer DEF OrderOK
  <2>5. OrderOK(q)'
    BY <1>2, <2>0, <2>1, SendFrame, MoveFrame, PairsDiffer DEF OrderOK
  <2>. QED
    BY <2>2, <2>3, <2>4, <2>5
<1>3. ASSUME NEW q \in Request, m = <<"rsp", q>>, OnPingResponse(q)
      PROVE  SignedInv'
  <2>1. /\ handler[m] = "running"
        /\ UNCHANGED <<caller, result, inflight, deliveries, forgotten, faults>>
    BY <1>3 DEF OnPingResponse
  <2>2. CASE q \in requests[From[q]]
    <3>1. /\ requests' = [requests EXCEPT ![From[q]] = @ \ {q}]
          /\ answered' = answered \cup {q} /\ MoveTo(m, "waiting")
      BY <1>3, <2>2 DEF OnPingResponse
    <3>2. TypeOK'
      BY <2>1, <3>1, MoveFrame DEF TypeOK, Net!MessengerTypeOK
    <3>3. \A r \in Request : TableOK(r)'
      <4>1. caller[q] # "stored"
        BY <1>3, <2>1, PairsDiffer DEF TypeOK, OrderOK
      <4>. QED
        BY <2>1, <2>2, <3>1, <4>1 DEF TypeOK, TableOK
    <3>4. \A r \in Request : OrderOK(r)'
      <4>1. handler'[m] = "waiting" /\ \A x \in Message \ {m} : handler'[x] = handler[x]
        BY <3>1, MoveFrame
      <4>2. ASSUME NEW r \in Request, r # q
            PROVE  OrderOK(r)'
        <5>1. <<"req", r>> \in Message \ {m} /\ <<"rsp", r>> \in Message \ {m}
          BY <1>3, <4>2, PairsDiffer
        <5>. QED
          BY <2>1, <3>1, <4>1, <4>2, <5>1 DEF OrderOK
      <4>3. OrderOK(q)'
        <5>1. <<"req", q>> \in Message \ {m}
          BY <1>3, PairsDiffer
        <5>. QED
          BY <1>3, <2>1, <3>1, <4>1, <5>1 DEF OrderOK
      <4>. QED
        BY <4>2, <4>3
    <3>. QED
      BY <3>2, <3>3, <3>4
  <2>3. CASE q \notin requests[From[q]]
    <3>1. UNCHANGED <<requests, answered>> /\ MoveTo(m, "unknown")
      BY <1>3, <2>3 DEF OnPingResponse
    <3>2. TypeOK'
      BY <2>1, <3>1, MoveFrame DEF TypeOK, Net!MessengerTypeOK
    <3>3. \A r \in Request : TableOK(r)'
      BY <2>1, <3>1 DEF TableOK
    <3>4. q \in forgotten
      BY <1>3, <2>1, <2>3, PairsDiffer DEF TypeOK, TableOK, OrderOK
    <3>5. \A r \in Request : OrderOK(r)'
      <4>1. handler'[m] = "unknown" /\ \A x \in Message \ {m} : handler'[x] = handler[x]
        BY <3>1, MoveFrame
      <4>2. ASSUME NEW r \in Request, r # q
            PROVE  OrderOK(r)'
        <5>1. <<"req", r>> \in Message \ {m} /\ <<"rsp", r>> \in Message \ {m}
          BY <1>3, <4>2, PairsDiffer
        <5>. QED
          BY <2>1, <3>1, <4>1, <4>2, <5>1 DEF OrderOK
      <4>3. OrderOK(q)'
        <5>1. <<"req", q>> \in Message \ {m}
          BY <1>3, PairsDiffer
        <5>2. q \notin answered
          BY <1>3, <2>1 DEF OrderOK
        <5>. QED
          BY <1>3, <2>1, <3>1, <3>4, <4>1, <5>1, <5>2 DEF OrderOK
      <4>. QED
        BY <4>2, <4>3
    <3>. QED
      BY <3>2, <3>3, <3>5
  <2>. QED
    BY <2>2, <2>3
<1>. QED
  BY <1>1, <1>2, <1>3, MessageParts DEF HandlerStep

(* So does what is around them; a restart forgets what is in the table.    *)
LEMMA EnvironmentSignedInv ==
  ASSUME SignedInv,
         \/ \E m \in Message : TakeToken(m) \/ LoseMessage(m)
         \/ \E n \in Node : Restart(n)
  PROVE  SignedInv'
<1>. USE RequestAssumption, FaultAssumption
     DEF SignedInv, Fault, netVars, history
<1>1. ASSUME NEW m \in Message, TakeToken(m)
      PROVE  SignedInv'
  BY <1>1, MoveFrame, PairsDiffer DEF TakeToken, TypeOK, TableOK, OrderOK, Net!MessengerTypeOK
<1>2. ASSUME NEW m \in Message, LoseMessage(m)
      PROVE  SignedInv'
  BY <1>2 DEF LoseMessage, Net!Lose, TypeOK, TableOK, OrderOK, Net!MessengerTypeOK
<1>3. ASSUME NEW n \in Node, Restart(n)
      PROVE  SignedInv'
  <2>. USE <1>3 DEF Restart
  <2>1. TypeOK'
    BY DEF TypeOK, Net!MessengerTypeOK
  <2>2. \A r \in Request : TableOK(r)'
    BY DEF TypeOK, TableOK
  <2>3. \A r \in Request : OrderOK(r)'
    <3>1. TAKE r \in Request
    <3>2. PICK a \in Message, b \in Message : a = <<"req", r>> /\ b = <<"rsp", r>>
      BY PairsDiffer
    <3>3. \A x \in {a, b} : \/ handler'[x] = handler[x]
                            \/ handler[x] \in {"running", "waiting"} /\ handler'[x] = "gone"
      BY <3>2
    <3>4. caller'[r] = "returned" <=> caller[r] = "returned"
      BY DEF TypeOK
    <3>. QED
      BY <3>2, <3>3, <3>4 DEF OrderOK
  <2>. QED
    BY <2>1, <2>2, <2>3
<1>. QED
  BY <1>1, <1>2, <1>3

(* Every reachable state satisfies the inductive invariant.                *)
THEOREM SignedInvariance == Spec => []SignedInv
<1>1. SignedInv /\ [Next]_vars => SignedInv'
  <2>1. SignedInv /\ UNCHANGED vars => SignedInv'
    BY DEF vars, netVars, history, SignedInv, TypeOK, TableOK, OrderOK, Net!MessengerTypeOK
  <2>. QED
    BY <2>1, PingSignedInv, HandlerSignedInv, EnvironmentSignedInv DEF Next
<1>. QED
  BY <1>1, InitSignedInv, PTL DEF Spec

(* A response that finds no request comes to a process that has lost its   *)
(* table since it asked.                                                   *)
THEOREM UnknownOnlyAfterRestartHolds == Spec => []UnknownOnlyAfterRestart
<1>1. SignedInv => UnknownOnlyAfterRestart
  BY DEF SignedInv, OrderOK, UnknownOnlyAfterRestart
<1>. QED
  BY <1>1, SignedInvariance, PTL

(* A request whose send failed stays in the table: it can have no answer.  *)
THEOREM FailedStayPendingHolds == Spec => []FailedStayPending
<1>1. SignedInv => FailedStayPending
  BY DEF SignedInv, TypeOK, TableOK, OrderOK, FailedStayPending, Message
<1>. QED
  BY <1>1, SignedInvariance, PTL
-----------------------------------------------------------------------------
(* The protocol implements RequestTable.                                   *)

(* A call of Ping asks, and its send changes nothing that is promised.     *)
LEMMA PingImplements ==
  ASSUME SignedInv, NEW q \in Request, Ping(q)
  PROVE  [Table!TableNext]_(Table!tableVars)
<1>. USE DEF SignedInv, netVars, history
<1>1. CASE Store(q)
  <2>1. StatusOf(q) = "new" /\ StatusOf(q)' = "pending"
    BY <1>1, RequestAssumption DEF Store, StatusOf, TypeOK, TableOK
  <2>2. \A r \in Request \ {q} : StatusOf(r)' = StatusOf(r)
    BY <1>1, RequestAssumption DEF Store, StatusOf, TypeOK
  <2>3. Table!Ask(q)
    BY <1>1, <2>1, <2>2 DEF Store, Table!Ask
  <2>. QED
    BY <2>3 DEF Table!TableNext
<1>2. CASE SendRequest(q)
  <2>0. PICK m \in Message : m = <<"req", q>>
    BY PairsDiffer
  <2>1. SendProtoMessage(m)
    BY <1>2, <2>0 DEF SendRequest
  <2>2. \A r \in Request : StatusOf(r)' = StatusOf(r)
    BY <1>2 DEF SendRequest, StatusOf, TypeOK, TableOK
  <2>3. \A r \in Request : result'[<<"rsp", r>>] = result[<<"rsp", r>>]
    BY <2>0, <2>1, SendFrame, PairsDiffer
  <2>. QED
    BY <2>2, <2>3 DEF Table!tableVars
<1>. QED
  BY <1>1, <1>2 DEF Ping

(* A handler serves or answers its request, once and in that order.        *)
LEMMA HandlerImplements ==
  ASSUME SignedInv, NEW m \in Message, HandlerStep(m)
  PROVE  [Table!TableNext]_(Table!tableVars)
<1>. USE DEF SignedInv, netVars, history
<1>1. CASE Receive(m)
  BY <1>1 DEF Receive, Net!Handle, Table!tableVars, StatusOf
<1>2. ASSUME NEW q \in Request, m = <<"req", q>>, OnPingRequest(q)
      PROVE  [Table!TableNext]_(Table!tableVars)
  <2>0. PICK a \in Message : a = <<"rsp", q>>
    BY PairsDiffer
  <2>1. SendProtoMessage(a) /\ handler[m] = "running"
    BY <1>2, <2>0 DEF OnPingRequest
  <2>2. \A r \in Request : StatusOf(r)' = StatusOf(r)
    BY <1>2 DEF OnPingRequest, StatusOf
  <2>3. ASSUME NEW r \in Request \ {q}
        PROVE  result'[<<"rsp", r>>] = result[<<"rsp", r>>]
    <3>1. <<"rsp", r>> \in Message \ {a}
      BY <2>0, PairsDiffer
    <3>. QED
      BY <2>1, <3>1, SendFrame
  <2>4. result[a] = "none" /\ result'[a] \in {"true", "false"}
    BY <2>1, SendFrame
  <2>5. StatusOf(q) # "new"
    BY <1>2, <2>1 DEF TypeOK, OrderOK, StatusOf
  <2>6. CASE result'[a] = "true"
    <3>1. Table!Serve(q)
      BY <2>0, <2>2, <2>3, <2>4, <2>5, <2>6 DEF Table!Serve
    <3>. QED
      BY <3>1 DEF Table!TableNext
  <2>7. CASE result'[a] = "false"
    BY <2>0, <2>2, <2>3, <2>4, <2>7 DEF Table!tableVars
  <2>. QED
    BY <2>4, <2>6, <2>7
<1>3. ASSUME NEW q \in Request, m = <<"rsp", q>>, OnPingResponse(q)
      PROVE  [Table!TableNext]_(Table!tableVars)
  <2>1. \A r \in Request \ {q} : StatusOf(r)' = StatusOf(r)
    BY <1>3, RequestAssumption DEF OnPingResponse, StatusOf, TypeOK
  <2>2. result[m] = "true" /\ UNCHANGED result
    BY <1>3 DEF OnPingResponse, OrderOK
  <2>3. CASE q \in requests[From[q]]
    <3>1. StatusOf(q) = "pending" /\ StatusOf(q)' = "answered"
      BY <1>3, <2>3 DEF OnPingResponse, StatusOf, TypeOK, TableOK
    <3>2. Table!Answer(q)
      BY <1>3, <2>1, <2>2, <3>1 DEF Table!Answer
    <3>. QED
      BY <3>2 DEF Table!TableNext
  <2>4. CASE q \notin requests[From[q]]
    BY <1>3, <2>2, <2>4 DEF OnPingResponse, StatusOf, Table!tableVars
  <2>. QED
    BY <2>3, <2>4
<1>. QED
  BY <1>1, <1>2, <1>3, MessageParts DEF HandlerStep

(* A process that starts again forgets its table; nothing else around the  *)
(* protocol touches a promise.                                             *)
LEMMA EnvironmentImplements ==
  ASSUME SignedInv,
         \/ \E m \in Message : TakeToken(m) \/ LoseMessage(m)
         \/ \E n \in Node : Restart(n)
  PROVE  [Table!TableNext]_(Table!tableVars)
<1>. USE DEF netVars, history
<1>1. ASSUME NEW m \in Message, TakeToken(m) \/ LoseMessage(m)
      PROVE  [Table!TableNext]_(Table!tableVars)
  BY <1>1 DEF TakeToken, LoseMessage, Net!Lose, Table!tableVars, StatusOf
<1>2. ASSUME NEW n \in Node, Restart(n)
      PROVE  [Table!TableNext]_(Table!tableVars)
  <2>1. requests[n] \in SUBSET Request /\ \A q \in requests[n] : From[q] = n
    BY DEF SignedInv, TypeOK, TableOK
  <2>2. \A q \in requests[n] : StatusOf(q) = "pending" /\ StatusOf(q)' = "forgotten"
    BY <1>2, <2>1 DEF Restart, SignedInv, TypeOK, TableOK, StatusOf
  <2>3. ASSUME NEW q \in Request, q \notin requests[n]
        PROVE  StatusOf(q)' = StatusOf(q)
    <3>1. /\ caller'[q] = "start" <=> caller[q] = "start"
          /\ q \in requests'[From[q]] <=> q \in requests[From[q]]
          /\ answered' = answered
      BY <1>2, <2>3, RequestAssumption DEF Restart, SignedInv, TypeOK
    <3>. QED
      BY <3>1 DEF StatusOf
  <2>4. Table!Forget(requests[n])
    <3>1. UNCHANGED result
      BY <1>2 DEF Restart
    <3>2. \A q \in Request : StatusOf(q)' = IF q \in requests[n] THEN "forgotten" ELSE StatusOf(q)
      BY <2>2, <2>3
    <3>. QED
      BY <2>1, <2>2, <3>1, <3>2 DEF Table!Forget
  <2>. QED
    BY <2>1, <2>4 DEF Table!TableNext
<1>. QED
  BY <1>1, <1>2

(* The protocol keeps the promise of RequestTable: a request is answered   *)
(* once, after it was asked and its peer has sent the answer, and is       *)
(* forgotten only by a process that starts again.                          *)
THEOREM PromiseHolds == Spec => Promise
<1>1. Init => Table!TableInit
  BY PairsDiffer DEF Init, Net!MessengerInit, Table!TableInit, StatusOf
<1>2. SignedInv /\ [Next]_vars => [Table!TableNext]_(Table!tableVars)
  <2>1. UNCHANGED vars => UNCHANGED Table!tableVars
    BY DEF vars, netVars, Table!tableVars, StatusOf, history
  <2>. QED
    BY <2>1, PingImplements, HandlerImplements, EnvironmentImplements DEF Next
<1>. QED
  BY <1>1, <1>2, SignedInvariance, PTL DEF Spec, Promise, Table!TableSpec
-----------------------------------------------------------------------------
(* Whoever verifies a message rebuilds the data that its author signed.    *)
LEMMA SignedIsAuthentic == \A m \in Message : AuthenticateMessage(Signed(m))
<1>. SUFFICES ASSUME NEW m \in Message
              PROVE  AuthenticateMessage(Signed(m))
  OBVIOUS
<1>1. Signed(m) = [kind |-> m[1], id |-> m[2], nodeId |-> Sender(m), nodePubKey |-> Sender(m),
                   sign |-> SignData(NewMessageData(m), Sender(m))]
  BY DEF Signed, NewMessageData
<1>2. [Signed(m) EXCEPT !.sign = {}] = NewMessageData(m)
  BY <1>1 DEF NewMessageData
<1>3. /\ Signed(m).nodeId = Sender(m) /\ Signed(m).nodePubKey = Sender(m)
      /\ Signed(m).sign = SignData(NewMessageData(m), Sender(m))
  BY <1>1
<1>. QED
  BY <1>2, <1>3 DEF AuthenticateMessage, VerifyData

(* As long as nothing has failed, every send succeeded, what was sent is   *)
(* on its way or being handled, and no handler has come to a bad end.      *)
Unharmed ==
  faults = 0 =>
    /\ forgotten = {}
    /\ \A m \in Message :
         /\ result[m] \in {"none", "true"}
         /\ result[m] = "true" => m \in inflight \/ handler[m] # "none"
         /\ handler[m] \notin {"refused", "unknown", "gone"}
    /\ \A q \in Request :
         handler[<<"req", q>>] \in {"waiting", "done"} => result[<<"rsp", q>>] # "none"

(* A step that counts no fault leaves everything unharmed.                 *)
LEMMA StepUnharmed ==
  ASSUME SignedInv, SignedInv', Unharmed, [Next]_vars
  PROVE  Unharmed'
<1>. USE DEF SignedInv, Unharmed, netVars, history
<1>0. faults \in Nat /\ faults' \in Nat
  BY FaultAssumption DEF TypeOK
<1>1. ASSUME NEW m \in Message, SendProtoMessage(m), faults' = 0
      PROVE  /\ faults = 0 /\ result'[m] = "true" /\ m \in inflight'
             /\ \A x \in Message \ {m} :
                  result'[x] = result[x] /\ (x \in inflight' <=> x \in inflight)
  <2>1. ~Fault
    BY <1>0, <1>1 DEF Fault
  <2>2. Net!SendTrue(m) /\ m \in inflight' /\ UNCHANGED faults
    BY <1>1, <2>1 DEF SendProtoMessage
  <2>3. result'[m] = "true"
    BY <2>2 DEF Net!SendTrue, TypeOK, Net!MessengerTypeOK
  <2>. QED
    BY <1>1, <2>2, <2>3, SendFrame
<1>2. ASSUME NEW q \in Request, Ping(q)
      PROVE  Unharmed'
  <2>1. CASE Store(q)
    BY <2>1 DEF Store
  <2>2. CASE SendRequest(q)
    <3>1. PICK m \in Message : m = <<"req", q>>
      BY PairsDiffer
    <3>2. SendProtoMessage(m) /\ UNCHANGED <<handler, forgotten>>
      BY <2>2, <3>1 DEF SendRequest
    <3>3. \A r \in Request : <<"rsp", r>> \in Message \ {m}
      BY <3>1, PairsDiffer
    <3>. QED
      BY <1>1, <3>2, <3>3
  <2>. QED
    BY <1>2, <2>1, <2>2 DEF Ping
<1>3. ASSUME NEW m \in Message, HandlerStep(m)
      PROVE  Unharmed'
  <2>1. CASE Receive(m)
    <3>1. /\ MoveTo(m, "running") /\ inflight' = inflight \ {m}
          /\ UNCHANGED <<result, forgotten, faults>>
      BY <2>1, SignedIsAuthentic DEF Receive, Net!Handle
    <3>2. handler'[m] = "running" /\ \A x \in Message \ {m} : handler'[x] = handler[x]
      BY <3>1, MoveFrame
    <3>. QED
      BY <3>1, <3>2, PairsDiffer
  <2>2. ASSUME NEW q \in Request, m = <<"req", q>>, OnPingRequest(q), faults' = 0
        PROVE  Unharmed'
    <3>1. PICK a \in Message : a = <<"rsp", q>>
      BY PairsDiffer
    <3>2. SendProtoMessage(a) /\ MoveTo(m, "waiting") /\ UNCHANGED forgotten
      BY <2>2, <3>1 DEF OnPingRequest
    <3>3. handler'[m] = "waiting" /\ \A x \in Message \ {m} : handler'[x] = handler[x]
      BY <3>2, MoveFrame
    <3>4. \A r \in Request \ {q} : /\ <<"rsp", r>> \in Message \ {a}
                                   /\ <<"req", r>> \in Message \ {m}
      BY <2>2, <3>1, PairsDiffer
    <3>5. faults = 0 /\ result'[a] = "true" /\ a \in inflight'
      BY <1>1, <2>2, <3>2
    <3>6. \A x \in Message \ {a} : result'[x] = result[x] /\ (x \in inflight' <=> x \in inflight)
      BY <1>1, <2>2, <3>2
    <3>7. \A x \in Message : /\ result'[x] \in {"none", "true"}
                             /\ result'[x] = "true" => x \in inflight' \/ handler'[x] # "none"
                             /\ handler'[x] \notin {"refused", "unknown", "gone"}
      BY <3>3, <3>5, <3>6
    <3>8. \A r \in Request :
            handler'[<<"req", r>>] \in {"waiting", "done"} => result'[<<"rsp", r>>] # "none"
      BY <3>1, <3>3, <3>4, <3>5, <3>6
    <3>. QED
      BY <3>2, <3>5, <3>7, <3>8
  <2>3. ASSUME NEW q \in Request, m = <<"rsp", q>>, OnPingResponse(q), faults' = 0
        PROVE  Unharmed'
    <3>1. PICK place \in {"waiting", "unknown"} : MoveTo(m, place)
      BY <2>3 DEF OnPingResponse
    <3>2. UNCHANGED <<result, inflight, forgotten, faults>>
      BY <2>3 DEF OnPingResponse
    <3>3. handler'[m] = place /\ \A x \in Message \ {m} : handler'[x] = handler[x]
      BY <3>1, MoveFrame
    <3>4. place # "unknown"
      BY <2>3, <3>2, <3>3 DEF OrderOK
    <3>5. \A r \in Request : <<"req", r>> \in Message \ {m}
      BY <2>3, PairsDiffer
    <3>. QED
      BY <2>3, <3>2, <3>3, <3>4, <3>5
  <2>. QED
    BY <1>3, <2>1, <2>2, <2>3, MessageParts DEF HandlerStep
<1>4. ASSUME NEW m \in Message, TakeToken(m)
      PROVE  Unharmed'
  <2>1. MoveTo(m, "done") /\ handler[m] = "waiting" /\ UNCHANGED <<netVars, history, faults>>
    BY <1>4 DEF TakeToken
  <2>2. handler'[m] = "done" /\ \A x \in Message \ {m} : handler'[x] = handler[x]
    BY <2>1, MoveFrame
  <2>. QED
    BY <2>1, <2>2, PairsDiffer
<1>5. ASSUME Fault
      PROVE  Unharmed'
  BY <1>0, <1>5 DEF Fault
<1>6. UNCHANGED vars => Unharmed'
  BY DEF vars
<1>. QED
  BY <1>2, <1>3, <1>4, <1>5, <1>6 DEF Next, LoseMessage, Restart

(* Until something fails, a request that was made is being sent, handled   *)
(* or answered: every signature is accepted and no step drops it. This is  *)
(* the part of AnsweredUnlessFault that needs no fairness.                 *)
THEOREM OnItsWayHolds == Spec => []OnItsWay
<1>1. Init => Unharmed
  BY DEF Init, Net!MessengerInit, Unharmed, Message
<1>2. SignedInv /\ Unharmed => OnItsWay
  <2>. SUFFICES ASSUME SignedInv, Unharmed, NEW q \in Request,
                       faults = 0, caller[q] \notin {"start", "stored"}
                PROVE  \/ \E m \in {<<"req", q>>, <<"rsp", q>>} :
                            m \in inflight \/ handler[m] = "running"
                       \/ q \in answered
    BY DEF OnItsWay
  <2>1. PICK a \in Message, b \in Message : a = <<"req", q>> /\ b = <<"rsp", q>>
    BY PairsDiffer
  <2>2. caller[q] = "returned"
    BY DEF SignedInv, TypeOK, TableOK, Unharmed
  <2>3. result[a] = "true" /\ result[b] \in {"none", "true"}
    BY <2>1, <2>2 DEF SignedInv, TypeOK, OrderOK, Unharmed, Net!MessengerTypeOK, Net!Result
  <2>4. \A m \in Message : handler[m] \in {"none", "running", "waiting", "done"}
    BY DEF SignedInv, TypeOK, Unharmed
  <2>5. CASE handler[a] \in {"none", "running"}
    BY <2>1, <2>3, <2>5 DEF Unharmed
  <2>6. CASE handler[a] \in {"waiting", "done"}
    <3>1. result[b] = "true"
      BY <2>1, <2>3, <2>6 DEF Unharmed
    <3>2. b \in inflight \/ handler[b] # "none"
      BY <3>1 DEF Unharmed
    <3>3. handler[b] \in {"waiting", "done"} => q \in answered
      BY <2>1 DEF SignedInv, OrderOK
    <3>. QED
      BY <2>1, <2>4, <3>2, <3>3
  <2>. QED
    BY <2>4, <2>5, <2>6
<1>. QED
  BY <1>1, <1>2, StepUnharmed, SignedInvariance, PTL DEF Spec
=============================================================================
