-------------------------- MODULE SendProtoProofs --------------------------
(* Theorems about SendProto, for any number of calls and peers.            *)
EXTENDS SendProto, TLAPS

(* The start of the process satisfies the invariant: no call has a stream. *)
LEMMA InitSendInv == Init => SendInv
  BY DEF Init, SendInv, TypeOK, OneLiveStream, LiveMeansTrue, OpenMeansRunning,
         Connectedness, StreamState, Location

(* A step of a call keeps the invariant: its error paths reset what they   *)
(* leave behind, and only its return closes a stream.                      *)
LEMMA CallStepSendInv ==
  ASSUME SendInv, NEW c \in Call, CallStep(c)
  PROVE  SendInv'
<1>. USE DEF SendInv, TypeOK, OneLiveStream, LiveMeansTrue, OpenMeansRunning,
             Connectedness, StreamState, Location, At, Goto, Return, Reset, Close
<1>1. CASE CheckConnected(c)
  BY <1>1 DEF CheckConnected
<1>2. CASE CheckLimited(c)
  BY <1>2 DEF CheckLimited
<1>3. CASE Refuse(c)
  BY <1>3 DEF Refuse
<1>4. CASE OpenFirst(c)
  BY <1>4 DEF OpenFirst
<1>5. CASE OpenFails(c)
  BY <1>5 DEF OpenFails
<1>6. CASE Write(c)
  BY <1>6 DEF Write
<1>7. CASE WriteFails(c)
  BY <1>7 DEF WriteFails
<1>8. CASE RetryOpen(c)
  BY <1>8 DEF RetryOpen
<1>9. CASE RetryOpenFails(c)
  BY <1>9 DEF RetryOpenFails
<1>10. CASE RetryWrite(c)
  BY <1>10 DEF RetryWrite
<1>11. CASE RetryWriteFails(c)
  BY <1>11 DEF RetryWriteFails
<1>12. CASE ReturnTrue(c)
  BY <1>12 DEF ReturnTrue
<1>. QED
  BY <1>1, <1>2, <1>3, <1>4, <1>5, <1>6, <1>7, <1>8, <1>9, <1>10, <1>11, <1>12
     DEF CallStep

(* A step of the network keeps the invariant: it delivers only what a      *)
(* return has closed.                                                      *)
LEMMA NetworkStepSendInv ==
  ASSUME SendInv, NetworkStep
  PROVE  SendInv'
<1>. USE DEF SendInv, TypeOK, OneLiveStream, LiveMeansTrue, OpenMeansRunning,
             Connectedness, StreamState, Location, Reset
<1>1. ASSUME NEW p \in Peer, NEW s \in Connectedness, LinkChange(p, s)
      PROVE  SendInv'
  BY <1>1 DEF LinkChange
<1>2. ASSUME NEW c \in Call, LoseStream(c)
      PROVE  SendInv'
  BY <1>2 DEF LoseStream
<1>3. ASSUME NEW c \in Call, Deliver(c)
      PROVE  SendInv'
  BY <1>3 DEF Deliver
<1>. QED
  BY <1>1, <1>2, <1>3 DEF NetworkStep

(* Every reachable state satisfies the inductive invariant, its types      *)
(* included.                                                               *)
THEOREM SendInvariance == Spec => []SendInv
<1>1. SendInv /\ [Next]_vars => SendInv'
  <2>1. SendInv /\ UNCHANGED vars => SendInv'
    BY DEF vars, SendInv, TypeOK, OneLiveStream, LiveMeansTrue, OpenMeansRunning
  <2>. QED
    BY <2>1, CallStepSendInv, NetworkStepSendInv DEF Next
<1>. QED
  BY <1>1, InitSendInv, PTL DEF Spec

(* The variables keep their types.                                         *)
THEOREM TypeCorrect == Spec => []TypeOK
<1>1. SendInv => TypeOK
  BY DEF SendInv
<1>. QED
  BY <1>1, SendInvariance, PTL

(* The retry never makes the peer handle a message twice.                  *)
THEOREM AtMostOnceHolds == Spec => []AtMostOnce
<1>1. SendInv => AtMostOnce
  BY DEF SendInv, OneLiveStream, AtMostOnce
<1>. QED
  BY <1>1, SendInvariance, PTL

(* A message the caller was not told was sent is never handled.            *)
THEOREM HandledMeansTrueHolds == Spec => []HandledMeansTrue
<1>1. SendInv => HandledMeansTrue
  BY DEF SendInv, LiveMeansTrue, HandledMeansTrue
<1>. QED
  BY <1>1, SendInvariance, PTL

-----------------------------------------------------------------------------
(* The refinement.                                                         *)

(* A call that neither returns nor resets a closed stream does nothing the *)
(* caller or the peer can see.                                             *)
LEMMA SilentStep ==
  ASSUME SendInv, NEW c \in Call,
         \/ CheckConnected(c) \/ CheckLimited(c) \/ OpenFirst(c) \/ Write(c)
         \/ WriteFails(c) \/ RetryOpen(c) \/ RetryWrite(c)
  PROVE  UNCHANGED <<ret, Inflight, Deliveries>>
<1>. USE DEF SendInv, TypeOK, OneLiveStream, LiveMeansTrue, OpenMeansRunning,
             At, Goto, Reset, Inflight, Deliveries, Handlings, StreamState
<1>1. CASE CheckConnected(c) \/ CheckLimited(c)
  BY <1>1 DEF CheckConnected, CheckLimited
<1>2. CASE OpenFirst(c)
  BY <1>2 DEF OpenFirst
<1>3. CASE Write(c) \/ RetryWrite(c)
  BY <1>3 DEF Write, RetryWrite
<1>4. CASE WriteFails(c)
  BY <1>4 DEF WriteFails
<1>5. CASE RetryOpen(c)
  BY <1>5 DEF RetryOpen
<1>. QED
  BY <1>1, <1>2, <1>3, <1>4, <1>5

(* An error return, or the panic, sends nothing.                           *)
LEMMA FailingStep ==
  ASSUME SendInv, NEW c \in Call,
         Refuse(c) \/ OpenFails(c) \/ RetryOpenFails(c) \/ RetryWriteFails(c)
  PROVE  M!SendFalse(c) \/ M!SendPanic(c)
<1>. USE DEF SendInv, TypeOK, OneLiveStream, LiveMeansTrue, OpenMeansRunning,
             At, Goto, Return, Reset, Close, Inflight, Deliveries, Handlings,
             StreamState, M!SendFalse, M!SendPanic, M!SendNothing
<1>1. CASE Refuse(c) \/ OpenFails(c)
  BY <1>1 DEF Refuse, OpenFails
<1>2. CASE RetryOpenFails(c)
  BY <1>2 DEF RetryOpenFails
<1>3. CASE RetryWriteFails(c)
  BY <1>3 DEF RetryWriteFails
<1>. QED
  BY <1>1, <1>2, <1>3

(* A return of true puts the message on its way, unless its stream has     *)
(* been reset in the meantime.                                             *)
LEMMA ReturningStep ==
  ASSUME SendInv, NEW c \in Call, ReturnTrue(c)
  PROVE  M!SendTrue(c)
<1>. USE DEF SendInv, TypeOK, OneLiveStream, LiveMeansTrue, OpenMeansRunning,
             ReturnTrue, At, Goto, Return, Close, StreamState, Location
<1>1. ret[c] = "none" /\ ret' = [ret EXCEPT ![c] = "true"]
  OBVIOUS
<1>2. Inflight' \in {Inflight, Inflight \cup {c}}
  <2>1. \A d \in Call \ {c} : first'[d] = first[d] /\ retry'[d] = retry[d]
    OBVIOUS
  <2>2. CASE "closed" \in {first'[c], retry'[c]}
    BY <2>1, <2>2 DEF Inflight
  <2>3. CASE "closed" \notin {first'[c], retry'[c]}
    BY <2>1, <2>3 DEF Inflight
  <2>. QED
    BY <2>2, <2>3
<1>3. UNCHANGED Deliveries
  BY DEF Deliveries, Handlings
<1>. QED
  BY <1>1, <1>2, <1>3 DEF M!SendTrue

(* The network loses and delivers messages as the promise allows.          *)
LEMMA NetworkRefines ==
  ASSUME SendInv, NetworkStep
  PROVE  [M!MessengerNext]_(M!messengerVars)
<1>. USE DEF SendInv, TypeOK, OneLiveStream, LiveMeansTrue, StreamState
<1>1. ASSUME UNCHANGED <<ret, Deliveries>>, Inflight' \subseteq Inflight
      PROVE  [M!MessengerNext]_(M!messengerVars)
  <2>1. CASE Inflight' = Inflight
    BY <1>1, <2>1 DEF M!messengerVars
  <2>2. CASE Inflight' # Inflight
    <3>1. M!Lose(Inflight \ Inflight')
      BY <1>1, <2>2 DEF M!Lose
    <3>. QED
      BY <3>1 DEF M!MessengerNext
  <2>. QED
    BY <2>1, <2>2
<1>2. ASSUME NEW p \in Peer, NEW s \in Connectedness, LinkChange(p, s)
      PROVE  [M!MessengerNext]_(M!messengerVars)
  <2>1. UNCHANGED <<ret, Deliveries>> /\ Inflight' \subseteq Inflight
    BY <1>2 DEF LinkChange, Reset, Inflight, Deliveries, Handlings
  <2>. QED
    BY <1>1, <2>1
<1>3. ASSUME NEW c \in Call, LoseStream(c)
      PROVE  [M!MessengerNext]_(M!messengerVars)
  <2>1. UNCHANGED <<ret, Deliveries>> /\ Inflight' \subseteq Inflight
    BY <1>3 DEF LoseStream, Inflight, Deliveries, Handlings
  <2>. QED
    BY <1>1, <2>1
<1>4. ASSUME NEW c \in Call, Deliver(c)
      PROVE  [M!MessengerNext]_(M!messengerVars)
  <2>1. c \in Inflight /\ Inflight' = Inflight \ {c}
    BY <1>4 DEF Deliver, Inflight
  <2>2. Deliveries' = [Deliveries EXCEPT ![c] = @ + 1]
    <3>1. \A d \in Call : Deliveries'[d] = IF d = c THEN Deliveries[d] + 1
                                                      ELSE Deliveries[d]
      <4>1. CASE first[c] = "closed" /\ first' = [first EXCEPT ![c] = "handled"]
                 /\ UNCHANGED retry
        BY <4>1 DEF Deliveries, Handlings
      <4>2. CASE retry[c] = "closed" /\ retry' = [retry EXCEPT ![c] = "handled"]
                 /\ UNCHANGED first
        BY <4>2 DEF Deliveries, Handlings
      <4>. QED
        BY <1>4, <4>1, <4>2 DEF Deliver
    <3>. QED
      BY <3>1 DEF Deliveries
  <2>3. M!Handle(c)
    BY <1>4, <2>1, <2>2 DEF M!Handle, Deliver
  <2>. QED
    BY <2>3 DEF M!MessengerNext
<1>. QED
  BY <1>2, <1>3, <1>4 DEF NetworkStep

(* sendProtoMessage, with its two streams and its retry, implements the    *)
(* send that Messenger specifies.                                          *)
THEOREM PromiseKept == Spec => Promise
<1>1. Init => M!MessengerInit
  BY DEF Init, M!MessengerInit, Inflight, Deliveries, Handlings
<1>2. SendInv /\ [Next]_vars => [M!MessengerNext]_(M!messengerVars)
  <2>1. ASSUME SendInv, NEW c \in Call, CallStep(c)
        PROVE  [M!MessengerNext]_(M!messengerVars)
    BY <2>1, SilentStep, FailingStep, ReturningStep
       DEF CallStep, M!MessengerNext, M!messengerVars
  <2>2. ASSUME UNCHANGED vars
        PROVE  UNCHANGED M!messengerVars
    BY <2>2 DEF vars, M!messengerVars, Inflight, Deliveries
  <2>. QED
    BY <2>1, <2>2, NetworkRefines DEF Next
<1>. QED
  BY <1>1, <1>2, SendInvariance, PTL DEF Spec, Promise, M!MessengerSpec
(* A step of a call brings it nearer to its return.                        *)
LEMMA StepAdvances ==
  ASSUME TypeOK, NEW c \in Call, CallStep(c)
  PROVE  Rank[pc[c]] < Rank[pc'[c]] /\ \A d \in Call \ {c} : pc'[d] = pc[d]
<1>1. /\ Rank["start"] = 0 /\ Rank["notDirect"] = 1 /\ Rank["openDirect"] = 2
      /\ Rank["openLimited"] = 2 /\ Rank["write"] = 3 /\ Rank["retryOpen"] = 4
      /\ Rank["retryWrite"] = 5 /\ Rank["return"] = 6 /\ Rank["done"] = 7
      /\ Rank["panicked"] = 7
  BY DEF Rank
<1>. QED
  BY <1>1 DEF TypeOK, CallStep, CheckConnected, CheckLimited, Refuse, OpenFirst, OpenFails,
     Write, WriteFails, RetryOpen, RetryOpenFails, RetryWrite, RetryWriteFails, ReturnTrue,
     At, Goto, Return

(* No call goes back, whatever becomes of links and streams: its steps are *)
(* at most seven, and only a step that is never taken keeps it from its    *)
(* return.                                                                 *)
THEOREM CallsAdvanceHolds == Spec => CallsAdvance
<1>1. SendInv /\ [Next]_vars =>
        [\A c \in Call : UNCHANGED pc[c] \/ Rank[pc[c]] < Rank[pc'[c]]]_vars
  <2>. SUFFICES ASSUME SendInv, Next
                PROVE  \A c \in Call : UNCHANGED pc[c] \/ Rank[pc[c]] < Rank[pc'[c]]
    OBVIOUS
  <2>1. CASE NetworkStep
    BY <2>1 DEF NetworkStep, LinkChange, LoseStream, Deliver
  <2>2. ASSUME NEW c \in Call, CallStep(c)
        PROVE  \A d \in Call : UNCHANGED pc[d] \/ Rank[pc[d]] < Rank[pc'[d]]
    BY <2>2, StepAdvances DEF SendInv
  <2>. QED
    BY <2>1, <2>2 DEF Next
<1>. QED
  BY <1>1, SendInvariance, PTL DEF Spec, CallsAdvance
=============================================================================
