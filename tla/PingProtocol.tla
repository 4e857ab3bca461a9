---------------------------- MODULE PingProtocol ----------------------------
(***************************************************************************)
(* The exchange of a node runner and a mobile client once both are         *)
(* connected: the ticker loop at the end of their main functions           *)
(* (src/node_runner/main.go, src/mobile_client/main.go), the request and   *)
(* response handlers it sets off at both ends (src/ping), and the          *)
(* unbuffered done channel through which every handler of a process hands  *)
(* a token to that process's loop.                                         *)
(*                                                                         *)
(* Messages travel as Messenger specifies (SendProto implements it); the   *)
(* handlers treat the isStreaming flag as StreamControl specifies. Both    *)
(* programs run the same loop, so a Node is either of them. Time is left   *)
(* out: a tick, a timeout or a late message may come at any moment.        *)
(***************************************************************************)
EXTENDS Naturals, Sequences, FiniteSets, SequencesExt

CONSTANTS
  Node,                         \* node runners and mobile clients
  Script,                       \* the requests of one exchange, in order
  MaxRound,                     \* bound: ticks of any node's loop
  Rounds,                       \* bound: ticks of each node's loop
  MaxFault                      \* bound: lost messages, failed sends, cut links

Kind == {"ping", "status", "info", "start", "stop"}

\* The requests that the two programs send in each exchange.
ExchangeScript == <<"ping", "status", "info", "start", "status", "stop">>

ASSUME ScriptAssumption == Script \in Seq(Kind) /\ Len(Script) > 0
ASSUME BoundAssumption ==
  MaxRound \in Nat /\ Rounds \in [Node -> 0..MaxRound] /\ MaxFault \in Nat

\* A request is one call of Ping, Status, Info, StartStream or StopStream; its
\* response is the one message the handler of the request sends back.
Request == {q \in [from : Node, to : Node, round : 1..MaxRound, step : 1..Len(Script)] :
              q.from # q.to /\ q.round <= Rounds[q.from]}
Message == {"req", "rsp"} \X Request

KindOf(q) == Script[q.step]
Sender(m) == IF m[1] = "req" THEN m[2].from ELSE m[2].to
Receiver(m) == IF m[1] = "req" THEN m[2].to ELSE m[2].from

VARIABLES
  up,                           \* the processes that have not panicked
  linked,                       \* the connected pairs of nodes
  loop,                         \* the ticker loop of each node
  handler,                      \* the handler of each message
  done,                         \* the handlers blocked on each node's channel
  faults,                       \* how many faults there have been
  result, inflight, deliveries, \* the network: see Messenger
  isStreaming, at, saw, streaming \* the flag and its handlers: see StreamControl

Net == INSTANCE Messenger WITH Call <- Message

FlagRequest == {q \in Request : KindOf(q) \in {"start", "stop", "status"}}
Flag == INSTANCE StreamControl WITH
          Call <- FlagRequest,
          Home <- [q \in FlagRequest |-> q.to],
          Op <- [q \in FlagRequest |-> KindOf(q)]

netVars == <<result, inflight, deliveries>>
flagVars == <<isStreaming, at, saw, streaming>>
vars == <<up, linked, loop, handler, done, faults, netVars, flagVars>>

Pair == {{a, b} : a, b \in Node} \ {{a} : a \in Node}

\* The loop's goroutine: between two ticks, in an exchange with peer with todo
\* still to come, or waiting for the end of that exchange.
LoopState == [phase : {"idle", "sending", "select"}, todo : SUBSET Node,
              peer : Node, round : 0..MaxRound, step : 1..Len(Script)]
Idle(n, round) == [phase |-> "idle", todo |-> {}, peer |-> n,
                   round |-> round, step |-> 1]
Exchange(p, todo, round) == [phase |-> "sending", todo |-> todo, peer |-> p,
                             round |-> round, step |-> 1]

TypeOK ==
  /\ up \in SUBSET Node
  /\ linked \in SUBSET Pair
  /\ loop \in [Node -> LoopState]
  /\ handler \in [Message -> {"none", "running", "replied", "blocked",
                              "released", "failed"}]
  /\ done \in [Node -> Seq(Message)]
  /\ faults \in 0..MaxFault
  /\ Net!MessengerTypeOK
  /\ Flag!ControlTypeOK

Init ==
  /\ up = Node
  /\ linked = Pair
  /\ loop = [n \in Node |-> Idle(n, 0)]
  /\ handler = [m \in Message |-> "none"]
  /\ done = [n \in Node |-> <<>>]
  /\ faults = 0
  /\ Net!MessengerInit
  /\ Flag!ControlInit

-----------------------------------------------------------------------------
(* Sending: one call of sendProtoMessage.                                  *)

Connected(a, b) == {a, b} \in linked

Fault == faults < MaxFault /\ faults' = faults + 1

\* The call returns true.
Sends(m) ==
  /\ Connected(Sender(m), Receiver(m))
  /\ Net!SendTrue(m) /\ m \in inflight'
  /\ UNCHANGED <<up, linked, faults>>

\* The call returns false: it refuses a peer that is not connected, and fails
\* to open or to write to one that is.
CannotSend(m) ==
  /\ Net!SendFalse(m)
  /\ IF Connected(Sender(m), Receiver(m)) THEN Fault ELSE UNCHANGED faults
  /\ UNCHANGED <<up, linked>>

\* The retry's NewStream fails too, and the process goes down with the call.
PanicsSending(m) ==
  /\ Net!SendPanic(m)
  /\ Fault
  /\ up' = up \ {Sender(m)}
  /\ linked' = {p \in linked : Sender(m) \notin p}

-----------------------------------------------------------------------------
(* The ticker loop.                                                        *)

InPhase(n, phase) == n \in up /\ loop[n].phase = phase

\* [A bug it must not have: the request goes to a peer that is still to come.]
CurrentAhead(n) == <<"req", [from |-> n,
                             to |-> CHOOSE p \in {loop[n].peer} \cup loop[n].todo :
                                      loop[n].todo # {} => p # loop[n].peer,
                             round |-> loop[n].round, step |-> loop[n].step]>>

Current(n) == <<"req", [from |-> n, to |-> loop[n].peer,
                        round |-> loop[n].round, step |-> loop[n].step]>>

\* The exchange with one of the peers that are left, or the next tick.
TakePeer(n, peers, round) ==
  IF peers = {}
  THEN loop' = [loop EXCEPT ![n] = Idle(n, round)]
  ELSE \E p \in peers : loop' = [loop EXCEPT ![n] = Exchange(p, peers \ {p}, round)]

Peers(n) == {p \in Node : p # n /\ Connected(n, p)}

\* The peers are read once per tick; a tick without peers does nothing.
Tick(n) ==
  /\ InPhase(n, "idle")
  /\ loop[n].round < Rounds[n]
  /\ Peers(n) # {}
  /\ TakePeer(n, Peers(n), loop[n].round + 1)
  /\ UNCHANGED <<up, linked, handler, done, faults, netVars, flagVars>>

\* The next request of the script, or the select after the last one.
Advance(n) ==
  loop' = IF loop[n].step < Len(Script)
          THEN [loop EXCEPT ![n].step = @ + 1]
          ELSE [loop EXCEPT ![n].phase = "select"]

\* [A bug it must not have: a request that cannot be sent ends the exchange.]
SendRequestGivesUp(n) ==
  /\ InPhase(n, "sending")
  /\ \/ Sends(Current(n)) /\ Advance(n)
     \/ CannotSend(Current(n)) /\ loop' = [loop EXCEPT ![n].phase = "select"]
     \/ PanicsSending(Current(n)) /\ UNCHANGED loop
  /\ UNCHANGED <<handler, done, flagVars>>

\* The results of the sends are ignored: the script goes on.
SendRequest(n) ==
  /\ InPhase(n, "sending")
  /\ \/ /\ Sends(Current(n)) \/ CannotSend(Current(n))
        /\ Advance(n)
     \/ /\ PanicsSending(Current(n))
        /\ UNCHANGED loop
  /\ UNCHANGED <<handler, done, flagVars>>

\* [A bug it must not have: the select is repeated until the timer fires.]
SelectDrains(n) ==
  /\ InPhase(n, "select")
  /\ done[n] # <<>>
  /\ done' = [done EXCEPT ![n] = Tail(@)]
  /\ handler' = [handler EXCEPT ![Head(done[n])] = "released"]
  /\ UNCHANGED <<up, linked, loop, faults, netVars, flagVars>>

\* <-done: the handler that has waited longest, whatever it handled, is
\* released and the loop logs "exchange completed".
SelectDone(n) ==
  /\ InPhase(n, "select")
  /\ done[n] # <<>>
  /\ done' = [done EXCEPT ![n] = Tail(@)]
  /\ handler' = [handler EXCEPT ![Head(done[n])] = "released"]
  /\ TakePeer(n, loop[n].todo, loop[n].round)
  /\ UNCHANGED <<up, linked, faults, netVars, flagVars>>

\* [A bug it must not have: the select has no timeout.]
SelectNeverTimesOut(n) == FALSE

\* <-time.After: "exchange timed out". A handler that is waiting, or that comes
\* before the timer, is always taken instead.
SelectTimeout(n) ==
  /\ InPhase(n, "select")
  /\ done[n] = <<>>
  /\ TakePeer(n, loop[n].todo, loop[n].round)
  /\ UNCHANGED <<up, linked, handler, done, faults, netVars, flagVars>>

LoopStep(n) == Tick(n) \/ SendRequest(n) \/ SelectDone(n) \/ SelectTimeout(n)

-----------------------------------------------------------------------------
(* The handlers.                                                           *)

HandlerAt(m, place) == Receiver(m) \in up /\ handler[m] = place
MoveTo(m, place) == handler' = [handler EXCEPT ![m] = place]

\* [A bug it must not have: the error of the read is ignored, and what a failed
\* send has left on the stream is handled.]
ReceiveFailed(m) ==
  /\ HandlerAt(m, "none")
  /\ result[m] # "none"
  /\ inflight' = inflight \ {m}
  /\ deliveries' = [deliveries EXCEPT ![m] = @ + 1]
  /\ MoveTo(m, "running")
  /\ UNCHANGED <<up, linked, loop, done, faults, result, flagVars>>

\* onProtocolRequest and onProtocolResponse: the message has been read to its
\* end and its handler starts.
Receive(m) ==
  /\ HandlerAt(m, "none")
  /\ Net!Handle(m)
  /\ MoveTo(m, "running")
  /\ UNCHANGED <<up, linked, loop, done, faults, flagVars>>

\* [A bug it must not have: the flag is used before the message is read.]
UseFlagUnread(q) ==
  /\ q.to \in up
  /\ Flag!HandlerStep(q)
  /\ UNCHANGED <<up, linked, loop, handler, done, faults, netVars>>

\* Start, Stop and Status: the handler deals with the flag.
UseFlag(q) ==
  /\ HandlerAt(<<"req", q>>, "running")
  /\ Flag!HandlerStep(q)
  /\ UNCHANGED <<up, linked, loop, handler, done, faults, netVars>>

\* [A bug it must not have: the response goes out while the flag is in use.]
ReplyEarly(q) ==
  /\ HandlerAt(<<"req", q>>, "running")
  /\ \/ Sends(<<"rsp", q>>) /\ MoveTo(<<"req", q>>, "replied")
     \/ CannotSend(<<"rsp", q>>) /\ MoveTo(<<"req", q>>, "failed")
  /\ UNCHANGED <<loop, done, flagVars>>

\* The handler of a request sends its response. If it cannot, it returns an
\* error and its stream is reset, except that of Ping, which goes on.
Reply(q) ==
  /\ HandlerAt(<<"req", q>>, "running")
  /\ q \in FlagRequest => at[q] = "answered"
  /\ \/ Sends(<<"rsp", q>>) /\ MoveTo(<<"req", q>>, "replied")
     \/ CannotSend(<<"rsp", q>>)
        /\ MoveTo(<<"req", q>>, IF KindOf(q) = "ping" THEN "replied" ELSE "failed")
     \/ PanicsSending(<<"rsp", q>>) /\ UNCHANGED handler
  /\ UNCHANGED <<loop, done, flagVars>>

\* [A bug it must not have: the channel is buffered, and nobody waits on it.]
PushBuffered(m) ==
  /\ HandlerAt(m, IF m[1] = "req" THEN "replied" ELSE "running")
  /\ MoveTo(m, "released")
  /\ done' = [done EXCEPT ![Receiver(m)] = Append(@, m)]
  /\ UNCHANGED <<up, linked, loop, faults, netVars, flagVars>>

\* done <- true blocks the handler, its stream still open, until the loop of
\* its process receives.
PushDone(m) ==
  /\ HandlerAt(m, IF m[1] = "req" THEN "replied" ELSE "running")
  /\ MoveTo(m, "blocked")
  /\ done' = [done EXCEPT ![Receiver(m)] = Append(@, m)]
  /\ UNCHANGED <<up, linked, loop, faults, netVars, flagVars>>

HandlerStep(m) ==
  \/ Receive(m) \/ PushDone(m)
  \/ m[1] = "req" /\ (Reply(m[2]) \/ (m[2] \in FlagRequest /\ UseFlag(m[2])))

-----------------------------------------------------------------------------
(* The network.                                                            *)

\* A message is lost with its stream, or because its receiver is gone.
LoseMessage(m) ==
  /\ Net!Lose({m})
  /\ IF Receiver(m) \in up THEN Fault ELSE UNCHANGED faults
  /\ UNCHANGED <<up, linked, loop, handler, done, flagVars>>

Disconnect(p) ==
  /\ p \in linked
  /\ Fault
  /\ linked' = linked \ {p}
  /\ UNCHANGED <<up, loop, handler, done, netVars, flagVars>>

Connect(p) ==
  /\ p \subseteq up
  /\ p \notin linked
  /\ linked' = linked \cup {p}
  /\ UNCHANGED <<up, loop, handler, done, faults, netVars, flagVars>>

-----------------------------------------------------------------------------

\* Nothing is left to happen but ticks without peers, or beyond the bound.
LoopAtRest(n) ==
  loop[n].phase = "idle" /\ (loop[n].round = Rounds[n] \/ Peers(n) = {})
Quiet ==
  /\ inflight = {}
  /\ \A m \in Message : Receiver(m) \in up => handler[m] \notin {"running", "replied"}
  /\ \A n \in up : loop[n].phase = "idle"
AtRest == Quiet /\ (\A n \in up : LoopAtRest(n)) /\ UNCHANGED vars

Next ==
  \/ \E n \in Node : LoopStep(n)
  \/ \E m \in Message : HandlerStep(m) \/ LoseMessage(m)
  \/ \E p \in Pair : Disconnect(p) \/ Connect(p)
  \/ AtRest

Spec == Init /\ [][Next]_vars

\* Go schedules the loop and the handlers, its tickers and timers fire, and a
\* stream that is not reset is read.
FairSpec ==
  /\ Spec
  /\ \A n \in Node : WF_vars(LoopStep(n))
  /\ \A m \in Message : WF_vars(HandlerStep(m))

-----------------------------------------------------------------------------
(* What is checked and proved.                                             *)

\* The queue of a process's channel holds exactly the handlers that are
\* blocked on it, each of them once, so a receive wakes one that is waiting.
QueueHoldsBlocked ==
  \A n \in Node :
    /\ IsInjective(done[n])
    /\ ToSet(done[n]) = {m \in Message : Receiver(m) = n /\ handler[m] = "blocked"}

\* A node's loop never takes the node itself for a peer, and stays within the
\* bound on its ticks.
LoopInRange ==
  \A n \in Node :
    /\ n \notin loop[n].todo
    /\ loop[n].round <= Rounds[n]
    /\ loop[n].phase # "idle" => loop[n].peer # n /\ loop[n].round > 0

LoopInv == loop \in [Node -> LoopState] /\ LoopInRange

\* The exchanges a node has begun, and the handlers it has let go.
Exchanges(n) == {q \in Request : q.from = n /\ q.step = 1 /\ result[<<"req", q>>] # "none"}
Released(n) == {m \in Message : Receiver(m) = n /\ handler[m] = "released"}

\* An exchange under way has sent its first request and will let a handler go.
Underway(n) == loop[n].phase = "select" \/ (loop[n].phase = "sending" /\ loop[n].step > 1)

\* An exchange releases at most one handler of its process, though it, and
\* that of the peer, make every message of the two scripts block one.
OneReleasePerExchange ==
  \A n \in Node :
    Cardinality(Released(n)) + (IF Underway(n) THEN 1 ELSE 0) <= Cardinality(Exchanges(n))

\* A response is sent only for a request whose handler has run and, if it
\* concerns the stream, has settled its answer.
RepliesFollowRequests ==
  \A q \in Request : result[<<"rsp", q>>] \in {"true", "false"} =>
    /\ deliveries[<<"req", q>>] = 1
    /\ result[<<"req", q>>] = "true"
    /\ q \in FlagRequest => at[q] = "answered"

\* A message is handled after it was sent, and once.
HandledOnce(m) ==
  /\ m \in inflight => result[m] = "true" /\ handler[m] = "none"
  /\ handler[m] # "none" => result[m] = "true"
  /\ deliveries[m] = IF handler[m] = "none" THEN 0 ELSE 1

\* A response is sent after its request was handled, and after the flag was used.
RepliedAfter(q) ==
  result[<<"rsp", q>>] # "none" =>
    handler[<<"req", q>>] # "none" /\ (q \in FlagRequest => at[q] = "answered")

MessagesInOrder ==
  (\A m \in Message : HandledOnce(m)) /\ (\A q \in Request : RepliedAfter(q))

\* The inductive invariant of the proofs: the types, the loops' range, the
\* queues, and the order of the messages.
PingInv == TypeOK /\ LoopInRange /\ QueueHoldsBlocked /\ MessagesInOrder

\* The call for a request has been made; it has returned, unless the process
\* ended in it.
Called(q) == result[<<"req", q>>] # "none"
Settled(q) == result[<<"req", q>>] \in {"true", "false"}

\* The loop of the node has gone past the request: an earlier tick, a peer it has
\* done with, or an earlier step of the exchange it is in.
Passed(q) ==
  LET l == loop[q.from]
  IN  \/ q.round < l.round
      \/ /\ q.round = l.round
         /\ \/ l.phase = "idle"
            \/ q.to \notin l.todo \cup {l.peer}
            \/ q.to = l.peer /\ (l.phase = "select" \/ q.step < l.step)

\* The exchange that a loop is in, up to and from its present step.
InExchange(q) ==
  /\ loop[q.from].phase # "idle"
  /\ q.round = loop[q.from].round /\ q.to = loop[q.from].peer
ToCome(q) == InExchange(q) /\ loop[q.from].phase = "sending" /\ q.step >= loop[q.from].step

SameExchange(p, q) == p.from = q.from /\ p.to = q.to /\ p.round = q.round

\* Where the loop of its node and the process stand if the request was sent,
\* and what was sent if they stand there.
SentInOrder(q) ==
  /\ Called(q) => Passed(q) \/ (q.from \notin up /\ Current(q.from) = <<"req", q>>)
  /\ InExchange(q) /\ ~ToCome(q) => Settled(q)
  /\ Called(q) => \A p \in Request : SameExchange(p, q) => Settled(p) \/ ToCome(p)

\* A peer is asked once per tick and each request of the script sent once, in
\* order: whatever the sends and the select came to, a loop neither repeats nor
\* skips a request, nor leaves an exchange before the end of the script.
ScriptInOrder ==
  /\ \A n \in Node : loop[n].phase # "idle" => loop[n].peer \notin loop[n].todo
  /\ \A q \in Request : SentInOrder(q)

\* What does hold of "exchange completed": the token is that of a request of a
\* peer, or of an answer to a request that the loop has gone past, never of one
\* that it is still to send.
TokensArePast ==
  [][\A n \in Node : SelectDone(n) =>
       LET m == Head(done[n])
       IN  IF m[1] = "req" THEN m[2].to = n
           ELSE m[2].from = n /\ Passed(m[2])]_vars

\* What does hold of the handlers that are held: of those of a process that came
\* to the channel, all but one per exchange of its own are still there.
HandlersPileUp ==
  \A n \in Node :
    Cardinality({m \in Message : Receiver(m) = n /\ handler[m] \in {"blocked", "released"}})
      <= Len(done[n]) + Cardinality(Exchanges(n))

\* A process streams only if a peer asked it to: a start that was sent and came,
\* and found no stream.
StreamsWereAsked ==
  \A n \in Node : isStreaming[n] =>
    \E q \in FlagRequest :
      /\ q.to = n /\ KindOf(q) = "start" /\ Settled(q) /\ deliveries[<<"req", q>>] = 1
      /\ at[q] \in {"written", "answered"} /\ ~saw[q]

\* The exchange has no table of requests, and still implements RequestTable, as
\* the signed protocol does: a response is handled once, and only for a request
\* that was made and that its peer has answered.
StatusOf(q) ==
  IF ~Called(q) THEN "new"
  ELSE IF handler[<<"rsp", q>>] = "none" THEN "pending" ELSE "answered"
Table == INSTANCE RequestTable WITH
           status <- [q \in Request |-> StatusOf(q)],
           served <- {q \in Request : result[<<"rsp", q>>] = "true"}
Answers == Table!TableSpec

\* No peer can hold up a loop: whatever is lost and whoever goes down, a node
\* that stays up comes to the end of its exchanges.
LoopEnds == \A n \in Node : []<>(n \notin up \/ loop[n].phase = "idle")

\* "exchange completed" is logged for an answer of the exchange it ends.
CompletedMeansAnswered ==
  [][\A n \in Node : SelectDone(n) =>
       /\ Head(done[n])[1] = "rsp"
       /\ [Head(done[n])[2] EXCEPT !.step = loop[n].step] = Current(n)[2]]_vars

\* The channel is "only for demo purposes to stop main from terminating": when
\* everything has been said, no handler waits on it.
NoHandlerHeld == Quiet => \A n \in up : done[n] = <<>>
=============================================================================
