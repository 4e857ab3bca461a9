------------------------- MODULE PingProtocolProofs -------------------------
(* Theorems about PingProtocol, for any nodes, script and bounds.          *)
EXTENDS PingProtocol, FiniteSetTheorems, TLAPS

(* The sequences of distinct elements that the done channels are.          *)

(* Appending a new element keeps the elements distinct.                    *)
LEMMA AppendDistinct ==
  ASSUME NEW S, NEW s \in Seq(S), NEW e \in S, IsInjective(s), e \notin ToSet(s)
  PROVE  /\ IsInjective(Append(s, e))
         /\ ToSet(Append(s, e)) = ToSet(s) \cup {e}
<1>1. /\ DOMAIN s = 1..Len(s) /\ DOMAIN Append(s, e) = 1..Len(s) + 1
      /\ Append(s, e)[Len(s) + 1] = e
      /\ \A i \in 1..Len(s) : Append(s, e)[i] = s[i]
  OBVIOUS
<1>2. IsInjective(Append(s, e))
  BY <1>1 DEF IsInjective, ToSet
<1>3. ToSet(Append(s, e)) = ToSet(s) \cup {e}
  BY <1>1 DEF ToSet
<1>. QED
  BY <1>2, <1>3

(* Removing the head of a sequence of distinct elements removes it alone.  *)
LEMMA TailDistinct ==
  ASSUME NEW S, NEW s \in Seq(S), s # <<>>, IsInjective(s)
  PROVE  /\ Head(s) \in ToSet(s)
         /\ IsInjective(Tail(s))
         /\ ToSet(Tail(s)) = ToSet(s) \ {Head(s)}
<1>1. /\ Len(s) \in Nat \ {0} /\ DOMAIN s = 1..Len(s) /\ Head(s) = s[1]
      /\ DOMAIN Tail(s) = 1..Len(s) - 1
      /\ \A i \in 1..Len(s) - 1 : Tail(s)[i] = s[i + 1]
  OBVIOUS
<1>2. Head(s) \in ToSet(s)
  BY <1>1 DEF ToSet
<1>3. IsInjective(Tail(s))
  BY <1>1 DEF IsInjective
<1>4. ToSet(Tail(s)) = ToSet(s) \ {Head(s)}
  <2>1. \A x \in ToSet(Tail(s)) : x \in ToSet(s) /\ x # Head(s)
    BY <1>1 DEF ToSet, IsInjective
  <2>2. ASSUME NEW i \in 1..Len(s), s[i] # Head(s)
        PROVE  s[i] \in ToSet(Tail(s))
    <3>1. i - 1 \in 1..Len(s) - 1 /\ Tail(s)[i - 1] = s[i]
      BY <1>1, <2>2
    <3>. QED
      BY <1>1, <3>1 DEF ToSet
  <2>. QED
    <3>1. ToSet(s) = {s[i] : i \in 1..Len(s)}
      BY <1>1 DEF ToSet
    <3>. QED
      BY <2>1, <2>2, <3>1
<1>. QED
  BY <1>2, <1>3, <1>4

(* A sequence of distinct elements is as long as its elements are many.    *)
LEMMA DistinctLength ==
  ASSUME NEW S, NEW s \in Seq(S), IsInjective(s)
  PROVE  IsFiniteSet(ToSet(s)) /\ Cardinality(ToSet(s)) = Len(s)
<1>1. Len(s) \in Nat /\ s \in [1..Len(s) -> ToSet(s)] /\ DOMAIN s = 1..Len(s)
  BY DEF ToSet
<1>2. s \in Surjection(1..Len(s), ToSet(s)) /\ s \in Injection(1..Len(s), ToSet(s))
  BY <1>1 DEF Surjection, Injection, IsInjective, ToSet
<1>3. IsFiniteSet(1..Len(s)) /\ Cardinality(1..Len(s)) = Len(s)
  BY <1>1, FS_Interval
<1>. QED
  BY <1>2, <1>3, FS_Surjection

-----------------------------------------------------------------------------
(* Type correctness, by parts of the state.                                *)

(* A message has a sender and a receiver.                                  *)
LEMMA MessageEnds ==
  ASSUME NEW m \in Message
  PROVE  /\ m[1] \in {"req", "rsp"} /\ m[2] \in Request
         /\ Sender(m) \in Node /\ Receiver(m) \in Node
  BY DEF Message, Request, Sender, Receiver

(* A send, whatever comes of it, keeps the types of what it touches.       *)
LEMMA SendType ==
  ASSUME TypeOK, NEW m \in Message,
         Sends(m) \/ CannotSend(m) \/ PanicsSending(m)
  PROVE  /\ up' \in SUBSET Node /\ linked' \in SUBSET Pair /\ faults' \in 0..MaxFault
         /\ Net!MessengerTypeOK'
<1>. USE BoundAssumption DEF TypeOK, Net!MessengerTypeOK, Net!Result, Fault
<1>1. CASE Sends(m)
  BY <1>1 DEF Sends, Net!SendTrue
<1>2. CASE CannotSend(m)
  BY <1>2 DEF CannotSend, Net!SendFalse, Net!SendNothing
<1>3. CASE PanicsSending(m)
  BY <1>3 DEF PanicsSending, Net!SendPanic, Net!SendNothing
<1>. QED
  BY <1>1, <1>2, <1>3

(* A loop whose new state is in range keeps every loop in range.           *)
LEMMA OneLoopChanges ==
  ASSUME LoopInv, NEW n \in Node, NEW l \in LoopState,
         loop' = [loop EXCEPT ![n] = l],
         n \notin l.todo, l.round <= Rounds[n],
         l.phase # "idle" => l.peer # n /\ l.round > 0
  PROVE  LoopInv'
<1>1. loop' \in [Node -> LoopState]
  BY DEF LoopInv
<1>2. loop'[n] = l /\ \A k \in Node \ {n} : loop'[k] = loop[k]
  BY DEF LoopInv
<1>. QED
  BY <1>1, <1>2 DEF LoopInv, LoopInRange

(* The next peer, or the end of the exchanges, is a state of the loop.     *)
LEMMA TakePeerType ==
  ASSUME LoopInv, NEW n \in Node, NEW peers \in SUBSET (Node \ {n}),
         NEW r \in 0..Rounds[n], peers # {} => r > 0, TakePeer(n, peers, r)
  PROVE  LoopInv'
<1>1. r \in 0..MaxRound /\ r <= Rounds[n] /\ 1 \in 1..Len(Script)
  BY ScriptAssumption, BoundAssumption
<1>2. CASE peers = {}
  <2>1. Idle(n, r) \in LoopState
    BY <1>1 DEF Idle, LoopState
  <2>2. loop' = [loop EXCEPT ![n] = Idle(n, r)]
    BY <1>2 DEF TakePeer
  <2>. QED
    BY <1>1, <2>1, <2>2, OneLoopChanges DEF Idle
<1>3. CASE peers # {}
  <2>1. PICK p \in peers : loop' = [loop EXCEPT ![n] = Exchange(p, peers \ {p}, r)]
    BY <1>3 DEF TakePeer
  <2>2. Exchange(p, peers \ {p}, r) \in LoopState
    BY <1>1 DEF Exchange, LoopState
  <2>. QED
    BY <1>1, <1>3, <2>1, <2>2, OneLoopChanges DEF Exchange
<1>. QED
  BY <1>2, <1>3

(* So is the next step of the script, and the select at its end.           *)
LEMMA AdvanceType ==
  ASSUME LoopInv, NEW n \in Node, loop[n].phase = "sending", Advance(n)
  PROVE  LoopInv'
<1>1. /\ loop[n] \in LoopState /\ n \notin loop[n].todo /\ loop[n].round <= Rounds[n]
      /\ loop[n].peer # n /\ loop[n].round > 0
  BY DEF LoopInv, LoopInRange
<1>2. CASE loop[n].step < Len(Script)
  <2>. DEFINE l == [loop[n] EXCEPT !.step = @ + 1]
  <2>1. loop' = [loop EXCEPT ![n] = l]
    BY <1>2 DEF Advance
  <2>2. l.step \in 1..Len(Script)
    BY <1>1, <1>2, ScriptAssumption DEF LoopState
  <2>3. l \in LoopState /\ l.todo = loop[n].todo /\ l.round = loop[n].round
        /\ l.peer = loop[n].peer
    BY <1>1, <2>2 DEF LoopState
  <2>. QED
    BY <1>1, <2>1, <2>3, OneLoopChanges
<1>3. CASE ~(loop[n].step < Len(Script))
  <2>. DEFINE l == [loop[n] EXCEPT !.phase = "select"]
  <2>1. loop' = [loop EXCEPT ![n] = l]
    BY <1>3 DEF Advance
  <2>2. l \in LoopState /\ l.todo = loop[n].todo /\ l.round = loop[n].round
        /\ l.peer = loop[n].peer
    BY <1>1 DEF LoopState
  <2>. QED
    BY <1>1, <2>1, <2>2, OneLoopChanges
<1>. QED
  BY <1>2, <1>3

(* What a loop is about to send is a message.                              *)
LEMMA CurrentIsMessage ==
  ASSUME LoopInv, NEW n \in Node, loop[n].phase # "idle"
  PROVE  Current(n) \in Message
  BY BoundAssumption DEF LoopInv, LoopInRange, LoopState, Current, Message, Request

(* A step of a loop keeps the types.                                       *)
LEMMA LoopStepType ==
  ASSUME TypeOK, LoopInRange, NEW n \in Node, LoopStep(n)
  PROVE  TypeOK' /\ LoopInRange'
<1>1. LoopInv /\ loop[n] \in LoopState
  BY DEF LoopInv, TypeOK
<1>2. ASSUME LoopInv', UNCHANGED <<up, linked, faults, netVars, flagVars>>,
             done' \in [Node -> Seq(Message)],
             handler' \in [Message -> {"none", "running", "replied", "blocked",
                                      "released", "failed"}]
      PROVE  TypeOK' /\ LoopInRange'
  BY <1>2 DEF TypeOK, LoopInv, netVars, flagVars, Net!MessengerTypeOK,
              Flag!ControlTypeOK
<1>3. loop[n].phase # "idle" =>
        /\ loop[n].todo \in SUBSET (Node \ {n})
        /\ loop[n].round \in 0..Rounds[n] /\ loop[n].round > 0
  BY <1>1, BoundAssumption DEF LoopInRange, LoopState
<1>4. CASE Tick(n)
  <2>1. Peers(n) \in SUBSET (Node \ {n})
    BY DEF Peers
  <2>2. loop[n].round + 1 \in 0..Rounds[n] /\ loop[n].round + 1 > 0
    BY <1>1, <1>4, BoundAssumption DEF Tick, LoopState
  <2>3. LoopInv'
    BY <1>1, <1>4, <2>1, <2>2, TakePeerType DEF Tick
  <2>. QED
    BY <1>2, <1>4, <2>3 DEF Tick, TypeOK
<1>5. CASE SelectTimeout(n)
  <2>1. LoopInv'
    BY <1>1, <1>3, <1>5, TakePeerType DEF SelectTimeout, InPhase
  <2>. QED
    BY <1>2, <1>5, <2>1 DEF SelectTimeout, TypeOK
<1>6. CASE SelectDone(n)
  <2>1. LoopInv'
    BY <1>1, <1>3, <1>6, TakePeerType DEF SelectDone, InPhase
  <2>2. done' \in [Node -> Seq(Message)]
    BY <1>6 DEF SelectDone, TypeOK
  <2>. QED
    BY <1>2, <1>6, <2>1, <2>2 DEF SelectDone, TypeOK
<1>7. CASE SendRequest(n)
  <2>1. Current(n) \in Message
    BY <1>1, <1>7, CurrentIsMessage DEF SendRequest, InPhase
  <2>2. /\ up' \in SUBSET Node /\ linked' \in SUBSET Pair /\ faults' \in 0..MaxFault
        /\ Net!MessengerTypeOK'
    BY <1>7, <2>1, SendType DEF SendRequest
  <2>3. LoopInv'
    <3>1. CASE Advance(n)
      BY <1>1, <1>7, <3>1, AdvanceType DEF SendRequest, InPhase
    <3>2. CASE UNCHANGED loop
      BY <1>1, <3>2 DEF LoopInv, LoopInRange
    <3>. QED
      BY <1>7, <3>1, <3>2 DEF SendRequest
  <2>. QED
    BY <1>7, <2>2, <2>3 DEF SendRequest, TypeOK, LoopInv, flagVars, Flag!ControlTypeOK
<1>. QED
  BY <1>4, <1>5, <1>6, <1>7 DEF LoopStep

(* A handler's access to the flag keeps the flag's types.                  *)
LEMMA FlagStepType ==
  ASSUME Flag!ControlTypeOK, NEW q \in FlagRequest, Flag!HandlerStep(q)
  PROVE  Flag!ControlTypeOK'
<1>1. q.to \in Node
  BY DEF FlagRequest, Request
<1>. USE <1>1 DEF Flag!ControlTypeOK
<1>2. CASE Flag!Test(q)
  BY <1>2 DEF Flag!Test
<1>3. CASE Flag!Write(q)
  BY <1>3 DEF Flag!Write, Flag!Written
<1>4. CASE Flag!Answer(q)
  BY <1>4 DEF Flag!Answer
<1>. QED
  BY <1>2, <1>3, <1>4 DEF Flag!HandlerStep

(* A step of a handler keeps the types.                                    *)
LEMMA HandlerStepType ==
  ASSUME TypeOK, LoopInRange, NEW m \in Message, HandlerStep(m)
  PROVE  TypeOK' /\ LoopInRange'
<1>1. Receiver(m) \in Node /\ (m[1] = "req" => m[2] \in Request /\ m = <<"req", m[2]>>)
  BY DEF Message, Request, Receiver
<1>. DEFINE Places == {"none", "running", "replied", "blocked", "released", "failed"}
<1>2. CASE Receive(m)
  <2>1. handler' \in [Message -> Places]
    BY <1>2 DEF Receive, MoveTo, TypeOK
  <2>2. Net!MessengerTypeOK'
    BY <1>2 DEF Receive, Net!Handle, Net!MessengerTypeOK, TypeOK
  <2>. QED
    BY <1>2, <2>1, <2>2 DEF Receive, TypeOK, LoopInRange, flagVars, Flag!ControlTypeOK
<1>3. CASE PushDone(m)
  <2>1. handler' \in [Message -> Places]
    BY <1>3 DEF PushDone, MoveTo, TypeOK
  <2>2. done' \in [Node -> Seq(Message)]
    BY <1>1, <1>3 DEF PushDone, TypeOK
  <2>. QED
    BY <1>3, <2>1, <2>2 DEF PushDone, TypeOK, LoopInRange, netVars, flagVars,
                            Net!MessengerTypeOK, Flag!ControlTypeOK
<1>4. ASSUME NEW q \in Request, Reply(q)
      PROVE  TypeOK' /\ LoopInRange'
  <2>1. handler' \in [Message -> Places]
    BY <1>4 DEF Reply, MoveTo, TypeOK
  <2>2. <<"rsp", q>> \in Message
    BY DEF Message
  <2>3. /\ up' \in SUBSET Node /\ linked' \in SUBSET Pair /\ faults' \in 0..MaxFault
        /\ Net!MessengerTypeOK'
    BY <1>4, <2>2, SendType DEF Reply
  <2>. QED
    BY <1>4, <2>1, <2>3 DEF Reply, TypeOK, LoopInRange, flagVars, Flag!ControlTypeOK
<1>5. ASSUME NEW q \in FlagRequest, UseFlag(q)
      PROVE  TypeOK' /\ LoopInRange'
  <2>1. Flag!ControlTypeOK'
    BY <1>5, FlagStepType DEF UseFlag, TypeOK
  <2>. QED
    BY <1>5, <2>1 DEF UseFlag, TypeOK, LoopInRange, netVars, Net!MessengerTypeOK
<1>. QED
  BY <1>1, <1>2, <1>3, <1>4, <1>5 DEF HandlerStep

(* A step of the network keeps the types.                                  *)
LEMMA NetworkStepType ==
  ASSUME TypeOK, LoopInRange,
         \/ \E m \in Message : LoseMessage(m)
         \/ \E p \in Pair : Disconnect(p) \/ Connect(p)
  PROVE  TypeOK' /\ LoopInRange'
<1>. USE BoundAssumption
     DEF TypeOK, LoopInRange, Net!MessengerTypeOK, Flag!ControlTypeOK, netVars, flagVars, Fault
<1>1. ASSUME NEW m \in Message, LoseMessage(m)
      PROVE  TypeOK' /\ LoopInRange'
  BY <1>1 DEF LoseMessage, Net!Lose
<1>2. ASSUME NEW p \in Pair, Disconnect(p)
      PROVE  TypeOK' /\ LoopInRange'
  BY <1>2 DEF Disconnect
<1>3. ASSUME NEW p \in Pair, Connect(p)
      PROVE  TypeOK' /\ LoopInRange'
  BY <1>3 DEF Connect
<1>. QED
  BY <1>1, <1>2, <1>3

-----------------------------------------------------------------------------
(* The queues of the done channels.                                        *)

(* A handler that moves between places other than blocked is in no queue.  *)
LEMMA QueueUnaffected ==
  ASSUME TypeOK, QueueHoldsBlocked, NEW m \in Message, NEW place,
         handler[m] # "blocked", place # "blocked",
         handler' = [handler EXCEPT ![m] = place], UNCHANGED done
  PROVE  QueueHoldsBlocked'
<1>1. \A x \in Message : handler'[x] = "blocked" <=> handler[x] = "blocked"
  BY DEF TypeOK
<1>. QED
  BY <1>1 DEF QueueHoldsBlocked

(* A receive wakes the handler at the head of its process's queue, alone.  *)
LEMMA SelectDoneQueue ==
  ASSUME TypeOK, QueueHoldsBlocked, NEW n \in Node, SelectDone(n)
  PROVE  QueueHoldsBlocked'
<1>. DEFINE h == Head(done[n])
<1>1. done[n] \in Seq(Message) /\ done[n] # <<>> /\ IsInjective(done[n])
      /\ ToSet(done[n]) = {m \in Message : Receiver(m) = n /\ handler[m] = "blocked"}
  BY DEF TypeOK, SelectDone, QueueHoldsBlocked
<1>2. /\ h \in ToSet(done[n]) /\ IsInjective(Tail(done[n]))
      /\ ToSet(Tail(done[n])) = ToSet(done[n]) \ {h}
  BY <1>1, TailDistinct
<1>3. h \in Message /\ Receiver(h) = n
  BY <1>1, <1>2
<1>4. /\ done'[n] = Tail(done[n])
      /\ \A k \in Node \ {n} : done'[k] = done[k]
      /\ \A m \in Message : handler'[m] = IF m = h THEN "released" ELSE handler[m]
  BY <1>3 DEF SelectDone, TypeOK
<1>5. IsInjective(done'[n]) /\
      ToSet(done'[n]) = {m \in Message : Receiver(m) = n /\ handler'[m] = "blocked"}
  BY <1>1, <1>2, <1>3, <1>4
<1>6. ASSUME NEW k \in Node \ {n}
      PROVE  IsInjective(done'[k]) /\
             ToSet(done'[k]) = {m \in Message : Receiver(m) = k /\ handler'[m] = "blocked"}
  BY <1>3, <1>4 DEF QueueHoldsBlocked
<1>. QED
  BY <1>5, <1>6 DEF QueueHoldsBlocked

(* A handler that blocks enters the queue of its process, for the first    *)
(* time.                                                                   *)
LEMMA PushDoneQueue ==
  ASSUME TypeOK, QueueHoldsBlocked, NEW m \in Message, PushDone(m)
  PROVE  QueueHoldsBlocked'
<1>. DEFINE n == Receiver(m)
<1>1. n \in Node
  BY DEF Message, Request, Receiver
<1>2. done[n] \in Seq(Message) /\ IsInjective(done[n])
      /\ ToSet(done[n]) = {x \in Message : Receiver(x) = n /\ handler[x] = "blocked"}
  BY <1>1 DEF TypeOK, QueueHoldsBlocked
<1>3. m \notin ToSet(done[n])
  BY <1>2 DEF PushDone, HandlerAt
<1>4. IsInjective(Append(done[n], m)) /\ ToSet(Append(done[n], m)) = ToSet(done[n]) \cup {m}
  BY <1>2, <1>3, AppendDistinct
<1>5. /\ done'[n] = Append(done[n], m)
      /\ \A k \in Node \ {n} : done'[k] = done[k]
      /\ \A x \in Message : handler'[x] = IF x = m THEN "blocked" ELSE handler[x]
  BY <1>1 DEF PushDone, MoveTo, TypeOK
<1>6. IsInjective(done'[n]) /\
      ToSet(done'[n]) = {x \in Message : Receiver(x) = n /\ handler'[x] = "blocked"}
  BY <1>2, <1>4, <1>5
<1>7. ASSUME NEW k \in Node \ {n}
      PROVE  IsInjective(done'[k]) /\
             ToSet(done'[k]) = {x \in Message : Receiver(x) = k /\ handler'[x] = "blocked"}
  BY <1>5 DEF QueueHoldsBlocked
<1>. QED
  BY <1>6, <1>7 DEF QueueHoldsBlocked

(* Every other step leaves queues and blocked handlers alone.              *)
LEMMA StepQueue ==
  ASSUME TypeOK, QueueHoldsBlocked, Next
  PROVE  QueueHoldsBlocked'
<1>1. ASSUME UNCHANGED <<handler, done>>
      PROVE  QueueHoldsBlocked'
  BY <1>1 DEF QueueHoldsBlocked
<1>2. ASSUME NEW n \in Node, LoopStep(n)
      PROVE  QueueHoldsBlocked'
  BY <1>1, <1>2, SelectDoneQueue DEF LoopStep, Tick, SendRequest, SelectTimeout
<1>3. ASSUME NEW m \in Message, HandlerStep(m)
      PROVE  QueueHoldsBlocked'
  <2>1. CASE Receive(m)
    BY <2>1, QueueUnaffected DEF Receive, HandlerAt, MoveTo
  <2>2. CASE PushDone(m)
    BY <2>2, PushDoneQueue
  <2>3. ASSUME m[1] = "req", Reply(m[2])
        PROVE  QueueHoldsBlocked'
    <3>1. m = <<"req", m[2]>>
      BY <2>3 DEF Message
    <3>2. handler[m] # "blocked"
      BY <2>3, <3>1 DEF Reply, HandlerAt
    <3>3. UNCHANGED done /\ (UNCHANGED handler
            \/ \E place \in {"replied", "failed"} : handler' = [handler EXCEPT ![m] = place])
      BY <2>3, <3>1 DEF Reply, MoveTo
    <3>. QED
      BY <1>1, <3>2, <3>3, QueueUnaffected
  <2>4. ASSUME m[2] \in FlagRequest, UseFlag(m[2])
        PROVE  QueueHoldsBlocked'
    BY <1>1, <2>4 DEF UseFlag
  <2>. QED
    BY <1>3, <2>1, <2>2, <2>3, <2>4 DEF HandlerStep
<1>4. ASSUME NEW m \in Message, LoseMessage(m)
      PROVE  QueueHoldsBlocked'
  BY <1>1, <1>4 DEF LoseMessage
<1>5. ASSUME NEW p \in Pair, Disconnect(p) \/ Connect(p)
      PROVE  QueueHoldsBlocked'
  BY <1>1, <1>5 DEF Disconnect, Connect
<1>6. CASE AtRest
  BY <1>1, <1>6 DEF AtRest, vars
<1>. QED
  BY <1>2, <1>3, <1>4, <1>5, <1>6 DEF Next

-----------------------------------------------------------------------------
(* The order of the messages.                                              *)

(* A send settles its result, and only one that returns true sets the      *)
(* message on its way.                                                     *)
LEMMA SendEffect ==
  ASSUME TypeOK, NEW m \in Message, Sends(m) \/ CannotSend(m) \/ PanicsSending(m)
  PROVE  /\ result[m] = "none" /\ result'[m] # "none"
         /\ \A x \in Message \ {m} : result'[x] = result[x]
         /\ \A x \in inflight' : x \in inflight \/ (x = m /\ result'[m] = "true")
         /\ UNCHANGED deliveries
<1>. USE DEF TypeOK, Net!MessengerTypeOK
<1>1. CASE Sends(m)
  BY <1>1 DEF Sends, Net!SendTrue
<1>2. CASE CannotSend(m)
  BY <1>2 DEF CannotSend, Net!SendFalse, Net!SendNothing
<1>3. CASE PanicsSending(m)
  BY <1>3 DEF PanicsSending, Net!SendPanic, Net!SendNothing
<1>. QED
  BY <1>1, <1>2, <1>3

(* A step that sends nothing keeps the order if no handler starts or is    *)
(* forgotten, and no message is added.                                     *)
LEMMA NothingSent ==
  ASSUME MessagesInOrder, UNCHANGED <<result, deliveries>>, inflight' \subseteq inflight,
         \A m \in Message : handler'[m] = "none" <=> handler[m] = "none",
         \A q \in FlagRequest : at[q] = "answered" => at'[q] = "answered"
  PROVE  MessagesInOrder'
<1>1. \A q \in Request : <<"req", q>> \in Message /\ <<"rsp", q>> \in Message
  BY DEF Message
<1>. QED
  BY <1>1 DEF MessagesInOrder, HandledOnce, RepliedAfter

(* A step of a loop keeps the order: it sends a request of its own.        *)
LEMMA LoopStepOrder ==
  ASSUME TypeOK, LoopInRange, QueueHoldsBlocked, MessagesInOrder, NEW n \in Node, LoopStep(n)
  PROVE  MessagesInOrder'
<1>1. CASE Tick(n) \/ SelectTimeout(n)
  BY <1>1, NothingSent DEF Tick, SelectTimeout, netVars, flagVars
<1>2. CASE SelectDone(n)
  <2>1. Head(done[n]) \in Message /\ handler[Head(done[n])] = "blocked"
    BY <1>2, TailDistinct DEF SelectDone, QueueHoldsBlocked, TypeOK
  <2>2. \A m \in Message : handler'[m] = "none" <=> handler[m] = "none"
    BY <1>2, <2>1 DEF SelectDone, TypeOK
  <2>. QED
    BY <1>2, <2>2, NothingSent DEF SelectDone, netVars, flagVars
<1>3. CASE SendRequest(n)
  <2>. DEFINE m == Current(n)
  <2>1. m \in Message /\ m[1] = "req"
    BY <1>3, CurrentIsMessage DEF SendRequest, InPhase, TypeOK, LoopInv, Current
  <2>2. /\ result[m] = "none" /\ result'[m] # "none"
        /\ \A x \in Message \ {m} : result'[x] = result[x]
        /\ \A x \in inflight' : x \in inflight \/ (x = m /\ result'[m] = "true")
        /\ UNCHANGED <<deliveries, handler, at>>
    BY <1>3, <2>1, SendEffect DEF SendRequest, flagVars
  <2>3. handler[m] = "none"
    BY <2>1, <2>2 DEF MessagesInOrder, HandledOnce, RepliedAfter
  <2>4. \A q \in Request : <<"rsp", q>> \in Message \ {m}
    BY <2>1 DEF Message
  <2>. HIDE DEF m
  <2>. QED
    BY <2>1, <2>2, <2>3, <2>4 DEF MessagesInOrder, HandledOnce, RepliedAfter
<1>. QED
  BY <1>1, <1>2, <1>3 DEF LoopStep

(* A step of a handler keeps the order: it starts for a message that was   *)
(* sent, or sends its response.                                            *)
LEMMA HandlerStepOrder ==
  ASSUME TypeOK, MessagesInOrder, NEW m \in Message, HandlerStep(m)
  PROVE  MessagesInOrder'
<1>1. CASE Receive(m)
  <2>1. /\ m \in inflight /\ handler[m] = "none" /\ inflight' = inflight \ {m}
        /\ UNCHANGED <<result, at>>
        /\ handler'[m] = "running" /\ deliveries'[m] = deliveries[m] + 1
        /\ \A x \in Message \ {m} : handler'[x] = handler[x] /\ deliveries'[x] = deliveries[x]
    BY <1>1 DEF Receive, HandlerAt, MoveTo, Net!Handle, TypeOK, Net!MessengerTypeOK, flagVars
  <2>2. \A q \in Request : <<"req", q>> \in Message /\ <<"rsp", q>> \in Message
    BY DEF Message
  <2>3. result[m] = "true" /\ deliveries[m] = 0
    BY <2>1 DEF MessagesInOrder, HandledOnce, RepliedAfter
  <2>. QED
    BY <2>1, <2>2, <2>3 DEF MessagesInOrder, HandledOnce, RepliedAfter
<1>2. CASE PushDone(m)
  <2>1. \A x \in Message : handler'[x] = "none" <=> handler[x] = "none"
    BY <1>2 DEF PushDone, HandlerAt, MoveTo, TypeOK
  <2>. QED
    BY <1>2, <2>1, NothingSent DEF PushDone, netVars, flagVars
<1>3. ASSUME NEW q \in Request, Reply(q)
      PROVE  MessagesInOrder'
  <2>. DEFINE r == <<"rsp", q>>
  <2>1. r \in Message /\ <<"req", q>> \in Message
    BY DEF Message
  <2>2. /\ result[r] = "none" /\ result'[r] # "none"
        /\ \A x \in Message \ {r} : result'[x] = result[x]
        /\ \A x \in inflight' : x \in inflight \/ (x = r /\ result'[r] = "true")
        /\ UNCHANGED <<deliveries, at>>
    BY <1>3, <2>1, SendEffect DEF Reply, flagVars
  <2>3. handler[<<"req", q>>] = "running" /\ (q \in FlagRequest => at[q] = "answered")
    BY <1>3 DEF Reply, HandlerAt
  <2>4. \A x \in Message : handler'[x] = "none" <=> handler[x] = "none"
    BY <1>3, <2>1, <2>3 DEF Reply, MoveTo, TypeOK
  <2>5. handler[r] = "none"
    BY <2>1, <2>2 DEF MessagesInOrder, HandledOnce, RepliedAfter
  <2>6. \A p \in Request : <<"req", p>> \in Message \ {r} /\ <<"rsp", p>> \in Message
                         /\ (<<"rsp", p>> = r => p = q)
    BY DEF Message
  <2>. HIDE DEF r
  <2>7. \A x \in Message : HandledOnce(x)'
    BY <2>1, <2>2, <2>4, <2>5 DEF MessagesInOrder, HandledOnce
  <2>8. \A p \in Request : RepliedAfter(p)'
    BY <2>2, <2>3, <2>4, <2>6 DEF MessagesInOrder, RepliedAfter
  <2>. QED
    BY <2>7, <2>8 DEF MessagesInOrder
<1>4. ASSUME NEW q \in FlagRequest, UseFlag(q)
      PROVE  MessagesInOrder'
  <2>1. \A p \in FlagRequest : at[p] = "answered" => at'[p] = "answered"
    BY <1>4 DEF UseFlag, Flag!HandlerStep, Flag!Test, Flag!Write, Flag!Answer,
                TypeOK, Flag!ControlTypeOK
  <2>. QED
    BY <1>4, <2>1, NothingSent DEF UseFlag, netVars
<1>. QED
  BY <1>1, <1>2, <1>3, <1>4 DEF HandlerStep, Message

(* So does every step.                                                     *)
LEMMA StepOrder ==
  ASSUME TypeOK, LoopInRange, QueueHoldsBlocked, MessagesInOrder, Next
  PROVE  MessagesInOrder'
<1>1. ASSUME NEW m \in Message, LoseMessage(m)
      PROVE  MessagesInOrder'
  BY <1>1, NothingSent DEF LoseMessage, Net!Lose, flagVars
<1>2. ASSUME NEW p \in Pair, Disconnect(p) \/ Connect(p)
      PROVE  MessagesInOrder'
  BY <1>2, NothingSent DEF Disconnect, Connect, netVars, flagVars
<1>3. CASE AtRest
  BY <1>3, NothingSent DEF AtRest, vars, netVars, flagVars
<1>. QED
  BY <1>1, <1>2, <1>3, LoopStepOrder, HandlerStepOrder DEF Next

-----------------------------------------------------------------------------
(* The handlers let go and the exchanges that pay for them.                *)

(* The counts of OneReleasePerExchange are counts of finite sets.          *)
ReleasesPaid ==
  \A n \in Node :
    /\ IsFiniteSet(Exchanges(n)) /\ IsFiniteSet(Released(n))
    /\ Cardinality(Released(n)) + (IF Underway(n) THEN 1 ELSE 0) <= Cardinality(Exchanges(n))

(* The number of a finite set is one more with a new element.              *)
LEMMA OneMore ==
  ASSUME NEW S, NEW x, IsFiniteSet(S), x \notin S
  PROVE  /\ IsFiniteSet(S \cup {x}) /\ Cardinality(S) \in Nat
         /\ Cardinality(S \cup {x}) = Cardinality(S) + 1
  BY FS_AddElement, FS_CardinalityType

(* What a process has done is not touched by the steps of others.          *)
LEMMA SameAccount ==
  ASSUME ReleasesPaid, NEW n \in Node,
         Exchanges(n)' = Exchanges(n), Released(n)' = Released(n),
         Underway(n)' => Underway(n)
  PROVE  /\ IsFiniteSet(Exchanges(n))' /\ IsFiniteSet(Released(n))'
         /\ (Cardinality(Released(n)) + (IF Underway(n) THEN 1 ELSE 0)
               <= Cardinality(Exchanges(n)))'
<1>1. /\ IsFiniteSet(Exchanges(n)) /\ IsFiniteSet(Released(n))
      /\ Cardinality(Released(n)) \in Nat /\ Cardinality(Exchanges(n)) \in Nat
      /\ Cardinality(Released(n)) + (IF Underway(n) THEN 1 ELSE 0) <= Cardinality(Exchanges(n))
  BY FS_CardinalityType DEF ReleasesPaid
<1>. QED
  BY <1>1

(* A step that sends no request and lets no handler go changes no account. *)
LEMMA NothingPaid ==
  ASSUME ReleasesPaid,
         \A q \in Request : result'[<<"req", q>>] = result[<<"req", q>>],
         \A m \in Message : handler'[m] = "released" <=> handler[m] = "released",
         \A n \in Node : Underway(n)' => Underway(n)
  PROVE  ReleasesPaid'
<1>1. ASSUME NEW n \in Node
      PROVE  Exchanges(n)' = Exchanges(n) /\ Released(n)' = Released(n)
  BY DEF Exchanges, Released
<1>. QED
  BY <1>1, SameAccount DEF ReleasesPaid

(* A loop that takes a peer is not under way in an exchange, yet.          *)
LEMMA TakePeerPhase ==
  ASSUME TypeOK, NEW n \in Node, NEW peers, NEW r, TakePeer(n, peers, r)
  PROVE  ~Underway(n)' /\ \A k \in Node \ {n} : loop'[k] = loop[k]
<1>1. CASE peers = {}
  BY <1>1 DEF TakePeer, TypeOK, Idle, Underway
<1>2. CASE peers # {}
  <2>1. PICK p \in peers : loop' = [loop EXCEPT ![n] = Exchange(p, peers \ {p}, r)]
    BY <1>2 DEF TakePeer
  <2>. QED
    BY <2>1 DEF TypeOK, Exchange, Underway
<1>. QED
  BY <1>1, <1>2

(* The first request of an exchange pays for the handler at its end; the   *)
(* others go on with an exchange that has been paid.                       *)
LEMMA SendRequestPaid ==
  ASSUME TypeOK, LoopInRange, ReleasesPaid, NEW n \in Node, SendRequest(n)
  PROVE  ReleasesPaid'
<1>. DEFINE m == Current(n)
<1>1. /\ loop[n] \in LoopState /\ loop[n].phase = "sending"
      /\ m \in Message /\ m[1] = "req" /\ m[2] \in Request
      /\ m[2].from = n /\ m[2].step = loop[n].step /\ m = <<"req", m[2]>>
  BY CurrentIsMessage, MessageEnds DEF SendRequest, InPhase, TypeOK, LoopInv, Current
<1>2. /\ result[m] = "none" /\ result'[m] # "none"
      /\ \A x \in Message \ {m} : result'[x] = result[x]
      /\ UNCHANGED handler
  BY <1>1, SendEffect DEF SendRequest
<1>3. \A q \in Request : <<"req", q>> \in Message /\ (<<"req", q>> = m <=> q = m[2])
  BY <1>1 DEF Message
<1>4. /\ \A k \in Node \ {n} : loop'[k] = loop[k]
      /\ loop'[n] = loop[n] \/ loop'[n] = [loop[n] EXCEPT !.step = @ + 1]
           \/ loop'[n] = [loop[n] EXCEPT !.phase = "select"]
  BY DEF SendRequest, Advance, TypeOK
<1>. HIDE DEF m
<1>5. \A k \in Node : Released(k)' = Released(k)
  BY <1>2 DEF Released
<1>6. ASSUME NEW k \in Node \ {n}
      PROVE  Exchanges(k)' = Exchanges(k) /\ (Underway(k)' => Underway(k))
  BY <1>1, <1>2, <1>3, <1>4 DEF Exchanges, Underway
<1>7. CASE loop[n].step = 1
  <2>1. m[2] \notin Exchanges(n) /\ Exchanges(n)' = Exchanges(n) \cup {m[2]}
    BY <1>1, <1>2, <1>3, <1>7 DEF Exchanges
  <2>2. ~Underway(n)
    BY <1>1, <1>7 DEF Underway
  <2>3. /\ IsFiniteSet(Exchanges(n)) /\ IsFiniteSet(Released(n))
        /\ Cardinality(Released(n)) + 0 <= Cardinality(Exchanges(n))
        /\ Cardinality(Released(n)) \in Nat
    BY <2>2, FS_CardinalityType DEF ReleasesPaid
  <2>4. /\ IsFiniteSet(Exchanges(n))'
        /\ Cardinality(Exchanges(n))' = Cardinality(Exchanges(n)) + 1
        /\ Cardinality(Exchanges(n)) \in Nat
    BY <2>1, <2>3, OneMore
  <2>5. IsFiniteSet(Released(n))' /\ Cardinality(Released(n))' = Cardinality(Released(n))
    BY <1>5, <2>3
  <2>6. (Cardinality(Released(n)) + (IF Underway(n) THEN 1 ELSE 0)
           <= Cardinality(Exchanges(n)))'
    BY <2>3, <2>4, <2>5
  <2>. QED
    BY <1>5, <1>6, <2>4, <2>5, <2>6, SameAccount DEF ReleasesPaid
<1>8. CASE loop[n].step # 1
  <2>1. Exchanges(n)' = Exchanges(n)
    BY <1>1, <1>2, <1>3, <1>8 DEF Exchanges
  <2>2. Underway(n)
    BY <1>1, <1>8 DEF Underway, LoopState
  <2>. QED
    BY <1>5, <1>6, <2>1, <2>2, SameAccount DEF ReleasesPaid
<1>. QED
  BY <1>7, <1>8

(* The exchange that lets a handler go is over.                            *)
LEMMA SelectDonePaid ==
  ASSUME TypeOK, QueueHoldsBlocked, ReleasesPaid, NEW n \in Node, SelectDone(n)
  PROVE  ReleasesPaid'
<1>. DEFINE h == Head(done[n])
<1>1. h \in Message /\ Receiver(h) = n /\ handler[h] = "blocked"
  BY TailDistinct DEF SelectDone, QueueHoldsBlocked, TypeOK
<1>2. /\ \A k \in Node \ {n} : loop'[k] = loop[k]
      /\ \A x \in Message : handler'[x] = IF x = h THEN "released" ELSE handler[x]
      /\ UNCHANGED result
  BY <1>1 DEF SelectDone, TakePeer, TypeOK, netVars
<1>3. Underway(n) /\ ~Underway(n)'
  BY DEF SelectDone, InPhase, TakePeer, Underway, Idle, Exchange, TypeOK
<1>4. \A k \in Node : Exchanges(k)' = Exchanges(k)
  BY <1>2 DEF Exchanges
<1>. HIDE DEF h
<1>5. h \notin Released(n) /\ Released(n)' = Released(n) \cup {h}
  BY <1>1, <1>2 DEF Released
<1>6. ASSUME NEW k \in Node \ {n}
      PROVE  Released(k)' = Released(k) /\ (Underway(k)' => Underway(k))
  BY <1>1, <1>2 DEF Released, Underway
<1>7. /\ IsFiniteSet(Exchanges(n)) /\ IsFiniteSet(Released(n))
      /\ Cardinality(Released(n)) + 1 <= Cardinality(Exchanges(n))
  BY <1>3 DEF ReleasesPaid
<1>8. /\ IsFiniteSet(Exchanges(n))' /\ IsFiniteSet(Released(n))'
      /\ (Cardinality(Released(n)) + (IF Underway(n) THEN 1 ELSE 0)
            <= Cardinality(Exchanges(n)))'
  BY <1>3, <1>4, <1>5, <1>7, OneMore
<1>. QED
  BY <1>4, <1>6, <1>8, SameAccount DEF ReleasesPaid

(* Every step keeps the accounts.                                          *)
LEMMA StepPaid ==
  ASSUME TypeOK, LoopInRange, QueueHoldsBlocked, ReleasesPaid, Next
  PROVE  ReleasesPaid'
<1>1. ASSUME UNCHANGED <<result, handler, loop>>
      PROVE  ReleasesPaid'
  BY <1>1, NothingPaid DEF Underway
<1>2. ASSUME NEW n \in Node, Tick(n) \/ SelectTimeout(n)
      PROVE  ReleasesPaid'
  <2>1. \A k \in Node : Underway(k)' => Underway(k)
    <3>1. \E ps, r : TakePeer(n, ps, r)
      BY <1>2 DEF Tick, SelectTimeout
    <3>. QED
      BY <3>1, TakePeerPhase DEF Underway
  <2>. QED
    BY <1>2, <2>1, NothingPaid DEF Tick, SelectTimeout, netVars
<1>3. ASSUME NEW m \in Message, HandlerStep(m)
      PROVE  ReleasesPaid'
  <2>1. CASE Receive(m)
    BY <2>1, NothingPaid DEF Receive, HandlerAt, MoveTo, Net!Handle, Underway, TypeOK
  <2>2. CASE PushDone(m)
    BY <2>2, NothingPaid DEF PushDone, HandlerAt, MoveTo, netVars, Underway, TypeOK
  <2>3. ASSUME NEW q \in Request, Reply(q)
        PROVE  ReleasesPaid'
    <3>1. <<"rsp", q>> \in Message /\ <<"req", q>> \in Message
      BY DEF Message
    <3>2. \A p \in Request : <<"req", p>> \in Message \ {<<"rsp", q>>}
      BY DEF Message
    <3>3. \A p \in Request : result'[<<"req", p>>] = result[<<"req", p>>]
      BY <2>3, <3>1, <3>2, SendEffect DEF Reply
    <3>4. \A x \in Message : handler'[x] = "released" <=> handler[x] = "released"
      BY <2>3, <3>1 DEF Reply, HandlerAt, MoveTo, TypeOK
    <3>. QED
      BY <2>3, <3>3, <3>4, NothingPaid DEF Reply, Underway
  <2>4. ASSUME NEW q \in FlagRequest, UseFlag(q)
        PROVE  ReleasesPaid'
    BY <1>1, <2>4 DEF UseFlag, netVars
  <2>. QED
    BY <1>3, <2>1, <2>2, <2>3, <2>4 DEF HandlerStep, Message
<1>4. ASSUME NEW m \in Message, LoseMessage(m)
      PROVE  ReleasesPaid'
  BY <1>1, <1>4 DEF LoseMessage, Net!Lose
<1>5. ASSUME NEW p \in Pair, Disconnect(p) \/ Connect(p)
      PROVE  ReleasesPaid'
  BY <1>1, <1>5 DEF Disconnect, Connect, netVars
<1>6. CASE AtRest
  BY <1>1, <1>6 DEF AtRest, vars, netVars
<1>. QED
  BY <1>2, <1>3, <1>4, <1>5, <1>6, SendRequestPaid, SelectDonePaid DEF Next, LoopStep

-----------------------------------------------------------------------------
(* The requests of a loop, in the order of the script.                     *)

(* A request is known by its exchange and its step.                        *)
LEMMA SameRequest ==
  ASSUME NEW p \in Request, NEW q \in Request, SameExchange(p, q), p.step = q.step
  PROVE  p = q
  BY DEF Request, SameExchange

(* Nothing changes for requests whose node's loop and calls stay the same. *)
LEMMA SameScript ==
  ASSUME ScriptInOrder, NEW q \in Request, loop'[q.from] = loop[q.from], up' \subseteq up,
         \A p \in Request : p.from = q.from => result'[<<"req", p>>] = result[<<"req", p>>]
  PROVE  SentInOrder(q)'
<1>1. SentInOrder(q)
  BY DEF ScriptInOrder
<1>2. ASSUME NEW p \in Request, p.from = q.from
      PROVE  /\ Called(p)' = Called(p) /\ Settled(p)' = Settled(p)
             /\ Passed(p)' = Passed(p) /\ InExchange(p)' = InExchange(p)
             /\ ToCome(p)' = ToCome(p)
  BY <1>2 DEF Called, Settled, Passed, InExchange, ToCome
<1>3. Current(q.from)' = Current(q.from)
  BY DEF Current
<1>4. \A p \in Request : SameExchange(p, q) => p.from = q.from
  BY DEF SameExchange
<1>. QED
  BY <1>1, <1>2, <1>3, <1>4 DEF SentInOrder

(* Steps that neither send a request nor move a loop keep the order.       *)
LEMMA ScriptUntouched ==
  ASSUME ScriptInOrder, UNCHANGED loop, up' \subseteq up,
         \A p \in Request : result'[<<"req", p>>] = result[<<"req", p>>]
  PROVE  ScriptInOrder'
<1>1. \A q \in Request : SentInOrder(q)'
  BY SameScript
<1>2. \A n \in Node : loop'[n].phase # "idle" => loop'[n].peer \notin loop'[n].todo
  BY DEF ScriptInOrder
<1>. QED
  BY <1>1, <1>2 DEF ScriptInOrder

(* A loop that takes its next peer, or ends its tick, has gone past what   *)
(* it has sent.                                                            *)
LEMMA TakePeerScript ==
  ASSUME TypeOK, LoopInRange, ScriptInOrder, NEW n \in up, NEW peers, NEW r,
         \/ loop[n].phase = "idle" /\ r = loop[n].round + 1
         \/ loop[n].phase = "select" /\ r = loop[n].round /\ peers = loop[n].todo,
         TakePeer(n, peers, r), UNCHANGED <<up, result>>
  PROVE  ScriptInOrder'
<1>1. n \in Node /\ loop[n] \in LoopState
  BY DEF TypeOK
<1>2. /\ \A k \in Node \ {n} : loop'[k] = loop[k]
      /\ loop'[n].round = r
      /\ \/ loop'[n].phase = "idle" /\ peers = {}
         \/ /\ loop'[n].phase = "sending" /\ loop'[n].step = 1
            /\ loop'[n].peer \in peers /\ loop'[n].todo = peers \ {loop'[n].peer}
  <2>1. CASE peers = {}
    BY <1>1, <2>1 DEF TakePeer, Idle, TypeOK
  <2>2. CASE peers # {}
    <3>1. PICK p \in peers : loop' = [loop EXCEPT ![n] = Exchange(p, peers \ {p}, r)]
      BY <2>2 DEF TakePeer
    <3>. QED
      BY <1>1, <3>1 DEF Exchange, TypeOK
  <2>. QED
    BY <2>1, <2>2
<1>3. ASSUME NEW q \in Request, q.from = n, Called(q)'
      PROVE  Passed(q)'
  <2>1. Passed(q) /\ q.round \in Nat /\ q.to \in Node
    BY <1>3, BoundAssumption DEF ScriptInOrder, SentInOrder, Called, Request
  <2>2. loop[n].round \in Nat /\ (loop[n].phase # "idle" => loop[n].peer \notin loop[n].todo)
    BY <1>1, BoundAssumption DEF LoopState, ScriptInOrder
  <2>3. CASE loop[n].phase = "idle" /\ r = loop[n].round + 1
    BY <1>2, <1>3, <2>1, <2>2, <2>3 DEF Passed
  <2>4. CASE loop[n].phase = "select" /\ r = loop[n].round /\ peers = loop[n].todo
    BY <1>2, <1>3, <2>1, <2>2, <2>4 DEF Passed
  <2>. QED
    BY <2>3, <2>4
<1>4. ASSUME NEW q \in Request, q.from = n
      PROVE  SentInOrder(q)'
  <2>1. InExchange(q)' => ToCome(q)'
    BY <1>2, <1>4, ScriptAssumption DEF InExchange, ToCome, Request
  <2>2. ASSUME Called(q)', NEW p \in Request, SameExchange(p, q)
        PROVE  Settled(p)'
    <3>1. ~ToCome(p)
      BY <1>4, <2>2 DEF ToCome, SameExchange
    <3>. QED
      BY <2>2, <3>1 DEF ScriptInOrder, SentInOrder, Called, Settled
  <2>. QED
    BY <1>3, <1>4, <2>1, <2>2 DEF SentInOrder, SameExchange
<1>5. \A q \in Request \ {x \in Request : x.from = n} : SentInOrder(q)'
  <2>1. ASSUME NEW q \in Request, q.from # n
        PROVE  SentInOrder(q)'
    <3>1. q.from \in Node \ {n}
      BY <2>1 DEF Request
    <3>. QED
      BY <1>2, <3>1, SameScript
  <2>. QED
    BY <2>1
<1>6. \A k \in Node : loop'[k].phase # "idle" => loop'[k].peer \notin loop'[k].todo
  BY <1>2 DEF ScriptInOrder
<1>. QED
  BY <1>4, <1>5, <1>6 DEF ScriptInOrder

(* The request that is sent is the next one, and the loop goes past it.    *)
LEMMA SendRequestScript ==
  ASSUME TypeOK, LoopInRange, ScriptInOrder, NEW n \in Node, SendRequest(n)
  PROVE  ScriptInOrder'
<1>0. PICK c \in Request :
        /\ Current(n) = <<"req", c>>
        /\ c.from = n /\ c.to = loop[n].peer /\ c.round = loop[n].round /\ c.step = loop[n].step
  <2>1. Current(n) \in Message
    BY CurrentIsMessage DEF SendRequest, InPhase, TypeOK, LoopInv
  <2>. QED
    BY <2>1, MessageEnds DEF Current
<1>. DEFINE m == <<"req", c>>
<1>1. /\ n \in up /\ loop[n] \in LoopState /\ loop[n].phase = "sending"
      /\ m \in Message /\ m = <<"req", c>> /\ c \in Request /\ Current(n) = m
      /\ c.from = n /\ c.to = loop[n].peer /\ c.round = loop[n].round /\ c.step = loop[n].step
  BY <1>0 DEF SendRequest, InPhase, TypeOK, Message
<1>2. /\ \A k \in Node \ {n} : loop'[k] = loop[k]
      /\ loop'[n].todo = loop[n].todo /\ loop'[n].peer = loop[n].peer
      /\ loop'[n].round = loop[n].round
      /\ up' \subseteq up
  BY <1>1 DEF SendRequest, Advance, Sends, CannotSend, PanicsSending, TypeOK, LoopState
<1>3. /\ result[m] = "none" /\ \A x \in Message \ {m} : result'[x] = result[x]
      /\ \/ /\ result'[m] \in {"true", "false"} /\ up' = up
            /\ \/ /\ loop[n].step < Len(Script) /\ loop'[n].phase = "sending"
                  /\ loop'[n].step = loop[n].step + 1
               \/ /\ ~(loop[n].step < Len(Script)) /\ loop'[n].phase = "select"
                  /\ loop'[n].step = loop[n].step
         \/ /\ result'[m] = "panic" /\ n \notin up' /\ loop' = loop
  <2>1. ASSUME Sends(m) \/ CannotSend(m), Advance(n)
        PROVE  /\ result[m] = "none" /\ \A x \in Message \ {m} : result'[x] = result[x]
               /\ result'[m] \in {"true", "false"} /\ up' = up
               /\ \/ /\ loop[n].step < Len(Script) /\ loop'[n].phase = "sending"
                     /\ loop'[n].step = loop[n].step + 1
                  \/ /\ ~(loop[n].step < Len(Script)) /\ loop'[n].phase = "select"
                     /\ loop'[n].step = loop[n].step
    <3>1. /\ result[m] = "none" /\ \A x \in Message \ {m} : result'[x] = result[x]
          /\ result'[m] \in {"true", "false"} /\ up' = up
      BY <1>1, <2>1 DEF Sends, CannotSend, Net!SendTrue, Net!SendFalse, Net!SendNothing,
                        TypeOK, Net!MessengerTypeOK
    <3>2. \/ /\ loop[n].step < Len(Script) /\ loop'[n].phase = "sending"
             /\ loop'[n].step = loop[n].step + 1
          \/ /\ ~(loop[n].step < Len(Script)) /\ loop'[n].phase = "select"
             /\ loop'[n].step = loop[n].step
      BY <1>1, <2>1 DEF Advance, TypeOK, LoopState
    <3>. QED
      BY <3>1, <3>2
  <2>2. ASSUME PanicsSending(m), UNCHANGED loop
        PROVE  /\ result[m] = "none" /\ \A x \in Message \ {m} : result'[x] = result[x]
               /\ result'[m] = "panic" /\ n \notin up'
    <3>1. Sender(m) = n
      BY <1>1 DEF Sender
    <3>. QED
      BY <1>1, <2>2, <3>1 DEF PanicsSending, Net!SendPanic, Net!SendNothing, TypeOK,
                              Net!MessengerTypeOK
  <2>. QED
    BY <1>1, <2>1, <2>2 DEF SendRequest
<1>4. \A q \in Request : <<"req", q>> \in Message /\ (<<"req", q>> = m => q = c)
  BY <1>1 DEF Message
<1>5. loop[n].step \in 1..Len(Script) /\ loop[n].step \in Nat /\ Len(Script) \in Nat
  BY <1>1, ScriptAssumption DEF LoopState
<1>5a. \A q \in Request : q.step \in 1..Len(Script) /\ q.step \in Nat
  BY <1>5 DEF Request
<1>. HIDE DEF m
<1>6. /\ ~Called(c) /\ Called(c)'
      /\ \A p \in Request \ {c} : Called(p)' = Called(p) /\ Settled(p)' = Settled(p)
  BY <1>1, <1>3, <1>4 DEF Called, Settled
<1>7. \A p \in Request : InExchange(p) /\ p.from = n /\ p.step = loop[n].step => p = c
  BY <1>1, SameRequest DEF InExchange, SameExchange
<1>8. ASSUME NEW q \in Request, q.from = n
      PROVE  SentInOrder(q)'
  <2>1. CASE loop'[n].phase # "idle" /\ result'[m] \in {"true", "false"}
    <3>1. Settled(c)'
      BY <1>1, <2>1 DEF Settled
    <3>1a. /\ loop'[n].phase \in {"sending", "select"}
          /\ \A k \in 1..Len(Script) :
               k <= loop[n].step <=> (loop'[n].phase = "select" \/ k < loop'[n].step)
      BY <1>3, <1>5, <2>1
    <3>1b. \A p \in Request : p.from = n /\ p.round = loop[n].round /\ p.to = loop[n].peer
                           /\ p.step <= loop[n].step => Passed(p)'
      BY <1>2, <1>5a, <3>1a DEF Passed
    <3>1c. \A p \in Request : p.from = n /\ InExchange(p)' => InExchange(p)
      BY <1>1, <1>2 DEF InExchange
    <3>1d. ASSUME NEW p \in Request, p.from = n, InExchange(p)
           PROVE  ToCome(p)' <=> ~(p.step <= loop[n].step)
      <4>1. p.step \in 1..Len(Script)
        BY <1>5a
      <4>2. loop'[n].step \in Int
        BY <1>3, <1>5, <2>1
      <4>3. ToCome(p)' <=> (loop'[n].phase = "sending" /\ p.step >= loop'[n].step)
        BY <1>2, <3>1a, <3>1d DEF ToCome, InExchange
      <4>. QED
        BY <1>5, <3>1a, <4>1, <4>2, <4>3
    <3>2. Called(q)' => Passed(q)'
      <4>1. CASE q = c
        BY <1>1, <1>2, <1>3, <1>5, <2>1, <4>1 DEF Passed
      <4>2. CASE q # c /\ Called(q)
        <5>1. Passed(q)
          BY <1>1, <1>8, <4>2 DEF ScriptInOrder, SentInOrder
        <5>. QED
          <6>1. CASE q.round = loop[n].round /\ q.to = loop[n].peer
            <7>1. q.step < loop[n].step \/ q.to \notin loop[n].todo \cup {loop[n].peer}
              BY <1>1, <1>5, <1>8, <5>1, <6>1, BoundAssumption DEF Passed, LoopState
            <7>. QED
              BY <1>5, <1>8, <1>5a, <3>1b, <6>1, <7>1
          <6>2. CASE ~(q.round = loop[n].round /\ q.to = loop[n].peer)
            BY <1>1, <1>2, <1>8, <5>1, <6>2 DEF Passed
          <6>. QED
            BY <6>1, <6>2
      <4>. QED
        BY <1>6, <4>1, <4>2
    <3>3. InExchange(q)' /\ ~ToCome(q)' => Settled(q)'
      <4>1. ASSUME InExchange(q)', ~ToCome(q)'
            PROVE  InExchange(q) /\ (q.step = loop[n].step \/ ~ToCome(q))
        <5>1. InExchange(q) /\ q.step <= loop[n].step
          BY <1>8, <3>1c, <3>1d, <4>1
        <5>. QED
          BY <1>5, <1>5a, <1>8, <5>1 DEF ToCome
      <4>. QED
        BY <1>6, <1>7, <1>8, <3>1, <4>1 DEF ScriptInOrder, SentInOrder
    <3>4. ASSUME Called(q)', NEW p \in Request, SameExchange(p, q)
          PROVE  Settled(p)' \/ ToCome(p)'
      <4>1. p.from = n
        BY <1>8, <3>4 DEF SameExchange
      <4>2. Settled(p) \/ ToCome(p)
        <5>1. CASE q = c
          <6>1. InExchange(p)
            BY <1>1, <3>4, <5>1 DEF InExchange, SameExchange
          <6>. QED
            BY <6>1 DEF ScriptInOrder, SentInOrder
        <5>2. CASE q # c
          BY <1>6, <3>4, <5>2 DEF ScriptInOrder, SentInOrder
        <5>. QED
          BY <5>1, <5>2
      <4>3. CASE p # c /\ ToCome(p)
        <5>1. p.step # loop[n].step
          BY <1>7, <4>1, <4>3 DEF ToCome
        <5>2. InExchange(p) /\ p.step >= loop[n].step
          BY <4>1, <4>3 DEF ToCome
        <5>3. ~(p.step <= loop[n].step)
          BY <1>5, <1>5a, <5>1, <5>2
        <5>. QED
          BY <3>1d, <4>1, <5>2, <5>3
      <4>. QED
        BY <1>6, <3>1, <4>2, <4>3
    <3>. QED
      BY <3>2, <3>3, <3>4 DEF SentInOrder, SameExchange
  <2>2. CASE result'[m] = "panic" /\ n \notin up' /\ loop' = loop
    <3>1. ~Settled(c) /\ \A p \in Request : ToCome(p)' = ToCome(p)
      BY <1>1, <1>3, <2>2 DEF Settled, ToCome, InExchange
    <3>2. \A p \in Request : Settled(p) => Settled(p)'
      BY <1>6, <3>1
    <3>3. Called(q)' => Passed(q)' \/ (q.from \notin up' /\ Current(q.from)' = <<"req", q>>)
      <4>1. CASE q = c
        BY <1>1, <1>8, <2>2, <4>1 DEF Current
      <4>2. CASE q # c
        BY <1>1, <1>6, <1>8, <2>2, <4>2 DEF ScriptInOrder, SentInOrder, Passed
      <4>. QED
        BY <4>1, <4>2
    <3>4. InExchange(q)' /\ ~ToCome(q)' => Settled(q)'
      BY <2>2, <3>1, <3>2 DEF ScriptInOrder, SentInOrder, InExchange
    <3>5. ASSUME Called(q)', NEW p \in Request, SameExchange(p, q)
          PROVE  Settled(p)' \/ ToCome(p)'
      <4>1. CASE q = c
        <5>1. InExchange(p)
          BY <1>1, <3>5, <4>1 DEF InExchange, SameExchange
        <5>. QED
          BY <3>1, <3>2, <5>1 DEF ScriptInOrder, SentInOrder
      <4>2. CASE q # c
        BY <1>6, <3>1, <3>2, <3>5, <4>2 DEF ScriptInOrder, SentInOrder
      <4>. QED
        BY <4>1, <4>2
    <3>. QED
      BY <3>3, <3>4, <3>5 DEF SentInOrder, SameExchange
  <2>. QED
    BY <1>3, <1>1, <2>1, <2>2
<1>9. ASSUME NEW q \in Request, q.from # n
      PROVE  SentInOrder(q)'
  <2>1. q.from \in Node \ {n}
    BY <1>9 DEF Request
  <2>2. \A p \in Request : p.from = q.from => result'[<<"req", p>>] = result[<<"req", p>>]
    BY <1>1, <1>3, <1>4, <1>9
  <2>. QED
    BY <1>2, <2>1, <2>2, SameScript
<1>10. \A k \in Node : loop'[k].phase # "idle" => loop'[k].peer \notin loop'[k].todo
  BY <1>1, <1>2 DEF ScriptInOrder
<1>. QED
  BY <1>8, <1>9, <1>10 DEF ScriptInOrder

(* Every step keeps the order of the script.                               *)
LEMMA StepScript ==
  ASSUME TypeOK, LoopInRange, ScriptInOrder, Next
  PROVE  ScriptInOrder'
<1>1. ASSUME NEW n \in Node, LoopStep(n)
      PROVE  ScriptInOrder'
  <2>1. CASE Tick(n)
    BY <2>1, TakePeerScript DEF Tick, InPhase, netVars
  <2>2. CASE SelectDone(n)
    BY <2>2, TakePeerScript DEF SelectDone, InPhase, netVars
  <2>3. CASE SelectTimeout(n)
    BY <2>3, TakePeerScript DEF SelectTimeout, InPhase, netVars
  <2>. QED
    BY <1>1, <2>1, <2>2, <2>3, SendRequestScript DEF LoopStep
<1>2. ASSUME UNCHANGED <<loop, result, up>>
      PROVE  ScriptInOrder'
  BY <1>2, ScriptUntouched
<1>3. ASSUME NEW m \in Message, HandlerStep(m)
      PROVE  ScriptInOrder'
  <2>1. CASE Receive(m) \/ PushDone(m)
    BY <1>2, <2>1 DEF Receive, PushDone, Net!Handle, netVars
  <2>2. ASSUME NEW q \in Request, Reply(q)
        PROVE  ScriptInOrder'
    <3>1. <<"rsp", q>> \in Message /\ \A p \in Request : <<"req", p>> \in Message \ {<<"rsp", q>>}
      BY DEF Message
    <3>2. \A p \in Request : result'[<<"req", p>>] = result[<<"req", p>>]
      BY <2>2, <3>1, SendEffect DEF Reply
    <3>3. UNCHANGED loop /\ up' \subseteq up
      BY <2>2 DEF Reply, Sends, CannotSend, PanicsSending
    <3>. QED
      BY <3>2, <3>3, ScriptUntouched
  <2>3. ASSUME NEW q \in FlagRequest, UseFlag(q)
        PROVE  ScriptInOrder'
    BY <1>2, <2>3 DEF UseFlag, netVars
  <2>. QED
    BY <1>3, <2>1, <2>2, <2>3 DEF HandlerStep, Message
<1>4. ASSUME NEW m \in Message, LoseMessage(m)
      PROVE  ScriptInOrder'
  BY <1>2, <1>4 DEF LoseMessage, Net!Lose
<1>5. ASSUME NEW p \in Pair, Disconnect(p) \/ Connect(p)
      PROVE  ScriptInOrder'
  BY <1>2, <1>5 DEF Disconnect, Connect, netVars
<1>6. CASE AtRest
  BY <1>2, <1>6 DEF AtRest, vars, netVars
<1>. QED
  BY <1>1, <1>3, <1>4, <1>5, <1>6 DEF Next

-----------------------------------------------------------------------------
(* The streams and who asked for them.                                     *)

(* A handler deals with the flag after its message came; a flag that is on *)
(* was set by the handler of a start that saw no stream.                   *)
SetByStart(q, n) ==
  q.to = n /\ KindOf(q) = "start" /\ at[q] \in {"written", "answered"} /\ ~saw[q]
FlagInOrder ==
  /\ \A q \in FlagRequest : at[q] # "idle" => handler[<<"req", q>>] # "none"
  /\ \A n \in Node : isStreaming[n] => \E q \in FlagRequest : SetByStart(q, n)

(* A handler that has started is never back at its beginning.              *)
LEMMA HandlersStarted ==
  ASSUME TypeOK, QueueHoldsBlocked, Next, NEW m \in Message, handler[m] # "none"
  PROVE  handler'[m] # "none"
<1>1. CASE UNCHANGED handler
  BY <1>1
<1>2. ASSUME NEW n \in Node, SelectDone(n)
      PROVE  handler'[m] # "none"
  BY <1>2 DEF SelectDone, TypeOK
<1>3. ASSUME NEW x \in Message, Receive(x) \/ PushDone(x)
      PROVE  handler'[m] # "none"
  BY <1>3 DEF Receive, PushDone, MoveTo, TypeOK
<1>4. ASSUME NEW q \in Request, Reply(q)
      PROVE  handler'[m] # "none"
  BY <1>4 DEF Reply, MoveTo, TypeOK
<1>5. CASE \E n \in Node : LoopStep(n)
  BY <1>1, <1>2, <1>5 DEF LoopStep, Tick, SendRequest, SelectTimeout
<1>6. CASE \E x \in Message : HandlerStep(x) \/ LoseMessage(x)
  BY <1>1, <1>3, <1>4, <1>6 DEF HandlerStep, LoseMessage, UseFlag, Message
<1>7. CASE \E p \in Pair : Disconnect(p) \/ Connect(p)
  BY <1>1, <1>7 DEF Disconnect, Connect
<1>8. CASE AtRest
  BY <1>1, <1>8 DEF AtRest, vars
<1>. QED
  BY <1>5, <1>6, <1>7, <1>8 DEF Next

(* The flag and its handlers change in their own steps only.               *)
LEMMA FlagSteps ==
  ASSUME [Next]_vars
  PROVE  UNCHANGED flagVars \/ \E q \in FlagRequest : UseFlag(q)
<1>1. CASE UNCHANGED vars
  BY <1>1 DEF vars
<1>2. CASE \E n \in Node : LoopStep(n)
  BY <1>2 DEF LoopStep, Tick, SendRequest, SelectDone, SelectTimeout
<1>3. CASE \E x \in Message : HandlerStep(x) \/ LoseMessage(x)
  BY <1>3 DEF HandlerStep, LoseMessage, Receive, PushDone, Reply
<1>4. CASE \E p \in Pair : Disconnect(p) \/ Connect(p)
  BY <1>4 DEF Disconnect, Connect
<1>5. CASE AtRest
  BY <1>5 DEF AtRest, vars
<1>. QED
  BY <1>1, <1>2, <1>3, <1>4, <1>5 DEF Next

(* An access to the flag leaves a start for every flag that is on.         *)
LEMMA UseFlagSetByStart ==
  ASSUME TypeOK, FlagInOrder, NEW q \in FlagRequest, UseFlag(q),
         NEW n \in Node, isStreaming'[n]
  PROVE  \E p \in FlagRequest : SetByStart(p, n)'
<1>. USE DEF TypeOK, Flag!ControlTypeOK, FlagInOrder, SetByStart
<1>1. CASE Flag!Test(q)
  BY <1>1 DEF Flag!Test
<1>2. CASE Flag!Answer(q)
  BY <1>2 DEF Flag!Answer
<1>3. CASE Flag!Write(q)
  <2>1. q.to \in Node
    BY DEF FlagRequest, Request
  <2>2. \A p \in FlagRequest : SetByStart(p, n) => SetByStart(p, n)'
    BY <1>3 DEF Flag!Write
  <2>3. CASE isStreaming[n]
    BY <2>2, <2>3
  <2>4. CASE ~isStreaming[n]
    <3>1. n = q.to /\ KindOf(q) = "start"
      BY <1>3, <2>1, <2>4 DEF Flag!Write, Flag!Written
    <3>2. SetByStart(q, n)'
      BY <1>3, <3>1 DEF Flag!Write, Flag!MustWrite
    <3>. QED
      BY <3>2
  <2>. QED
    BY <2>3, <2>4
<1>. QED
  BY <1>1, <1>2, <1>3 DEF UseFlag, Flag!HandlerStep

(* Every step keeps the flags in order.                                    *)
LEMMA StepFlag ==
  ASSUME TypeOK, QueueHoldsBlocked, FlagInOrder, Next
  PROVE  FlagInOrder'
<1>1. \A q \in FlagRequest : <<"req", q>> \in Message
  BY DEF FlagRequest, Message
<1>2. CASE UNCHANGED flagVars
  BY <1>1, <1>2, HandlersStarted DEF FlagInOrder, SetByStart, flagVars
<1>3. ASSUME NEW q \in FlagRequest, UseFlag(q)
      PROVE  FlagInOrder'
  <2>1. handler[<<"req", q>>] = "running" /\ UNCHANGED handler
        /\ \A p \in FlagRequest \ {q} : at'[p] = at[p]
    BY <1>3 DEF UseFlag, HandlerAt, Flag!HandlerStep, Flag!Test, Flag!Write, Flag!Answer,
                TypeOK, Flag!ControlTypeOK
  <2>. QED
    BY <1>3, <2>1, UseFlagSetByStart DEF FlagInOrder
<1>. QED
  BY <1>2, <1>3, FlagSteps

-----------------------------------------------------------------------------
(* The theorems.                                                           *)

(* At the start every loop is idle and no handler runs.                    *)
LEMMA InitPingInv == Init => PingInv
<1>. SUFFICES ASSUME Init PROVE PingInv
  OBVIOUS
<1>1. \A n \in Node : Idle(n, 0) \in LoopState
  BY ScriptAssumption, BoundAssumption DEF Idle, LoopState
<1>2. Net!MessengerTypeOK
  BY DEF Init, Net!MessengerInit, Net!MessengerTypeOK, Net!Result
<1>3. Flag!ControlTypeOK
  BY DEF Init, Flag!ControlInit, Flag!ControlTypeOK
<1>4. TypeOK
  BY <1>1, <1>2, <1>3, BoundAssumption DEF Init, TypeOK
<1>5. LoopInRange
  BY BoundAssumption DEF Init, LoopInRange, Idle
<1>6. QueueHoldsBlocked
  <2>1. IsInjective(<<>>) /\ ToSet(<<>>) = {}
    BY DEF IsInjective, ToSet
  <2>. QED
    BY <2>1 DEF Init, QueueHoldsBlocked
<1>7. MessagesInOrder
  BY DEF Init, Net!MessengerInit, MessagesInOrder, HandledOnce, RepliedAfter, Message
<1>. QED
  BY <1>4, <1>5, <1>6, <1>7 DEF PingInv

(* Every reachable state satisfies the inductive invariant.                *)
THEOREM PingInvariance == Spec => []PingInv
<1>1. PingInv /\ [Next]_vars => PingInv'
  <2>1. ASSUME PingInv, UNCHANGED vars
        PROVE  PingInv'
    <3>1. TypeOK' /\ LoopInRange' /\ QueueHoldsBlocked'
      BY <2>1 DEF PingInv, vars, netVars, flagVars, TypeOK, LoopInRange, QueueHoldsBlocked,
                  Net!MessengerTypeOK, Flag!ControlTypeOK
    <3>2. MessagesInOrder'
      BY <2>1, NothingSent DEF PingInv, vars, netVars, flagVars
    <3>. QED
      BY <3>1, <3>2 DEF PingInv
  <2>2. ASSUME PingInv, Next
        PROVE  PingInv'
    <3>1. CASE AtRest
      BY <2>1, <2>2, <3>1 DEF AtRest
    <3>2. CASE ~AtRest
      BY <2>2, <3>2, LoopStepType, HandlerStepType, NetworkStepType, StepQueue,
         StepOrder
         DEF PingInv, Next
    <3>. QED
      BY <3>1, <3>2
  <2>. QED
    BY <2>1, <2>2
<1>. QED
  BY <1>1, InitPingInv, PTL DEF Spec

(* The variables keep their types, and with them the bounds of the loop.   *)
THEOREM PingTypeCorrect == Spec => []TypeOK
<1>1. PingInv => TypeOK
  BY DEF PingInv
<1>. QED
  BY <1>1, PingInvariance, PTL

(* A receive from done always wakes a handler that waits on it, and no     *)
(* waiting handler is forgotten: it stays in its process's queue.          *)
THEOREM QueueHoldsBlockedHolds == Spec => []QueueHoldsBlocked
<1>1. PingInv => QueueHoldsBlocked
  BY DEF PingInv
<1>. QED
  BY <1>1, PingInvariance, PTL

(* A response is sent only for a request that was handled, once, and has   *)
(* settled its answer about the stream.                                    *)
THEOREM RepliesFollowRequestsHolds == Spec => []RepliesFollowRequests
<1>1. PingInv => RepliesFollowRequests
  <2>1. \A q \in Request : <<"req", q>> \in Message
    BY DEF Message
  <2>. QED
    BY <2>1 DEF PingInv, MessagesInOrder, HandledOnce, RepliedAfter, RepliesFollowRequests
<1>. QED
  BY <1>1, PingInvariance, PTL

(* The accounts of handlers and exchanges are kept.                        *)
LEMMA ReleasesPaidHolds == Spec => []ReleasesPaid
<1>1. Init => ReleasesPaid
  <2>1. Init => \A n \in Node : Exchanges(n) = {} /\ Released(n) = {} /\ ~Underway(n)
    BY DEF Init, Net!MessengerInit, Exchanges, Released, Underway, Idle, Message
  <2>. QED
    BY <2>1, FS_EmptySet DEF ReleasesPaid
<1>2. PingInv /\ ReleasesPaid /\ [Next]_vars => ReleasesPaid'
  <2>1. ASSUME ReleasesPaid, UNCHANGED vars
        PROVE  ReleasesPaid'
    BY <2>1, NothingPaid DEF vars, netVars, Underway
  <2>. QED
    BY <2>1, StepPaid DEF PingInv
<1>. QED
  BY <1>1, <1>2, PingInvariance, PTL DEF Spec

(* However many messages it sets off, an exchange lets go of at most one   *)
(* handler that waits on done.                                             *)
THEOREM OneReleasePerExchangeHolds == Spec => []OneReleasePerExchange
<1>1. ReleasesPaid => OneReleasePerExchange
  BY DEF ReleasesPaid, OneReleasePerExchange
<1>. QED
  BY <1>1, ReleasesPaidHolds, PTL

(* A loop sends the script of each exchange in order, each request once,   *)
(* and to the end.                                                         *)
THEOREM ScriptInOrderHolds == Spec => []ScriptInOrder
<1>1. Init => ScriptInOrder
  <2>1. Init => \A q \in Request : ~Called(q) /\ ~InExchange(q)
    BY DEF Init, Net!MessengerInit, Message, Called, InExchange, Idle, Request
  <2>2. Init => \A n \in Node : loop[n].phase = "idle"
    BY DEF Init, Idle
  <2>. QED
    BY <2>1, <2>2 DEF ScriptInOrder, SentInOrder
<1>2. PingInv /\ ScriptInOrder /\ [Next]_vars => ScriptInOrder'
  <2>1. ASSUME ScriptInOrder, UNCHANGED vars
        PROVE  ScriptInOrder'
    BY <2>1, ScriptUntouched DEF vars, netVars
  <2>. QED
    BY <2>1, StepScript DEF PingInv
<1>. QED
  BY <1>1, <1>2, PingInvariance, PTL DEF Spec

(* An exchange is completed by the token of a peer's request or of an      *)
(* answer to something already sent, never ahead of the loop.              *)
THEOREM TokensArePastHolds == Spec => TokensArePast
<1>. DEFINE FromThePast(n) ==
       LET m == Head(done[n])
       IN  IF m[1] = "req" THEN m[2].to = n ELSE m[2].from = n /\ Passed(m[2])
<1>1. ASSUME PingInv, ScriptInOrder, NEW n \in Node, SelectDone(n)
      PROVE  FromThePast(n)
  <2>. DEFINE m == Head(done[n])
  <2>1. m \in Message /\ Receiver(m) = n /\ handler[m] = "blocked"
    BY <1>1, TailDistinct DEF SelectDone, PingInv, QueueHoldsBlocked, TypeOK
  <2>2. CASE m[1] = "req"
    BY <2>1, <2>2 DEF Receiver
  <2>3. CASE m[1] # "req"
    <3>1. m[2] \in Request /\ m = <<"rsp", m[2]>> /\ m[2].from = n /\ <<"req", m[2]>> \in Message
      BY <2>1, <2>3 DEF Receiver, Message
    <3>. DEFINE q == m[2]
    <3>2. result[<<"rsp", q>>] # "none"
      BY <1>1, <2>1, <3>1 DEF PingInv, MessagesInOrder, HandledOnce
    <3>. HIDE DEF m
    <3>3. handler[<<"req", q>>] # "none"
      BY <1>1, <3>1, <3>2 DEF PingInv, MessagesInOrder, RepliedAfter
    <3>4. Called(q)
      BY <1>1, <3>1, <3>3 DEF PingInv, MessagesInOrder, HandledOnce, Called
    <3>5. Passed(q)
      BY <1>1, <3>1, <3>4 DEF ScriptInOrder, SentInOrder, SelectDone, InPhase
    <3>. QED
      BY <2>3, <3>1, <3>5 DEF m
  <2>. QED
    BY <2>2, <2>3
<1>2. PingInv /\ ScriptInOrder /\ [Next]_vars => [\A n \in Node : SelectDone(n) => FromThePast(n)]_vars
  BY <1>1
<1>. QED
  BY <1>2, PingInvariance, ScriptInOrderHolds, PTL DEF Spec, TokensArePast

(* A process keeps the handlers that came to its channel, but for as many  *)
(* as it has had exchanges.                                                *)
THEOREM HandlersPileUpHolds == Spec => []HandlersPileUp
<1>1. ASSUME PingInv, ReleasesPaid, NEW n \in Node
      PROVE  Cardinality({m \in Message : Receiver(m) = n /\ handler[m] \in {"blocked", "released"}})
               <= Len(done[n]) + Cardinality(Exchanges(n))
  <2>. DEFINE Waiting == ToSet(done[n])
  <2>1. {m \in Message : Receiver(m) = n /\ handler[m] \in {"blocked", "released"}}
          = Waiting \cup Released(n)
    BY <1>1 DEF PingInv, QueueHoldsBlocked, Released
  <2>2. IsFiniteSet(Waiting) /\ Cardinality(Waiting) = Len(done[n]) /\ Len(done[n]) \in Nat
    BY <1>1, DistinctLength DEF PingInv, QueueHoldsBlocked, TypeOK
  <2>3. /\ IsFiniteSet(Exchanges(n)) /\ IsFiniteSet(Released(n))
        /\ Cardinality(Exchanges(n)) \in Nat /\ Cardinality(Released(n)) \in Nat
        /\ Cardinality(Released(n)) <= Cardinality(Exchanges(n))
    BY <1>1, FS_CardinalityType DEF ReleasesPaid
  <2>. HIDE DEF Waiting
  <2>4. Cardinality(Waiting \cup Released(n)) <= Cardinality(Waiting) + Cardinality(Released(n))
    <3>1. IsFiniteSet(Waiting \cap Released(n))
      BY <2>2, FS_Intersection
    <3>2. Cardinality(Waiting \cap Released(n)) \in Nat
      BY <3>1, FS_CardinalityType
    <3>3. Cardinality(Waiting \cup Released(n)) =
            Cardinality(Waiting) + Cardinality(Released(n)) - Cardinality(Waiting \cap Released(n))
      BY <2>2, <2>3, FS_Union
    <3>4. Cardinality(Waiting) \in Nat
      BY <2>2
    <3>. QED
      BY <2>3, <3>2, <3>3, <3>4
  <2>5. Cardinality(Waiting \cup Released(n)) \in Nat
    BY <2>2, <2>3, FS_Union, FS_CardinalityType
  <2>6. Cardinality(Waiting \cup Released(n)) <= Len(done[n]) + Cardinality(Exchanges(n))
    BY <2>2, <2>3, <2>4, <2>5
  <2>. QED
    BY <2>1, <2>6
<1>2. PingInv /\ ReleasesPaid => HandlersPileUp
  BY <1>1 DEF HandlersPileUp
<1>. QED
  BY <1>2, PingInvariance, ReleasesPaidHolds, PTL

(* A process streams only after a peer has asked it to.                    *)
THEOREM StreamsWereAskedHolds == Spec => []StreamsWereAsked
<1>1. Init => FlagInOrder
  BY DEF Init, Flag!ControlInit, FlagInOrder
<1>2. PingInv /\ FlagInOrder /\ [Next]_vars => FlagInOrder'
  <2>1. ASSUME FlagInOrder, UNCHANGED vars
        PROVE  FlagInOrder'
    BY <2>1 DEF FlagInOrder, SetByStart, vars, flagVars
  <2>. QED
    BY <2>1, StepFlag DEF PingInv
<1>3. PingInv /\ FlagInOrder => StreamsWereAsked
  <2>1. ASSUME PingInv, FlagInOrder, NEW q \in FlagRequest, NEW n \in Node, SetByStart(q, n)
        PROVE  Settled(q) /\ deliveries[<<"req", q>>] = 1
    <3>1. <<"req", q>> \in Message /\ handler[<<"req", q>>] # "none"
      BY <2>1 DEF FlagRequest, Message, FlagInOrder, SetByStart
    <3>. QED
      BY <2>1, <3>1 DEF PingInv, MessagesInOrder, HandledOnce, Settled
  <2>. QED
    BY <2>1 DEF FlagInOrder, SetByStart, StreamsWereAsked
<1>. QED
  BY <1>1, <1>2, <1>3, PingInvariance, PTL DEF Spec

(* A step that sends no request and no response, and starts no handler, is *)
(* none of RequestTable.                                                   *)
LEMMA NothingAnswered ==
  ASSUME UNCHANGED result, \A m \in Message : handler'[m] = "none" <=> handler[m] = "none"
  PROVE  UNCHANGED Table!tableVars
<1>1. \A q \in Request : StatusOf(q)' = StatusOf(q)
  BY DEF StatusOf, Called, Message
<1>. QED
  BY <1>1 DEF Table!tableVars

(* The call for a request asks, whatever it returns.                       *)
LEMMA SendRequestAsks ==
  ASSUME PingInv, NEW n \in Node, SendRequest(n)
  PROVE  Table!TableNext
<1>1. PICK q \in Request : Current(n) = <<"req", q>>
  BY CurrentIsMessage DEF SendRequest, InPhase, PingInv, TypeOK, LoopInv, Current, Message
<1>2. \A p \in Request : <<"req", p>> \in Message /\ <<"rsp", p>> \in Message
                         /\ <<"rsp", p>> # <<"req", q>> /\ (<<"req", p>> = <<"req", q>> => p = q)
  BY DEF Message
<1>3. /\ result[<<"req", q>>] = "none" /\ result'[<<"req", q>>] # "none"
      /\ \A x \in Message \ {<<"req", q>>} : result'[x] = result[x]
      /\ UNCHANGED handler
  BY <1>1, <1>2, SendEffect DEF SendRequest, PingInv
<1>4. handler[<<"rsp", q>>] = "none"
  BY <1>2, <1>3 DEF PingInv, MessagesInOrder, HandledOnce, RepliedAfter
<1>5. StatusOf(q) = "new" /\ StatusOf(q)' = "pending"
  BY <1>3, <1>4 DEF StatusOf, Called
<1>6. \A p \in Request \ {q} : StatusOf(p)' = StatusOf(p)
  BY <1>2, <1>3 DEF StatusOf, Called
<1>7. Table!Ask(q)
  BY <1>2, <1>3, <1>5, <1>6 DEF Table!Ask
<1>. QED
  BY <1>7 DEF Table!TableNext

(* The handler of a request serves it when its response is sent.           *)
LEMMA ReplyServes ==
  ASSUME PingInv, NEW q \in Request, Reply(q)
  PROVE  [Table!TableNext]_(Table!tableVars)
<1>1. \A p \in Request : <<"req", p>> \in Message /\ <<"rsp", p>> \in Message
                         /\ <<"req", p>> # <<"rsp", q>> /\ (<<"rsp", p>> = <<"rsp", q>> => p = q)
  BY DEF Message
<1>2. /\ result[<<"rsp", q>>] = "none"
      /\ \A x \in Message \ {<<"rsp", q>>} : result'[x] = result[x]
  BY <1>1, SendEffect DEF Reply, PingInv
<1>3. \A x \in Message : handler'[x] = "none" <=> handler[x] = "none"
  BY <1>1 DEF Reply, HandlerAt, MoveTo, PingInv, TypeOK
<1>4. \A p \in Request : StatusOf(p)' = StatusOf(p)
  BY <1>1, <1>2, <1>3 DEF StatusOf, Called
<1>5. StatusOf(q) # "new"
  BY <1>1 DEF Reply, HandlerAt, PingInv, MessagesInOrder, HandledOnce, StatusOf, Called
<1>6. CASE result'[<<"rsp", q>>] = "true"
  <2>1. Table!Serve(q)
    BY <1>1, <1>2, <1>4, <1>5, <1>6 DEF Table!Serve
  <2>. QED
    BY <2>1 DEF Table!TableNext
<1>7. CASE result'[<<"rsp", q>>] # "true"
  BY <1>1, <1>2, <1>4, <1>7 DEF Table!tableVars
<1>. QED
  BY <1>6, <1>7

(* The handler of a response answers; that of a request changes nothing.   *)
LEMMA ReceiveAnswers ==
  ASSUME PingInv, NEW m \in Message, Receive(m)
  PROVE  [Table!TableNext]_(Table!tableVars)
<1>1. PICK q \in Request : m = <<"req", q>> \/ m = <<"rsp", q>>
  BY DEF Message
<1>2. \A p \in Request : <<"req", p>> \in Message /\ <<"rsp", p>> \in Message
                         /\ <<"rsp", p>> # <<"req", q>> /\ (<<"rsp", p>> = <<"rsp", q>> => p = q)
  BY DEF Message
<1>3. /\ m \in inflight /\ handler[m] = "none" /\ handler'[m] = "running"
      /\ \A x \in Message \ {m} : handler'[x] = handler[x]
      /\ UNCHANGED result
  BY DEF Receive, HandlerAt, MoveTo, Net!Handle, PingInv, TypeOK
<1>4. CASE m = <<"req", q>>
  <2>1. \A p \in Request : StatusOf(p)' = StatusOf(p)
    BY <1>2, <1>3, <1>4 DEF StatusOf, Called
  <2>. QED
    BY <1>3, <2>1 DEF Table!tableVars
<1>5. CASE m = <<"rsp", q>>
  <2>1. result[<<"rsp", q>>] = "true"
    BY <1>3, <1>5 DEF PingInv, MessagesInOrder, HandledOnce
  <2>2. Called(q)
    BY <1>2, <2>1 DEF PingInv, MessagesInOrder, HandledOnce, RepliedAfter, Called
  <2>3. StatusOf(q) = "pending" /\ StatusOf(q)' = "answered"
    BY <1>3, <1>5, <2>2 DEF StatusOf, Called
  <2>4. \A p \in Request \ {q} : StatusOf(p)' = StatusOf(p)
    BY <1>2, <1>3, <1>5 DEF StatusOf, Called
  <2>5. Table!Answer(q)
    BY <1>3, <2>1, <2>3, <2>4 DEF Table!Answer
  <2>. QED
    BY <2>5 DEF Table!TableNext
<1>. QED
  BY <1>1, <1>4, <1>5

(* The exchange implements RequestTable: each request is answered at most  *)
(* once, after it was made and after its peer has sent the answer.         *)
THEOREM AnswersHolds == Spec => Answers
<1>1. Init => Table!TableInit
  BY DEF Init, Net!MessengerInit, Table!TableInit, StatusOf, Called, Message
<1>2. PingInv /\ [Next]_vars => [Table!TableNext]_(Table!tableVars)
  <2>. SUFFICES ASSUME PingInv, [Next]_vars
                PROVE  [Table!TableNext]_(Table!tableVars)
    OBVIOUS
  <2>1. CASE UNCHANGED <<result, handler>>
    BY <2>1, NothingAnswered
  <2>2. ASSUME NEW n \in Node, LoopStep(n)
        PROVE  [Table!TableNext]_(Table!tableVars)
    <3>1. CASE SelectDone(n)
      <4>1. Head(done[n]) \in Message /\ handler[Head(done[n])] = "blocked"
        BY <3>1, TailDistinct DEF SelectDone, QueueHoldsBlocked, TypeOK, PingInv
      <4>2. \A m \in Message : handler'[m] = "none" <=> handler[m] = "none"
        BY <3>1, <4>1 DEF SelectDone, TypeOK, PingInv
      <4>. QED
        BY <3>1, <4>2, NothingAnswered DEF SelectDone, netVars
    <3>. QED
      BY <2>1, <2>2, <3>1, SendRequestAsks DEF LoopStep, Tick, SelectTimeout, netVars
  <2>3. ASSUME NEW m \in Message, HandlerStep(m)
        PROVE  [Table!TableNext]_(Table!tableVars)
    <3>1. CASE PushDone(m)
      <4>1. \A x \in Message : handler'[x] = "none" <=> handler[x] = "none"
        BY <3>1 DEF PushDone, HandlerAt, MoveTo, TypeOK, PingInv
      <4>. QED
        BY <3>1, <4>1, NothingAnswered DEF PushDone, netVars
    <3>2. CASE m[2] \in FlagRequest /\ UseFlag(m[2])
      BY <2>1, <3>2 DEF UseFlag, netVars
    <3>3. CASE Reply(m[2])
      BY <3>3, ReplyServes DEF Message
    <3>. QED
      BY <2>3, <3>1, <3>2, <3>3, ReceiveAnswers DEF HandlerStep
  <2>4. ASSUME NEW m \in Message, LoseMessage(m)
        PROVE  UNCHANGED <<result, handler>>
    BY <2>4 DEF LoseMessage, Net!Lose
  <2>5. ASSUME NEW p \in Pair, Disconnect(p) \/ Connect(p)
        PROVE  UNCHANGED <<result, handler>>
    BY <2>5 DEF Disconnect, Connect, netVars
  <2>6. AtRest \/ UNCHANGED vars => UNCHANGED <<result, handler>>
    BY DEF AtRest, vars, netVars
  <2>. QED
    BY <2>1, <2>2, <2>3, <2>4, <2>5, <2>6 DEF Next
<1>. QED
  BY <1>1, <1>2, PingInvariance, PTL DEF Spec, Answers, Table!TableSpec
=============================================================================
