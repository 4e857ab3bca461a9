----------------------------- MODULE StreamPing -----------------------------
(***************************************************************************)
(* The plain-text protocol /customprotocol/1.0.0 (and, of the chat client, *)
(* /ipfs/ping/1.0.0): one line and its answer over a stream.               *)
(*                                                                         *)
(* At one end is pingPeer, manualStream, or connectToPeers, which only     *)
(* opens a stream to see that it can. At the other end libp2p starts       *)
(* handleStream. Neither end sets a deadline. The lines are written by     *)
(* one call of Fprintf and read by one Read into five bytes, which may     *)
(* return less than the line.                                              *)
(***************************************************************************)
EXTENDS Naturals

CONSTANTS
  Stream,                       \* the streams that are opened
  Answers                       \* the lines that the handler of each answers

\* The node runner answers TEST too; relay, client and chat client do not.
ASSUME AnswersAssumption == Answers \in [Stream -> {{"PING"}, {"PING", "TEST"}}]

\* pingPeer, manualStream, connectToPeers of the chat and of the mobile client.
Roles == {"ping", "test", "touch", "hold"}

MaxRetry == 5                   \* of both loops: NewStream, and Read after EOF

VARIABLES
  role,                         \* what each stream is opened for
  pc,                           \* the goroutine that opens the stream
  attempt,                      \* its failed attempts to do so
  handler,                      \* the goroutine of handleStream
  tries,                        \* its reads that ended with io.EOF
  question, answer,             \* the unread lines of the two directions
  closed,                       \* the ends that have been closed
  reset,                        \* the streams whose connection was lost
  heard, response               \* what handler and opener have read

openerVars == <<role, pc, attempt, response>>
handlerVars == <<handler, tries, heard>>
streamVars == <<question, answer, closed, reset>>
vars == <<openerVars, handlerVars, streamVars>>

\* "part" is a line of which a part was read, or written.
Line == {"none", "PING", "TEST", "PONG", "part"}

TypeOK ==
  /\ role \in [Stream -> Roles]
  /\ pc \in [Stream -> {"start", "write", "read", "dropped", "done"}]
  /\ attempt \in [Stream -> 0..MaxRetry]
  /\ handler \in [Stream -> {"none", "accept", "read", "answer", "done"}]
  /\ tries \in [Stream -> 0..MaxRetry]
  /\ question \in [Stream -> Line]
  /\ answer \in [Stream -> Line]
  /\ closed \in [Stream -> SUBSET {"opener", "handler"}]
  /\ reset \in SUBSET Stream
  /\ heard \in [Stream -> Line]
  /\ response \in [Stream -> Line \cup {"eof", "error"}]

Init ==
  /\ role \in [Stream -> Roles]
  /\ pc = [s \in Stream |-> "start"]
  /\ attempt = [s \in Stream |-> 0]
  /\ handler = [s \in Stream |-> "none"]
  /\ tries = [s \in Stream |-> 0]
  /\ question = [s \in Stream |-> "none"]
  /\ answer = [s \in Stream |-> "none"]
  /\ closed = [s \in Stream |-> {}]
  /\ reset = {}
  /\ heard = [s \in Stream |-> "none"]
  /\ response = [s \in Stream |-> "none"]

-----------------------------------------------------------------------------
(* The opener.                                                             *)

\* A goroutine goes on with its stream as it is, or closes it and returns.
Goto(s, place) == pc' = [pc EXCEPT ![s] = place] /\ UNCHANGED closed
Return(s) ==
  /\ pc' = [pc EXCEPT ![s] = "done"]
  /\ closed' = [closed EXCEPT ![s] = @ \cup {"opener"}]

\* The chat client closes the stream that it opened for a try; the mobile
\* client drops it, and goes on to the next peer.
NewStream(s) ==
  /\ pc[s] = "start"
  /\ handler' = [handler EXCEPT ![s] = "accept"]
  /\ \/ role[s] \in {"ping", "test"} /\ Goto(s, "write")
     \/ role[s] = "touch" /\ Return(s)
     \/ role[s] = "hold" /\ Goto(s, "dropped")
  /\ UNCHANGED <<role, attempt, response, tries, heard, question, answer, reset>>

\* Only manualStream tries again, with no pause.
NewStreamFails(s) ==
  /\ pc[s] = "start"
  /\ attempt' = [attempt EXCEPT ![s] = @ + 1]
  /\ Goto(s, IF role[s] = "test" /\ attempt[s] + 1 < MaxRetry THEN "start" ELSE "done")
  /\ UNCHANGED <<role, response, handlerVars, question, answer, reset>>

\* pingPeer waits for the answer; manualStream closes the stream.
Write(s) ==
  /\ pc[s] = "write" /\ s \notin reset
  /\ question' = [question EXCEPT ![s] = IF role[s] = "test" THEN "TEST" ELSE "PING"]
  /\ IF role[s] = "test" THEN Return(s) ELSE Goto(s, "read")
  /\ UNCHANGED <<role, attempt, response, handlerVars, answer, reset>>

\* [A bug it must not have: the deferred Close comes after the write.]
WriteFailsOpen(s) ==
  /\ pc[s] = "write"
  /\ question' \in {question, [question EXCEPT ![s] = "part"]}
  /\ Goto(s, IF role[s] = "test" THEN "dropped" ELSE "done")
  /\ UNCHANGED <<role, attempt, response, handlerVars, answer, reset>>

\* manualStream returns without closing the stream.
WriteFails(s) ==
  /\ pc[s] = "write"
  /\ question' \in {question, [question EXCEPT ![s] = "part"]}
  /\ IF role[s] = "test" THEN Goto(s, "dropped") ELSE Return(s)
  /\ UNCHANGED <<role, attempt, response, handlerVars, answer, reset>>

\* One Read, whatever it returns.
ReadResponse(s) ==
  /\ pc[s] = "read"
  /\ \/ /\ s \notin reset /\ answer[s] # "none"
        /\ \E r \in {answer[s], "part"} : response' = [response EXCEPT ![s] = r]
        /\ answer' = [answer EXCEPT ![s] = "none"]
     \/ /\ s \notin reset /\ answer[s] = "none" /\ "handler" \in closed[s]
        /\ response' = [response EXCEPT ![s] = "eof"]
        /\ UNCHANGED answer
     \/ /\ s \in reset
        /\ response' = [response EXCEPT ![s] = "error"]
        /\ UNCHANGED answer
  /\ Return(s)
  /\ UNCHANGED <<role, attempt, handlerVars, question, reset>>

OpenerStep(s) ==
  NewStream(s) \/ NewStreamFails(s) \/ Write(s) \/ WriteFails(s) \/ ReadResponse(s)

-----------------------------------------------------------------------------
(* The handler.                                                            *)

\* The deferred Close comes with every return.
Finish(s) ==
  /\ handler' = [handler EXCEPT ![s] = "done"]
  /\ closed' = [closed EXCEPT ![s] = @ \cup {"handler"}]

Accept(s) ==
  /\ handler[s] = "accept" /\ s \notin reset
  /\ handler' = [handler EXCEPT ![s] = "read"]
  /\ UNCHANGED <<openerVars, tries, heard, streamVars>>

\* [A bug it must not have: the handler answers whatever it reads.]
ReadLineAny(s) ==
  /\ handler[s] = "read" /\ s \notin reset /\ question[s] # "none"
  /\ question' = [question EXCEPT ![s] = "none"]
  /\ \E r \in {question[s], "part"} : heard' = [heard EXCEPT ![s] = r]
  /\ handler' = [handler EXCEPT ![s] = "answer"]
  /\ UNCHANGED <<openerVars, tries, answer, closed, reset>>

\* [A bug it must not have: a message that is not expected is not closed.]
ReadLineOpen(s) ==
  /\ handler[s] = "read" /\ s \notin reset /\ question[s] # "none"
  /\ question' = [question EXCEPT ![s] = "none"]
  /\ \E r \in {question[s], "part"} :
       /\ heard' = [heard EXCEPT ![s] = r]
       /\ handler' = [handler EXCEPT ![s] = IF r \in Answers[s] THEN "answer" ELSE "done"]
  /\ UNCHANGED <<openerVars, tries, answer, closed, reset>>

\* [A bug it must not have: a message that is not expected is passed over.]
ReadLineOver(s) ==
  /\ handler[s] = "read" /\ s \notin reset /\ question[s] # "none"
  /\ question' = [question EXCEPT ![s] = "none"]
  /\ \E r \in {question[s], "part"} :
       IF r \in Answers[s]
       THEN heard' = [heard EXCEPT ![s] = r] /\ handler' = [handler EXCEPT ![s] = "answer"]
       ELSE UNCHANGED <<heard, handler>>
  /\ UNCHANGED <<openerVars, tries, answer, closed, reset>>

\* A line, or a part of it, which is no PING.
ReadLine(s) ==
  /\ handler[s] = "read" /\ s \notin reset /\ question[s] # "none"
  /\ question' = [question EXCEPT ![s] = "none"]
  /\ \E r \in {question[s], "part"} :
       /\ heard' = [heard EXCEPT ![s] = r]
       /\ IF r \in Answers[s]
          THEN handler' = [handler EXCEPT ![s] = "answer"] /\ UNCHANGED closed
          ELSE Finish(s)
  /\ UNCHANGED <<openerVars, tries, answer, reset>>

\* [A bug it must not have: the end is read where there is nothing yet.]
ReadEOFEarly(s) ==
  /\ handler[s] = "read" /\ s \notin reset /\ question[s] = "none"
  /\ tries' = [tries EXCEPT ![s] = @ + 1]
  /\ IF tries[s] + 1 < MaxRetry THEN UNCHANGED <<handler, closed>> ELSE Finish(s)
  /\ UNCHANGED <<openerVars, heard, question, answer, reset>>

\* [A bug it must not have: the attempts are not counted.]
ReadEOFForEver(s) ==
  /\ handler[s] = "read" /\ s \notin reset /\ question[s] = "none" /\ "opener" \in closed[s]
  /\ UNCHANGED vars

\* io.EOF: the handler sleeps a second and reads again, five times in all.
ReadEOF(s) ==
  /\ handler[s] = "read" /\ s \notin reset /\ question[s] = "none" /\ "opener" \in closed[s]
  /\ tries' = [tries EXCEPT ![s] = @ + 1]
  /\ IF tries[s] + 1 < MaxRetry THEN UNCHANGED <<handler, closed>> ELSE Finish(s)
  /\ UNCHANGED <<openerVars, heard, question, answer, reset>>

ReadError(s) ==
  /\ handler[s] = "read" /\ s \in reset
  /\ Finish(s)
  /\ UNCHANGED <<openerVars, tries, heard, question, answer, reset>>

\* PONG. The node runner then writes "noder" into a buffer of its own, which it
\* does not flush: nothing of it reaches the stream.
WritePong(s) ==
  /\ handler[s] = "answer"
  /\ \/ s \notin reset /\ answer' = [answer EXCEPT ![s] = "PONG"]
     \/ answer' \in {answer, [answer EXCEPT ![s] = "part"]}
  /\ Finish(s)
  /\ UNCHANGED <<openerVars, tries, heard, question, reset>>

HandlerStep(s) ==
  Accept(s) \/ ReadLine(s) \/ ReadEOF(s) \/ ReadError(s) \/ WritePong(s)

-----------------------------------------------------------------------------

Opened(s) == handler[s] # "none"

\* The connection is lost, or the protocol turns out not to be spoken.
Reset(s) ==
  /\ Opened(s) /\ s \notin reset /\ closed[s] # {"opener", "handler"}
  /\ reset' = reset \cup {s}
  /\ UNCHANGED <<openerVars, handlerVars, question, answer, closed>>

Next == \E s \in Stream : OpenerStep(s) \/ HandlerStep(s) \/ Reset(s)

Spec == Init /\ [][Next]_vars

\* Go schedules both goroutines; NewStream, writes and sleeps come to an end.
FairSpec ==
  Spec /\ \A s \in Stream : WF_vars(OpenerStep(s)) /\ WF_vars(HandlerStep(s))

-----------------------------------------------------------------------------
(* What is checked and proved.                                             *)

\* Where a goroutine can be with what has been opened, written and closed.
OpenerOK(s) ==
  /\ pc[s] = "start" => ~Opened(s) /\ attempt[s] < MaxRetry
  /\ pc[s] = "dropped" => role[s] \in {"test", "hold"}
  /\ pc[s] = "done" => ~Opened(s) \/ "opener" \in closed[s]
  /\ "opener" \in closed[s] => pc[s] = "done"
  /\ pc[s] = "write" => role[s] \in {"ping", "test"}
  /\ pc[s] = "read" => role[s] = "ping"
  /\ response[s] # "none" => pc[s] = "done"

HandlerOK(s) ==
  /\ ~Opened(s) => pc[s] \in {"start", "done"} /\ question[s] = "none" /\ closed[s] = {}
  /\ handler[s] \in {"none", "accept", "read"} =>
       answer[s] = "none" /\ heard[s] = "none" /\ tries[s] < MaxRetry
  /\ handler[s] = "answer" => heard[s] \in Answers[s]
  /\ "handler" \in closed[s] <=> handler[s] = "done"
  /\ answer[s] = "PONG" => heard[s] \in Answers[s]

EndSeen(s) ==
  tries[s] > 0 => "opener" \in closed[s] /\ question[s] = "none" /\ heard[s] = "none"

\* pingPeer takes a peer for alive only if the peer's handler has read PING.
PongAnswersPing ==
  \A s \in Stream : response[s] = "PONG" => heard[s] \in Answers[s]

\* The inductive invariant of the proofs.
StreamInv ==
  /\ TypeOK /\ PongAnswersPing
  /\ \A s \in Stream : OpenerOK(s) /\ HandlerOK(s) /\ EndSeen(s)

\* The retries of handleStream after EOF are of no use: a handler that has seen
\* the end of the stream never hears anything, however often it reads.
EndIsFinal == [][\A s \in Stream : tries[s] > 0 => heard'[s] = "none"]_vars

\* A stream that neither goroutine uses any more is still open only if its opener
\* dropped it: connectToPeers of the mobile client always does, manualStream
\* when its write fails.
Unused(s) == pc[s] \in {"done", "dropped"} /\ handler[s] = "done"
LeftOpen(s) == s \notin reset /\ closed[s] # {"opener", "handler"}
OnlyDroppedStay ==
  \A s \in Stream : Unused(s) /\ LeftOpen(s) => pc[s] = "dropped"

\* pingPeer and its handler never wait for each other, though neither end sets a
\* deadline: a handler that has yet to read has the line before it.
NeverBothWait ==
  \A s \in Stream : pc[s] = "read" /\ handler[s] \in {"accept", "read"} => question[s] # "none"

\* No ping hangs: whatever the handler makes of it, pingPeer's one Read returns.
PingsReturn == \A s \in Stream : role[s] # "hold" => <>(pc[s] \in {"done", "dropped"})

\* A handler waits for ever only for an opener that has dropped the stream.
HandlersReturn ==
  \A s \in Stream : handler[s] = "read" ~> (handler[s] = "done" \/ pc[s] = "dropped")
=============================================================================
