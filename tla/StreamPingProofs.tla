-------------------------- MODULE StreamPingProofs --------------------------
(* Theorems about StreamPing, for any streams and whatever each is for.    *)
EXTENDS StreamPing, TLAPS

(* Before anything is opened the invariant holds.                          *)
LEMMA InitStreamInv == Init => StreamInv
  BY AnswersAssumption
     DEF Init, StreamInv, TypeOK, PongAnswersPing, OpenerOK, HandlerOK, EndSeen,
         Opened, Roles, Line, MaxRetry

(* A step of the opener keeps the invariant: it closes its end whenever it *)
(* returns, and hears PONG only if there is one.                           *)
LEMMA OpenerStepInv ==
  ASSUME StreamInv, NEW s \in Stream, OpenerStep(s)
  PROVE  StreamInv'
<1>. USE AnswersAssumption
     DEF StreamInv, TypeOK, PongAnswersPing, OpenerOK, HandlerOK, EndSeen, Opened,
         Roles, Line, MaxRetry, Goto, Return, handlerVars
<1>1. CASE NewStream(s)
  BY <1>1 DEF NewStream
<1>2. CASE NewStreamFails(s)
  BY <1>2 DEF NewStreamFails
<1>3. CASE Write(s)
  <2>. USE <1>3 DEF Write
  <2>1. TypeOK'
    OBVIOUS
  <2>2. \A r \in Stream : OpenerOK(r)'
    OBVIOUS
  <2>3. \A r \in Stream : HandlerOK(r)'
    OBVIOUS
  <2>4. PongAnswersPing' /\ \A r \in Stream : EndSeen(r)'
    OBVIOUS
  <2>. QED
    BY <2>1, <2>2, <2>3, <2>4
<1>4. CASE WriteFails(s)
  BY <1>4 DEF WriteFails
<1>5. CASE ReadResponse(s)
  BY <1>5 DEF ReadResponse
<1>. QED
  BY <1>1, <1>2, <1>3, <1>4, <1>5 DEF OpenerStep

(* A step of the handler keeps the invariant: it answers only what it is   *)
(* to answer, and ends by closing its own end.                             *)
LEMMA HandlerStepInv ==
  ASSUME StreamInv, NEW s \in Stream, HandlerStep(s)
  PROVE  StreamInv'
<1>. USE AnswersAssumption
     DEF StreamInv, TypeOK, PongAnswersPing, OpenerOK, HandlerOK, EndSeen, Opened,
         Line, MaxRetry, Finish, openerVars, streamVars
<1>1. CASE Accept(s)
  BY <1>1 DEF Accept
<1>2. CASE ReadLine(s)
  BY <1>2 DEF ReadLine
<1>3. CASE ReadEOF(s)
  BY <1>3 DEF ReadEOF
<1>4. CASE ReadError(s)
  BY <1>4 DEF ReadError
<1>5. CASE WritePong(s)
  BY <1>5 DEF WritePong
<1>. QED
  BY <1>1, <1>2, <1>3, <1>4, <1>5 DEF HandlerStep

(* So does the loss of a stream, of which no state but its own is part.    *)
LEMMA ResetInv ==
  ASSUME StreamInv, NEW s \in Stream, Reset(s)
  PROVE  StreamInv'
  BY DEF StreamInv, TypeOK, PongAnswersPing, OpenerOK, HandlerOK, EndSeen, Opened,
         Reset, openerVars, handlerVars

(* Every reachable state satisfies the inductive invariant.                *)
THEOREM StreamInvariance == Spec => []StreamInv
<1>1. StreamInv /\ [Next]_vars => StreamInv'
  <2>1. StreamInv /\ UNCHANGED vars => StreamInv'
    BY DEF vars, openerVars, handlerVars, streamVars, StreamInv, TypeOK,
           PongAnswersPing, OpenerOK, HandlerOK, EndSeen, Opened
  <2>. QED
    BY <2>1, OpenerStepInv, HandlerStepInv, ResetInv DEF Next
<1>. QED
  BY <1>1, InitStreamInv, PTL DEF Spec

(* pingPeer reports PONG only of a handler that has read what it answers.  *)
THEOREM PongAnswersPingHolds == Spec => []PongAnswersPing
<1>1. StreamInv => PongAnswersPing
  BY DEF StreamInv
<1>. QED
  BY <1>1, StreamInvariance, PTL

(* Of the streams in nobody's hands only dropped ones are open: whoever    *)
(* returns has closed its end.                                             *)
THEOREM OnlyDroppedStayHolds == Spec => []OnlyDroppedStay
<1>1. StreamInv => OnlyDroppedStay
  BY DEF StreamInv, TypeOK, OpenerOK, HandlerOK, OnlyDroppedStay, Unused, LeftOpen, Opened
<1>. QED
  BY <1>1, StreamInvariance, PTL

(* pingPeer waits only while there is a line for its handler to read, or   *)
(* the handler has read it: neither end ever waits for the other's line.   *)
THEOREM NeverBothWaitHolds == Spec => []NeverBothWait
<1>1. Init => NeverBothWait
  BY DEF Init, NeverBothWait
<1>2. StreamInv /\ NeverBothWait /\ [Next]_vars => NeverBothWait'
  <2>. USE DEF NeverBothWait, StreamInv, TypeOK
  <2>1. ASSUME NEW s \in Stream, NeverBothWait, StreamInv, OpenerStep(s)
        PROVE  NeverBothWait'
    <3>1. CASE Write(s)
      BY <2>1, <3>1 DEF Write, Goto, Return, handlerVars
    <3>2. CASE ~Write(s)
      BY <2>1, <3>2 DEF OpenerStep, NewStream, NewStreamFails, WriteFails, ReadResponse,
                        Goto, Return, handlerVars
    <3>. QED
      BY <3>1, <3>2
  <2>2. ASSUME NEW s \in Stream, NeverBothWait, StreamInv, HandlerStep(s)
        PROVE  NeverBothWait'
    BY <2>2 DEF HandlerStep, Accept, ReadLine, ReadEOF, ReadError, WritePong, Finish,
                openerVars, streamVars
  <2>3. ASSUME NEW s \in Stream, NeverBothWait, Reset(s)
        PROVE  NeverBothWait'
    BY <2>3 DEF Reset, openerVars, handlerVars
  <2>4. NeverBothWait /\ UNCHANGED vars => NeverBothWait'
    BY DEF vars, openerVars, handlerVars, streamVars
  <2>. QED
    BY <2>1, <2>2, <2>3, <2>4 DEF Next
<1>. QED
  BY <1>1, <1>2, StreamInvariance, PTL DEF Spec

(* No step takes back a read that found the end of the stream.             *)
LEMMA TriesGrow ==
  ASSUME StreamInv, Next, NEW s \in Stream
  PROVE  tries'[s] >= tries[s]
<1>. USE DEF StreamInv, TypeOK, MaxRetry
<1>1. ASSUME NEW r \in Stream, OpenerStep(r) \/ Reset(r)
      PROVE  UNCHANGED tries
  BY <1>1 DEF OpenerStep, NewStream, NewStreamFails, Write, WriteFails, ReadResponse,
              Reset, handlerVars
<1>2. ASSUME NEW r \in Stream, HandlerStep(r)
      PROVE  tries'[s] >= tries[s]
  BY <1>2 DEF HandlerStep, Accept, ReadLine, ReadEOF, ReadError, WritePong
<1>. QED
  BY <1>1, <1>2 DEF Next

(* After the end of a stream nothing is read from it: the end comes after  *)
(* the line, and only the opener's Close makes it.                         *)
THEOREM EndIsFinalHolds == Spec => EndIsFinal
<1>1. StreamInv /\ StreamInv' /\ [Next]_vars
        => [\A s \in Stream : tries[s] > 0 => heard'[s] = "none"]_vars
  <2>. SUFFICES ASSUME StreamInv, StreamInv', Next, NEW s \in Stream, tries[s] > 0
                PROVE  heard'[s] = "none"
    OBVIOUS
  <2>1. tries'[s] > 0
    BY TriesGrow DEF StreamInv, TypeOK, MaxRetry
  <2>. QED
    BY <2>1 DEF StreamInv, EndSeen
<1>. QED
  BY <1>1, StreamInvariance, PTL DEF Spec, EndIsFinal
=============================================================================
