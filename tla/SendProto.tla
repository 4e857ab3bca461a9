----------------------------- MODULE SendProto -----------------------------
(***************************************************************************)
(* PingProtocol.sendProtoMessage (src/ping/ping.go), step by step, for     *)
(* concurrent calls of one process: the exchange loop and every request    *)
(* handler call it, each in its own goroutine.                             *)
(*                                                                         *)
(* A message is a stream: NewStream, one Write, Close. The handler at the  *)
(* other end reads the stream to its end (io.ReadAll), so it runs only for *)
(* a stream that was closed and not reset before the end was read.         *)
(* The data, and proto.Marshal, which cannot fail for what the callers     *)
(* build, are left out.                                                    *)
(***************************************************************************)
EXTENDS Naturals

CONSTANTS
  Call,                         \* the calls of sendProtoMessage
  Peer,                         \* the peers they are made to
  Target                        \* the peer of each call

ASSUME TargetAssumption == Target \in [Call -> Peer]

VARIABLES
  link,                         \* Network().Connectedness of each peer
  pc,                           \* where each call is
  first,                        \* the stream of its first attempt
  retry,                        \* the stream of its second attempt
  ret,                          \* what the call returned
  up                            \* FALSE once a nil stream has been used

vars == <<link, pc, first, retry, ret, up>>

Connectedness == {"NotConnected", "Limited", "Connected"}
StreamState == {"none", "open", "closed", "reset", "handled"}
Location == {"start", "notDirect", "openDirect", "openLimited", "write",
             "retryOpen", "retryWrite", "return", "done", "panicked"}

TypeOK ==
  /\ link \in [Peer -> Connectedness]
  /\ pc \in [Call -> Location]
  /\ first \in [Call -> StreamState]
  /\ retry \in [Call -> StreamState]
  /\ ret \in [Call -> {"none", "true", "false", "panic"}]
  /\ up \in BOOLEAN

Init ==
  /\ link \in [Peer -> Connectedness]
  /\ pc = [c \in Call |-> "start"]
  /\ first = [c \in Call |-> "none"]
  /\ retry = [c \in Call |-> "none"]
  /\ ret = [c \in Call |-> "none"]
  /\ up = TRUE

-----------------------------------------------------------------------------
(* The caller.                                                             *)

At(c, l) == up /\ pc[c] = l
Goto(c, l) == pc' = [pc EXCEPT ![c] = l]
Return(c, r) == Goto(c, "done") /\ ret' = [ret EXCEPT ![c] = r]

\* Reset and Close do nothing to a stream that is already reset.
Reset(s) == IF s \in {"open", "closed"} THEN "reset" ELSE s
Close(s) == IF s = "open" THEN "closed" ELSE s

\* The first reading of Connectedness.
CheckConnected(c) ==
  /\ At(c, "start")
  /\ Goto(c, IF link[Target[c]] = "Connected" THEN "openDirect" ELSE "notDirect")
  /\ UNCHANGED <<link, first, retry, ret, up>>

\* The second reading, of a value that may have changed since the first.
CheckLimited(c) ==
  /\ At(c, "notDirect")
  /\ link[Target[c]] = "Limited"
  /\ Goto(c, "openLimited")
  /\ UNCHANGED <<link, first, retry, ret, up>>

\* "Not connected": both readings failed.
Refuse(c) ==
  /\ At(c, "notDirect")
  /\ link[Target[c]] # "Limited"
  /\ Return(c, "false")
  /\ UNCHANGED <<link, first, retry, up>>

\* NewStream succeeds over a connection; a limited one needs the option that
\* only the second branch and the retry pass. A dial is a change of link.
OpenFirst(c) ==
  /\ \/ At(c, "openDirect") /\ link[Target[c]] = "Connected"
     \/ At(c, "openLimited") /\ link[Target[c]] # "NotConnected"
  /\ first' = [first EXCEPT ![c] = "open"]
  /\ Goto(c, "write")
  /\ UNCHANGED <<link, retry, ret, up>>

\* [A bug it must not have: a stream that cannot be opened is tried for ever.]
OpenFailsForEver(c) ==
  /\ At(c, "openDirect") \/ At(c, "openLimited")
  /\ Goto(c, "start")
  /\ UNCHANGED <<link, first, retry, ret, up>>

OpenFails(c) ==
  /\ At(c, "openDirect") \/ At(c, "openLimited")
  /\ Return(c, "false")
  /\ UNCHANGED <<link, first, retry, up>>

Write(c) ==
  /\ At(c, "write")
  /\ first[c] = "open"
  /\ Goto(c, "return")
  /\ UNCHANGED <<link, first, retry, ret, up>>

\* [A bug it must not have: the stream of the failed write is not reset.]
WriteFailsOpen(c) ==
  /\ At(c, "write")
  /\ Goto(c, "retryOpen")
  /\ UNCHANGED <<link, first, retry, ret, up>>

\* A failed write may have sent bytes: the stream is reset before the retry.
WriteFails(c) ==
  /\ At(c, "write")
  /\ first' = [first EXCEPT ![c] = Reset(@)]
  /\ Goto(c, "retryOpen")
  /\ UNCHANGED <<link, retry, ret, up>>

RetryOpen(c) ==
  /\ At(c, "retryOpen")
  /\ link[Target[c]] # "NotConnected"
  /\ retry' = [retry EXCEPT ![c] = "open"]
  /\ Goto(c, "retryWrite")
  /\ UNCHANGED <<link, first, ret, up>>

\* The error of the second NewStream is logged and its nil stream is used.
RetryOpenFails(c) ==
  /\ At(c, "retryOpen")
  /\ Goto(c, "panicked")
  /\ ret' = [ret EXCEPT ![c] = "panic"]
  /\ up' = FALSE
  /\ UNCHANGED <<link, first, retry>>

RetryWrite(c) ==
  /\ At(c, "retryWrite")
  /\ retry[c] = "open"
  /\ Goto(c, "return")
  /\ UNCHANGED <<link, first, retry, ret, up>>

\* [A bug it must not have: the stream of the failed retry is not reset.]
RetryWriteFailsOpen(c) ==
  /\ At(c, "retryWrite")
  /\ first' = [first EXCEPT ![c] = Close(@)]
  /\ retry' = [retry EXCEPT ![c] = Close(@)]
  /\ Return(c, "false")
  /\ UNCHANGED <<link, up>>

\* The deferred Close of both streams finds them reset.
RetryWriteFails(c) ==
  /\ At(c, "retryWrite")
  /\ first' = [first EXCEPT ![c] = Close(@)]
  /\ retry' = [retry EXCEPT ![c] = Close(Reset(@))]
  /\ Return(c, "false")
  /\ UNCHANGED <<link, up>>

\* return true runs the deferred Close of both streams.
ReturnTrue(c) ==
  /\ At(c, "return")
  /\ first' = [first EXCEPT ![c] = Close(@)]
  /\ retry' = [retry EXCEPT ![c] = Close(@)]
  /\ Return(c, "true")
  /\ UNCHANGED <<link, up>>

CallStep(c) ==
  \/ CheckConnected(c) \/ CheckLimited(c) \/ Refuse(c)
  \/ OpenFirst(c) \/ OpenFails(c) \/ Write(c) \/ WriteFails(c)
  \/ RetryOpen(c) \/ RetryOpenFails(c) \/ RetryWrite(c) \/ RetryWriteFails(c)
  \/ ReturnTrue(c)

-----------------------------------------------------------------------------
(* The network and the peer.                                               *)

\* Connections come, are upgraded by hole punching, and go; the streams of a
\* peer go with its last connection.
LinkChange(p, s) ==
  /\ s # link[p]
  /\ link' = [link EXCEPT ![p] = s]
  /\ LET cut(stream) ==
           [c \in Call |-> IF Target[c] = p /\ s = "NotConnected"
                           THEN Reset(stream[c]) ELSE stream[c]]
     IN first' = cut(first) /\ retry' = cut(retry)
  /\ UNCHANGED <<pc, ret, up>>

\* One stream is reset by the peer, by a limit, or with one of two connections.
LoseStream(c) ==
  /\ \/ /\ first[c] \in {"open", "closed"}
        /\ first' = [first EXCEPT ![c] = "reset"]
        /\ UNCHANGED retry
     \/ /\ retry[c] \in {"open", "closed"}
        /\ retry' = [retry EXCEPT ![c] = "reset"]
        /\ UNCHANGED first
  /\ UNCHANGED <<link, pc, ret, up>>

\* onProtocolRequest or onProtocolResponse reads to the end and calls Handle.
Deliver(c) ==
  /\ \/ /\ first[c] = "closed"
        /\ first' = [first EXCEPT ![c] = "handled"]
        /\ UNCHANGED retry
     \/ /\ retry[c] = "closed"
        /\ retry' = [retry EXCEPT ![c] = "handled"]
        /\ UNCHANGED first
  /\ UNCHANGED <<link, pc, ret, up>>

NetworkStep ==
  \/ \E p \in Peer, s \in Connectedness : LinkChange(p, s)
  \/ \E c \in Call : LoseStream(c) \/ Deliver(c)

Next == (\E c \in Call : CallStep(c)) \/ NetworkStep

Spec == Init /\ [][Next]_vars

\* Go schedules the goroutine of every call, and NewStream and Write return.
FairSpec == Spec /\ \A c \in Call : WF_vars(CallStep(c))

-----------------------------------------------------------------------------
(* What is checked and proved.                                             *)

\* A message is handled at most once, though the code writes it twice: the
\* stream of the failed attempt is never delivered next to that of the retry.
AtMostOnce == \A c \in Call : ~(first[c] = "handled" /\ retry[c] = "handled")

\* A message reaches the peer's handler only if its call returned true: what
\* is reported as failed, and what the panic cut short, is never handled.
HandledMeansTrue ==
  \A c \in Call : "handled" \in {first[c], retry[c]} => ret[c] = "true"

\* Before it returns, a call has at most one stream that can still be
\* delivered, and at most one after.
OneLiveStream ==
  \A c \in Call : /\ retry[c] # "none" => first[c] = "reset"
                  /\ pc[c] = "retryOpen" => first[c] = "reset"

\* The delivered and deliverable streams belong to calls that returned true.
LiveMeansTrue ==
  \A c \in Call : /\ first[c] \in {"closed", "handled"} => ret[c] = "true"
                  /\ retry[c] \in {"closed", "handled"} => ret[c] = "true"

\* A call has a stream in its hands only between NewStream and its return.
OpenMeansRunning ==
  \A c \in Call : /\ first[c] = "open" => pc[c] \in {"write", "return"}
                  /\ retry[c] = "open" => pc[c] \in {"retryWrite", "return"}
                  /\ pc[c] \in {"start", "notDirect", "openDirect", "openLimited"}
                       => first[c] = "none" /\ retry[c] = "none"
                  /\ pc[c] \in {"write", "retryOpen"} => retry[c] = "none"
                  /\ pc[c] = "write" => first[c] # "none"
                  /\ ret[c] = "none" <=> pc[c] \notin {"done", "panicked"}

\* The inductive invariant of the proofs: the types, and which streams a call
\* can have at each point of its code.
SendInv == TypeOK /\ OneLiveStream /\ LiveMeansTrue /\ OpenMeansRunning

\* The messages on their way, and how often each one has been handled.
Inflight == {c \in Call : "closed" \in {first[c], retry[c]}}
Handlings(s) == IF s = "handled" THEN 1 ELSE 0
Deliveries == [c \in Call |-> Handlings(first[c]) + Handlings(retry[c])]

M == INSTANCE Messenger WITH
       result <- ret, inflight <- Inflight, deliveries <- Deliveries

\* sendProtoMessage keeps the promise that Messenger states: what it does with
\* two streams per message looks like a send that is delivered at most once.
Promise == M!MessengerSpec

\* No call goes back: whatever becomes of links and streams, each of its steps
\* brings it nearer to its return, and after seven at the latest it has returned.
Rank == [start |-> 0, notDirect |-> 1, openDirect |-> 2, openLimited |-> 2, write |-> 3,
         retryOpen |-> 4, retryWrite |-> 5, return |-> 6, done |-> 7, panicked |-> 7]
CallsAdvance ==
  [][\A c \in Call : UNCHANGED pc[c] \/ Rank[pc[c]] < Rank[pc'[c]]]_vars

\* Every call returns, unless the process panics.
CallsReturn == \A c \in Call : <>(ret[c] # "none" \/ ~up)

\* Ping "sends minimal ping string to peer to check connection": checking a
\* connection does not stop the process that checks.
NoPanic == up
=============================================================================
