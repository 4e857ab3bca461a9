--------------------------- MODULE StreamHistory ---------------------------
(***************************************************************************)
(* StreamControl with history variables, which record who interfered with   *)
(* whom, to say exactly when the answers of the handlers can be       *)
(* wrong: only when another handler's assignment falls between two         *)
(* accesses of theirs.                                                     *)
(***************************************************************************)
EXTENDS StreamControl

VARIABLES
  over,                         \* who wrote the flag between c's test and answer
  writers,                      \* who wrote the flag's value since it changed
  overtaken                     \* the stops after whose beginning a start wrote

historyVars == <<over, writers, overtaken>>
allVars == <<isStreaming, at, saw, streaming, over, writers, overtaken>>

HistoryTypeOK ==
  /\ ControlTypeOK
  /\ over \in [Call -> SUBSET Call]
  /\ writers \in [Node -> SUBSET Call]
  /\ overtaken \subseteq Call

HistoryInit ==
  /\ ControlInit
  /\ over = [c \in Call |-> {}]
  /\ writers = [n \in Node |-> {}]
  /\ overtaken = {}

\* The handlers that have tested the flag w writes and not answered yet.
Running(w) == {c \in Call \ {w} : Home[c] = Home[w] /\ at[c] \in {"tested", "written"}}

\* The stops of w's process that have begun, answered or not.
BegunStops(w) == {c \in Call : Home[c] = Home[w] /\ Op[c] = "stop" /\ at[c] # "idle"}

HTest(c) == Test(c) /\ UNCHANGED historyVars

HWrite(c) ==
  /\ Write(c)
  /\ over' = [d \in Call |-> IF d \in Running(c) THEN over[d] \cup {c} ELSE over[d]]
  /\ writers' = [writers EXCEPT ![Home[c]] =
                   IF isStreaming[Home[c]] = Written(c) THEN @ \cup {c} ELSE {c}]
  /\ overtaken' = IF Op[c] = "start" THEN overtaken \cup BegunStops(c) ELSE overtaken

HAnswer(c) == Answer(c) /\ UNCHANGED historyVars

HistoryStep(c) == HTest(c) \/ HWrite(c) \/ HAnswer(c)

HistoryDone == ControlDone /\ UNCHANGED historyVars

HistoryNext == (\E c \in Call : HistoryStep(c)) \/ HistoryDone

HistorySpec == HistoryInit /\ [][HistoryNext]_allVars

FairHistorySpec ==
  HistorySpec /\ \A c \in Call : WF_allVars(HistoryStep(c))

-----------------------------------------------------------------------------

\* Somebody who wrote value v overlapped c.
Overwritten(c, v) == \E d \in over[c] : Home[d] = Home[c] /\ Written(d) = v

\* The two fields of an answer of Start or Status disagree only if a handler
\* that wrote the other value ran between the accesses of this one.
TornOnlyByOverlap ==
  \A c \in Call : at[c] = "answered" /\ Op[c] # "stop" /\ streaming[c] # Known(c)
    => Overwritten(c, streaming[c])

\* Two starts both answer "SUCCESS" with no stop between them, or two stops
\* both end the same stream, only if one of them wrote the flag while the
\* other was between its test and its answer.
TwoWritersOverlap ==
  \A n \in Node : \A c, d \in writers[n] : c # d => c \in over[d] \/ d \in over[c]

\* A start that has set the flag of process n.
HasStarted(s, n) ==
  Home[s] = n /\ Op[s] = "start" /\ MustWrite(s) /\ at[s] \in {"written", "answered"}

\* The flag stays on after a stop only if the stop found no stream, as when it
\* overtakes its start: one that found a stream is undone only by another start
\* than the one it undoes. The asker is told neither.
StopUndoneOnlyByAnotherStart ==
  \A c \in Call :
    /\ Op[c] = "stop" /\ at[c] \in {"written", "answered"} /\ saw[c]
    /\ isStreaming[Home[c]]
    => \E s, t \in Call : s # t /\ HasStarted(s, Home[c]) /\ HasStarted(t, Home[c])

\* A process streams on after a stop only if a start set the flag when that stop
\* had begun: the start of the same exchange, which the stop has overtaken on its
\* own stream, or one of another exchange. Nobody sends a second stop.
LeftOnOnlyIfOvertaken ==
  \A c \in Call :
    Op[c] = "stop" /\ at[c] \in {"written", "answered"} /\ isStreaming[Home[c]]
      => c \in overtaken

\* A stop that found no stream, and has not answered yet, knows as much.
PendingOvertaken ==
  \A c \in Call :
    Op[c] = "stop" /\ at[c] = "tested" /\ ~saw[c] /\ isStreaming[Home[c]]
      => c \in overtaken

\* A flag that is on, or was seen on, was set by a start.
StreamsWereStarted ==
  /\ \A n \in Node : isStreaming[n] => \E s \in Call : HasStarted(s, n)
  /\ \A c \in Call : at[c] # "idle" /\ saw[c] => \E s \in Call : HasStarted(s, Home[c])

\* A handler that still has to write or to answer knows the flag, unless
\* another one has written the other value.
KnowsUnlessOverwritten ==
  \A c \in Call :
    /\ at[c] = "tested" /\ isStreaming[Home[c]] # saw[c]
         => Overwritten(c, isStreaming[Home[c]])
    /\ at[c] = "written" /\ isStreaming[Home[c]] # Known(c)
         => Overwritten(c, isStreaming[Home[c]])

\* A handler about to write a value that the flag already has overlaps all
\* those who gave it that value.
PendingOverlaps ==
  \A c \in Call :
    at[c] = "tested" /\ MustWrite(c) /\ isStreaming[Home[c]] = Written(c)
      => writers[Home[c]] \subseteq over[c]

\* The writers of a flag are at its node, and wrote the value it has.
WritersWrote ==
  \A n \in Node : \A c \in writers[n] :
    /\ Home[c] = n /\ MustWrite(c) /\ Written(c) = isStreaming[n]
    /\ at[c] \in {"written", "answered"}

WrittenMustWrite == \A c \in Call : at[c] = "written" => MustWrite(c)

\* The inductive invariant of the proofs: the types, the properties above, and
\* what each handler knows of the flag at each point of its code.
HistoryInv ==
  /\ HistoryTypeOK
  /\ TornOnlyByOverlap
  /\ TwoWritersOverlap
  /\ KnowsUnlessOverwritten
  /\ PendingOverlaps
  /\ WritersWrote
  /\ WrittenMustWrite
  /\ StreamsWereStarted
  /\ StopUndoneOnlyByAnotherStart
  /\ LeftOnOnlyIfOvertaken
  /\ PendingOvertaken
=============================================================================
