------------------------ MODULE StreamHistoryProofs ------------------------
(* Theorems about StreamHistory, for any number of processes and handlers. *)
EXTENDS StreamHistory, TLAPS

(* At the start nobody has tested or written a flag.                       *)
LEMMA InitHistoryInv == HistoryInit => HistoryInv
  BY CallAssumption
     DEF HistoryInit, ControlInit, HistoryInv, HistoryTypeOK, ControlTypeOK,
         TornOnlyByOverlap, TwoWritersOverlap, KnowsUnlessOverwritten,
         PendingOverlaps, WritersWrote, WrittenMustWrite, StreamsWereStarted,
         StopUndoneOnlyByAnotherStart, LeftOnOnlyIfOvertaken, PendingOvertaken

(* A start that has set the flag has done so for good.                     *)
LEMMA StartedForGood ==
  ASSUME HistoryTypeOK, NEW c \in Call, HistoryStep(c),
         NEW s \in Call, NEW n \in Node, HasStarted(s, n)
  PROVE  HasStarted(s, n)'
  BY CallAssumption
     DEF HistoryTypeOK, ControlTypeOK, HistoryStep, HTest, HWrite, HAnswer, Test, Write,
         Answer, HasStarted, MustWrite

(* Each step keeps the types.                                              *)
LEMMA StepTypeOK ==
  ASSUME HistoryTypeOK, NEW c \in Call, HistoryStep(c)
  PROVE  HistoryTypeOK'
<1>. USE CallAssumption DEF HistoryTypeOK, ControlTypeOK, historyVars
<1>1. CASE HTest(c)
  BY <1>1 DEF HTest, Test
<1>2. CASE HWrite(c)
  <2>1. ControlTypeOK'
    BY <1>2 DEF HWrite, Write, Written
  <2>2. over' \in [Call -> SUBSET Call]
    BY <1>2 DEF HWrite
  <2>3. writers' \in [Node -> SUBSET Call]
    BY <1>2 DEF HWrite
  <2>4. overtaken' \subseteq Call
    BY <1>2 DEF HWrite, BegunStops
  <2>. QED
    BY <2>1, <2>2, <2>3, <2>4
<1>3. CASE HAnswer(c)
  BY <1>3 DEF HAnswer, Answer
<1>. QED
  BY <1>1, <1>2, <1>3 DEF HistoryStep

(* A test keeps the invariant: what it reads is the flag itself, and a     *)
(* handler that will write is going to change it.                          *)
LEMMA TestHistoryInv ==
  ASSUME HistoryInv, NEW c \in Call, HTest(c)
  PROVE  HistoryInv'
<1>. USE CallAssumption
     DEF HistoryInv, HistoryTypeOK, ControlTypeOK, HTest, Test, historyVars,
         MustWrite, Written, Known, Overwritten, FlagOp
<1>1. HistoryTypeOK'
  BY StepTypeOK DEF HistoryStep
<1>2. TornOnlyByOverlap'
  BY DEF TornOnlyByOverlap
<1>3. TwoWritersOverlap'
  BY DEF TwoWritersOverlap
<1>4. KnowsUnlessOverwritten'
  BY DEF KnowsUnlessOverwritten
<1>5. PendingOverlaps'
  BY DEF PendingOverlaps
<1>6. WritersWrote'
  BY DEF WritersWrote
<1>7. WrittenMustWrite'
  BY DEF WrittenMustWrite
<1>8. StreamsWereStarted' /\ StopUndoneOnlyByAnotherStart'
  <2>1. \A s \in Call, n \in Node : HasStarted(s, n) => HasStarted(s, n)'
    BY StartedForGood DEF HistoryStep
  <2>. HIDE DEF MustWrite
  <2>. QED
    BY <2>1 DEF StreamsWereStarted, StopUndoneOnlyByAnotherStart
<1>9. LeftOnOnlyIfOvertaken' /\ PendingOvertaken'
  BY DEF LeftOnOnlyIfOvertaken, PendingOvertaken
<1>. QED
  BY <1>1, <1>2, <1>3, <1>4, <1>5, <1>6, <1>7, <1>8, <1>9 DEF HistoryInv

(* A write keeps the invariant: every handler it could disturb now has the *)
(* writer among those that overlapped it.                                  *)
LEMMA WriteHistoryInv ==
  ASSUME HistoryInv, NEW c \in Call, HWrite(c)
  PROVE  HistoryInv'
<1>. USE CallAssumption
     DEF HistoryInv, HistoryTypeOK, ControlTypeOK, HWrite, Write, Running,
         MustWrite, Written, FlagOp
<1>1. HistoryTypeOK'
  BY StepTypeOK DEF HistoryStep
<1>2. \A d \in Call : over[d] \subseteq over'[d]
  OBVIOUS
<1>3. \A d \in Call : \A v : Overwritten(d, v) => Overwritten(d, v)'
  BY <1>2 DEF Overwritten
<1>4. \A d \in Running(c) : Overwritten(d, Written(c))'
  BY DEF Overwritten
<1>5. TornOnlyByOverlap'
  BY <1>3 DEF TornOnlyByOverlap, Known
<1>6. TwoWritersOverlap'
  <2>1. \A d \in writers'[Home[c]] : d # c => d \in over'[c] /\ d \in writers[Home[c]]
    BY DEF PendingOverlaps
  <2>. QED
    BY <1>2, <2>1 DEF TwoWritersOverlap
<1>7. KnowsUnlessOverwritten'
  <2>1. ASSUME NEW d \in Call, at'[d] \in {"tested", "written"},
               isStreaming'[Home[d]] # (IF at'[d] = "tested" THEN saw[d] ELSE Known(d))
        PROVE  Overwritten(d, isStreaming[Home[d]])'
    <3>1. CASE d = c
      BY <2>1, <3>1 DEF Known
    <3>2. CASE d \in Running(c)
      <4>1. isStreaming'[Home[d]] = Written(c)
        BY <3>2
      <4>. QED
        BY <1>4, <3>2, <4>1 DEF Overwritten
    <3>3. CASE Home[d] # Home[c]
      <4>1. isStreaming'[Home[d]] = isStreaming[Home[d]] /\ at'[d] = at[d]
        BY <3>3
      <4>2. Overwritten(d, isStreaming[Home[d]])
        BY <2>1, <4>1 DEF KnowsUnlessOverwritten
      <4>. QED
        BY <1>2, <4>1, <4>2 DEF Overwritten
    <3>. QED
      BY <2>1, <3>1, <3>2, <3>3
  <2>. QED
    BY <2>1 DEF KnowsUnlessOverwritten, Known
<1>8. PendingOverlaps'
  BY DEF PendingOverlaps
<1>9. WritersWrote'
  BY DEF WritersWrote
<1>10. WrittenMustWrite'
  BY DEF WrittenMustWrite
<1>11. StreamsWereStarted' /\ StopUndoneOnlyByAnotherStart'
  <2>1. \A s \in Call, n \in Node : HasStarted(s, n) => HasStarted(s, n)'
    BY StartedForGood DEF HistoryStep
  <2>2. Op[c] = "start" => HasStarted(c, Home[c])' /\ ~HasStarted(c, Home[c])
    BY DEF HasStarted
  <2>3. /\ isStreaming'[Home[c]] <=> Op[c] = "start"
        /\ \A n \in Node \ {Home[c]} : isStreaming'[n] = isStreaming[n]
        /\ \A d \in Call : d # c => at'[d] = at[d]
        /\ at[c] = "tested" /\ UNCHANGED saw
    OBVIOUS
  <2>4. StreamsWereStarted'
    <3>1. ASSUME NEW n \in Node, isStreaming'[n]
          PROVE  \E s \in Call : HasStarted(s, n)'
      <4>1. CASE n = Home[c]
        BY <2>2, <2>3, <3>1, <4>1
      <4>2. CASE n # Home[c]
        BY <2>1, <2>3, <3>1, <4>2 DEF StreamsWereStarted
      <4>. QED
        BY <4>1, <4>2
    <3>2. ASSUME NEW d \in Call, at'[d] # "idle", saw'[d]
          PROVE  \E s \in Call : HasStarted(s, Home[d])'
      <4>1. at[d] # "idle" /\ saw[d] /\ Home[d] \in Node
        BY <2>3, <3>2
      <4>. QED
        BY <2>1, <4>1 DEF StreamsWereStarted
    <3>. QED
      BY <3>1, <3>2 DEF StreamsWereStarted
  <2>5. StopUndoneOnlyByAnotherStart'
    <3>1. ASSUME NEW d \in Call, Op[d] = "stop", at'[d] \in {"written", "answered"}, saw'[d],
                 isStreaming'[Home[d]]
          PROVE  \E s, u \in Call : s # u /\ HasStarted(s, Home[d])' /\ HasStarted(u, Home[d])'
      <4>1. d # c /\ at[d] \in {"written", "answered"} /\ saw[d]
        BY <2>3, <3>1
      <4>2. CASE Home[d] = Home[c]
        <5>1. PICK s \in Call : HasStarted(s, Home[d])
          BY <4>1 DEF StreamsWereStarted
        <5>. QED
          BY <2>1, <2>2, <2>3, <3>1, <4>2, <5>1
      <4>3. CASE Home[d] # Home[c]
        <5>1. PICK s \in Call, u \in Call : s # u /\ HasStarted(s, Home[d]) /\ HasStarted(u, Home[d])
          BY <2>3, <3>1, <4>1, <4>3 DEF StopUndoneOnlyByAnotherStart
        <5>. QED
          BY <2>1, <5>1
      <4>. QED
        BY <4>2, <4>3
    <3>. QED
      BY <3>1 DEF StopUndoneOnlyByAnotherStart
  <2>. QED
    BY <2>4, <2>5
<1>12. LeftOnOnlyIfOvertaken' /\ PendingOvertaken'
  <2>1. ASSUME NEW d \in Call, Op[d] = "stop", isStreaming'[Home[d]],
               at'[d] # "idle", at'[d] = "tested" => ~saw'[d]
        PROVE  d \in overtaken'
    <3>1. CASE Op[c] = "start" /\ Home[d] = Home[c]
      BY <2>1, <3>1 DEF BegunStops
    <3>2. CASE Home[d] # Home[c]
      BY <2>1, <3>2 DEF LeftOnOnlyIfOvertaken, PendingOvertaken
    <3>3. CASE Op[c] # "start" /\ Home[d] = Home[c]
      BY <2>1, <3>3
    <3>. QED
      BY <3>1, <3>2, <3>3
  <2>. QED
    BY <2>1 DEF LeftOnOnlyIfOvertaken, PendingOvertaken
<1>. QED
  BY <1>1, <1>5, <1>6, <1>7, <1>8, <1>9, <1>10, <1>11, <1>12 DEF HistoryInv

(* An answer keeps the invariant: it reports the flag, which differs from  *)
(* what the handler knows only if somebody overlapped it.                  *)
LEMMA AnswerHistoryInv ==
  ASSUME HistoryInv, NEW c \in Call, HAnswer(c)
  PROVE  HistoryInv'
<1>. USE CallAssumption
     DEF HistoryInv, HistoryTypeOK, ControlTypeOK, HAnswer, Answer, historyVars,
         MustWrite, Written, Known, Overwritten, FlagOp
<1>1. HistoryTypeOK'
  BY StepTypeOK DEF HistoryStep
<1>2. TornOnlyByOverlap'
  <2>1. ASSUME NEW d \in Call, d # c
        PROVE  at'[d] = at[d] /\ streaming'[d] = streaming[d] /\ saw'[d] = saw[d]
    BY <2>1
  <2>2. ASSUME Op[c] # "stop", isStreaming[Home[c]] # Known(c)
        PROVE  Overwritten(c, isStreaming[Home[c]])
    <3>. HIDE DEF Overwritten
    <3>. QED
      BY <2>2 DEF KnowsUnlessOverwritten
  <2>3. Op[c] # "stop" => streaming'[c] = isStreaming[Home[c]]
    OBVIOUS
  <2>. QED
    BY <2>1, <2>2, <2>3 DEF TornOnlyByOverlap
<1>3. TwoWritersOverlap'
  BY DEF TwoWritersOverlap
<1>4. KnowsUnlessOverwritten'
  BY DEF KnowsUnlessOverwritten
<1>5. PendingOverlaps'
  BY DEF PendingOverlaps
<1>6. WritersWrote'
  BY DEF WritersWrote
<1>7. WrittenMustWrite'
  BY DEF WrittenMustWrite
<1>8. StreamsWereStarted' /\ StopUndoneOnlyByAnotherStart'
  <2>1. \A s \in Call, n \in Node : HasStarted(s, n) => HasStarted(s, n)'
    BY StartedForGood DEF HistoryStep
  <2>2. /\ UNCHANGED <<isStreaming, saw>> /\ at[c] \in {"tested", "written"}
        /\ \A d \in Call : d # c => at'[d] = at[d]
        /\ Op[c] = "stop" /\ saw[c] => at[c] = "written"
    OBVIOUS
  <2>. HIDE DEF HAnswer, Answer, MustWrite
  <2>. QED
    BY <2>1, <2>2 DEF StreamsWereStarted, StopUndoneOnlyByAnotherStart
<1>9. LeftOnOnlyIfOvertaken' /\ PendingOvertaken'
  BY DEF LeftOnOnlyIfOvertaken, PendingOvertaken
<1>. QED
  BY <1>1, <1>2, <1>3, <1>4, <1>5, <1>6, <1>7, <1>8, <1>9 DEF HistoryInv

(* Every reachable state satisfies the inductive invariant.                *)
THEOREM HistoryInvariance == HistorySpec => []HistoryInv
<1>1. HistoryInv /\ [HistoryNext]_allVars => HistoryInv'
  <2>1. HistoryInv /\ UNCHANGED allVars => HistoryInv'
    BY DEF allVars, HistoryInv, HistoryTypeOK, ControlTypeOK, TornOnlyByOverlap,
           TwoWritersOverlap, KnowsUnlessOverwritten, PendingOverlaps, WritersWrote,
           WrittenMustWrite, MustWrite, Known, Overwritten, StreamsWereStarted,
           StopUndoneOnlyByAnotherStart, HasStarted, LeftOnOnlyIfOvertaken, PendingOvertaken
  <2>2. HistoryDone => UNCHANGED allVars
    BY DEF HistoryDone, ControlDone, controlVars, historyVars, allVars
  <2>. QED
    BY <2>1, <2>2, TestHistoryInv, WriteHistoryInv, AnswerHistoryInv
       DEF HistoryNext, HistoryStep
<1>. QED
  BY <1>1, InitHistoryInv, PTL DEF HistorySpec

(* Answers of Start and Status contradict themselves only when a write of  *)
(* another handler falls between two accesses of theirs.                   *)
THEOREM TornOnlyByOverlapHolds == HistorySpec => []TornOnlyByOverlap
<1>1. HistoryInv => TornOnlyByOverlap
  BY DEF HistoryInv
<1>. QED
  BY <1>1, HistoryInvariance, PTL

(* Two "SUCCESS" without a stop, or two "STREAM_STOPPED" without a start,  *)
(* come only from handlers that overlapped.                                *)
THEOREM TwoWritersOverlapHolds == HistorySpec => []TwoWritersOverlap
<1>1. HistoryInv => TwoWritersOverlap
  BY DEF HistoryInv
<1>. QED
  BY <1>1, HistoryInvariance, PTL

(* A stop that found a stream is undone only by another start than the one *)
(* it undoes.                                                              *)
THEOREM StopUndoneOnlyByAnotherStartHolds == HistorySpec => []StopUndoneOnlyByAnotherStart
<1>1. HistoryInv => StopUndoneOnlyByAnotherStart
  BY DEF HistoryInv
<1>. QED
  BY <1>1, HistoryInvariance, PTL

(* A process streams on after a stop only if a start set the flag when the *)
(* stop had begun.                                                         *)
THEOREM LeftOnOnlyIfOvertakenHolds == HistorySpec => []LeftOnOnlyIfOvertaken
<1>1. HistoryInv => LeftOnOnlyIfOvertaken
  BY DEF HistoryInv
<1>. QED
  BY <1>1, HistoryInvariance, PTL
=============================================================================
