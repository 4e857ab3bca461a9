\* Two streams, each opened for any of the four purposes.
CONSTANTS
  toRunner = toRunner
  toClient = toClient
  Stream <- MCStream
  Answers <- MCAnswers
SPECIFICATION FairSpec
INVARIANTS StreamInv OnlyDroppedStay NeverBothWait
PROPERTIES EndIsFinal PingsReturn HandlersReturn
CHECK_DEADLOCK FALSE
